--------------------------- MODULE KServicesProofs ---------------------------
(***************************************************************************)
(* Proofs about what processes share or wait for, and about the small      *)
(* components beside it: attaching to the segment of a cache               *)
(* (KSDCMapping), what observers of a job are told of its progress         *)
(* (KJobProgress), the engine that clock skew notifiers share              *)
(* (KSystemClockSkewNotifier), the cache of links to network mounts        *)
(* (KNetworkMounts), numbered backups (KBackup), the order of signals      *)
(* (KSignalHandler) and the one report of the lsof job (KListOpenFilesJob).*)
(***************************************************************************)
EXTENDS KSDCMapping, KSystemClockSkewNotifier, KJobProgress, KNetworkMounts, KBackup,
        KSignalHandler, KListOpenFilesJob, FiniteSetTheorems, WellFoundedInduction, TLAPS

-----------------------------------------------------------------------------
(* The engine of the clock skew notifiers. *)

SkewSpec == SkewInit /\ [][SkewNext]_skewVars

(* EngineShared says who is told of a change of the clock.  A notifier that  *)
(* is owed the news still holds the engine, only a timer that exists can    *)
(* be readable, and slots run for connected notifiers only.                *)
SkewInv ==
    /\ EngineShared
    /\ exists \in BOOLEAN /\ readable \in BOOLEAN
    /\ readable => exists
    /\ owed \subseteq holders
    /\ telling \subseteq connected

(* Activating and deactivating keeps SkewInv, also inside of slots. *)
LEMMA ActivationKeeps ==
    ASSUME SkewInv, NEW n \in Notifiers, NEW set \in BOOLEAN, setActive(n, set)
    PROVE  SkewInv'
<1>1. CASE set
  <2>1. PICK create \in BOOLEAN :
          /\ exists' = (exists \/ create)
          /\ readable' = (exists /\ readable)
          /\ IF exists \/ create
             THEN holders' = holders \cup {n} /\ connected' = connected \cup {n}
             ELSE UNCHANGED <<holders, connected>>
    BY <1>1 DEF setActive, loadNotifierEngine, globalInstance
  <2>2. /\ isActive' = isActive \cup {n} /\ n \notin isActive
        /\ telling' = telling \ {n} /\ owed' = owed \ {n}
    BY <1>1 DEF setActive
  <2> QED
    BY <2>1, <2>2 DEF SkewInv, EngineShared
<1>2. CASE ~set
  <2>1. /\ isActive' = isActive \ {n} /\ holders' = holders \ {n}
        /\ connected' = connected \ {n}
        /\ exists' = (holders' # {}) /\ readable' = (readable /\ exists')
        /\ telling' = telling \ {n} /\ owed' = owed \ {n}
    BY <1>2 DEF setActive, unloadNotifierEngine
  <2> QED
    BY <2>1 DEF SkewInv, EngineShared
<1> QED
  BY <1>1, <1>2

(* Every step keeps SkewInv. *)
LEMMA NextSkewInv == SkewInv /\ [SkewNext]_skewVars => SkewInv'
<1> SUFFICES ASSUME SkewInv, [SkewNext]_skewVars PROVE SkewInv'
  OBVIOUS
<1>1. CASE \E n \in Notifiers : skewed(n)
  BY <1>1 DEF skewed, SkewInv, EngineShared
<1>2. CASE \E n \in Notifiers : \E set \in BOOLEAN : setActive(n, set)
  BY <1>2, ActivationKeeps
<1>3. CASE SetClock
  BY <1>3 DEF SetClock, SkewInv, EngineShared
<1>4. CASE handleTimerCancelled
  BY <1>4 DEF handleTimerCancelled, SkewInv, EngineShared
<1>5. CASE UNCHANGED skewVars
  BY <1>5 DEF skewVars, SkewInv, EngineShared
<1> QED
  BY <1>1, <1>2, <1>3, <1>4, <1>5 DEF SkewNext

(* The engine lives as long as an active notifier holds it, and whoever      *)
(* holds it is told of every change of the clock or is going to be.        *)
THEOREM EngineIsShared == SkewSpec => []EngineShared
<1>1. SkewInit => SkewInv
  BY DEF SkewInit, SkewInv, EngineShared
<1>2. SkewInv => EngineShared
  BY DEF SkewInv
<1> QED
  BY <1>1, <1>2, NextSkewInv, PTL DEF SkewSpec

-----------------------------------------------------------------------------
(* The cache of links to network mounts. *)

MountsSpec == MountsInit /\ [][MountsNext]_mountVars

Paths == Seq(PathNames)

(* What the code has read of lists and links are paths. *)
MountsTypeOK ==
    /\ directories \in Seq(Paths) /\ symlinks \in Seq(Paths)
    /\ \A link \in DOMAIN links : links[link] \in Paths
    /\ DOMAIN canonical \subseteq Paths
    /\ canonical = [path \in DOMAIN canonical |-> canonical[path]]

MountsInv == MountsTypeOK /\ CacheTransparent

(* A non-empty set of naturals has a least member: proper subsets of Nat   *)
(* are well-founded, so of the intervals 0 .. x - 1 one is smallest.       *)
LEMMA LeastNatural ==
    ASSUME NEW S, S \subseteq Nat, S # {}
    PROVE  \E x \in S : \A y \in S : x <= y
<1> DEFINE T == {0 .. x - 1 : x \in S}
<1>1. IsWellFoundedOn(StrictSubsetOrdering(Nat), FiniteSubsetsOf(Nat))
  BY FS_StrictSubsetOrderingWellFounded
<1>2. T \subseteq FiniteSubsetsOf(Nat) /\ T # {}
  <2>1. \A x \in S : IsFiniteSet(0 .. x - 1)
    <3> TAKE x \in S
    <3>1. 0 \in Int /\ x - 1 \in Int
      OBVIOUS
    <3> QED
      BY ONLY <3>1, FS_Interval
  <2>2. \A x \in S : 0 .. x - 1 \in SUBSET Nat
    OBVIOUS
  <2> QED
    BY <2>1, <2>2 DEF FiniteSubsetsOf
<1>3. PICK u \in T : \A v \in T : ~ (<<v, u>> \in StrictSubsetOrdering(Nat))
  <2> HIDE DEF T
  <2> QED
    BY <1>1, <1>2, WFMin
<1>4. PICK x \in S : u = 0 .. x - 1
  BY <1>3
<1>5. ASSUME NEW y \in S, y < x PROVE FALSE
  <2>1. 0 .. y - 1 \in T
    OBVIOUS
  <2>2. <<0 .. y - 1, u>> \in StrictSubsetOrdering(Nat)
    BY <1>4, <1>5 DEF StrictSubsetOrdering
  <2> QED
    BY <1>3, <2>1, <2>2
<1> QED
  BY <1>5

(* The places of a list of paths that lead above a path. *)
Matching(path, slowPaths) == {i \in DOMAIN slowPaths : IsPrefix(slowPaths[i], path)}

(* getMatchingPath() finds the first. *)
LEMMA FirstMatch ==
    ASSUME NEW path, NEW slowPaths \in Seq(Paths), NEW n \in Matching(path, slowPaths),
           \A j \in Matching(path, slowPaths) : n <= j
    PROVE  getMatchingPath(path, slowPaths) = {slowPaths[n]}
<1>1. Matching(path, slowPaths) \subseteq Nat
  BY DEF Matching
<1>2. n = CHOOSE i \in Matching(path, slowPaths) : \A j \in Matching(path, slowPaths) : i <= j
  BY <1>1
<1> QED
  BY <1>2 DEF getMatchingPath, Matching

(* A path that is at or below a prefix of another path is so for that, too. *)
LEMMA PrefixOfPrefix ==
    ASSUME NEW path \in Paths, NEW n \in 0 .. Len(path), NEW p \in Paths
    PROVE  /\ SubSeq(path, 1, n) \in Paths /\ Len(SubSeq(path, 1, n)) = n
           /\ IsPrefix(p, SubSeq(path, 1, n)) <=> IsPrefix(p, path) /\ Len(p) <= n
<1> USE DEF Paths
<1>1. SubSeq(path, 1, n) \in Seq(PathNames) /\ Len(SubSeq(path, 1, n)) = n
  OBVIOUS
<1>2. ASSUME Len(p) <= n
      PROVE  SubSeq(SubSeq(path, 1, n), 1, Len(p)) = SubSeq(path, 1, Len(p))
  BY <1>1, <1>2
<1> QED
  BY <1>1, <1>2 DEF IsPrefix

(* The part of a path that is a link in a directory of links leads through   *)
(* the same directory, and through none of the listed links if the path     *)
(* does not.                                                               *)
LEMMA LinkMatches ==
    ASSUME MountsTypeOK, NEW path \in Paths, NEW above,
           getMatchingPath(path, directories) = {above}, path # above
    PROVE  LET link == LinkIn(above, path)
           IN  /\ above \in Paths
               /\ link \in Paths /\ link # above
               /\ LinkIn(above, link) = link
               /\ getMatchingPath(link, directories) = {above}
               /\ getMatchingPath(path, symlinks) = {} => getMatchingPath(link, symlinks) = {}
<1> DEFINE link == LinkIn(above, path)
<1>1. Matching(path, directories) # {} /\ Matching(path, directories) \subseteq Nat
  <2>1. Matching(path, directories) # {}
    BY DEF getMatchingPath, Matching
  <2>2. directories \in Seq(Paths)
    BY DEF MountsTypeOK
  <2>3. DOMAIN directories \subseteq Nat
    BY <2>2
  <2> QED
    BY <2>1, <2>3 DEF Matching
<1>2. PICK n \in Matching(path, directories) : \A j \in Matching(path, directories) : n <= j
  BY <1>1, LeastNatural
<1>3. above = directories[n]
  <2>1. directories \in Seq(Paths)
    BY DEF MountsTypeOK
  <2>2. getMatchingPath(path, directories) = {directories[n]}
    BY <1>2, <2>1, FirstMatch
  <2> QED
    BY <2>2
<1>4. above \in Paths /\ IsPrefix(above, path)
  BY <1>2, <1>3 DEF Matching, MountsTypeOK
<1>5. Len(above) + 1 \in 0 .. Len(path)
  BY <1>4 DEF Paths, IsPrefix
<1>6. link \in Paths /\ Len(link) = Len(above) + 1
  BY <1>4, <1>5, PrefixOfPrefix DEF LinkIn
<1>7. \A p \in Paths : IsPrefix(p, link) <=> IsPrefix(p, path) /\ Len(p) <= Len(above) + 1
  BY <1>5, PrefixOfPrefix DEF LinkIn
<1>8. link # above
  BY <1>4, <1>6 DEF Paths
<1>9. LinkIn(above, link) = link
  BY <1>6 DEF LinkIn, Paths
<1>10. getMatchingPath(link, directories) = {above}
  <2>1. Matching(link, directories) \subseteq Matching(path, directories)
    BY <1>7 DEF Matching, MountsTypeOK
  <2>2. n \in Matching(link, directories)
    BY <1>2, <1>3, <1>4, <1>7 DEF Matching, Paths
  <2> QED
    BY <1>2, <1>3, <2>1, <2>2, FirstMatch DEF MountsTypeOK
<1>11. getMatchingPath(path, symlinks) = {} => getMatchingPath(link, symlinks) = {}
  <2>1. Matching(link, symlinks) \subseteq Matching(path, symlinks)
    BY <1>7 DEF Matching, MountsTypeOK
  <2> QED
    BY <2>1 DEF getMatchingPath, Matching
<1> QED
  BY <1>4, <1>6, <1>8, <1>9, <1>10, <1>11
(* Without anything remembered, such a link resolves to its target. *)
LEMMA LinkResolves ==
    ASSUME MountsTypeOK, NEW path \in Paths, NEW above,
           getMatchingPath(path, directories) = {above}, path # above,
           getMatchingPath(path, symlinks) = {}
    PROVE  Resolution(LinkIn(above, path), <<>>).path = Target(LinkIn(above, path))
<1> DEFINE link == LinkIn(above, path)
<1>1. /\ link \in Paths /\ link # above /\ LinkIn(above, link) = link
      /\ getMatchingPath(link, directories) = {above}
      /\ getMatchingPath(link, symlinks) = {}
  BY LinkMatches
<1>2. Target(link) \in Paths
  BY <1>1 DEF Target, MountsTypeOK
<1> HIDE DEF link
<1>3. Replaced(link, link, Target(link)) = Target(link)
  BY <1>1, <1>2 DEF Replaced, Paths
<1>4. (CHOOSE a \in {above} : TRUE) = above
  OBVIOUS
<1>5. Resolution(link, <<>>).path = Through(LinkIn(above, link), link, <<>>)
  BY <1>1, <1>4 DEF Resolution
<1>6. Through(link, link, <<>>) = Replaced(link, link, Target(link))
  BY DEF Through
<1> QED
  BY <1>1, <1>3, <1>5, <1>6 DEF link

(* What is remembered changes nothing about what a path resolves to. *)
LEMMA KnownIsRight ==
    ASSUME MountsInv, unchanged, NEW path \in Paths
    PROVE  Resolution(path, canonical).path = Resolution(path, <<>>).path
<1>1. CASE getMatchingPath(path, symlinks) # {} \/ getMatchingPath(path, directories) = {}
  BY <1>1 DEF Resolution
<1>2. CASE getMatchingPath(path, symlinks) = {} /\ getMatchingPath(path, directories) # {}
  <2>1. PICK above : getMatchingPath(path, directories) = {above}
    BY <1>2 DEF getMatchingPath
  <2>2. (CHOOSE a \in {above} : TRUE) = above
    OBVIOUS
  <2>3. \A known : Resolution(path, known).path =
                      IF path = above THEN path ELSE Through(LinkIn(above, path), path, known)
    BY <1>2, <2>1, <2>2 DEF Resolution
  <2>4. ASSUME path # above
        PROVE  Through(LinkIn(above, path), path, canonical)
                 = Through(LinkIn(above, path), path, <<>>)
    <3>1. Resolution(LinkIn(above, path), <<>>).path = Target(LinkIn(above, path))
      BY <1>2, <2>1, <2>4, LinkResolves DEF MountsInv
    <3>2. LinkIn(above, path) \in DOMAIN canonical =>
            canonical[LinkIn(above, path)] = Target(LinkIn(above, path))
      BY <3>1 DEF MountsInv, CacheTransparent
    <3>3. LinkIn(above, path) \notin DOMAIN <<>>
      OBVIOUS
    <3> QED
      BY <3>2, <3>3 DEF Through
  <2> QED
    BY <2>3, <2>4
<1> QED
  BY <1>1, <1>2

(* Looking a path up, with the cache or without. *)
LEMMA LookUpKeeps ==
    ASSUME MountsInv, NEW path \in MountPaths, canonicalSymlinkPath(path)
    PROVE  MountsInv'
<1>1. path \in Paths
  BY MountsAssumption DEF Paths
<1>2. /\ directories' = directories /\ symlinks' = symlinks
      /\ links' = links /\ unchanged' = unchanged
  BY DEF canonicalSymlinkPath
<1>3. \A p : Resolution(p, <<>>)' = Resolution(p, <<>>)
  BY <1>2 DEF Resolution, Through, Target
<1>4. CASE canonical' = canonical
  BY <1>2, <1>3, <1>4 DEF MountsInv, MountsTypeOK, CacheTransparent
<1>5. CASE canonical' # canonical
  <2>1. canonical' = Remembered(path, Resolution(path, canonical).path)
    BY <1>5 DEF canonicalSymlinkPath
  <2>2. canonical' = [p \in DOMAIN canonical \cup {path} |->
                        IF p = path THEN Resolution(path, canonical).path ELSE canonical[p]]
    BY <2>1 DEF Remembered
  <2>3. MountsTypeOK'
    BY <1>1, <1>2, <2>2 DEF MountsInv, MountsTypeOK
  <2>4. CacheTransparent'
    BY <1>1, <1>2, <1>3, <2>2, KnownIsRight DEF MountsInv, CacheTransparent
  <2> QED
    BY <2>3, <2>4 DEF MountsInv
<1> QED
  BY <1>4, <1>5

(* Whatever else changes, the cache is known to be out of date or is empty. *)
LEMMA NextMountsInv == MountsInv /\ [MountsNext]_mountVars => MountsInv'
<1> SUFFICES ASSUME MountsInv, [MountsNext]_mountVars PROVE MountsInv'
  OBVIOUS
<1>1. CASE \E path \in MountPaths : canonicalSymlinkPath(path)
  BY <1>1, LookUpKeeps
<1>2. CASE clearCache
  BY <1>2 DEF clearCache, MountsInv, MountsTypeOK, CacheTransparent
<1>3. CASE setPaths
  <2>1. directories' \in Seq(Paths) /\ symlinks' \in Seq(Paths)
    BY <1>3, MountsAssumption DEF setPaths, MountsInv, MountsTypeOK, Paths
  <2> QED
    BY <1>3, <2>1 DEF setPaths, MountsInv, MountsTypeOK, CacheTransparent
<1>4. CASE setOption
  <2>1. \A p : Resolution(p, <<>>)' = Resolution(p, <<>>)
    BY <1>4 DEF setOption, Resolution, Through, Target
  <2> QED
    BY <1>4, <2>1 DEF setOption, MountsInv, MountsTypeOK, CacheTransparent
<1>5. CASE ChangeLinks
  <2>1. \A link \in DOMAIN links' : links'[link] \in Paths
    BY <1>5, MountsAssumption DEF ChangeLinks, Paths
  <2> QED
    BY <1>5, <2>1 DEF ChangeLinks, MountsInv, MountsTypeOK, CacheTransparent
<1>6. CASE UNCHANGED mountVars
  <2>1. \A p : Resolution(p, <<>>)' = Resolution(p, <<>>)
    BY <1>6 DEF mountVars, Resolution, Through, Target
  <2> QED
    BY <1>6, <2>1 DEF mountVars, MountsInv, MountsTypeOK, CacheTransparent
<1> QED
  BY <1>1, <1>2, <1>3, <1>4, <1>5, <1>6 DEF MountsNext

(* What is remembered is what would be found without remembering. *)
THEOREM CacheIsTransparent == MountsSpec => []CacheTransparent
<1>1. MountsInit => MountsInv
  BY MountsAssumption DEF MountsInit, MountsInv, MountsTypeOK, CacheTransparent, Paths
<1>2. MountsInv => CacheTransparent
  BY DEF MountsInv
<1> QED
  BY <1>1, <1>2, NextMountsInv, PTL DEF MountsSpec
-----------------------------------------------------------------------------
(* What observers of a job are told. *)

ProgressSpec == ProgressInit /\ [][ProgressNext]_progressVars

Places == {"changed", "size", "percent", "speed", "timeout"}
Whichs == {"processed", "total"}
ProgressFrames == [at : Places, unit : Units, which : Whichs, amount : Nat]

(* The calls that are inside a signal. *)
Calls == {stack[n] : n \in DOMAIN stack}

ProgressTypeOK ==
    /\ jobAmounts \in [Units -> [processed : Nat, total : Nat]]
    /\ progressUnit \in Units
    /\ stack \in Seq(ProgressFrames)
    /\ told \in [Units -> [processed : Nat, total : Nat]]
    /\ manual \in BOOLEAN /\ speedTimer \in BOOLEAN /\ reentered \in BOOLEAN
    /\ suspended \in BOOLEAN /\ measured \in BOOLEAN /\ stalled \in BOOLEAN
    /\ now \in 0 .. MaxTime
    /\ elapsedTimer \in 0 .. now \cup {NoTimer}
    /\ accumulatedElapsedTime \in Nat /\ active \in Nat

(* While the percentage is out of date somebody is about to emit it. *)
PercentIsDue ==
    ~manual /\ jobAmounts[progressUnit].total # 0 =>
        \/ percentage = Percent(jobAmounts[progressUnit])
        \/ \E f \in Calls : f.at \in {"changed", "size"} /\ f.unit = progressUnit

(* A pair whose last report was not overtaken is told as it is, or by a call  *)
(* that still has to tell it; and every call that tells it has its amount.  *)
AmountsAreDue ==
    \A u \in Units, w \in Whichs :
        <<u, w>> \notin overtaken =>
            /\ \A f \in Calls : Tells(f, u, w) => f.amount = jobAmounts[u][w]
            /\ told[u][w] = jobAmounts[u][w] \/ \E f \in Calls : Tells(f, u, w)

(* A speed is shown while speedTimeout() runs only if a slot reported it. *)
SpeedIsDue ==
    /\ speed # 0 => speedTimer \/ reentered \/ \E f \in Calls : f.at = "speed"
    /\ (\E f \in Calls : f.at = "timeout") => speed = 0 \/ reentered

(* The timer runs just when time is measured and the job is not suspended. *)
TimerRuns ==
    /\ measured /\ ~suspended /\ ~stalled => elapsedTimer # NoTimer
    /\ suspended \/ ~measured => elapsedTimer = NoTimer
    /\ ~measured => active = 0 /\ accumulatedElapsedTime = 0

ProgressInv ==
    ProgressTypeOK /\ PercentIsDue /\ AmountsAreDue /\ SpeedIsDue /\ TimerRuns /\ ElapsedExact

(* The ways a step can change the calls under way. *)
LEMMA CallsPushed ==
    ASSUME stack \in Seq(ProgressFrames), NEW f \in ProgressFrames, Push(f)
    PROVE  stack' \in Seq(ProgressFrames) /\ Calls' = Calls \cup {f}
<1> DEFINE s == <<f>> \o stack
<1>1. s \in Seq(ProgressFrames) /\ Len(s) = Len(stack) + 1
  OBVIOUS
<1>2. \A n \in 1 .. Len(s) : s[n] = IF n = 1 THEN f ELSE stack[n - 1]
  OBVIOUS
<1>3. \A n \in 1 .. Len(stack) : s[n + 1] = stack[n]
  BY <1>1, <1>2
<1>4. stack' = s
  BY DEF Push
<1> HIDE DEF s
<1>5. \A n \in 1 .. Len(stack) : stack[n] \in Calls'
  <2> TAKE n \in 1 .. Len(stack)
  <2>1. n + 1 \in DOMAIN s
    BY <1>1
  <2> QED
    BY <1>3, <1>4, <2>1 DEF Calls
<1>6. f \in Calls' /\ \A c \in Calls' : c \in Calls \cup {f}
  BY <1>1, <1>2, <1>4 DEF Calls
<1>7. \A c \in Calls : c \in Calls'
  BY <1>5 DEF Calls
<1> QED
  BY <1>1, <1>4, <1>6, <1>7

LEMMA CallsPopped ==
    ASSUME stack \in Seq(ProgressFrames), stack # <<>>, Pop
    PROVE  /\ stack' \in Seq(ProgressFrames)
           /\ Head(stack) \in ProgressFrames /\ Head(stack) \in Calls
           /\ Calls = Calls' \cup {Head(stack)}
<1> DEFINE s == Tail(stack)
<1>1. s \in Seq(ProgressFrames) /\ Len(stack) = Len(s) + 1 /\ Head(stack) = stack[1]
  OBVIOUS
<1>2. \A n \in 1 .. Len(s) : s[n] = stack[n + 1]
  OBVIOUS
<1>3. stack' = s
  BY DEF Pop
<1> HIDE DEF s
<1>4. \A c \in Calls' : c \in Calls
  BY <1>1, <1>2, <1>3 DEF Calls
<1>5. \A n \in 1 .. Len(stack) : n = 1 \/ (n - 1 \in 1 .. Len(s) /\ stack[n] = s[n - 1])
  <2>1. Len(s) \in Nat
    BY <1>1
  <2> TAKE n \in 1 .. Len(stack)
  <2>2. n # 1 => n - 1 \in 1 .. Len(s) /\ (n - 1) + 1 = n
    BY <1>1, <2>1
  <2> QED
    BY <1>2, <2>2
<1>6. \A c \in Calls : c \in Calls' \cup {Head(stack)}
  BY <1>1, <1>3, <1>5 DEF Calls
<1>7. Head(stack) \in Calls /\ Head(stack) \in ProgressFrames
  BY <1>1 DEF Calls
<1> QED
  BY <1>1, <1>3, <1>4, <1>6, <1>7

LEMMA CallsBecome ==
    ASSUME stack \in Seq(ProgressFrames), stack # <<>>, NEW f \in ProgressFrames, Become(f)
    PROVE  /\ stack' \in Seq(ProgressFrames)
           /\ Head(stack) \in ProgressFrames /\ Head(stack) \in Calls
           /\ Calls' \subseteq Calls \cup {f} /\ f \in Calls'
           /\ Calls \subseteq Calls' \cup {Head(stack)}
<1> DEFINE s == <<f>> \o Tail(stack)
<1>1. s \in Seq(ProgressFrames) /\ Len(s) = Len(stack)
  OBVIOUS
<1>2. \A n \in 1 .. Len(stack) : s[n] = IF n = 1 THEN f ELSE stack[n]
  OBVIOUS
<1>3. Head(stack) = stack[1]
  OBVIOUS
<1>4. stack' = s
  BY DEF Become
<1> HIDE DEF s
<1>5. f \in Calls' /\ \A c \in Calls' : c \in Calls \cup {f}
  BY <1>1, <1>2, <1>4 DEF Calls
<1>6. \A c \in Calls : c \in Calls' \cup {Head(stack)}
  BY <1>1, <1>2, <1>3, <1>4 DEF Calls
<1>7. Head(stack) \in Calls /\ Head(stack) \in ProgressFrames
  BY <1>3 DEF Calls
<1> QED
  BY <1>1, <1>4, <1>5, <1>6, <1>7
(* The call on top is one of the calls. *)
LEMMA HeadIsCall ==
    ASSUME stack \in Seq(ProgressFrames), stack # <<>>
    PROVE  Head(stack) \in ProgressFrames /\ Head(stack) \in Calls
<1>1. 1 \in DOMAIN stack /\ Head(stack) = stack[1]
  OBVIOUS
<1> QED
  BY <1>1 DEF Calls

(* What the call on top tells is told, and nothing else. *)
LEMMA ToldIs ==
    ASSUME told \in [Units -> [processed : Nat, total : Nat]], Head(stack) \in ProgressFrames, Told
    PROVE  /\ told' \in [Units -> [processed : Nat, total : Nat]]
           /\ \A u \in Units, w \in Whichs :
                 told'[u][w] = IF u = Head(stack).unit /\ w = Head(stack).which
                               THEN Head(stack).amount ELSE told[u][w]
<1> DEFINE f == Head(stack)
<1>1. f.unit \in Units /\ f.which \in Whichs /\ f.amount \in Nat
  BY DEF ProgressFrames
<1>2. told' = [told EXCEPT ![f.unit][f.which] = f.amount]
  BY DEF Told
<1> HIDE DEF f
<1>3. \A u \in Units : told[u] \in [processed : Nat, total : Nat]
  OBVIOUS
<1>4. CASE f.which = "processed"
  BY <1>1, <1>2, <1>3, <1>4 DEF f, Whichs
<1>5. CASE f.which = "total"
  BY <1>1, <1>2, <1>3, <1>5 DEF f, Whichs
<1> QED
  BY <1>1, <1>4, <1>5 DEF Whichs

(* A call that has told its amount may go on, or be over. *)
LEMMA ToldKeeps ==
    ASSUME ProgressTypeOK, AmountsAreDue, Head(stack) \in Calls, Head(stack) \in ProgressFrames,
           Head(stack).at \in {"changed", "size"}, Told, UNCHANGED <<jobAmounts, overtaken>>,
           \A c \in Calls : c \in Calls' \cup {Head(stack)},
           \A c \in Calls' :
              \/ c \in Calls
              \/ \A v \in Units, w \in Whichs : ~ Tells(c, v, w)
              \/ /\ c.amount = Head(stack).amount
                 /\ \A v \in Units, w \in Whichs : Tells(c, v, w) <=> Tells(Head(stack), v, w)
    PROVE  AmountsAreDue'
<1>1. \A u \in Units, w \in Whichs :
         told'[u][w] = IF Tells(Head(stack), u, w) THEN Head(stack).amount ELSE told[u][w]
  BY ToldIs DEF ProgressTypeOK, Tells
<1> SUFFICES ASSUME NEW u \in Units, NEW w \in Whichs, <<u, w>> \notin overtaken
             PROVE  /\ \A c \in Calls' : Tells(c, u, w) => c.amount = jobAmounts[u][w]
                    /\ told'[u][w] = jobAmounts[u][w] \/ \E c \in Calls' : Tells(c, u, w)
  BY DEF AmountsAreDue, Tells
<1>2. /\ \A c \in Calls : Tells(c, u, w) => c.amount = jobAmounts[u][w]
      /\ told[u][w] = jobAmounts[u][w] \/ \E c \in Calls : Tells(c, u, w)
  BY DEF AmountsAreDue
<1>3. \A c \in Calls' : Tells(c, u, w) => c.amount = jobAmounts[u][w]
  BY <1>2
<1>4. CASE Tells(Head(stack), u, w)
  BY <1>1, <1>2, <1>3, <1>4
<1>5. CASE ~ Tells(Head(stack), u, w)
  BY <1>1, <1>2, <1>3, <1>5
<1> QED
  BY <1>3, <1>4, <1>5

(* Amounts, the percentage and their signals. *)
LEMMA AmountsKeep ==
    ASSUME ProgressInv,
           \/ \E u \in Units, a \in Amounts :
                 setAmount("processed", u, a) \/ setAmount("total", u, a)
           \/ ChangedReturns \/ SizeReturns \/ PercentReturns
           \/ \E u \in Units : setProgressUnit(u)
           \/ SetPercent(50)
    PROVE  ProgressInv'
<1> USE ProgressAssumption DEF ProgressInv
<1>1. UNCHANGED speedVars /\ UNCHANGED timeVars
  BY DEF setAmount, ChangedReturns, SizeReturns, PercentReturns, setProgressUnit, SetPercent
<1>2. /\ UNCHANGED <<speed, speedTimer, reentered>>
      /\ UNCHANGED <<suspended, elapsedTimer, accumulatedElapsedTime, now, active, measured, stalled>>
  BY <1>1 DEF speedVars, timeVars
<1>3. TimerRuns' /\ ElapsedExact'
  BY <1>2 DEF TimerRuns, ElapsedExact, elapsedTime, Elapsed
<1>4. ASSUME jobAmounts' \in [Units -> [processed : Nat, total : Nat]], progressUnit' \in Units,
             stack' \in Seq(ProgressFrames), manual' \in BOOLEAN,
             told' \in [Units -> [processed : Nat, total : Nat]]
      PROVE  ProgressTypeOK'
  BY <1>2, <1>4 DEF ProgressTypeOK, NoTimer
<1>5. ASSUME NEW u \in Units, NEW which \in Whichs, NEW a \in Amounts,
             setAmount(which, u, a)
      PROVE  ProgressInv'
  <2> DEFINE f == Frame("changed", u, which, a)
  <2>1. /\ f \in ProgressFrames /\ f.at = "changed" /\ f.unit = u
        /\ f.which = which /\ f.amount = a
    BY DEF Frame, ProgressFrames, Places
  <2> HIDE DEF f
  <2>2. stack' \in Seq(ProgressFrames) /\ Calls' = Calls \cup {f}
    BY <1>5, <2>1, CallsPushed DEF setAmount, ProgressTypeOK, f
  <2>3. jobAmounts' \in [Units -> [processed : Nat, total : Nat]]
    BY <1>5 DEF setAmount, ProgressTypeOK, Whichs
  <2>4. ProgressTypeOK'
    BY <1>4, <1>5, <2>2, <2>3 DEF setAmount, ProgressTypeOK
  <2>5. \A v \in Units \ {u} : jobAmounts'[v] = jobAmounts[v]
    BY <1>5 DEF setAmount, ProgressTypeOK
  <2>6. PercentIsDue'
    BY <1>5, <2>1, <2>2, <2>5 DEF setAmount, ProgressTypeOK, PercentIsDue, Percent
  <2>7. SpeedIsDue'
    BY <1>2, <2>1, <2>2 DEF SpeedIsDue
  <2>8. /\ jobAmounts'[u][which] = a /\ told' = told
        /\ \A v \in Units, w \in Whichs :
              v # u \/ w # which => jobAmounts'[v][w] = jobAmounts[v][w]
    BY <1>5 DEF setAmount, ProgressTypeOK, Whichs
  <2>9. /\ overtaken' = overtaken \cup {<<u, which>>} \/ overtaken' = overtaken \ {<<u, which>>}
        /\ <<u, which>> \notin overtaken' => \A c \in Calls : ~ Tells(c, u, which)
    BY <1>5 DEF setAmount, Calls
  <2>10. \A v \in Units, w \in Whichs : Tells(f, v, w) <=> v = u /\ w = which
    BY <2>1 DEF Tells
  <2>11. AmountsAreDue'
    <3> SUFFICES ASSUME NEW v \in Units, NEW w \in Whichs, <<v, w>> \notin overtaken'
                 PROVE  /\ \A c \in Calls' : Tells(c, v, w) => c.amount = jobAmounts'[v][w]
                        /\ \/ told'[v][w] = jobAmounts'[v][w]
                           \/ \E c \in Calls' : Tells(c, v, w)
      BY DEF AmountsAreDue, Tells
    <3>1. CASE v = u /\ w = which
      BY <2>1, <2>2, <2>8, <2>9, <2>10, <3>1
    <3>2. CASE ~(v = u /\ w = which)
      <4>1. <<v, w>> \notin overtaken
        BY <2>9, <3>2
      <4> QED
        BY <2>2, <2>8, <2>10, <3>2, <4>1 DEF AmountsAreDue
    <3> QED
      BY <3>1, <3>2
  <2> QED
    BY <1>3, <2>4, <2>6, <2>7, <2>11
<1>6. ASSUME ChangedReturns PROVE ProgressInv'
  <2>1. stack # <<>> /\ Head(stack).at = "changed"
    BY <1>6 DEF ChangedReturns, Top
  <2>2. UNCHANGED <<jobAmounts, progressUnit, percentage, manual>>
    BY <1>6 DEF ChangedReturns, amountVars
  <2>5. Head(stack) \in ProgressFrames /\ Head(stack) \in Calls
    BY <2>1, HeadIsCall DEF ProgressTypeOK
  <2>6. overtaken' = overtaken /\ Told
    BY <1>6 DEF ChangedReturns
  <2>7. told' \in [Units -> [processed : Nat, total : Nat]]
    BY <2>5, <2>6, ToldIs DEF ProgressTypeOK
  <2>3. CASE Head(stack).unit = progressUnit
    <3> DEFINE f == [Head(stack) EXCEPT !.at = "size"]
    <3>1. /\ f \in ProgressFrames /\ f.at = "size" /\ f.unit = progressUnit
          /\ f.unit = Head(stack).unit /\ f.which = Head(stack).which
          /\ f.amount = Head(stack).amount
      BY <2>3, <2>5 DEF ProgressFrames, Places
    <3> HIDE DEF f
    <3>2. Become(f)
      BY <1>6, <2>3 DEF ChangedReturns, f
    <3>3. /\ stack' \in Seq(ProgressFrames) /\ f \in Calls'
          /\ Calls' \subseteq Calls \cup {f} /\ Calls \subseteq Calls' \cup {Head(stack)}
      BY <2>1, <3>1, <3>2, CallsBecome DEF ProgressTypeOK
    <3>4. ProgressTypeOK'
      BY <1>4, <2>2, <2>7, <3>3 DEF ProgressTypeOK
    <3>5. PercentIsDue'
      BY <3>1, <3>3, <2>2 DEF PercentIsDue
    <3>6. SpeedIsDue'
      BY <1>2, <2>1, <3>1, <3>3 DEF SpeedIsDue
    <3>7. \A v \in Units, w \in Whichs : Tells(f, v, w) <=> Tells(Head(stack), v, w)
      BY <2>1, <3>1 DEF Tells
    <3>8. AmountsAreDue'
      BY <2>1, <2>2, <2>5, <2>6, <3>1, <3>3, <3>7, ToldKeeps
    <3> QED
      BY <1>3, <3>4, <3>5, <3>6, <3>8
  <2>4. CASE Head(stack).unit # progressUnit
    <3>1. stack' \in Seq(ProgressFrames) /\ Calls = Calls' \cup {Head(stack)}
      BY <1>6, <2>1, <2>4, CallsPopped DEF ChangedReturns, ProgressTypeOK
    <3>2. ProgressTypeOK'
      BY <1>4, <2>2, <2>7, <3>1 DEF ProgressTypeOK
    <3>3. PercentIsDue'
      BY <2>2, <2>4, <3>1 DEF PercentIsDue, Percent
    <3>4. SpeedIsDue'
      BY <1>2, <2>1, <3>1 DEF SpeedIsDue
    <3>5. AmountsAreDue'
      BY <2>1, <2>2, <2>5, <2>6, <3>1, ToldKeeps
    <3> QED
      BY <1>3, <3>2, <3>3, <3>4, <3>5
  <2> QED
    BY <2>3, <2>4
<1>7. ASSUME SizeReturns PROVE ProgressInv'
  <2> DEFINE u == Head(stack).unit
  <2>1. stack # <<>> /\ Head(stack).at = "size"
    BY <1>7 DEF SizeReturns, Top
  <2>2. UNCHANGED <<jobAmounts, progressUnit>>
    BY <1>7 DEF SizeReturns
  <2>3. Head(stack) \in ProgressFrames /\ u \in Units
    <3>1. Head(stack) \in ProgressFrames
      BY <2>1 DEF ProgressTypeOK
    <3> QED
      BY <3>1 DEF ProgressFrames
  <2>4. /\ stack' \in Seq(ProgressFrames)
        /\ \A c \in Calls : c \in Calls' \cup {Head(stack)}
        /\ \A c \in Calls' : c \in Calls \/ c.at = "percent"
    <3>1. CASE Pop
      BY <2>1, <3>1, CallsPopped DEF ProgressTypeOK
    <3>2. CASE Become(Plain("percent"))
      <4>1. Plain("percent") \in ProgressFrames /\ Plain("percent").at = "percent"
        BY DEF Plain, Frame, ProgressFrames, Places, Whichs
      <4> QED
        BY <2>1, <3>2, <4>1, CallsBecome DEF ProgressTypeOK
    <3> QED
      BY <1>7, <3>1, <3>2 DEF SizeReturns, emitPercent, setPercent
  <2>7. Head(stack) \in Calls /\ overtaken' = overtaken /\ Told
    BY <1>7, <2>1, HeadIsCall DEF SizeReturns, ProgressTypeOK
  <2>8. told' \in [Units -> [processed : Nat, total : Nat]]
    BY <2>3, <2>7, ToldIs DEF ProgressTypeOK
  <2>9. AmountsAreDue'
    <3>1. \A c \in Calls' : c \in Calls \/ \A v \in Units, w \in Whichs : ~ Tells(c, v, w)
      BY <2>4 DEF Tells
    <3> QED
      BY <2>1, <2>2, <2>3, <2>4, <2>7, <3>1, ToldKeeps
  <2>5. CASE jobAmounts[u].total # 0
    <3>1. percentage' = Percent(jobAmounts[u]) /\ manual' = (u # progressUnit)
      BY <1>7, <2>5 DEF SizeReturns, emitPercent, setPercent
    <3>2. ProgressTypeOK'
      BY <1>4, <2>2, <2>4, <2>8, <3>1 DEF ProgressTypeOK
    <3>3. PercentIsDue'
      BY <2>2, <3>1 DEF PercentIsDue, Percent
    <3>4. SpeedIsDue'
      BY <1>2, <2>1, <2>4 DEF SpeedIsDue
    <3> QED
      BY <1>3, <2>9, <3>2, <3>3, <3>4
  <2>6. CASE jobAmounts[u].total = 0
    <3>1. percentage' = percentage /\ manual' = manual
      BY <1>7, <2>6 DEF SizeReturns, emitPercent
    <3>2. ProgressTypeOK'
      BY <1>4, <2>2, <2>4, <2>8, <3>1 DEF ProgressTypeOK
    <3>3. PercentIsDue'
      BY <2>2, <2>4, <2>6, <3>1 DEF PercentIsDue, Percent
    <3>4. SpeedIsDue'
      BY <1>2, <2>1, <2>4 DEF SpeedIsDue
    <3> QED
      BY <1>3, <2>9, <3>2, <3>3, <3>4
  <2> QED
    BY <2>5, <2>6
<1>8. ASSUME PercentReturns PROVE ProgressInv'
  <2>1. stack # <<>> /\ Head(stack).at = "percent" /\ Pop
    BY <1>8 DEF PercentReturns, Top
  <2>2. UNCHANGED <<jobAmounts, progressUnit, percentage, manual>>
    BY <1>8 DEF PercentReturns, amountVars
  <2>3. stack' \in Seq(ProgressFrames) /\ Calls = Calls' \cup {Head(stack)}
    BY <2>1, CallsPopped DEF ProgressTypeOK
  <2>8. UNCHANGED <<told, overtaken>>
    BY <1>8 DEF PercentReturns, toldVars
  <2>4. ProgressTypeOK'
    BY <1>4, <2>2, <2>3, <2>8 DEF ProgressTypeOK
  <2>5. PercentIsDue'
    BY <2>1, <2>2, <2>3 DEF PercentIsDue, Percent
  <2>6. SpeedIsDue'
    BY <1>2, <2>1, <2>3 DEF SpeedIsDue
  <2>7. AmountsAreDue'
    BY <2>1, <2>2, <2>3, <2>8 DEF AmountsAreDue, Tells
  <2> QED
    BY <1>3, <2>4, <2>5, <2>6, <2>7
<1>9. ASSUME NEW u \in Units, setProgressUnit(u) PROVE ProgressInv'
  <2>1. ProgressTypeOK'
    BY <1>4, <1>9 DEF setProgressUnit, toldVars, ProgressTypeOK
  <2>2. PercentIsDue'
    BY <1>9 DEF setProgressUnit, PercentIsDue
  <2>3. SpeedIsDue'
    BY <1>2, <1>9 DEF setProgressUnit, SpeedIsDue, Calls
  <2>4. AmountsAreDue'
    BY <1>9 DEF setProgressUnit, toldVars, AmountsAreDue, Calls
  <2> QED
    BY <1>3, <2>1, <2>2, <2>3, <2>4
<1>10. ASSUME SetPercent(50) PROVE ProgressInv'
  <2> DEFINE f == Plain("percent")
  <2>1. f \in ProgressFrames /\ f.at = "percent"
    BY DEF Plain, Frame, ProgressFrames, Places, Whichs
  <2> HIDE DEF f
  <2>2. stack' \in Seq(ProgressFrames) /\ Calls' = Calls \cup {f}
    BY <1>10, <2>1, CallsPushed DEF SetPercent, ProgressTypeOK, f
  <2>3. ProgressTypeOK'
    BY <1>4, <1>10, <2>2 DEF SetPercent, toldVars, ProgressTypeOK
  <2>4. PercentIsDue'
    BY <1>10 DEF SetPercent, PercentIsDue
  <2>5. SpeedIsDue'
    BY <1>2, <2>1, <2>2 DEF SpeedIsDue
  <2>6. AmountsAreDue'
    <3>1. UNCHANGED <<told, overtaken, jobAmounts>>
      BY <1>10 DEF SetPercent, toldVars
    <3> QED
      BY <2>1, <2>2, <3>1 DEF AmountsAreDue, Tells
  <2> QED
    BY <1>3, <2>3, <2>4, <2>5, <2>6
<1> QED
  BY <1>5, <1>6, <1>7, <1>8, <1>9, <1>10 DEF Whichs
(* The speed and its timer. *)
LEMMA SpeedKeeps ==
    ASSUME ProgressInv, emitSpeed \/ SpeedReturns \/ speedTimeout \/ TimeoutReturns
    PROVE  ProgressInv'
<1> USE ProgressAssumption DEF ProgressInv
<1>1. UNCHANGED amountVars /\ UNCHANGED toldVars /\ UNCHANGED timeVars
  BY DEF emitSpeed, SpeedReturns, speedTimeout, TimeoutReturns
<1>2. /\ UNCHANGED <<jobAmounts, progressUnit, percentage, manual, told, overtaken>>
      /\ UNCHANGED <<suspended, elapsedTimer, accumulatedElapsedTime, now, active, measured, stalled>>
  BY <1>1 DEF amountVars, toldVars, timeVars
<1>3. TimerRuns' /\ ElapsedExact'
  BY <1>2 DEF TimerRuns, ElapsedExact, elapsedTime, Elapsed
<1>4. ASSUME stack' \in Seq(ProgressFrames), speedTimer' \in BOOLEAN, reentered' \in BOOLEAN
      PROVE  ProgressTypeOK'
  BY <1>2, <1>4 DEF ProgressTypeOK, NoTimer
<1>5. ASSUME \A f \in Calls \cup Calls' :
                f.at \in {"changed", "size"} => f \in Calls /\ f \in Calls'
      PROVE  PercentIsDue' /\ AmountsAreDue'
  <2>1. PercentIsDue'
    BY <1>2, <1>5 DEF PercentIsDue, Percent
  <2>2. AmountsAreDue'
    BY <1>2, <1>5 DEF AmountsAreDue, Tells
  <2> QED
    BY <2>1, <2>2
<1>6. \A place \in Places :
         Plain(place) \in ProgressFrames /\ Plain(place).at = place
  BY DEF Plain, Frame, ProgressFrames, Whichs
<1>7. CASE emitSpeed
  <2> DEFINE f == Plain("speed")
  <2>1. f \in ProgressFrames /\ f.at = "speed"
    BY <1>6 DEF Places
  <2>2. stack' \in Seq(ProgressFrames) /\ Calls' = Calls \cup {f}
    BY <1>7, <2>1, CallsPushed DEF emitSpeed, ProgressTypeOK
  <2> HIDE DEF f
  <2>3. reentered' = (reentered \/ \E c \in Calls : c.at = "timeout")
    BY <1>7 DEF emitSpeed, Calls
  <2>4. ProgressTypeOK'
    BY <1>4, <1>7, <2>2, <2>3 DEF emitSpeed, ProgressTypeOK
  <2>5. PercentIsDue' /\ AmountsAreDue'
    BY <1>5, <2>1, <2>2
  <2>6. SpeedIsDue'
    BY <2>1, <2>2, <2>3 DEF SpeedIsDue
  <2> QED
    BY <1>3, <2>4, <2>5, <2>6
<1>8. CASE SpeedReturns
  <2>1. /\ stack # <<>> /\ Head(stack).at = "speed" /\ Pop
        /\ speedTimer' = TRUE /\ speed' = speed /\ reentered' = reentered
    BY <1>8 DEF SpeedReturns, Top
  <2>2. stack' \in Seq(ProgressFrames) /\ Calls = Calls' \cup {Head(stack)}
    BY <2>1, CallsPopped DEF ProgressTypeOK
  <2>3. ProgressTypeOK'
    BY <1>4, <2>1, <2>2 DEF ProgressTypeOK
  <2>4. PercentIsDue' /\ AmountsAreDue'
    BY <1>5, <2>1, <2>2
  <2>5. SpeedIsDue'
    BY <2>1, <2>2 DEF SpeedIsDue
  <2> QED
    BY <1>3, <2>3, <2>4, <2>5
<1>9. CASE speedTimeout
  <2> DEFINE f == Plain("timeout")
  <2>1. f \in ProgressFrames /\ f.at = "timeout"
    BY <1>6 DEF Places
  <2>2. stack' \in Seq(ProgressFrames) /\ Calls' = Calls \cup {f}
    BY <1>9, <2>1, CallsPushed DEF speedTimeout, ProgressTypeOK
  <2> HIDE DEF f
  <2>3. speed' = 0 /\ speedTimer' = speedTimer /\ reentered' = reentered
    BY <1>9 DEF speedTimeout
  <2>4. ProgressTypeOK'
    BY <1>4, <2>2, <2>3 DEF ProgressTypeOK
  <2>5. PercentIsDue' /\ AmountsAreDue'
    BY <1>5, <2>1, <2>2
  <2>6. SpeedIsDue'
    BY <2>3 DEF SpeedIsDue
  <2> QED
    BY <1>3, <2>4, <2>5, <2>6
<1>10. CASE TimeoutReturns
  <2>1. /\ stack # <<>> /\ Head(stack).at = "timeout" /\ Pop
        /\ speedTimer' = FALSE /\ speed' = speed /\ reentered' = reentered
    BY <1>10 DEF TimeoutReturns, Top
  <2>2. /\ stack' \in Seq(ProgressFrames) /\ Head(stack) \in Calls
        /\ Calls = Calls' \cup {Head(stack)}
    BY <2>1, CallsPopped DEF ProgressTypeOK
  <2>3. ProgressTypeOK'
    BY <1>4, <2>1, <2>2 DEF ProgressTypeOK
  <2>4. PercentIsDue' /\ AmountsAreDue'
    BY <1>5, <2>1, <2>2
  <2>5. speed = 0 \/ reentered
    BY <2>1, <2>2 DEF SpeedIsDue
  <2>6. SpeedIsDue'
    BY <2>1, <2>5 DEF SpeedIsDue
  <2> QED
    BY <1>3, <2>3, <2>4, <2>6
<1> QED
  BY <1>7, <1>8, <1>9, <1>10

(* The elapsed time, suspending and resuming. *)
LEMMA TimesKeep ==
    ASSUME ProgressInv, startElapsedTimer \/ suspend \/ resume \/ Tick
    PROVE  ProgressInv'
<1> USE ProgressAssumption DEF ProgressInv
<1>1. UNCHANGED amountVars /\ UNCHANGED toldVars /\ UNCHANGED speedVars /\ stack' = stack
  BY DEF startElapsedTimer, suspend, resume, Tick
<1>2. /\ UNCHANGED <<jobAmounts, progressUnit, percentage, manual, told, overtaken>>
      /\ UNCHANGED <<speed, speedTimer, reentered>> /\ Calls' = Calls
  BY <1>1 DEF amountVars, toldVars, speedVars, Calls
<1>3. PercentIsDue' /\ AmountsAreDue' /\ SpeedIsDue'
  BY <1>2 DEF PercentIsDue, AmountsAreDue, SpeedIsDue, Percent
<1>4. ASSUME suspended' \in BOOLEAN, measured' \in BOOLEAN, stalled' \in BOOLEAN,
             now' \in 0 .. MaxTime, elapsedTimer' \in 0 .. now' \cup {NoTimer},
             accumulatedElapsedTime' \in Nat, active' \in Nat
      PROVE  ProgressTypeOK'
  BY <1>1, <1>2, <1>4 DEF ProgressTypeOK, NoTimer
<1>5. /\ now \in Nat /\ now <= MaxTime /\ active \in Nat /\ accumulatedElapsedTime \in Nat
      /\ elapsedTimer # NoTimer => elapsedTimer \in Nat /\ elapsedTimer <= now
      /\ suspended \in BOOLEAN /\ measured \in BOOLEAN /\ stalled \in BOOLEAN
  BY DEF ProgressTypeOK
<1>6. Elapsed \in Nat /\ (elapsedTimer = NoTimer => Elapsed = 0)
      /\ (elapsedTimer # NoTimer => Elapsed = now - elapsedTimer)
  BY <1>5 DEF Elapsed
<1>7. CASE startElapsedTimer
  <2>1. /\ elapsedTimer' = now /\ accumulatedElapsedTime' = 0 /\ active' = 0
        /\ measured' = TRUE /\ stalled' = FALSE
        /\ suspended' = suspended /\ now' = now /\ ~suspended
    BY <1>7 DEF startElapsedTimer
  <2>2. ProgressTypeOK'
    <3>1. now' \in 0 .. MaxTime /\ elapsedTimer' \in 0 .. now' \cup {NoTimer}
      BY <1>5, <2>1
    <3>2. suspended' \in BOOLEAN /\ measured' \in BOOLEAN /\ stalled' \in BOOLEAN
      BY <1>5, <2>1
    <3>3. accumulatedElapsedTime' \in Nat /\ active' \in Nat
      BY <2>1
    <3> QED
      BY <1>4, <3>1, <3>2, <3>3
  <2>3. TimerRuns' /\ ElapsedExact'
    BY <1>5, <2>1 DEF TimerRuns, ElapsedExact, elapsedTime, Elapsed, NoTimer
  <2> QED
    BY <1>3, <2>2, <2>3
<1>8. CASE suspend
  <2>1. /\ suspended' = TRUE /\ accumulatedElapsedTime' = accumulatedElapsedTime + Elapsed
        /\ elapsedTimer' = NoTimer /\ now' = now
        /\ active' = active /\ measured' = measured /\ stalled' = stalled
        /\ ~suspended
    BY <1>8 DEF suspend, elapsedTime
  <2>2. ProgressTypeOK'
    BY <1>4, <1>5, <1>6, <2>1
  <2>3. TimerRuns'
    BY <1>5, <1>6, <2>1 DEF TimerRuns, NoTimer
  <2>4. ElapsedExact'
    BY <1>5, <1>6, <2>1 DEF ElapsedExact, elapsedTime, Elapsed, NoTimer
  <2> QED
    BY <1>3, <2>2, <2>3, <2>4
<1>9. CASE resume
  <2>1. /\ suspended' = FALSE /\ suspended
        /\ elapsedTimer' = IF accumulatedElapsedTime > 0 THEN now ELSE elapsedTimer
        /\ stalled' = (stalled \/ (measured /\ accumulatedElapsedTime = 0))
        /\ accumulatedElapsedTime' = accumulatedElapsedTime
        /\ now' = now /\ active' = active /\ measured' = measured
    BY <1>9 DEF resume
  <2>2. elapsedTimer = NoTimer
    BY <2>1 DEF TimerRuns
  <2>3. ProgressTypeOK'
    <3>1. now' \in 0 .. MaxTime /\ elapsedTimer' \in 0 .. now' \cup {NoTimer}
      BY <1>5, <2>1, <2>2
    <3>2. suspended' \in BOOLEAN /\ measured' \in BOOLEAN /\ stalled' \in BOOLEAN
      BY <1>5, <2>1
    <3>3. accumulatedElapsedTime' \in Nat /\ active' \in Nat
      BY <1>5, <2>1
    <3> QED
      BY <1>4, <3>1, <3>2, <3>3
  <2>4. TimerRuns'
    BY <1>5, <2>1, <2>2 DEF TimerRuns, NoTimer
  <2>5. ElapsedExact'
    BY <1>5, <1>6, <2>1, <2>2 DEF ElapsedExact, elapsedTime, Elapsed, NoTimer
  <2> QED
    BY <1>3, <2>3, <2>4, <2>5
<1>10. CASE Tick
  <2>1. /\ now < MaxTime /\ now' = now + 1 /\ measured
        /\ active' = IF ~suspended THEN active + 1 ELSE active
        /\ suspended' = suspended /\ elapsedTimer' = elapsedTimer
        /\ accumulatedElapsedTime' = accumulatedElapsedTime
        /\ measured' = measured /\ stalled' = stalled
    BY <1>10 DEF Tick
  <2>2. ProgressTypeOK'
    <3>1. now' \in 0 .. MaxTime /\ elapsedTimer' \in 0 .. now' \cup {NoTimer}
      BY <1>5, <2>1 DEF ProgressTypeOK
    <3>2. suspended' \in BOOLEAN /\ measured' \in BOOLEAN /\ stalled' \in BOOLEAN
      BY <1>5, <2>1
    <3>3. accumulatedElapsedTime' \in Nat /\ active' \in Nat
      <4>1. CASE suspended
        BY <1>5, <2>1, <4>1
      <4>2. CASE ~suspended
        BY <1>5, <2>1, <4>2
      <4> QED
        BY <4>1, <4>2
    <3> QED
      BY <1>4, <3>1, <3>2, <3>3
  <2>3. TimerRuns'
    BY <1>5, <2>1 DEF TimerRuns, NoTimer
  <2>4. ElapsedExact'
    BY <1>5, <1>6, <2>1 DEF TimerRuns, ElapsedExact, elapsedTime, Elapsed, NoTimer
  <2> QED
    BY <1>3, <2>2, <2>3, <2>4
<1> QED
  BY <1>7, <1>8, <1>9, <1>10

LEMMA NextProgressInv == ProgressInv /\ [ProgressNext]_progressVars => ProgressInv'
<1> SUFFICES ASSUME ProgressInv, [ProgressNext]_progressVars PROVE ProgressInv'
  OBVIOUS
<1>1. CASE ProgressNext
  BY <1>1, AmountsKeep, SpeedKeeps, TimesKeep DEF ProgressNext
<1>2. CASE UNCHANGED progressVars
  <2>1. /\ UNCHANGED <<jobAmounts, progressUnit, percentage, manual, stack>>
        /\ UNCHANGED <<told, overtaken, speed, speedTimer, reentered>>
        /\ UNCHANGED <<suspended, elapsedTimer, accumulatedElapsedTime, now, active, measured, stalled>>
    BY <1>2 DEF progressVars, amountVars, toldVars, speedVars, timeVars
  <2>2. ProgressTypeOK'
    BY <2>1 DEF ProgressInv, ProgressTypeOK, NoTimer
  <2>3. PercentIsDue' /\ AmountsAreDue' /\ SpeedIsDue'
    BY <2>1 DEF ProgressInv, PercentIsDue, AmountsAreDue, SpeedIsDue, Calls, Percent
  <2>4. TimerRuns' /\ ElapsedExact'
    BY <2>1 DEF ProgressInv, TimerRuns, ElapsedExact, elapsedTime, Elapsed, NoTimer
  <2> QED
    BY <2>2, <2>3, <2>4 DEF ProgressInv
<1> QED
  BY <1>1, <1>2

(* However calls of the job nest in slots of its own signals, what observers *)
(* were told last is what the job has done, with the exceptions ProgressTold *)
(* names: an amount reported again inside its own signal is told as it was,  *)
(* a speed reported inside speed(0) is not taken back, and the time of a job *)
(* suspended in the millisecond of its start is lost.                      *)
THEOREM ProgressIsTold == ProgressSpec => []ProgressTold
<1>1. ProgressInit => ProgressInv
  <2> SUFFICES ASSUME ProgressInit PROVE ProgressInv
    OBVIOUS
  <2>1. stack = <<>> /\ Calls = {}
    BY DEF ProgressInit, Calls
  <2>2. ProgressTypeOK
    <3>1. /\ jobAmounts \in [Units -> [processed : Nat, total : Nat]]
          /\ progressUnit \in Units /\ stack \in Seq(ProgressFrames)
      BY <2>1, ProgressAssumption DEF ProgressInit
    <3>2. now \in 0 .. MaxTime /\ elapsedTimer \in 0 .. now \cup {NoTimer}
      BY ProgressAssumption DEF ProgressInit
    <3> QED
      BY <3>1, <3>2 DEF ProgressInit, ProgressTypeOK
  <2>3. PercentIsDue /\ SpeedIsDue
    BY <2>1, ProgressAssumption DEF ProgressInit, PercentIsDue, SpeedIsDue
  <2>5. AmountsAreDue
    BY <2>1 DEF ProgressInit, AmountsAreDue, Whichs
  <2>4. TimerRuns /\ ElapsedExact
    BY ProgressAssumption DEF ProgressInit, TimerRuns, ElapsedExact, elapsedTime, Elapsed, NoTimer
  <2> QED
    BY <2>2, <2>3, <2>4, <2>5 DEF ProgressInv
<1>2. ProgressInv => ProgressTold
  <2> SUFFICES ASSUME ProgressInv PROVE ProgressTold
    OBVIOUS
  <2>1. stack = <<>> => Calls = {}
    BY DEF Calls
  <2>2. PercentFollows
    BY <2>1 DEF ProgressInv, PercentIsDue, PercentFollows
  <2>3. SpeedExpires
    BY DEF ProgressInv, SpeedIsDue, SpeedExpires, Calls
  <2>4. AmountsTold
    BY <2>1 DEF ProgressInv, AmountsAreDue, AmountsTold, Whichs
  <2> QED
    BY <2>2, <2>3, <2>4 DEF ProgressInv, ProgressTold
<1> QED
  BY <1>1, <1>2, NextProgressInv, PTL DEF ProgressSpec
-----------------------------------------------------------------------------
(* The backups. *)

BackupSpec == BackupInit /\ [][BackupNext]_backupVars

(* A finite non-empty set of naturals has a greatest member: of the parts    *)
(* that lie above one of its members, one is smallest.                      *)
LEMMA GreatestNatural ==
    ASSUME NEW S, S \subseteq Nat, IsFiniteSet(S), S # {}
    PROVE  Max(S) \in S /\ \A x \in S : Max(S) >= x
<1> DEFINE Above(x) == {y \in S : y >= x}
           T == {Above(x) : x \in S}
<1>1. IsWellFoundedOn(StrictSubsetOrdering(Nat), FiniteSubsetsOf(Nat))
  BY FS_StrictSubsetOrderingWellFounded
<1>2. T \subseteq FiniteSubsetsOf(Nat) /\ T # {}
  <2>1. ASSUME NEW x \in S PROVE IsFiniteSet(Above(x)) /\ Above(x) \in SUBSET Nat
    <3>1. Above(x) \in SUBSET S
      OBVIOUS
    <3> HIDE DEF Above
    <3> QED
      BY <3>1, FS_Subset
  <2> QED
    BY <2>1 DEF FiniteSubsetsOf
<1>3. PICK u \in T : \A v \in T : ~ (<<v, u>> \in StrictSubsetOrdering(Nat))
  <2> HIDE DEF T
  <2> QED
    BY <1>1, <1>2, WFMin
<1>4. PICK x \in S : u = Above(x)
  BY <1>3
<1>5. ASSUME NEW y \in S, y > x PROVE FALSE
  <2>1. Above(y) \in T
    OBVIOUS
  <2>2. Above(y) \subseteq Above(x) /\ x \in Above(x) /\ x \notin Above(y)
    <3>1. x \in Nat /\ y \in Nat
      BY <1>5
    <3>2. \A z \in S : z >= y => z >= x
      <4> TAKE z \in S
      <4>1. z \in Nat
        OBVIOUS
      <4> QED
        BY ONLY <1>5, <3>1, <4>1
    <3>3. x >= x /\ ~(x >= y)
      BY ONLY <1>5, <3>1
    <3> QED
      BY <3>2, <3>3
  <2>3. <<Above(y), u>> \in StrictSubsetOrdering(Nat)
    BY <1>4, <2>2 DEF StrictSubsetOrdering
  <2> QED
    BY <1>3, <2>1, <2>3
<1>6. \A y \in S : x >= y
  BY <1>5
<1> QED
  BY <1>6 DEF Max

(* There is a place for every number that a caller allows, and one. *)
LEMMA NumberFacts ==
    /\ Numbers \subseteq Nat \ {0} /\ 1 \in Numbers
    /\ \A max \in MaxBackups : \A i \in Nat \ {0} : i < max => i \in Numbers /\ i + 1 \in Numbers
<1> DEFINE S == MaxBackups \cup {1}
<1>1. S \subseteq Nat /\ S # {} /\ IsFiniteSet(S)
  BY BackupAssumption, FS_AddElement
<1>2. Max(S) \in S /\ \A x \in S : Max(S) >= x
  BY <1>1, GreatestNatural
<1>3. Numbers = 1 .. Max(S) /\ Max(S) \in Nat /\ Max(S) >= 1
  BY <1>1, <1>2 DEF Numbers
<1>4. \A max \in MaxBackups : max \in Nat /\ max <= Max(S)
  BY <1>1, <1>2
<1> HIDE DEF S
<1> QED
  BY <1>3, <1>4

(* Numbers go with age, no backup is newer than the file, and the call under *)
(* way renames below its limit only.                                        *)
BackupInv ==
    /\ version \in Nat \ {0} /\ backups \in [Numbers -> Nat]
    /\ limit \in MaxBackups \cup {0} /\ number \in Nat
    /\ step = "rename" => number = 0 \/ (number \in Numbers /\ number < limit)
    /\ \A i \in Numbers : backups[i] <= version
    /\ \A i, j \in Taken : i < j => backups[i] >= backups[j]

(* What a file operation changes of the backups. *)
BackupsMove ==
    \A i \in Taken : \/ backups'[i] = backups[i]
                     \/ step = "remove" /\ i >= limit
                     \/ backups'[i] = 0 /\ backups'[i + 1] = backups[i]

LEMMA RemoveOneKeeps == BackupInv /\ RemoveOne => BackupInv' /\ BackupsMove
<1> SUFFICES ASSUME BackupInv, RemoveOne PROVE BackupInv' /\ BackupsMove
  OBVIOUS
<1>1. PICK i \in Excess(limit) : backups' = [backups EXCEPT ![i] = 0]
  BY DEF RemoveOne
<1>2. /\ i \in Numbers /\ i >= limit /\ backups' \in [Numbers -> Nat]
      /\ \A j \in Numbers : backups'[j] = IF j = i THEN 0 ELSE backups[j]
  BY <1>1 DEF Excess, Taken, BackupInv
<1>3. UNCHANGED <<version, step, number, limit>> /\ step = "remove"
  BY DEF RemoveOne
<1>4. BackupInv'
  BY <1>2, <1>3 DEF BackupInv, Taken
<1> QED
  BY <1>2, <1>3, <1>4 DEF BackupsMove, Taken

LEMMA StartRenamingKeeps == BackupInv /\ StartRenaming => BackupInv' /\ BackupsMove
<1> SUFFICES ASSUME BackupInv, StartRenaming PROVE BackupInv' /\ BackupsMove
  OBVIOUS
<1> DEFINE S == (Taken \ Excess(limit)) \cup {0}
<1>1. /\ UNCHANGED <<version, backups, limit>> /\ step = "remove" /\ step' = "rename"
      /\ number' = Max(S)
  BY DEF StartRenaming
<1>2. S \subseteq Nat /\ S # {} /\ S \subseteq Numbers \cup {0}
  <2>1. Taken \subseteq Numbers /\ 0 \in Nat
    BY DEF Taken
  <2>2. Numbers \subseteq Nat
    BY NumberFacts
  <2> QED
    BY <2>1, <2>2
<1>3. IsFiniteSet(S)
  <2>1. Max(MaxBackups \cup {1}) \in Int
    <3>1. MaxBackups \cup {1} \subseteq Nat /\ IsFiniteSet(MaxBackups \cup {1})
      BY BackupAssumption, FS_AddElement
    <3> QED
      BY <3>1, GreatestNatural
  <2>2. IsFiniteSet(Numbers)
    BY <2>1, FS_Interval DEF Numbers
  <2>3. IsFiniteSet(Numbers \cup {0})
    BY <2>2, FS_AddElement
  <2> HIDE DEF S
  <2> QED
    BY <1>2, <2>3, FS_Subset
<1>4. Max(S) \in S
  <2> HIDE DEF S
  <2> QED
    BY <1>2, <1>3, GreatestNatural
<1>5. number' = 0 \/ (number' \in Numbers /\ number' < limit)
  <2>1. number' = 0 \/ number' \in Taken \ Excess(limit)
    BY <1>1, <1>4
  <2>2. limit \in Nat
    BY BackupAssumption DEF BackupInv
  <2>3. ASSUME NEW n \in Taken \ Excess(limit) PROVE n \in Numbers /\ n < limit
    <3>1. n \in Numbers /\ ~(n >= limit)
      BY DEF Taken, Excess
    <3>2. n \in Nat
      BY <3>1, NumberFacts
    <3> QED
      BY ONLY <2>2, <3>1, <3>2
  <2> HIDE DEF S
  <2> QED
    BY <2>1, <2>3
<1>6. Taken' = Taken /\ number' \in Nat
  BY <1>1, <1>2, <1>4 DEF Taken
<1> HIDE DEF S
<1>7. BackupInv'
  BY <1>1, <1>5, <1>6 DEF BackupInv
<1> QED
  BY <1>1, <1>7 DEF BackupsMove

LEMMA RenameKeeps == BackupInv /\ Rename => BackupInv' /\ BackupsMove
<1> SUFFICES ASSUME BackupInv, Rename PROVE BackupInv' /\ BackupsMove
  OBVIOUS
<1>1. /\ UNCHANGED <<version, step, limit>> /\ step = "rename" /\ number' = number - 1
      /\ number \in Numbers /\ number < limit /\ limit \in MaxBackups
  BY NumberFacts DEF Rename, BackupInv
<1>2. number \in Nat \ {0} /\ limit \in Nat /\ number + 1 \in Numbers
  BY <1>1, NumberFacts, BackupAssumption
<1>3. number' = 0 \/ (number' \in Numbers /\ number' < limit)
  <2>1. number' \in Nat /\ number' < limit /\ (number' # 0 => number' \in Nat \ {0})
    BY <1>1, <1>2
  <2> QED
    BY <1>1, <2>1, NumberFacts
<1>4. CASE UNCHANGED backups
  BY <1>1, <1>2, <1>3, <1>4 DEF BackupInv, Taken, BackupsMove
<1>5. CASE /\ backups[number] # 0 /\ backups[number + 1] = 0
           /\ backups' = [backups EXCEPT ![number + 1] = backups[number], ![number] = 0]
  <2>1. \A j \in Numbers : backups'[j] = IF j = number THEN 0
                                         ELSE IF j = number + 1 THEN backups[number]
                                         ELSE backups[j]
    BY <1>2, <1>5 DEF BackupInv
  <2>2. backups' \in [Numbers -> Nat]
    BY <1>1, <1>2, <1>5 DEF BackupInv
  <2>3. \A j \in Numbers : backups'[j] <= version
    BY <1>1, <1>2, <2>1 DEF BackupInv
  <2>4. ASSUME NEW i \in Taken', NEW j \in Taken', i < j PROVE backups'[i] >= backups'[j]
    <3>1. i \in Numbers /\ j \in Numbers /\ i # number /\ j # number
      BY <2>1, <2>4 DEF Taken
    <3>2. i \in Nat /\ j \in Nat
      BY <3>1, NumberFacts
    <3>3. number \in Taken /\ \A k \in Taken' : k = number + 1 \/ k \in Taken
      BY <1>1, <1>5, <2>1 DEF Taken
    <3>4. \A k, l \in Taken : k < l => backups[k] >= backups[l]
      BY DEF BackupInv
    <3>5. CASE i = number + 1
      <4>1. j \in Taken /\ number < j
        BY <1>2, <2>4, <3>2, <3>3, <3>5
      <4>2. backups[number] >= backups[j]
        BY <3>3, <3>4, <4>1
      <4>3. j # number + 1 /\ number + 1 # number
        BY <1>2, <2>4, <3>2, <3>5
      <4>4. backups'[i] = backups[number] /\ backups'[j] = backups[j]
        BY <2>1, <3>1, <3>5, <4>3
      <4> QED
        BY <4>2, <4>4
    <3>6. CASE j = number + 1
      <4>1. i \in Taken /\ i < number
        BY <1>2, <2>4, <3>1, <3>2, <3>3, <3>6
      <4>2. backups[i] >= backups[number]
        BY <3>3, <3>4, <4>1
      <4>3. i # number + 1 /\ number + 1 # number
        BY <1>2, <3>2, <4>1
      <4>4. backups'[i] = backups[i] /\ backups'[j] = backups[number]
        BY <2>1, <3>1, <3>6, <4>3
      <4> QED
        BY <4>2, <4>4
    <3>7. CASE i # number + 1 /\ j # number + 1
      BY <2>1, <2>4, <3>1, <3>3, <3>4, <3>7
    <3> QED
      BY <3>5, <3>6, <3>7
  <2>5. BackupInv'
    <3>1. number' \in Nat
      BY <1>1, <1>2
    <3> QED
      BY <1>1, <1>3, <2>2, <2>3, <2>4, <3>1 DEF BackupInv
  <2>6. BackupsMove
    BY <1>1, <1>2, <1>5, <2>1 DEF BackupsMove, Taken
  <2> QED
    BY <2>5, <2>6
<1> QED
  BY <1>4, <1>5 DEF Rename

LEMMA CopyKeeps == BackupInv /\ Copy => BackupInv' /\ BackupsMove
<1> SUFFICES ASSUME BackupInv, Copy PROVE BackupInv' /\ BackupsMove
  OBVIOUS
<1>1. UNCHANGED <<version, number, limit>> /\ step' = "none"
  BY DEF Copy
<1>2. CASE UNCHANGED backups
  BY <1>1, <1>2 DEF BackupInv, Taken, BackupsMove
<1>3. CASE backups[1] = 0 /\ backups' = [backups EXCEPT ![1] = version]
  <2>1. /\ \A j \in Numbers : backups'[j] = IF j = 1 THEN version ELSE backups[j]
        /\ backups' \in [Numbers -> Nat]
    BY <1>3 DEF BackupInv
  <2>2. \A j \in Numbers : backups'[j] <= version /\ backups'[j] \in Nat
    BY <2>1 DEF BackupInv
  <2>3. ASSUME NEW i \in Taken', NEW j \in Taken', i < j PROVE backups'[i] >= backups'[j]
    <3>1. i \in Numbers /\ j \in Numbers /\ i \in Nat /\ j \in Nat /\ i >= 1
      BY <2>3, NumberFacts DEF Taken
    <3>2. CASE i = 1
      BY <2>1, <2>2, <3>1, <3>2 DEF BackupInv
    <3>3. CASE i # 1
      <4>1. i \in Taken /\ j \in Taken /\ j # 1
        BY <2>1, <2>3, <3>1, <3>3 DEF Taken
      <4> QED
        BY <2>1, <2>3, <3>1, <3>3, <4>1 DEF BackupInv
    <3> QED
      BY <3>2, <3>3
  <2>4. BackupInv'
    BY <1>1, <2>1, <2>2, <2>3 DEF BackupInv
  <2>5. BackupsMove
    BY <1>3, <2>1 DEF BackupsMove, Taken
  <2> QED
    BY <2>4, <2>5
<1> QED
  BY <1>2, <1>3 DEF Copy

(* numberedBackupFile() (kbackup.cpp:34-89), whatever operation of the file *)
(* system fails and wherever the process dies: a higher number is an older  *)
(* backup, and only those with too high a number go.                        *)
THEOREM BackupsAreKept == BackupSpec => BackupsKept
<1>1. BackupInit => BackupInv
  BY NumberFacts DEF BackupInit, BackupInv, Taken
<1>2. BackupInv /\ [BackupNext]_backupVars => BackupInv' /\ (BackupsMove \/ UNCHANGED backupVars)
  <2> SUFFICES ASSUME BackupInv, [BackupNext]_backupVars
               PROVE  BackupInv' /\ (BackupsMove \/ UNCHANGED backupVars)
    OBVIOUS
  <2>1. ASSUME NEW max \in MaxBackups, numberedBackupFile(max) PROVE BackupInv' /\ BackupsMove
    BY <2>1 DEF numberedBackupFile, BackupInv, BackupsMove, Taken
  <2>2. CASE RemoveOne
    BY <2>2, RemoveOneKeeps
  <2>3. CASE StartRenaming
    BY <2>3, StartRenamingKeeps
  <2>4. CASE Rename
    BY <2>4, RenameKeeps
  <2>5. CASE Copy
    BY <2>5, CopyKeeps
  <2>6. CASE ProcessDies
    BY <2>6 DEF ProcessDies, BackupInv, BackupsMove, Taken
  <2>7. CASE Save
    BY <2>7, NumberFacts DEF Save, BackupInv, BackupsMove, Taken
  <2>8. CASE UNCHANGED backupVars
    BY <2>8 DEF backupVars, BackupInv, Taken
  <2> QED
    BY <2>1, <2>2, <2>3, <2>4, <2>5, <2>6, <2>7, <2>8 DEF BackupNext
<1>3. BackupInv => \A i, j \in Taken : i < j => backups[i] >= backups[j]
  BY DEF BackupInv
<1>4. BackupInv /\ [BackupNext]_backupVars =>
        [\A i \in Taken : backups'[i] = backups[i]
                           \/ (step = "remove" /\ i >= limit)
                           \/ (backups'[i] = 0 /\ backups'[i + 1] = backups[i])]_backupVars
  BY <1>2 DEF BackupsMove
<1> QED
  BY <1>1, <1>2, <1>3, <1>4, PTL DEF BackupSpec, BackupsKept
-----------------------------------------------------------------------------
(* Signals of UNIX. *)

SignalsSpec == HandlerInit /\ [][HandlerNext]_handlerVars

(* Between a handler and the emission a number is in the socket: none is     *)
(* lost, made up, repeated or overtaken there.                              *)
NothingOvertakes == written = received \o socket

SignalsInv ==
    /\ pending \subseteq Signals
    /\ writing = NoSignal \/ writing.signal \in Signals
    /\ socket \in Seq(Signals) /\ received \in Seq(Signals)
    /\ reading => socket # <<>>
    /\ NothingOvertakes

(* What the event loop emits is what the handlers of signals wrote, in that *)
(* order and up to what the socket still holds (ksignalhandler.cpp:74-100), *)
(* and the slot never reads from an empty socket.                           *)
THEOREM SignalsKeepTheirOrder ==
    SignalsSpec => [](NothingOvertakes /\ (reading => socket # <<>>))
<1>1. HandlerInit => SignalsInv
  BY DEF HandlerInit, SignalsInv, NothingOvertakes
<1>2. SignalsInv /\ [HandlerNext]_handlerVars => SignalsInv'
  <2> SUFFICES ASSUME SignalsInv, [HandlerNext]_handlerVars PROVE SignalsInv'
    OBVIOUS
  <2>1. ASSUME NEW s \in Signals, watchSignal(s) \/ Raise(s) PROVE SignalsInv'
    <3>1. /\ UNCHANGED <<writing, socket, reading, written, received>>
          /\ pending' = pending \/ pending' = pending \cup {s}
      BY <2>1 DEF watchSignal, Raise, history
    <3> QED
      BY <3>1 DEF SignalsInv, NothingOvertakes
  <2>2. ASSUME NEW s \in Signals, NEW main \in BOOLEAN, Interrupt(s, main) PROVE SignalsInv'
    <3>1. /\ pending' = pending \ {s} /\ writing' = [signal |-> s, main |-> main]
          /\ UNCHANGED <<socket, reading, written, received>>
      BY <2>2 DEF Interrupt, history
    <3> QED
      BY <3>1 DEF SignalsInv, NothingOvertakes
  <2>3. CASE signalHandler
    <3>1. /\ writing # NoSignal /\ writing' = NoSignal
          /\ socket' = Append(socket, writing.signal)
          /\ written' = Append(written, writing.signal)
          /\ UNCHANGED <<pending, reading, received>>
      BY <2>3 DEF signalHandler
    <3>2. writing.signal \in Signals
      BY <3>1 DEF SignalsInv
    <3>3. /\ Append(received \o socket, writing.signal)
              = received \o Append(socket, writing.signal)
          /\ Append(socket, writing.signal) \in Seq(Signals)
          /\ Append(socket, writing.signal) # <<>>
      BY <3>2 DEF SignalsInv
    <3> QED
      BY <3>1, <3>3 DEF SignalsInv, NothingOvertakes
  <2>4. CASE CreateNotifier \/ Activated
    <3>1. UNCHANGED <<pending, writing, socket, written, received>>
      BY <2>4 DEF CreateNotifier, Activated, history
    <3>2. reading' => socket # <<>>
      BY <2>4 DEF CreateNotifier, Activated, SignalsInv
    <3> QED
      BY <3>1, <3>2 DEF SignalsInv, NothingOvertakes
  <2>5. CASE handleSignal
    <3>1. /\ reading /\ reading' = FALSE
          /\ socket' = Tail(socket) /\ received' = Append(received, Head(socket))
          /\ UNCHANGED <<pending, writing, written>>
      BY <2>5 DEF handleSignal
    <3>2. socket \in Seq(Signals) /\ received \in Seq(Signals) /\ socket # <<>>
      BY <3>1 DEF SignalsInv
    <3>3. /\ Append(received, Head(socket)) \o Tail(socket) = received \o socket
          /\ Tail(socket) \in Seq(Signals) /\ Append(received, Head(socket)) \in Seq(Signals)
      BY <3>2
    <3> QED
      BY <3>1, <3>3 DEF SignalsInv, NothingOvertakes
  <2>6. CASE UNCHANGED handlerVars
    BY <2>6 DEF handlerVars, history, SignalsInv, NothingOvertakes
  <2> QED
    BY <2>1, <2>2, <2>3, <2>4, <2>5, <2>6 DEF HandlerNext
<1>3. SignalsInv => NothingOvertakes /\ (reading => socket # <<>>)
  BY DEF SignalsInv
<1> QED
  BY <1>1, <1>2, <1>3, PTL DEF SignalsSpec

-----------------------------------------------------------------------------
(* lsof. *)

LsofSpec == LsofInit /\ [][LsofNext]_lsofVars

ReportedOnce ==
    \A n \in DOMAIN reports :
        n = 1 /\ (reports[n].error = "NoError") = (reports[n].list = "listed")

(* Until the job has finished nothing was listed, set or reported; from then *)
(* on there is the one report.                                              *)
LsofInv ==
    /\ jobFinished \in BOOLEAN /\ hasEmittedResult \in BOOLEAN
    /\ ~jobFinished =>
         /\ reports = <<>> /\ ~hasEmittedResult
         /\ jobError = "NoError" /\ processInfoList = "empty" /\ emitting = <<>>
    /\ jobFinished =>
         \E r : /\ reports = <<r>>
                /\ (r.error = "NoError" /\ r.list = "listed")
                     \/ (r.error # "NoError" /\ r.list # "listed")

(* KJob::emitResult() of the job keeps LsofInv when what is reported fits. *)
LEMMA JobEmitResultKeeps ==
    ASSUME LsofInv, NEW then, JobEmitResult(then),
           ~jobFinished => \/ jobError' = "NoError" /\ processInfoList' = "listed"
                           \/ jobError' # "NoError" /\ processInfoList' # "listed"
    PROVE  LsofInv'
<1>1. CASE jobFinished
  <2>1. /\ hasEmittedResult' = (hasEmittedResult \/ then = "error")
        /\ UNCHANGED <<emitting, jobFinished, reports>>
    BY <1>1 DEF JobEmitResult
  <2> QED
    BY <1>1, <2>1 DEF LsofInv
<1>2. CASE ~jobFinished
  <2> DEFINE r == [error |-> jobError', list |-> processInfoList']
  <2>1. jobFinished' = TRUE /\ reports' = Append(reports, r) /\ UNCHANGED hasEmittedResult
    BY <1>2 DEF JobEmitResult
  <2>2. reports' = <<r>>
    BY <1>2, <2>1 DEF LsofInv
  <2>3. \/ r.error = "NoError" /\ r.list = "listed"
        \/ r.error # "NoError" /\ r.list # "listed"
    BY <1>2
  <2>4. hasEmittedResult' \in BOOLEAN
    BY <2>1 DEF LsofInv
  <2> HIDE DEF r
  <2> QED
    BY <2>1, <2>2, <2>3, <2>4 DEF LsofInv
<1> QED
  BY <1>1, <1>2

(* emitResult(error) of the private class reports the error, or nothing. *)
LEMMA LsofEmitResultKeeps ==
    ASSUME LsofInv, NEW error, error # "NoError", lsofEmitResult(error)
    PROVE  LsofInv'
<1>1. CASE hasEmittedResult
  BY <1>1 DEF lsofEmitResult, LsofInv
<1>2. CASE ~hasEmittedResult
  <2>1. jobError' = error /\ UNCHANGED processInfoList /\ JobEmitResult("error")
    BY <1>2 DEF lsofEmitResult
  <2>2. ~jobFinished => jobError' # "NoError" /\ processInfoList' # "listed"
    BY <2>1 DEF LsofInv
  <2> QED
    BY <2>1, <2>2, JobEmitResultKeeps
<1> QED
  BY <1>1, <1>2

(* The safety half of LsofReports (klistopenfilesjob_unix.cpp:36-115): the  *)
(* job reports once, an error and no list or no error and the list,       *)
(* whatever order the errors and the end of lsof come in.                   *)
THEOREM LsofReportsOnce == LsofSpec => []ReportedOnce
<1>1. LsofInit => LsofInv
  BY DEF LsofInit, LsofInv
<1>2. LsofInv /\ [LsofNext]_lsofVars => LsofInv'
  <2> SUFFICES ASSUME LsofInv, [LsofNext]_lsofVars PROVE LsofInv'
    OBVIOUS
  <2>1. CASE start
    <3>1. CASE \E error \in {"DoesNotExist", "InternalError"} : lsofEmitResult(error)
      <4>1. PICK error \in {"DoesNotExist", "InternalError"} : lsofEmitResult(error)
        BY <3>1
      <4> QED
        BY <4>1, LsofEmitResultKeeps
    <3>2. CASE UNCHANGED <<hasEmittedResult, emitting, jobFinished, jobError,
                           processInfoList, reports>>
      BY <3>2 DEF LsofInv
    <3> QED
      BY <2>1, <3>1, <3>2 DEF start
  <2>2. CASE Running
    BY <2>2 DEF Running, LsofInv
  <2>3. CASE lsofError
    BY <2>3, LsofEmitResultKeeps DEF lsofError
  <2>4. CASE lsofFinished
    <3>1. CASE hasEmittedResult
      BY <2>4, <3>1 DEF lsofFinished, LsofInv
    <3>2. CASE ~hasEmittedResult
      <4>1. /\ processInfoList' = "listed" /\ JobEmitResult("finished")
            /\ UNCHANGED jobError
        BY <2>4, <3>2 DEF lsofFinished
      <4>2. ~jobFinished => jobError' = "NoError" /\ processInfoList' = "listed"
        BY <4>1 DEF LsofInv
      <4> QED
        BY <4>1, <4>2, JobEmitResultKeeps
    <3> QED
      BY <3>1, <3>2
  <2>5. CASE EmitReturns
    <3>1. jobFinished
      BY <2>5 DEF EmitReturns, LsofInv
    <3>2. hasEmittedResult' \in BOOLEAN /\ UNCHANGED <<jobFinished, reports>>
      BY <2>5 DEF EmitReturns, LsofInv
    <3> QED
      BY <3>1, <3>2 DEF LsofInv
  <2>6. CASE UNCHANGED lsofVars
    BY <2>6 DEF lsofVars, LsofInv
  <2> QED
    BY <2>1, <2>2, <2>3, <2>4, <2>5, <2>6 DEF LsofNext
<1>3. LsofInv => ReportedOnce
  <2> SUFFICES ASSUME LsofInv, NEW n \in DOMAIN reports
               PROVE  n = 1 /\ (reports[n].error = "NoError") = (reports[n].list = "listed")
    BY DEF ReportedOnce
  <2>1. jobFinished
    BY DEF LsofInv
  <2>2. PICK r : /\ reports = <<r>>
                 /\ (r.error = "NoError" /\ r.list = "listed")
                      \/ (r.error # "NoError" /\ r.list # "listed")
    BY <2>1 DEF LsofInv
  <2>3. n = 1 /\ reports[1] = r
    BY <2>2
  <2> QED
    BY <2>2, <2>3
<1> QED
  BY <1>1, <1>2, <1>3, PTL DEF LsofSpec
-----------------------------------------------------------------------------
(* Attaching to the segment of a cache, for any number of processes and      *)
(* segments and any sizes they ask for: the initialisation protocol of      *)
(* mapSharedMemory() lets one process at a time set a segment up, and no    *)
(* operation works on a segment that is not ready.                         *)

SegmentStates == [ready : 0 .. 2, locked : BOOLEAN, size : Nat]

Past == {"initLock", "idle", "lock", "inside"}

(* A process maps a segment from open() to the end of the mapping. *)
MappedWhenAttached ==
    \A p \in Processes :
        IF pc[p] \in {"absent", "open"}
        THEN mapped[p] = NoSegment
        ELSE mapped[p] \in Segments

(* Who sets a segment up has marked it. *)
SetupIsMarked ==
    \A p \in Processes : pc[p] = "setup" => segment[mapped[p]].ready = 1

(* TypeOK and the two properties are inductive together with these.  A      *)
(* segment that is marked 1 is not claimed, and what a process waits for    *)
(* is a mark that only the end of the one setup puts there.                *)
MappingInv ==
    /\ TypeOK
    /\ MappedWhenAttached
    /\ SetupIsMarked
    /\ OperationsSeeReady
    /\ SetupIsExclusive

(* The properties hold before any process has opened the cache. *)
LEMMA InitMappingInv == Init => MappingInv
BY MappingAssumption DEF Init, MappingInv, TypeOK, MappedWhenAttached, SetupIsMarked,
    OperationsSeeReady, SetupIsExclusive, Blank, Labels

(* What a step of p owes MappingInv when p does not begin to set a segment up: the *)
(* marks of the segments that others map stay, and p is past the wait only  *)
(* on a segment that is ready.                                             *)
LEMMA MappingLocalStep ==
    ASSUME MappingInv, TypeOK', NEW p \in Processes,
           \A q \in Processes \ {p} :
              /\ pc'[q] = pc[q] /\ mapped'[q] = mapped[q]
              /\ mapped[q] \in Segments =>
                    segment'[mapped[q]].ready = segment[mapped[q]].ready,
           pc'[p] # "setup",
           IF pc'[p] \in {"absent", "open"}
           THEN mapped'[p] = NoSegment ELSE mapped'[p] \in Segments,
           pc'[p] \in Past => segment'[mapped'[p]].ready = 2
    PROVE  MappingInv'
<1> USE MappingAssumption DEF MappingInv
<1>1. MappedWhenAttached'
  BY DEF MappedWhenAttached
<1>2. SetupIsMarked'
  BY DEF MappedWhenAttached, SetupIsMarked
<1>3. OperationsSeeReady'
  BY DEF MappedWhenAttached, OperationsSeeReady, Past
<1>4. SetupIsExclusive'
  <2> SUFFICES ASSUME NEW a \in Processes, NEW b \in Processes,
                      pc'[a] = "setup", a # b, mapped'[b] = mapped'[a]
               PROVE  pc'[b] = "wait"
    BY DEF SetupIsExclusive
  <2>1. a # p /\ pc[a] = "setup" /\ mapped'[a] = mapped[a]
    OBVIOUS
  <2>2. mapped[a] \in Segments /\ segment'[mapped[a]].ready = 1
    BY <2>1 DEF MappedWhenAttached, SetupIsMarked
  <2>3. CASE b = p
    BY <2>1, <2>2, <2>3 DEF TypeOK, Labels, Past
  <2>4. CASE b # p
    BY <2>1, <2>4 DEF SetupIsExclusive
  <2> QED
    BY <2>3, <2>4
<1> QED
  BY <1>1, <1>2, <1>3, <1>4

(* Every step of every process, and a deletion of the file, keeps MappingInv. *)
LEMMA NextMappingInv == MappingInv /\ [Next]_vars => MappingInv'
<1> SUFFICES ASSUME MappingInv, [Next]_vars PROVE MappingInv'
  OBVIOUS
<1> USE MappingAssumption DEF MappingInv, Goto
<1>1. ASSUME NEW p \in Processes, Construct(p) PROVE MappingInv'
  <2>1. TypeOK'
    BY <1>1 DEF Construct, CreateMapping, Reachable, Blank, TypeOK, Labels, MappedWhenAttached
  <2>2. \A q \in Processes \ {p} :
          /\ pc'[q] = pc[q] /\ mapped'[q] = mapped[q]
          /\ mapped[q] \in Segments =>
                segment'[mapped[q]].ready = segment[mapped[q]].ready
    BY <1>1 DEF Construct, CreateMapping, Reachable, Blank, TypeOK, MappedWhenAttached
  <2>3. /\ pc'[p] # "setup"
        /\ IF pc'[p] \in {"absent", "open"}
           THEN mapped'[p] = NoSegment ELSE mapped'[p] \in Segments
        /\ pc'[p] \in Past => segment'[mapped'[p]].ready = 2
    BY <1>1 DEF Construct, CreateMapping, Reachable, Blank, TypeOK, MappedWhenAttached, OperationsSeeReady, Past
  <2> QED
    BY <2>1, <2>2, <2>3, MappingLocalStep
<1>2. ASSUME NEW p \in Processes, OpenFile(p) PROVE MappingInv'
  <2>1. TypeOK'
    <3>1. segment' \in [Segments -> SegmentStates]
      <4>1. Blank \in SegmentStates
        BY DEF Blank, SegmentStates
      <4>2. segment' = segment \/ \E s \in Segments :
                segment' = [segment EXCEPT ![s] = Blank]
        BY <1>2 DEF OpenFile, Unused
      <4> QED
        BY <4>1, <4>2 DEF TypeOK, SegmentStates
    <3>2. mapped' \in [Processes -> Segments \cup {NoSegment}]
      BY <1>2 DEF OpenFile, Unused, Blank, TypeOK
    <3> QED
      BY <1>2, <3>1, <3>2 DEF OpenFile, Unused, Blank, TypeOK, Labels, SegmentStates
  <2>2. \A q \in Processes \ {p} :
          /\ pc'[q] = pc[q] /\ mapped'[q] = mapped[q]
          /\ mapped[q] \in Segments =>
                segment'[mapped[q]].ready = segment[mapped[q]].ready
    BY <1>2 DEF OpenFile, Unused, Blank, TypeOK, MappedWhenAttached
  <2>3. /\ pc'[p] # "setup"
        /\ IF pc'[p] \in {"absent", "open"}
           THEN mapped'[p] = NoSegment ELSE mapped'[p] \in Segments
        /\ pc'[p] \in Past => segment'[mapped'[p]].ready = 2
    BY <1>2 DEF OpenFile, Unused, Blank, TypeOK, MappedWhenAttached, OperationsSeeReady, Past
  <2> QED
    BY <2>1, <2>2, <2>3, MappingLocalStep
<1>3. ASSUME NEW p \in Processes, Claim(p) PROVE MappingInv'
  <2>1. mapped[p] \in Segments
    BY <1>3 DEF Claim, MappedWhenAttached
  <2>2. TypeOK'
    BY <1>3, <2>1 DEF Claim, TypeOK, Labels, SetupIsMarked
  <2>3. MappedWhenAttached' /\ SetupIsMarked' /\ OperationsSeeReady'
    BY <1>3, <2>1 DEF Claim, TypeOK, MappedWhenAttached, SetupIsMarked,
      OperationsSeeReady, SetupIsExclusive
  <2>4. SetupIsExclusive'
    BY <1>3, <2>1, SMTT(30) DEF Claim, TypeOK, Labels, MappedWhenAttached, SetupIsMarked,
      OperationsSeeReady, SetupIsExclusive
  <2> QED
    BY <2>2, <2>3, <2>4
<1>4. ASSUME NEW p \in Processes, Setup(p) PROVE MappingInv'
  <2>1. mapped[p] \in Segments
    BY <1>4 DEF Setup, MappedWhenAttached
  <2>2. TypeOK'
    BY <1>4, <2>1 DEF Setup, TypeOK, Labels, SetupIsMarked
  <2>3. MappedWhenAttached' /\ SetupIsMarked' /\ OperationsSeeReady'
    BY <1>4, <2>1 DEF Setup, TypeOK, MappedWhenAttached, SetupIsMarked,
      OperationsSeeReady, SetupIsExclusive
  <2>4. SetupIsExclusive'
    BY <1>4, <2>1 DEF Setup, TypeOK, Labels, MappedWhenAttached, SetupIsMarked,
      OperationsSeeReady, SetupIsExclusive
  <2> QED
    BY <2>2, <2>3, <2>4
<1>5. ASSUME NEW p \in Processes, SeeReady(p) PROVE MappingInv'
  <2>1. TypeOK'
    BY <1>5 DEF SeeReady, mapping, TypeOK, Labels, MappedWhenAttached
  <2>2. \A q \in Processes \ {p} :
          /\ pc'[q] = pc[q] /\ mapped'[q] = mapped[q]
          /\ mapped[q] \in Segments =>
                segment'[mapped[q]].ready = segment[mapped[q]].ready
    BY <1>5 DEF SeeReady, mapping, TypeOK, MappedWhenAttached
  <2>3. /\ pc'[p] # "setup"
        /\ IF pc'[p] \in {"absent", "open"}
           THEN mapped'[p] = NoSegment ELSE mapped'[p] \in Segments
        /\ pc'[p] \in Past => segment'[mapped'[p]].ready = 2
    BY <1>5 DEF SeeReady, mapping, TypeOK, MappedWhenAttached, OperationsSeeReady, Past
  <2> QED
    BY <2>1, <2>2, <2>3, MappingLocalStep
<1>6. ASSUME NEW p \in Processes, InitLock(p) PROVE MappingInv'
  <2>1. TypeOK'
    <3>1. segment' \in [Segments -> SegmentStates]
      BY <1>6 DEF InitLock, TypeOK, SegmentStates
    <3>2. mapped' \in [Processes -> Segments \cup {NoSegment}]
      BY <1>6 DEF InitLock, Return, TypeOK
    <3> QED
      BY <1>6, <3>1, <3>2, SMTT(30) DEF InitLock, Return, TypeOK, Labels, SegmentStates
  <2>2. \A q \in Processes \ {p} :
          /\ pc'[q] = pc[q] /\ mapped'[q] = mapped[q]
          /\ mapped[q] \in Segments =>
                segment'[mapped[q]].ready = segment[mapped[q]].ready
    BY <1>6 DEF InitLock, Return, TypeOK, MappedWhenAttached
  <2>3. /\ pc'[p] # "setup"
        /\ IF pc'[p] \in {"absent", "open"}
           THEN mapped'[p] = NoSegment ELSE mapped'[p] \in Segments
        /\ pc'[p] \in Past => segment'[mapped'[p]].ready = 2
    BY <1>6 DEF InitLock, Return, TypeOK, MappedWhenAttached, OperationsSeeReady, Past
  <2> QED
    BY <2>1, <2>2, <2>3, MappingLocalStep
<1>7. ASSUME NEW p \in Processes, GiveUpWaiting(p) PROVE MappingInv'
  <2>1. TypeOK'
    BY <1>7 DEF GiveUpWaiting, Reachable, Blank, TypeOK, Labels, MappedWhenAttached
  <2>2. \A q \in Processes \ {p} :
          /\ pc'[q] = pc[q] /\ mapped'[q] = mapped[q]
          /\ mapped[q] \in Segments =>
                segment'[mapped[q]].ready = segment[mapped[q]].ready
    BY <1>7 DEF GiveUpWaiting, Reachable, Blank, TypeOK, MappedWhenAttached
  <2>3. /\ pc'[p] # "setup"
        /\ IF pc'[p] \in {"absent", "open"}
           THEN mapped'[p] = NoSegment ELSE mapped'[p] \in Segments
        /\ pc'[p] \in Past => segment'[mapped'[p]].ready = 2
    BY <1>7 DEF GiveUpWaiting, Reachable, Blank, TypeOK, MappedWhenAttached, OperationsSeeReady, Past
  <2> QED
    BY <2>1, <2>2, <2>3, MappingLocalStep
<1>8. ASSUME NEW p \in Processes, FallBack(p) PROVE MappingInv'
  <2>1. TypeOK'
    BY <1>8 DEF FallBack, Return, Unused, Reachable, Blank, TypeOK, Labels, MappedWhenAttached
  <2>2. \A q \in Processes \ {p} :
          /\ pc'[q] = pc[q] /\ mapped'[q] = mapped[q]
          /\ mapped[q] \in Segments =>
                segment'[mapped[q]].ready = segment[mapped[q]].ready
    BY <1>8 DEF FallBack, Return, Unused, Reachable, Blank, TypeOK, MappedWhenAttached
  <2>3. /\ pc'[p] # "setup"
        /\ IF pc'[p] \in {"absent", "open"}
           THEN mapped'[p] = NoSegment ELSE mapped'[p] \in Segments
        /\ pc'[p] \in Past => segment'[mapped'[p]].ready = 2
    BY <1>8 DEF FallBack, Return, Unused, Reachable, Blank, TypeOK, MappedWhenAttached, OperationsSeeReady, Past
  <2> QED
    BY <2>1, <2>2, <2>3, MappingLocalStep
<1>9. ASSUME NEW p \in Processes, Begin(p) PROVE MappingInv'
  <2>1. TypeOK'
    BY <1>9 DEF Begin, mapping, TypeOK, Labels, MappedWhenAttached
  <2>2. \A q \in Processes \ {p} :
          /\ pc'[q] = pc[q] /\ mapped'[q] = mapped[q]
          /\ mapped[q] \in Segments =>
                segment'[mapped[q]].ready = segment[mapped[q]].ready
    BY <1>9 DEF Begin, mapping, TypeOK, MappedWhenAttached
  <2>3. /\ pc'[p] # "setup"
        /\ IF pc'[p] \in {"absent", "open"}
           THEN mapped'[p] = NoSegment ELSE mapped'[p] \in Segments
        /\ pc'[p] \in Past => segment'[mapped'[p]].ready = 2
    BY <1>9 DEF Begin, mapping, TypeOK, MappedWhenAttached, OperationsSeeReady, Past
  <2> QED
    BY <2>1, <2>2, <2>3, MappingLocalStep
<1>10. ASSUME NEW p \in Processes, Acquire(p) PROVE MappingInv'
  <2>1. TypeOK'
    <3>1. segment' \in [Segments -> SegmentStates]
      BY <1>10 DEF Acquire, TypeOK, SegmentStates
    <3>2. mapped' \in [Processes -> Segments \cup {NoSegment}]
      BY <1>10 DEF Acquire, TypeOK
    <3> QED
      BY <1>10, <3>1, <3>2 DEF Acquire, TypeOK, Labels, SegmentStates
  <2>2. \A q \in Processes \ {p} :
          /\ pc'[q] = pc[q] /\ mapped'[q] = mapped[q]
          /\ mapped[q] \in Segments =>
                segment'[mapped[q]].ready = segment[mapped[q]].ready
    BY <1>10 DEF Acquire, TypeOK, MappedWhenAttached
  <2>3. /\ pc'[p] # "setup"
        /\ IF pc'[p] \in {"absent", "open"}
           THEN mapped'[p] = NoSegment ELSE mapped'[p] \in Segments
        /\ pc'[p] \in Past => segment'[mapped'[p]].ready = 2
    BY <1>10 DEF Acquire, TypeOK, MappedWhenAttached, OperationsSeeReady, Past
  <2> QED
    BY <2>1, <2>2, <2>3, MappingLocalStep
<1>11. ASSUME NEW p \in Processes, TimeOutSafe(p) PROVE MappingInv'
  <2>1. TypeOK'
    BY <1>11 DEF TimeOutSafe, mapping, TypeOK, Labels, MappedWhenAttached
  <2>2. \A q \in Processes \ {p} :
          /\ pc'[q] = pc[q] /\ mapped'[q] = mapped[q]
          /\ mapped[q] \in Segments =>
                segment'[mapped[q]].ready = segment[mapped[q]].ready
    BY <1>11 DEF TimeOutSafe, mapping, TypeOK, MappedWhenAttached
  <2>3. /\ pc'[p] # "setup"
        /\ IF pc'[p] \in {"absent", "open"}
           THEN mapped'[p] = NoSegment ELSE mapped'[p] \in Segments
        /\ pc'[p] \in Past => segment'[mapped'[p]].ready = 2
    BY <1>11 DEF TimeOutSafe, mapping, TypeOK, MappedWhenAttached, OperationsSeeReady, Past
  <2> QED
    BY <2>1, <2>2, <2>3, MappingLocalStep
<1>12. ASSUME NEW p \in Processes, TimeOutUnsafe(p) PROVE MappingInv'
  <2>1. TypeOK'
    BY <1>12 DEF TimeOutUnsafe, CreateMapping, Reachable, Blank, TypeOK, Labels, MappedWhenAttached
  <2>2. \A q \in Processes \ {p} :
          /\ pc'[q] = pc[q] /\ mapped'[q] = mapped[q]
          /\ mapped[q] \in Segments =>
                segment'[mapped[q]].ready = segment[mapped[q]].ready
    BY <1>12 DEF TimeOutUnsafe, CreateMapping, Reachable, Blank, TypeOK, MappedWhenAttached
  <2>3. /\ pc'[p] # "setup"
        /\ IF pc'[p] \in {"absent", "open"}
           THEN mapped'[p] = NoSegment ELSE mapped'[p] \in Segments
        /\ pc'[p] \in Past => segment'[mapped'[p]].ready = 2
    BY <1>12 DEF TimeOutUnsafe, CreateMapping, Reachable, Blank, TypeOK, MappedWhenAttached, OperationsSeeReady, Past
  <2> QED
    BY <2>1, <2>2, <2>3, MappingLocalStep
<1>13. ASSUME NEW p \in Processes, End(p) PROVE MappingInv'
  <2>1. TypeOK'
    BY <1>13 DEF End, Unlocked, TypeOK, Labels, MappedWhenAttached
  <2>2. \A q \in Processes \ {p} :
          /\ pc'[q] = pc[q] /\ mapped'[q] = mapped[q]
          /\ mapped[q] \in Segments =>
                segment'[mapped[q]].ready = segment[mapped[q]].ready
    BY <1>13 DEF End, Unlocked, TypeOK, MappedWhenAttached
  <2>3. /\ pc'[p] # "setup"
        /\ IF pc'[p] \in {"absent", "open"}
           THEN mapped'[p] = NoSegment ELSE mapped'[p] \in Segments
        /\ pc'[p] \in Past => segment'[mapped'[p]].ready = 2
    BY <1>13 DEF End, Unlocked, TypeOK, MappedWhenAttached, OperationsSeeReady, Past
  <2> QED
    BY <2>1, <2>2, <2>3, MappingLocalStep
<1>14. ASSUME NEW p \in Processes, Corrupted(p) PROVE MappingInv'
  <2>1. TypeOK'
    <3>1. segment' \in [Segments -> SegmentStates]
      <4>1. Unlocked(p) \in [Segments -> SegmentStates]
        BY DEF Unlocked, TypeOK, SegmentStates
      <4> QED
        BY <1>14, <4>1 DEF Corrupted, CreateMapping, Reachable, Blank, SegmentStates
    <3>2. mapped' \in [Processes -> Segments \cup {NoSegment}]
      BY <1>14 DEF Corrupted, CreateMapping, Unlocked, Reachable, Blank, TypeOK
    <3>3. /\ hasShm' \in [Processes -> BOOLEAN] /\ owns' \in [Processes -> BOOLEAN]
          /\ file' = NoSegment /\ lockCount' = lockCount
      BY <1>14 DEF Corrupted, CreateMapping, TypeOK
    <3>4. /\ pc' \in [Processes -> Labels]
          /\ attempt' \in [Processes -> 1 .. 2]
          /\ returnTo' \in [Processes -> {"idle", "retry"}]
      BY <1>14 DEF Corrupted, CreateMapping, TypeOK, Labels
    <3> QED
      BY <3>1, <3>2, <3>3, <3>4 DEF TypeOK, SegmentStates
  <2>2. \A q \in Processes \ {p} :
          /\ pc'[q] = pc[q] /\ mapped'[q] = mapped[q]
          /\ mapped[q] \in Segments =>
                segment'[mapped[q]].ready = segment[mapped[q]].ready
    BY <1>14 DEF Corrupted, CreateMapping, Unlocked, Reachable, Blank, TypeOK, MappedWhenAttached
  <2>3. /\ pc'[p] # "setup"
        /\ IF pc'[p] \in {"absent", "open"}
           THEN mapped'[p] = NoSegment ELSE mapped'[p] \in Segments
        /\ pc'[p] \in Past => segment'[mapped'[p]].ready = 2
    BY <1>14 DEF Corrupted, CreateMapping, Unlocked, Reachable, Blank, TypeOK, MappedWhenAttached, OperationsSeeReady, Past
  <2> QED
    BY <2>1, <2>2, <2>3, MappingLocalStep
<1>15. ASSUME NEW p \in Processes, Die(p) PROVE MappingInv'
  <2>1. TypeOK'
    BY <1>15 DEF Die, Reachable, Blank, TypeOK, Labels, MappedWhenAttached
  <2>2. \A q \in Processes \ {p} :
          /\ pc'[q] = pc[q] /\ mapped'[q] = mapped[q]
          /\ mapped[q] \in Segments =>
                segment'[mapped[q]].ready = segment[mapped[q]].ready
    BY <1>15 DEF Die, Reachable, Blank, TypeOK, MappedWhenAttached
  <2>3. /\ pc'[p] # "setup"
        /\ IF pc'[p] \in {"absent", "open"}
           THEN mapped'[p] = NoSegment ELSE mapped'[p] \in Segments
        /\ pc'[p] \in Past => segment'[mapped'[p]].ready = 2
    BY <1>15 DEF Die, Reachable, Blank, TypeOK, MappedWhenAttached, OperationsSeeReady, Past
  <2> QED
    BY <2>1, <2>2, <2>3, MappingLocalStep
<1>16. CASE DeleteCache
  <2>1. TypeOK'
    BY <1>16 DEF DeleteCache, Reachable, Blank, TypeOK
  <2>2. \A q \in Processes : mapped'[q] \in Segments =>
          segment'[mapped'[q]].ready = segment[mapped'[q]].ready
    BY <1>16 DEF DeleteCache, Reachable, Blank, TypeOK
  <2> QED
    BY <1>16, <2>1, <2>2 DEF DeleteCache, MappedWhenAttached, SetupIsMarked,
      OperationsSeeReady, SetupIsExclusive
<1>17. CASE UNCHANGED vars
  BY <1>17 DEF vars, TypeOK, MappedWhenAttached, SetupIsMarked,
      OperationsSeeReady, SetupIsExclusive
<1> QED
  BY <1>1, <1>2, <1>3, <1>4, <1>5, <1>6, <1>7, <1>8, <1>9, <1>10, <1>11, <1>12, <1>13, <1>14, <1>15, <1>16, <1>17 DEF Next, Proceed

(* MappingInv is an invariant of the specification. *)
LEMMA MappingInvariance == Spec => []MappingInv
BY InitMappingInv, NextMappingInv, PTL DEF Spec

(* Type correctness: ready is never anything but 0, 1 and 2, however many    *)
(* processes attach, die and delete the file meanwhile.                    *)
THEOREM TypeCorrect == Spec => []TypeOK
<1>1. MappingInv => TypeOK
  BY DEF MappingInv
<1> QED
  BY <1>1, MappingInvariance, PTL

(* performInitialSetup() never clears a segment that another process sets up *)
(* or works on (ksdcmapping_p.h:279-301).                                  *)
THEOREM SetupExclusive == Spec => []SetupIsExclusive
<1>1. MappingInv => SetupIsExclusive
  BY DEF MappingInv
<1> QED
  BY <1>1, MappingInvariance, PTL

(* An operation of KSharedDataCache works on a segment only when it is       *)
(* completely set up, after any number of recoveries.                      *)
THEOREM OperationsReady == Spec => []OperationsSeeReady
<1>1. MappingInv => OperationsSeeReady
  BY DEF MappingInv
<1> QED
  BY <1>1, MappingInvariance, PTL

=============================================================================
