---------------------------- MODULE KPartsProofs ----------------------------
(***************************************************************************)
(* What is proved of the parts that MCParts composes: the auto-save files,  *)
(* the data of an application, the search for plugins, the environment of a *)
(* process and the documents portal, for any number of objects, files, urls *)
(* and variables, and the loops that these share.                          *)
(***************************************************************************)
EXTENDS KAutoSaveFile, KProcess, KUrlMimeData, KAboutData, KPlugins,
        FiniteSetTheorems, WellFoundedInduction, TLAPS

-----------------------------------------------------------------------------
(* The auto-save files, for any number of objects, of processes and of names,  *)
(* any number of crashes, and locks that age or not.  Clients are those that  *)
(* do not call setManagedFile() on an object whose open() has failed: its    *)
(* lock would stay on the old name.                                        *)

AutoSpec == AutoInit /\ [][AutoNext]_autoVars

States ==
    [exists : BOOLEAN, name : Names \cup {NoName}, managedFileNameChanged : BOOLEAN,
     lock : [on : Names \cup {NoName}, held : BOOLEAN],
     handle : {"closed", "open", "unlinked"}, dirty : BOOLEAN,
     step : {"ready", "opened", "unlocked", "destroyed"}]

-----------------------------------------------------------------------------
(* The inductive invariant. *)

Holds(f, n) == obj[f].lock.held /\ obj[f].name = n
Releases(f, n) == obj[f].step \in {"unlocked", "destroyed"} /\ obj[f].name = n
Owns(f, n) == obj[f].name = n /\ (obj[f].lock.held \/ obj[f].step # "ready")

(* One object: its lock is on its own file, its handle is on a file that is   *)
(* there or was removed, work is written to an open one only, and who is    *)
(* releasing has a file and no lock any more.                              *)
IsSound(f) ==
    /\ obj[f].lock.held => obj[f].lock.on # NoName
    /\ obj[f].lock.on # NoName =>
         obj[f].exists /\ obj[f].lock.on = obj[f].name /\ ~obj[f].managedFileNameChanged
    /\ obj[f].exists /\ ~obj[f].managedFileNameChanged => obj[f].name # NoName
    /\ obj[f].name # NoName => obj[f].exists
    /\ obj[f].handle = "open" => obj[f].name \in disk
    /\ obj[f].dirty => obj[f].handle = "open" /\ obj[f].step # "opened"
    /\ obj[f].step = "opened" => obj[f].lock.on # NoName
    /\ obj[f].step \in {"unlocked", "destroyed"} => obj[f].lock = NoLock /\ obj[f].name # NoName

ObjectsAreSound == \A f \in Objects : IsSound(f)

(* Who holds a lock has written the lock file, unless it was taken from him; *)
(* and whoever has written one that is alive holds the lock.               *)
LocksAreSound ==
    /\ \A f \in Objects, n \in Names :
          Holds(f, n) => n \in broken \/ (locks[n].by = f /\ locks[n].live)
    /\ \A f \in Objects, n \in Names :
          locks[n].live /\ locks[n].by = f => Holds(f, n)
    /\ \A n \in Names : locks[n].live => locks[n].by # Nobody

(* What is being removed is nobody else's, unless it was taken meanwhile. *)
RemovedByHolder ==
    \A f, g \in Objects, n \in Names :
        Holds(f, n) /\ Releases(g, n) => n \in raced \cup broken

(* The files a crash has left are there, and nobody works on them. *)
LeftAlone ==
    \A n \in left :
        \/ n \in raced \cup broken
        \/ n \in disk /\ \A f \in Objects : ~Holds(f, n) /\ ~Releases(f, n)

(* Without a crash, a file has somebody who is going to remove it. *)
FilesAreOwned ==
    crashes = 0 => \A n \in disk : \E f \in Objects : Owns(f, n)

AutoInv ==
    TypeOK /\ ObjectsAreSound /\ LocksAreSound /\ RemovedByHolder /\ LeftAlone /\ FilesAreOwned

-----------------------------------------------------------------------------
(* Objects. *)

(* The type of an object, without its records expanded. *)
LEMMA ObjectTyped ==
    ASSUME TypeOK, NEW f \in Objects
    PROVE  /\ obj[f] \in States
           /\ obj[f].exists \in BOOLEAN /\ obj[f].managedFileNameChanged \in BOOLEAN
           /\ obj[f].name \in Names \cup {NoName}
           /\ obj[f].lock \in [on : Names \cup {NoName}, held : BOOLEAN]
           /\ obj[f].lock.on \in Names \cup {NoName} /\ obj[f].lock.held \in BOOLEAN
           /\ obj[f].handle \in {"closed", "open", "unlinked"} /\ obj[f].dirty \in BOOLEAN
           /\ obj[f].step \in {"ready", "opened", "unlocked", "destroyed"}
<1>1. obj[f] \in States
  BY DEF TypeOK, States
<1> QED
  BY <1>1 DEF States

(* What there is before an object is made. *)
LEMMA GoneFacts ==
    /\ Gone \in States
    /\ ~Gone.exists /\ Gone.name = NoName /\ ~Gone.managedFileNameChanged
    /\ Gone.lock = NoLock /\ ~Gone.lock.held /\ Gone.lock.on = NoName
    /\ Gone.handle = "closed" /\ ~Gone.dirty /\ Gone.step = "ready"
BY DEF Gone, NoLock, States

(* A file that goes away takes the work on open handles with it. *)
LEMMA UnlinkedFacts ==
    ASSUME TypeOK, NEW n \in Names, NEW f \in Objects
    PROVE  /\ Unlinked(obj, n)[f] \in States
           /\ Unlinked(obj, n)[f].exists = obj[f].exists
           /\ Unlinked(obj, n)[f].name = obj[f].name
           /\ Unlinked(obj, n)[f].managedFileNameChanged = obj[f].managedFileNameChanged
           /\ Unlinked(obj, n)[f].lock = obj[f].lock
           /\ Unlinked(obj, n)[f].step = obj[f].step
           /\ Unlinked(obj, n)[f].handle = "open" => obj[f].handle = "open" /\ obj[f].name # n
           /\ Unlinked(obj, n)[f].dirty => (obj[f].dirty /\ Unlinked(obj, n)[f].handle = "open")
                                           \/ (obj[f].handle # "open" /\ obj[f].dirty)
<1>1. obj[f] \in States
  BY ObjectTyped
<1>2. CASE obj[f].name = n /\ obj[f].handle = "open"
  BY <1>1, <1>2 DEF Unlinked, States
<1>3. CASE ~(obj[f].name = n /\ obj[f].handle = "open")
  BY <1>1, <1>3 DEF Unlinked, States
<1> QED
  BY <1>2, <1>3

(* Constants are what they are assumed to be. *)
LEMMA Constants ==
    NoName \notin Names /\ Nobody \notin Objects /\ MaxCrashes \in Nat
BY AutoSaveAssumption

(* An object that does not exist has no file and does nothing. *)
LEMMA IdleObject ==
    ASSUME AutoInv, NEW f \in Objects, ~obj[f].exists
    PROVE  /\ obj[f].name = NoName /\ ~obj[f].lock.held /\ obj[f].step = "ready"
           /\ \A n \in Names : ~Holds(f, n) /\ ~Releases(f, n) /\ ~Owns(f, n)
<1>1. IsSound(f)
  BY DEF AutoInv, ObjectsAreSound
<1>2. /\ obj[f].step \in {"ready", "opened", "unlocked", "destroyed"}
      /\ obj[f].lock.held \in BOOLEAN
  BY ObjectTyped DEF AutoInv
<1>3. obj[f].name = NoName /\ ~obj[f].lock.held /\ obj[f].step = "ready"
  BY <1>1, <1>2 DEF IsSound
<1> QED
  BY <1>3, Constants DEF Holds, Releases, Owns

(* A step after which everybody holds, releases and owns what he did; a file   *)
(* that it makes is owned.                                                 *)
LEMMA HoldersStay ==
    ASSUME AutoInv, TypeOK', ObjectsAreSound', UNCHANGED <<locks, crashes, broken>>,
           disk \subseteq disk', raced \subseteq raced', left' \subseteq left,
           \A n \in disk' \ disk : \E g \in Objects : Owns(g, n)',
           \A g \in Objects, n \in Names :
               /\ Holds(g, n)' <=> Holds(g, n)
               /\ Releases(g, n)' <=> Releases(g, n)
               /\ Owns(g, n) => Owns(g, n)'
    PROVE  AutoInv'
<1>1. left \subseteq Names /\ disk \subseteq Names
  BY DEF AutoInv, TypeOK
<1>2. LocksAreSound'
  BY DEF AutoInv, LocksAreSound
<1>3. RemovedByHolder'
  BY DEF AutoInv, RemovedByHolder
<1>4. LeftAlone'
  BY <1>1 DEF AutoInv, LeftAlone
<1>5. FilesAreOwned'
  BY <1>1 DEF AutoInv, FilesAreOwned
<1> QED
  BY <1>2, <1>3, <1>4, <1>5 DEF AutoInv

(* A new value for one object keeps the type of all. *)
LEMMA ObjectSet ==
    ASSUME TypeOK, NEW f \in Objects, NEW state \in States,
           obj' = [obj EXCEPT ![f] = state]
    PROVE  /\ obj' \in [Objects -> States] /\ obj'[f] = state
           /\ \A g \in Objects : g # f => obj'[g] = obj[g]
BY DEF TypeOK, States

LEMMA TypeOKPrime ==
    ASSUME obj' \in [Objects -> States], disk' \subseteq Names, fresh' \subseteq Names,
           locks' \in [Names -> [by : Objects \cup {Nobody}, live : BOOLEAN, old : BOOLEAN]],
           crashes' \in 0 .. MaxCrashes,
           left' \subseteq Names, raced' \subseteq Names, broken' \subseteq Names
    PROVE  TypeOK'
BY DEF TypeOK, States

(* Objects come to be. *)
LEMMA CreateKeeps ==
    ASSUME AutoInv, NEW f \in Objects, NEW state \in States, ~obj[f].exists,
           state.exists, state.name = NoName => state.managedFileNameChanged,
           state.lock = NoLock, state.handle = "closed", ~state.dirty, state.step = "ready",
           obj' = [obj EXCEPT ![f] = state],
           UNCHANGED <<disk, fresh, locks, crashes, histories>>
    PROVE  AutoInv'
<1>1. ~state.lock.held /\ state.lock.on = NoName
  BY DEF NoLock
<1>2. /\ obj' \in [Objects -> States] /\ obj'[f] = state
      /\ \A g \in Objects : g # f => obj'[g] = obj[g]
  BY ObjectSet DEF AutoInv
<1>3. TypeOK'
  BY <1>2, TypeOKPrime DEF AutoInv, TypeOK, histories
<1>4. ObjectsAreSound'
  <2> SUFFICES ASSUME NEW g \in Objects PROVE IsSound(g)'
    BY DEF ObjectsAreSound
  <2>1. CASE g = f
    BY <1>1, <1>2, <2>1 DEF IsSound
  <2>2. CASE g # f
    BY <1>2, <2>2 DEF AutoInv, ObjectsAreSound, IsSound
  <2> QED
    BY <2>1, <2>2
<1>5. \A g \in Objects, m \in Names :
         /\ Holds(g, m)' <=> Holds(g, m)
         /\ Releases(g, m)' <=> Releases(g, m)
         /\ Owns(g, m) => Owns(g, m)'
  BY <1>1, <1>2, IdleObject DEF Holds, Releases, Owns
<1> QED
  BY <1>3, <1>4, <1>5, HoldersStay DEF histories

LEMMA ConstructKeeps ==
    ASSUME AutoInv, NEW f \in Objects, Construct(f)
    PROVE  AutoInv'
<1> DEFINE state == [Gone EXCEPT !.exists = TRUE, !.managedFileNameChanged = TRUE]
<1>1. /\ state \in States /\ state.exists /\ state.managedFileNameChanged
      /\ state.lock = NoLock /\ state.handle = "closed" /\ ~state.dirty /\ state.step = "ready"
  BY DEF Gone, NoLock, States
<1>2. obj' = [obj EXCEPT ![f] = state]
  BY DEF Construct
<1> HIDE DEF state
<1> QED
  BY <1>1, <1>2, CreateKeeps DEF Construct

LEMMA StaleFilesKeep ==
    ASSUME AutoInv, NEW f \in Objects, NEW n \in Names, staleFiles(f, n)
    PROVE  AutoInv'
<1> DEFINE state == [Gone EXCEPT !.exists = TRUE, !.name = n]
<1>1. /\ state \in States /\ state.exists /\ state.name = n
      /\ state.lock = NoLock /\ state.handle = "closed" /\ ~state.dirty /\ state.step = "ready"
  BY DEF Gone, NoLock, States
<1>2. obj' = [obj EXCEPT ![f] = state]
  BY DEF staleFiles
<1> HIDE DEF state
<1> QED
  BY <1>1, <1>2, CreateKeeps, Constants DEF staleFiles
-----------------------------------------------------------------------------
(* open(), write and remove. *)

LEMMA OpenFileKeeps ==
    ASSUME AutoInv, NEW f \in Objects, OpenFile(f)
    PROVE  AutoInv'
<1>1. /\ obj[f].exists /\ obj[f].step = "ready" /\ obj[f].handle = "closed"
      /\ UNCHANGED <<locks, crashes, left, broken>>
  BY DEF OpenFile, Ready, Free
<1>2. PICK n \in IF obj[f].managedFileNameChanged THEN fresh ELSE {obj[f].name} :
        /\ obj' = [obj EXCEPT ![f].name = n, ![f].managedFileNameChanged = FALSE,
                              ![f].handle = "open", ![f].step = "opened",
                              ![f].lock.on = IF @ = NoName THEN n ELSE @]
        /\ disk' = disk \cup {n}
        /\ fresh' = fresh \ {n}
        /\ raced' = IF Releasing(n) THEN raced \cup {n} ELSE raced
  BY DEF OpenFile
<1>3. IsSound(f) /\ obj[f] \in States /\ TypeOK
  BY ObjectTyped DEF AutoInv, ObjectsAreSound
<1>4. /\ n \in Names
      /\ obj[f].lock.held => obj[f].name = n /\ obj[f].lock.on = n
      /\ obj[f].lock.on # NoName => obj[f].lock.on = n
  BY <1>1, <1>3, ObjectTyped DEF IsSound, TypeOK
<1>5. /\ obj' \in [Objects -> States]
      /\ \A g \in Objects : g # f => obj'[g] = obj[g]
  BY <1>2, <1>3, <1>4 DEF TypeOK, States
<1>6. /\ obj'[f].exists = obj[f].exists /\ obj'[f].name = n
      /\ ~obj'[f].managedFileNameChanged
      /\ obj'[f].lock.held = obj[f].lock.held /\ obj'[f].lock.on = n
      /\ obj'[f].handle = "open" /\ obj'[f].dirty = obj[f].dirty /\ obj'[f].step = "opened"
  BY <1>2, <1>3, <1>4 DEF TypeOK, States
<1>7. TypeOK'
  BY <1>1, <1>2, <1>3, <1>4, <1>5, TypeOKPrime DEF TypeOK
<1>8. ObjectsAreSound'
  <2> SUFFICES ASSUME NEW g \in Objects PROVE IsSound(g)'
    BY DEF ObjectsAreSound
  <2>1. CASE g = f
    <3>1. ~obj[f].dirty
      BY <1>1, <1>3 DEF IsSound
    <3>2. ~obj'[f].dirty /\ n \in disk' /\ n # NoName /\ obj'[f].exists
      BY <1>1, <1>2, <1>4, <1>6, <3>1, Constants
    <3> QED
      BY <1>6, <2>1, <3>2 DEF IsSound
  <2>2. CASE g # f
    BY <1>2, <1>5, <2>2 DEF AutoInv, ObjectsAreSound, IsSound
  <2> QED
    BY <2>1, <2>2
<1>9. \A g \in Objects, m \in Names :
         /\ Holds(g, m)' <=> Holds(g, m)
         /\ Releases(g, m)' <=> Releases(g, m)
         /\ Owns(g, m) => Owns(g, m)'
  BY <1>1, <1>4, <1>5, <1>6 DEF Holds, Releases, Owns
<1>10. \A m \in disk' \ disk : \E g \in Objects : Owns(g, m)'
  BY <1>2, <1>6 DEF Owns
<1> QED
  BY <1>1, <1>2, <1>7, <1>8, <1>9, <1>10, HoldersStay

LEMMA WriteKeeps ==
    ASSUME AutoInv, NEW f \in Objects, Write(f)
    PROVE  AutoInv'
<1>1. /\ obj[f].exists /\ obj[f].step = "ready"
      /\ obj' = [obj EXCEPT ![f].dirty = (obj[f].handle = "open")]
      /\ UNCHANGED <<disk, fresh, locks, crashes, left, raced, broken>>
  BY DEF Write, Ready, Free, histories
<1>2. IsSound(f) /\ obj[f] \in States /\ TypeOK
  BY ObjectTyped DEF AutoInv, ObjectsAreSound
<1>3. /\ obj' \in [Objects -> States]
      /\ \A g \in Objects : g # f => obj'[g] = obj[g]
  <2>1. (obj[f].handle = "open") \in BOOLEAN
    OBVIOUS
  <2> QED
    BY <1>1, <1>2, <2>1 DEF TypeOK, States
<1>4. /\ obj'[f].exists = obj[f].exists /\ obj'[f].name = obj[f].name
      /\ obj'[f].managedFileNameChanged = obj[f].managedFileNameChanged
      /\ obj'[f].lock = obj[f].lock /\ obj'[f].handle = obj[f].handle
      /\ obj'[f].step = obj[f].step
      /\ obj'[f].dirty => obj[f].handle = "open"
  BY <1>1, <1>2 DEF TypeOK, States
<1>5. TypeOK'
  BY <1>1, <1>2, <1>3, TypeOKPrime DEF TypeOK
<1>6. ObjectsAreSound'
  <2> SUFFICES ASSUME NEW g \in Objects PROVE IsSound(g)'
    BY DEF ObjectsAreSound
  <2>1. CASE g = f
    BY <1>1, <1>2, <1>4, <2>1 DEF IsSound
  <2>2. CASE g # f
    BY <1>1, <1>3, <2>2 DEF AutoInv, ObjectsAreSound, IsSound
  <2> QED
    BY <2>1, <2>2
<1>7. \A g \in Objects, m \in Names :
         /\ Holds(g, m)' <=> Holds(g, m)
         /\ Releases(g, m)' <=> Releases(g, m)
         /\ Owns(g, m) => Owns(g, m)'
  BY <1>3, <1>4 DEF Holds, Releases, Owns
<1> QED
  BY <1>1, <1>5, <1>6, <1>7, HoldersStay
(* An object whose open() has come to the lock. *)
LEMMA OpenedFacts ==
    ASSUME AutoInv, NEW f \in Objects, obj[f].step = "opened"
    PROVE  /\ obj[f].lock.on \in Names /\ obj[f].name = obj[f].lock.on
           /\ obj[f].exists /\ ~obj[f].managedFileNameChanged /\ ~obj[f].dirty
           /\ obj[f].handle = "open" => obj[f].name \in disk
           /\ obj[f].handle \in {"closed", "open", "unlinked"}
           /\ obj[f] \in States /\ TypeOK
<1>1. IsSound(f) /\ TypeOK
  BY DEF AutoInv, ObjectsAreSound
<1> QED
  BY <1>1, ObjectTyped DEF IsSound

(* What open() does to the object when it has the lock, and when not. *)
LEMMA LockedFacts ==
    ASSUME AutoInv, NEW f \in Objects, obj[f].step = "opened",
           obj' = [obj EXCEPT ![f].lock.held = TRUE, ![f].step = "ready"]
    PROVE  /\ obj' \in [Objects -> States]
           /\ \A g \in Objects : g # f => obj'[g] = obj[g]
           /\ obj'[f].exists /\ obj'[f].name = obj[f].name /\ ~obj'[f].managedFileNameChanged
           /\ obj'[f].lock.held /\ obj'[f].lock.on = obj[f].name
           /\ obj'[f].handle = obj[f].handle /\ ~obj'[f].dirty /\ obj'[f].step = "ready"
           /\ UNCHANGED disk => ObjectsAreSound'
<1>1. /\ obj' \in [Objects -> States]
      /\ \A g \in Objects : g # f => obj'[g] = obj[g]
  BY OpenedFacts DEF TypeOK, States
<1>2. /\ obj'[f].exists /\ obj'[f].name = obj[f].name /\ ~obj'[f].managedFileNameChanged
      /\ obj'[f].lock.held /\ obj'[f].lock.on = obj[f].name
      /\ obj'[f].handle = obj[f].handle /\ ~obj'[f].dirty /\ obj'[f].step = "ready"
  BY OpenedFacts DEF TypeOK, States
<1>3. ASSUME UNCHANGED disk PROVE ObjectsAreSound'
  <2> SUFFICES ASSUME NEW g \in Objects PROVE IsSound(g)'
    BY DEF ObjectsAreSound
  <2>1. CASE g = f
    BY <1>2, <1>3, <2>1, OpenedFacts, Constants DEF IsSound
  <2>2. CASE g # f
    BY <1>1, <1>3, <2>2 DEF AutoInv, ObjectsAreSound, IsSound
  <2> QED
    BY <2>1, <2>2
<1> QED
  BY <1>1, <1>2, <1>3

LEMMA NotLockedFacts ==
    ASSUME AutoInv, NEW f \in Objects, obj[f].step = "opened", ~obj[f].lock.held,
           obj' = [obj EXCEPT ![f].handle = "closed", ![f].step = "ready"]
    PROVE  /\ obj' \in [Objects -> States]
           /\ \A g \in Objects : g # f => obj'[g] = obj[g]
           /\ obj'[f].name = obj[f].name /\ ~obj'[f].lock.held /\ obj'[f].step = "ready"
           /\ UNCHANGED disk => ObjectsAreSound'
<1>1. /\ obj' \in [Objects -> States]
      /\ \A g \in Objects : g # f => obj'[g] = obj[g]
  BY OpenedFacts DEF TypeOK, States
<1>2. /\ obj'[f].exists /\ obj'[f].name = obj[f].name /\ ~obj'[f].managedFileNameChanged
      /\ ~obj'[f].lock.held /\ obj'[f].lock.on = obj[f].name
      /\ obj'[f].handle = "closed" /\ ~obj'[f].dirty /\ obj'[f].step = "ready"
  BY OpenedFacts DEF TypeOK, States
<1>3. ASSUME UNCHANGED disk PROVE ObjectsAreSound'
  <2> SUFFICES ASSUME NEW g \in Objects PROVE IsSound(g)'
    BY DEF ObjectsAreSound
  <2>1. CASE g = f
    BY <1>2, <1>3, <2>1, OpenedFacts, Constants DEF IsSound
  <2>2. CASE g # f
    BY <1>1, <1>3, <2>2 DEF AutoInv, ObjectsAreSound, IsSound
  <2> QED
    BY <2>1, <2>2
<1> QED
  BY <1>1, <1>2, <1>3

(* The lock is taken: nobody else holds it, or it is taken from him for its age. *)
LEMMA LockTakenKeeps ==
    ASSUME AutoInv, NEW f \in Objects, NEW n \in Names,
           obj[f].step = "opened", ~obj[f].lock.held, n = obj[f].name, Takable(n),
           obj' = [obj EXCEPT ![f].lock.held = TRUE, ![f].step = "ready"],
           locks' = [locks EXCEPT ![n] = [by |-> f, live |-> TRUE, old |-> FALSE]],
           broken' = IF locks[n].live /\ locks[n].old THEN broken \cup {n} ELSE broken,
           left' = left \ {n},
           raced' = IF Releasing(n) THEN raced \cup {n} ELSE raced,
           UNCHANGED <<disk, fresh, crashes>>
    PROVE  AutoInv'
<1>1. /\ obj' \in [Objects -> States] /\ ObjectsAreSound'
      /\ \A g \in Objects : g # f => obj'[g] = obj[g]
      /\ obj'[f].name = n /\ obj'[f].lock.held /\ obj'[f].step = "ready"
  BY LockedFacts
<1>2. TypeOK /\ LocksAreSound /\ RemovedByHolder /\ LeftAlone /\ FilesAreOwned
  BY DEF AutoInv
<1>3. /\ locks' \in [Names -> [by : Objects \cup {Nobody}, live : BOOLEAN, old : BOOLEAN]]
      /\ locks'[n].by = f /\ locks'[n].live
      /\ \A m \in Names : m # n => locks'[m] = locks[m]
  BY <1>2 DEF TypeOK
<1>4. TypeOK'
  BY <1>1, <1>2, <1>3, TypeOKPrime DEF TypeOK
<1>5. \A g \in Objects, m \in Names :
         /\ Releases(g, m)' => Releases(g, m) /\ g # f
         /\ Holds(g, m)' <=> Holds(g, m) \/ (g = f /\ m = n)
         /\ Owns(g, m) => Owns(g, m)'
  BY <1>1 DEF Holds, Releases, Owns
<1>6. \A m \in Names : ~Holds(f, m)
  BY DEF Holds
<1>7. broken \subseteq broken' /\ raced \subseteq raced' /\ left' \subseteq left
  OBVIOUS
<1>8. LocksAreSound'
  <2>1. ASSUME NEW g \in Objects, NEW m \in Names, Holds(g, m)'
        PROVE  m \in broken' \/ (locks'[m].by = g /\ locks'[m].live)
    <3>1. CASE m # n
      BY <1>2, <1>3, <1>5, <1>7, <2>1, <3>1 DEF LocksAreSound
    <3>2. CASE m = n /\ g = f
      BY <1>3, <3>2
    <3>3. CASE m = n /\ g # f
      <4>1. n \in broken \/ (locks[n].by = g /\ locks[n].live)
        BY <1>2, <1>5, <2>1, <3>3 DEF LocksAreSound
      <4>2. n \in broken'
        BY <4>1, Constants DEF Takable
      <4> QED
        BY <3>3, <4>2
    <3> QED
      BY <3>1, <3>2, <3>3
  <2>2. ASSUME NEW g \in Objects, NEW m \in Names, locks'[m].live, locks'[m].by = g
        PROVE  Holds(g, m)'
    <3>1. CASE m = n
      BY <1>3, <1>5, <2>2, <3>1
    <3>2. CASE m # n
      BY <1>2, <1>3, <1>5, <2>2, <3>2 DEF LocksAreSound
    <3> QED
      BY <3>1, <3>2
  <2>3. \A m \in Names : locks'[m].live => locks'[m].by # Nobody
    BY <1>2, <1>3, Constants DEF LocksAreSound
  <2> QED
    BY <2>1, <2>2, <2>3 DEF LocksAreSound
<1>9. RemovedByHolder'
  <2> SUFFICES ASSUME NEW g \in Objects, NEW h \in Objects, NEW m \in Names,
                      Holds(g, m)', Releases(h, m)'
               PROVE  m \in raced' \cup broken'
    BY DEF RemovedByHolder
  <2>1. Releases(h, m) /\ h # f
    BY <1>5
  <2>2. CASE Holds(g, m)
    BY <1>2, <1>7, <2>1, <2>2 DEF RemovedByHolder
  <2>3. CASE g = f /\ m = n
    <3>1. obj[h].exists
      BY <2>1, Constants DEF Releases, AutoInv, ObjectsAreSound, IsSound
    <3>2. Releasing(n)
      BY <2>1, <2>3, <3>1 DEF Releases, Releasing, Using
    <3> QED
      BY <2>3, <3>2
  <2> QED
    BY <1>5, <2>2, <2>3
<1>10. LeftAlone'
  <2> SUFFICES ASSUME NEW m \in left', m \notin raced' \cup broken'
               PROVE  m \in disk' /\ \A g \in Objects : ~Holds(g, m)' /\ ~Releases(g, m)'
    BY DEF LeftAlone
  <2>1. m \in Names /\ m # n /\ m \in left /\ m \notin raced \cup broken
    BY <1>2, <1>7 DEF TypeOK
  <2> QED
    BY <1>2, <1>5, <2>1 DEF LeftAlone
<1>11. FilesAreOwned'
  BY <1>2, <1>5 DEF FilesAreOwned, TypeOK
<1> QED
  BY <1>1, <1>4, <1>8, <1>9, <1>10, <1>11 DEF AutoInv

LEMMA LockFileKeeps ==
    ASSUME AutoInv, NEW f \in Objects, LockFile(f)
    PROVE  AutoInv'
<1>0. PICK n \in Names : n = obj[f].name
  BY OpenedFacts DEF LockFile
<1>1. /\ obj[f].step = "opened" /\ obj[f].lock.on = n /\ obj[f].name = n /\ TypeOK
      /\ UNCHANGED <<disk, fresh, crashes>>
      /\ raced' = IF Releasing(n) THEN raced \cup {n} ELSE raced
  BY <1>0, OpenedFacts DEF LockFile
<1>2. CASE obj[f].lock.held
  <2>1. /\ obj' = [obj EXCEPT ![f].lock.held = TRUE, ![f].step = "ready"]
        /\ UNCHANGED <<locks, broken>> /\ left' = left \ {n}
    BY <1>1, <1>2 DEF LockFile
  <2>2. /\ obj' \in [Objects -> States] /\ ObjectsAreSound'
        /\ \A g \in Objects : g # f => obj'[g] = obj[g]
        /\ obj'[f].name = n /\ obj'[f].lock.held /\ obj'[f].step = "ready"
    BY <1>1, <2>1, LockedFacts
  <2>3. TypeOK'
    BY <1>1, <2>1, <2>2, TypeOKPrime DEF TypeOK
  <2>4. \A g \in Objects, m \in Names :
           /\ Holds(g, m)' <=> Holds(g, m)
           /\ Releases(g, m)' <=> Releases(g, m)
           /\ Owns(g, m) => Owns(g, m)'
    BY <1>1, <1>2, <2>2 DEF Holds, Releases, Owns
  <2> QED
    BY <1>1, <2>1, <2>2, <2>3, <2>4, HoldersStay
<1>3. CASE ~obj[f].lock.held /\ Takable(n)
  <2>1. /\ obj' = [obj EXCEPT ![f].lock.held = TRUE, ![f].step = "ready"]
        /\ locks' = [locks EXCEPT ![n] = [by |-> f, live |-> TRUE, old |-> FALSE]]
        /\ broken' = IF locks[n].live /\ locks[n].old THEN broken \cup {n} ELSE broken
        /\ left' = left \ {n}
    BY <1>1, <1>3 DEF LockFile
  <2> QED
    BY <1>1, <1>3, <2>1, LockTakenKeeps
<1>4. CASE ~obj[f].lock.held /\ ~Takable(n)
  <2>1. /\ obj' = [obj EXCEPT ![f].handle = "closed", ![f].step = "ready"]
        /\ UNCHANGED <<locks, broken, left>>
    BY <1>1, <1>4 DEF LockFile
  <2>2. /\ obj' \in [Objects -> States] /\ ObjectsAreSound'
        /\ \A g \in Objects : g # f => obj'[g] = obj[g]
        /\ obj'[f].name = n /\ ~obj'[f].lock.held /\ obj'[f].step = "ready"
    BY <1>1, <1>4, <2>1, NotLockedFacts
  <2>3. TypeOK'
    BY <1>1, <2>1, <2>2, TypeOKPrime DEF TypeOK
  <2>4. \A g \in Objects, m \in Names :
           /\ Holds(g, m)' <=> Holds(g, m)
           /\ Releases(g, m)' <=> Releases(g, m)
           /\ g # f => (Owns(g, m) <=> Owns(g, m)')
    BY <1>1, <1>4, <2>2 DEF Holds, Releases, Owns
  <2>5. PICK g \in Objects : Holds(g, n)
    BY <1>1, <1>4, Constants DEF Takable, AutoInv, LocksAreSound, TypeOK
  <2>6. g # f /\ Owns(g, n)'
    BY <1>4, <2>2, <2>5 DEF Holds, Owns
  <2>7. FilesAreOwned'
    <3> SUFFICES ASSUME crashes = 0, NEW m \in disk PROVE \E h \in Objects : Owns(h, m)'
      BY <1>1 DEF FilesAreOwned
    <3>1. PICK h \in Objects : Owns(h, m)
      BY DEF AutoInv, FilesAreOwned
    <3>2. CASE m = n
      BY <2>6, <3>2
    <3>3. CASE m # n
      BY <2>4, <3>1, <3>3, <1>1 DEF TypeOK, Owns
    <3> QED
      BY <3>2, <3>3
  <2>8. LocksAreSound' /\ RemovedByHolder'
    BY <1>1, <2>1, <2>4 DEF AutoInv, LocksAreSound, RemovedByHolder
  <2>9. LeftAlone'
    BY <1>1, <2>1, <2>4 DEF AutoInv, LeftAlone, TypeOK
  <2> QED
    BY <2>2, <2>3, <2>7, <2>8, <2>9 DEF AutoInv
<1> QED
  BY <1>2, <1>3, <1>4, <1>1, ObjectTyped
(* The document is saved: the file goes, the lock stays. *)
LEMMA RemoveFileKeeps ==
    ASSUME AutoInv, NEW f \in Objects, RemoveFile(f)
    PROVE  AutoInv'
<1>0. PICK n \in Names : n = obj[f].name
  BY ObjectTyped DEF RemoveFile, AutoInv, ObjectsAreSound, IsSound
<1>1. /\ obj[f].step = "ready" /\ obj[f].exists /\ obj[f].lock.held
      /\ obj' = [Unlinked(obj, n) EXCEPT ![f].handle = "closed", ![f].dirty = FALSE]
      /\ disk' = disk \ {n} /\ left' = left \ {n}
      /\ UNCHANGED <<fresh, locks, crashes, raced, broken>>
  BY <1>0 DEF RemoveFile, Ready, Free
<1>2. TypeOK /\ IsSound(f)
  BY DEF AutoInv, ObjectsAreSound
<1>3. PICK u \in [Objects -> States] : u = Unlinked(obj, n)
  BY <1>2, UnlinkedFacts DEF Unlinked
<1>4. /\ obj' \in [Objects -> States]
      /\ \A g \in Objects : g # f => obj'[g] = u[g]
      /\ obj'[f].exists = u[f].exists /\ obj'[f].name = u[f].name
      /\ obj'[f].managedFileNameChanged = u[f].managedFileNameChanged
      /\ obj'[f].lock = u[f].lock /\ obj'[f].step = u[f].step
      /\ obj'[f].handle = "closed" /\ ~obj'[f].dirty
  <2>1. obj' = [u EXCEPT ![f].handle = "closed", ![f].dirty = FALSE]
    BY <1>1, <1>3
  <2>2. obj' = [u EXCEPT ![f] = [u[f] EXCEPT !.handle = "closed", !.dirty = FALSE]]
    BY <2>1, <1>3 DEF States
  <2>3. u[f] \in States
    BY <1>3
  <2> QED
    BY <2>2, <2>3, <1>3 DEF States
<1>5. \A g \in Objects :
         /\ obj'[g].exists = obj[g].exists /\ obj'[g].name = obj[g].name
         /\ obj'[g].managedFileNameChanged = obj[g].managedFileNameChanged
         /\ obj'[g].lock = obj[g].lock /\ obj'[g].step = obj[g].step
         /\ obj'[g].handle = "open" => obj[g].handle = "open" /\ obj[g].name # n
  BY <1>2, <1>3, <1>4, UnlinkedFacts
<1>6. \A g \in Objects : obj'[g].dirty => obj[g].dirty /\ obj'[g].handle = "open"
  <2> SUFFICES ASSUME NEW g \in Objects, obj'[g].dirty
               PROVE  obj[g].dirty /\ obj'[g].handle = "open"
    OBVIOUS
  <2>1. g # f
    BY <1>4
  <2>2. IsSound(g)
    BY DEF AutoInv, ObjectsAreSound
  <2> QED
    BY <1>2, <1>3, <1>4, <2>1, <2>2, UnlinkedFacts DEF IsSound
<1>7. TypeOK'
  BY <1>1, <1>2, <1>4, TypeOKPrime DEF TypeOK
<1>8. ObjectsAreSound'
  <2> SUFFICES ASSUME NEW g \in Objects PROVE IsSound(g)'
    BY DEF ObjectsAreSound
  <2>1. IsSound(g)
    BY DEF AutoInv, ObjectsAreSound
  <2>2. ASSUME obj'[g].handle = "open" PROVE obj'[g].name \in disk'
    <3>1. obj[g].handle = "open" /\ obj[g].name # n /\ obj'[g].name = obj[g].name
      BY <1>5, <2>2
    <3>2. obj[g].name \in disk
      BY <2>1, <3>1 DEF IsSound
    <3>3. disk' = disk \ {n}
      BY <1>1
    <3> QED
      BY <3>1, <3>2, <3>3
  <2> QED
    BY <1>5, <1>6, <2>1, <2>2 DEF IsSound
<1>9. \A g \in Objects, m \in Names :
         /\ Holds(g, m)' <=> Holds(g, m)
         /\ Releases(g, m)' <=> Releases(g, m)
         /\ Owns(g, m)' <=> Owns(g, m)
  BY <1>5 DEF Holds, Releases, Owns
<1>10. LocksAreSound' /\ RemovedByHolder'
  BY <1>1, <1>9 DEF AutoInv, LocksAreSound, RemovedByHolder
<1>11. LeftAlone' /\ FilesAreOwned'
  BY <1>1, <1>2, <1>9 DEF AutoInv, LeftAlone, FilesAreOwned, TypeOK
<1> QED
  BY <1>7, <1>8, <1>10, <1>11 DEF AutoInv
-----------------------------------------------------------------------------
(* releaseLock() and its callers. *)

(* An object that holds the lock, at rest. *)
LEMMA HolderFacts ==
    ASSUME AutoInv, NEW f \in Objects, obj[f].lock.held
    PROVE  /\ obj[f].name \in Names /\ obj[f].lock.on = obj[f].name /\ obj[f].exists
           /\ Holds(f, obj[f].name) /\ IsSound(f) /\ TypeOK /\ obj[f] \in States
<1>1. IsSound(f) /\ TypeOK
  BY DEF AutoInv, ObjectsAreSound
<1> QED
  BY <1>1, ObjectTyped DEF IsSound, Holds

(* First half, with a lock: the lock file goes. *)
LEMMA UnlockKeeps ==
    ASSUME AutoInv, NEW f \in Objects, NEW n \in Names, NEW changed \in BOOLEAN,
           NEW step \in {"unlocked", "destroyed"},
           obj[f].lock.held, obj[f].step = "ready", n = obj[f].name,
           obj' = [obj EXCEPT ![f].lock = NoLock, ![f].managedFileNameChanged = changed,
                              ![f].step = step],
           locks' = [locks EXCEPT ![n] = NoLockFile],
           UNCHANGED <<disk, fresh, crashes, histories>>
    PROVE  AutoInv'
<1>1. /\ TypeOK /\ LocksAreSound /\ RemovedByHolder /\ LeftAlone /\ FilesAreOwned
      /\ UNCHANGED <<left, raced, broken>>
  BY DEF AutoInv, histories
<1>2. /\ obj' \in [Objects -> States]
      /\ \A g \in Objects : g # f => obj'[g] = obj[g]
  BY <1>1 DEF TypeOK, States, NoLock
<1>3. /\ obj'[f].exists /\ obj'[f].name = n /\ obj'[f].lock = NoLock
      /\ ~obj'[f].lock.held /\ obj'[f].lock.on = NoName
      /\ obj'[f].handle = obj[f].handle /\ obj'[f].dirty = obj[f].dirty /\ obj'[f].step = step
  BY <1>1, HolderFacts DEF TypeOK, States, NoLock
<1>4. /\ locks' \in [Names -> [by : Objects \cup {Nobody}, live : BOOLEAN, old : BOOLEAN]]
      /\ ~locks'[n].live /\ \A m \in Names : m # n => locks'[m] = locks[m]
  BY <1>1 DEF TypeOK, NoLockFile
<1>5. TypeOK'
  BY <1>1, <1>2, <1>4, TypeOKPrime DEF TypeOK
<1>6. ObjectsAreSound'
  <2> SUFFICES ASSUME NEW g \in Objects PROVE IsSound(g)'
    BY DEF ObjectsAreSound
  <2>1. CASE g = f
    <3>1. /\ obj[f].handle = "open" => n \in disk
          /\ obj[f].dirty => obj[f].handle = "open"
      BY HolderFacts DEF IsSound
    <3>2. n # NoName /\ disk' = disk /\ step # "opened"
      BY Constants
    <3> QED
      BY <1>3, <2>1, <3>1, <3>2 DEF IsSound
  <2>2. CASE g # f
    BY <1>2, <2>2 DEF AutoInv, ObjectsAreSound, IsSound
  <2> QED
    BY <2>1, <2>2
<1>7. Holds(f, n) /\ \A m \in Names : Holds(f, m) => m = n
  BY DEF Holds
<1>8. \A g \in Objects, m \in Names :
         /\ Holds(g, m)' <=> Holds(g, m) /\ g # f
         /\ Releases(g, m)' => Releases(g, m) \/ (g = f /\ m = n)
         /\ Owns(g, m) => Owns(g, m)'
  BY <1>2, <1>3 DEF Holds, Releases, Owns
<1>9. \A g \in Objects : Holds(g, n)' => n \in broken
  BY <1>1, <1>7, <1>8 DEF LocksAreSound
<1>10. LocksAreSound'
  <2>1. ASSUME NEW g \in Objects, NEW m \in Names, Holds(g, m)'
        PROVE  m \in broken' \/ (locks'[m].by = g /\ locks'[m].live)
    BY <1>1, <1>4, <1>8, <1>9, <2>1 DEF LocksAreSound
  <2>2. ASSUME NEW g \in Objects, NEW m \in Names, locks'[m].live, locks'[m].by = g
        PROVE  Holds(g, m)'
    BY <1>1, <1>4, <1>7, <1>8, <2>2 DEF LocksAreSound
  <2>3. \A m \in Names : locks'[m].live => locks'[m].by # Nobody
    BY <1>1, <1>4 DEF LocksAreSound
  <2> QED
    BY <2>1, <2>2, <2>3 DEF LocksAreSound
<1>11. RemovedByHolder'
  BY <1>1, <1>8, <1>9 DEF RemovedByHolder
<1>12. LeftAlone'
  BY <1>1, <1>7, <1>8 DEF LeftAlone, TypeOK
<1>13. FilesAreOwned'
  BY <1>1, <1>8 DEF FilesAreOwned, TypeOK
<1> QED
  BY <1>5, <1>6, <1>10, <1>11, <1>12, <1>13 DEF AutoInv

(* Without a lock: the name is to be changed, of an object on no file's lock. *)
LEMMA RenameKeeps ==
    ASSUME AutoInv, NEW f \in Objects, obj[f].lock = NoLock,
           obj' = [obj EXCEPT ![f] = [@ EXCEPT !.managedFileNameChanged = TRUE]],
           UNCHANGED <<disk, fresh, locks, crashes, histories>>
    PROVE  AutoInv'
<1>1. /\ TypeOK /\ obj[f] \in States /\ UNCHANGED <<left, raced, broken>>
      /\ obj[f].lock.on = NoName
  BY ObjectTyped DEF AutoInv, histories, NoLock
<1>2. /\ obj' \in [Objects -> States]
      /\ \A g \in Objects : g # f => obj'[g] = obj[g]
  BY <1>1 DEF TypeOK, States
<1>3. /\ obj'[f].exists = obj[f].exists /\ obj'[f].name = obj[f].name
      /\ obj'[f].managedFileNameChanged /\ obj'[f].lock = obj[f].lock
      /\ obj'[f].handle = obj[f].handle /\ obj'[f].dirty = obj[f].dirty
      /\ obj'[f].step = obj[f].step
  BY <1>1 DEF TypeOK, States
<1>4. TypeOK'
  BY <1>1, <1>2, TypeOKPrime DEF TypeOK
<1>5. ObjectsAreSound'
  <2> SUFFICES ASSUME NEW g \in Objects PROVE IsSound(g)'
    BY DEF ObjectsAreSound
  <2>1. IsSound(g) /\ disk' = disk
    BY DEF AutoInv, ObjectsAreSound
  <2>2. CASE g = f
    BY <1>1, <1>3, <2>1, <2>2 DEF IsSound
  <2>3. CASE g # f
    BY <1>2, <2>1, <2>3 DEF IsSound
  <2> QED
    BY <2>2, <2>3
<1>6. \A g \in Objects, m \in Names :
         /\ Holds(g, m)' <=> Holds(g, m)
         /\ Releases(g, m)' <=> Releases(g, m)
         /\ Owns(g, m) => Owns(g, m)'
  BY <1>2, <1>3 DEF Holds, Releases, Owns
<1> QED
  BY <1>1, <1>4, <1>5, <1>6, HoldersStay

(* Objects that end at rest and without a lock. *)
LEMMA EndKeeps ==
    ASSUME AutoInv, NEW f \in Objects, ~obj[f].lock.held, obj[f].step = "ready",
           obj' = [obj EXCEPT ![f] = Gone],
           UNCHANGED <<disk, fresh, locks, crashes, histories>>
    PROVE  AutoInv'
<1>1. TypeOK /\ UNCHANGED <<left, raced, broken>>
  BY DEF AutoInv, histories
<1>2. /\ obj' \in [Objects -> States] /\ obj'[f] = Gone
      /\ \A g \in Objects : g # f => obj'[g] = obj[g]
  BY <1>1, GoneFacts, ObjectSet
<1>3. TypeOK'
  BY <1>1, <1>2, TypeOKPrime DEF TypeOK
<1>4. ObjectsAreSound'
  <2> SUFFICES ASSUME NEW g \in Objects PROVE IsSound(g)'
    BY DEF ObjectsAreSound
  <2>1. CASE g = f
    BY <1>2, <2>1, GoneFacts DEF IsSound
  <2>2. CASE g # f
    BY <1>2, <2>2 DEF AutoInv, ObjectsAreSound, IsSound
  <2> QED
    BY <2>1, <2>2
<1>5. \A g \in Objects, m \in Names :
         /\ Holds(g, m)' <=> Holds(g, m)
         /\ Releases(g, m)' <=> Releases(g, m)
         /\ Owns(g, m) => Owns(g, m)'
  BY <1>2, GoneFacts DEF Holds, Releases, Owns
<1> QED
  BY <1>1, <1>3, <1>4, <1>5, HoldersStay

LEMMA ReleaseKeeps ==
    ASSUME AutoInv, NEW f \in Objects, NEW changed \in BOOLEAN, NEW exists \in BOOLEAN,
           Ready(f), releaseLock(f, changed, exists),
           ~obj[f].lock.held /\ exists => changed /\ obj[f].lock = NoLock,
           UNCHANGED <<disk, fresh, crashes, histories>>
    PROVE  AutoInv'
<1>1. obj[f].step = "ready" /\ obj[f].lock.held \in BOOLEAN
  BY ObjectTyped DEF Ready, Free, AutoInv
<1>2. CASE obj[f].lock.held
  <2>1. PICK n \in Names : n = obj[f].name /\ n = obj[f].lock.on
    BY <1>2, HolderFacts
  <2>2. PICK step \in {"unlocked", "destroyed"} : step = IF exists THEN "unlocked" ELSE "destroyed"
    OBVIOUS
  <2>3. /\ obj' = [obj EXCEPT ![f].lock = NoLock, ![f].managedFileNameChanged = changed,
                              ![f].step = step]
        /\ locks' = [locks EXCEPT ![n] = NoLockFile]
    BY <1>2, <2>1, <2>2 DEF releaseLock
  <2> QED
    BY <1>1, <1>2, <2>1, <2>3, UnlockKeeps
<1>3. CASE ~obj[f].lock.held /\ exists
  <2>1. /\ obj' = [obj EXCEPT ![f] = [@ EXCEPT !.managedFileNameChanged = TRUE]]
        /\ UNCHANGED locks
    BY <1>3 DEF releaseLock
  <2> QED
    BY <1>3, <2>1, RenameKeeps
<1>4. CASE ~obj[f].lock.held /\ ~exists
  <2>1. obj' = [obj EXCEPT ![f] = Gone] /\ UNCHANGED locks
    BY <1>4 DEF releaseLock
  <2> QED
    BY <1>1, <1>4, <2>1, EndKeeps
<1> QED
  BY <1>1, <1>2, <1>3, <1>4

LEMMA CallersKeep ==
    ASSUME AutoInv, ~ReusesFailed, NEW f \in Objects,
           Release(f) \/ setManagedFile(f) \/ Destroy(f)
    PROVE  AutoInv'
<1>1. CASE Release(f)
  <2>1. obj[f].managedFileNameChanged \in BOOLEAN
    BY ObjectTyped DEF AutoInv
  <2> QED
    BY <1>1, <2>1, ReleaseKeeps DEF Release
<1>2. CASE setManagedFile(f)
  BY <1>2, ReleaseKeeps DEF setManagedFile
<1>3. CASE Destroy(f)
  BY <1>3, ReleaseKeeps DEF Destroy
<1> QED
  BY <1>1, <1>2, <1>3
(* Second half: the file goes, and the object with it or not. *)
LEMMA RemoveReleasedKeeps ==
    ASSUME AutoInv, NEW f \in Objects, RemoveReleased(f)
    PROVE  AutoInv'
<1>1. TypeOK /\ IsSound(f) /\ obj[f].step \in {"unlocked", "destroyed"}
  BY DEF AutoInv, ObjectsAreSound, RemoveReleased
<1>2. PICK n \in Names : n = obj[f].name
  BY <1>1, ObjectTyped DEF IsSound
<1>3. PICK u \in [Objects -> States] : u = Unlinked(obj, n)
  BY <1>1, UnlinkedFacts DEF Unlinked
<1> DEFINE state == IF obj[f].step = "destroyed" THEN Gone
                    ELSE [u[f] EXCEPT !.handle = "closed", !.dirty = FALSE, !.step = "ready"]
<1>4. /\ obj' = [u EXCEPT ![f] = state]
      /\ disk' = disk \ {n} /\ UNCHANGED <<fresh, locks, crashes, left, raced, broken>>
  BY <1>2, <1>3 DEF RemoveReleased, histories
<1>5. /\ state \in States /\ ~state.lock.held /\ state.lock = NoLock /\ state.step = "ready"
      /\ state.handle = "closed" /\ ~state.dirty
      /\ state = Gone \/ (state.exists /\ state.name = n)
  <2>1. u[f] \in States /\ u[f].lock = NoLock /\ u[f].name = n /\ u[f].exists
    BY <1>1, <1>2, <1>3, Constants, UnlinkedFacts DEF IsSound
  <2>2. CASE obj[f].step = "destroyed"
    BY <2>2, GoneFacts
  <2>3. CASE obj[f].step # "destroyed"
    <3> DEFINE kept == [u[f] EXCEPT !.handle = "closed", !.dirty = FALSE, !.step = "ready"]
    <3>1. /\ kept \in States /\ kept.step = "ready" /\ kept.handle = "closed" /\ ~kept.dirty
          /\ kept.lock = u[f].lock /\ kept.exists = u[f].exists /\ kept.name = u[f].name
      BY <2>1 DEF States
    <3>2. state = kept
      BY <2>3
    <3> HIDE DEF state, kept
    <3>3. ~NoLock.held
      BY DEF NoLock
    <3> QED
      BY <2>1, <3>1, <3>2, <3>3
  <2> QED
    BY <2>2, <2>3
<1> HIDE DEF state
<1>6. /\ obj' \in [Objects -> States] /\ obj'[f] = state
      /\ \A g \in Objects : g # f => obj'[g] = u[g]
  BY <1>3, <1>4, <1>5
<1>7. \A g \in Objects : g # f =>
         /\ obj'[g].exists = obj[g].exists /\ obj'[g].name = obj[g].name
         /\ obj'[g].managedFileNameChanged = obj[g].managedFileNameChanged
         /\ obj'[g].lock = obj[g].lock /\ obj'[g].step = obj[g].step
         /\ obj'[g].handle = "open" => obj[g].handle = "open" /\ obj[g].name # n
  BY <1>1, <1>3, <1>6, UnlinkedFacts
<1>8. TypeOK'
  BY <1>1, <1>4, <1>6, TypeOKPrime DEF TypeOK
<1>9. ObjectsAreSound'
  <2> SUFFICES ASSUME NEW g \in Objects PROVE IsSound(g)'
    BY DEF ObjectsAreSound
  <2>1. CASE g = f
    <3>1. CASE state = Gone
      BY <1>6, <2>1, <3>1, GoneFacts DEF IsSound
    <3>2. CASE state.exists /\ state.name = n
      BY <1>5, <1>6, <2>1, <3>2, Constants DEF IsSound, NoLock
    <3> QED
      BY <1>5, <3>1, <3>2
  <2>2. CASE g # f
    <3>1. IsSound(g)
      BY DEF AutoInv, ObjectsAreSound
    <3>2. ASSUME obj'[g].handle = "open" PROVE obj'[g].name \in disk'
      <4>1. obj[g].handle = "open" /\ obj[g].name # n /\ obj'[g].name = obj[g].name
        BY <1>7, <2>2, <3>2
      <4>2. obj[g].name \in disk
        BY <3>1, <4>1 DEF IsSound
      <4>3. disk' = disk \ {n}
        BY <1>4
      <4> QED
        BY <4>1, <4>2, <4>3
    <3>3. obj'[g].dirty => obj[g].dirty /\ obj'[g].handle = "open"
      BY <1>1, <1>3, <1>6, <2>2, <3>1, UnlinkedFacts DEF IsSound
    <3> QED
      BY <1>7, <2>2, <3>1, <3>2, <3>3 DEF IsSound
  <2> QED
    BY <2>1, <2>2
<1>10. \A g \in Objects, m \in Names :
         /\ Holds(g, m)' <=> Holds(g, m)
         /\ Releases(g, m)' => Releases(g, m)
         /\ m # n => (Owns(g, m) => Owns(g, m)')
  <2>1. ~obj[f].lock.held
    BY <1>1 DEF IsSound, NoLock
  <2> QED
    BY <1>2, <1>5, <1>6, <1>7, <2>1 DEF Holds, Releases, Owns
<1>11. Releases(f, n)
  BY <1>1, <1>2 DEF Releases
<1>12. LocksAreSound' /\ RemovedByHolder'
  BY <1>4, <1>10 DEF AutoInv, LocksAreSound, RemovedByHolder
<1>13. LeftAlone'
  BY <1>1, <1>4, <1>10, <1>11 DEF AutoInv, LeftAlone, TypeOK
<1>14. FilesAreOwned'
  BY <1>1, <1>4, <1>10 DEF AutoInv, FilesAreOwned, TypeOK
<1> QED
  BY <1>8, <1>9, <1>12, <1>13, <1>14 DEF AutoInv

-----------------------------------------------------------------------------
(* What happens to a process. *)

LEMMA CrashKeeps ==
    ASSUME AutoInv, NEW p, Crash(p)
    PROVE  AutoInv'
<1> DEFINE his == {f \in Objects : Process[f] = p}
           lost == {obj[f].name : f \in {g \in his : obj[g].dirty /\ obj[g].lock.held}}
<1>1. /\ TypeOK /\ LocksAreSound /\ RemovedByHolder /\ LeftAlone
      /\ crashes < MaxCrashes /\ crashes' = crashes + 1
      /\ obj' = [f \in Objects |-> IF f \in his THEN Gone ELSE obj[f]]
      /\ locks' = [n \in Names |-> IF locks[n].by \in his
                                   THEN [locks[n] EXCEPT !.live = FALSE] ELSE locks[n]]
      /\ left' = left \cup lost
      /\ UNCHANGED <<disk, fresh, raced, broken>>
  BY DEF Crash, AutoInv
<1>2. /\ \A f \in his : obj'[f] = Gone
      /\ \A f \in Objects : f \notin his => obj'[f] = obj[f]
      /\ obj' \in [Objects -> States]
  BY <1>1, GoneFacts DEF TypeOK, States
<1>3. /\ \A n \in Names : /\ locks'[n].by = locks[n].by
                          /\ locks'[n].live <=> locks[n].live /\ locks[n].by \notin his
      /\ locks' \in [Names -> [by : Objects \cup {Nobody}, live : BOOLEAN, old : BOOLEAN]]
  <2> HIDE DEF his
  <2> DEFINE Files == [by : Objects \cup {Nobody}, live : BOOLEAN, old : BOOLEAN]
             dead(n) == [locks[n] EXCEPT !.live = FALSE]
  <2>1. \A n \in Names : locks[n] \in Files
    BY <1>1 DEF TypeOK
  <2>2. \A n \in Names : dead(n) \in Files /\ dead(n).by = locks[n].by /\ ~dead(n).live
    BY <2>1
  <2>3. \A n \in Names : locks'[n] = IF locks[n].by \in his THEN dead(n) ELSE locks[n]
    BY <1>1
  <2> HIDE DEF dead, Files
  <2>4. \A n \in Names : locks'[n] \in Files
    BY <2>1, <2>2, <2>3
  <2>5. locks' \in [Names -> Files]
    BY <1>1, <2>4
  <2> QED
    BY <2>2, <2>3, <2>5 DEF Files
<1>4. \A n \in lost : /\ n \in Names /\ n \in disk
                      /\ \E f \in his : Holds(f, n)
  <2> SUFFICES ASSUME NEW f \in his, obj[f].dirty, obj[f].lock.held
               PROVE  obj[f].name \in Names /\ obj[f].name \in disk /\ Holds(f, obj[f].name)
    OBVIOUS
  <2>1. obj[f].name \in Names /\ Holds(f, obj[f].name) /\ IsSound(f)
    BY HolderFacts
  <2> QED
    BY <2>1 DEF IsSound
<1>5. TypeOK'
  <2>1. crashes' \in 0 .. MaxCrashes
    BY <1>1, Constants DEF TypeOK
  <2>2. left' \subseteq Names
    BY <1>1, <1>4 DEF TypeOK
  <2> QED
    BY <1>1, <1>2, <1>3, <2>1, <2>2, TypeOKPrime DEF TypeOK
<1> HIDE DEF lost
<1>6. ObjectsAreSound'
  <2> SUFFICES ASSUME NEW g \in Objects PROVE IsSound(g)'
    BY DEF ObjectsAreSound
  <2>1. CASE g \in his
    BY <1>2, <2>1, GoneFacts DEF IsSound
  <2>2. CASE g \notin his
    BY <1>1, <1>2, <2>2 DEF AutoInv, ObjectsAreSound, IsSound
  <2> QED
    BY <2>1, <2>2
<1>7. \A g \in Objects, n \in Names :
         /\ Holds(g, n)' <=> Holds(g, n) /\ g \notin his
         /\ Releases(g, n)' <=> Releases(g, n) /\ g \notin his
  BY <1>2, GoneFacts DEF Holds, Releases
<1> HIDE DEF his
<1>8. LocksAreSound'
  <2>1. ASSUME NEW g \in Objects, NEW n \in Names, Holds(g, n)'
        PROVE  n \in broken' \/ (locks'[n].by = g /\ locks'[n].live)
    BY <1>1, <1>3, <1>7, <2>1 DEF LocksAreSound
  <2>2. ASSUME NEW g \in Objects, NEW n \in Names, locks'[n].live, locks'[n].by = g
        PROVE  Holds(g, n)'
    BY <1>1, <1>3, <1>7, <2>2 DEF LocksAreSound
  <2>3. \A n \in Names : locks'[n].live => locks'[n].by # Nobody
    BY <1>1, <1>3 DEF LocksAreSound
  <2> QED
    BY <2>1, <2>2, <2>3 DEF LocksAreSound
<1>9. RemovedByHolder'
  BY <1>1, <1>7 DEF RemovedByHolder
<1>10. LeftAlone'
  <2> SUFFICES ASSUME NEW n \in left', n \notin raced \cup broken
               PROVE  n \in disk /\ \A g \in Objects : ~Holds(g, n)' /\ ~Releases(g, n)'
    BY <1>1 DEF LeftAlone
  <2>1. CASE n \in left
    BY <1>1, <1>7, <2>1 DEF LeftAlone, TypeOK
  <2>2. CASE n \in lost
    <3>1. PICK f \in his : Holds(f, n) /\ n \in Names /\ n \in disk /\ f \in Objects
      BY <1>4, <2>2 DEF his
    <3>2. ASSUME NEW g \in Objects, Holds(g, n)' PROVE FALSE
      BY <1>1, <1>7, <3>1, <3>2 DEF LocksAreSound
    <3>3. ASSUME NEW g \in Objects, Releases(g, n)' PROVE FALSE
      BY <1>1, <1>7, <3>1, <3>3 DEF RemovedByHolder
    <3> QED
      BY <3>1, <3>2, <3>3
  <2> QED
    BY <1>1, <2>1, <2>2
<1>11. FilesAreOwned'
  BY <1>1, Constants DEF TypeOK, FilesAreOwned
<1> QED
  BY <1>5, <1>6, <1>8, <1>9, <1>10, <1>11 DEF AutoInv

LEMMA AgeKeeps ==
    ASSUME AutoInv, NEW n \in Names, Age(n)
    PROVE  AutoInv'
<1>1. /\ TypeOK /\ locks' = [locks EXCEPT ![n].old = TRUE]
      /\ UNCHANGED <<obj, disk, fresh, crashes, left, raced, broken>>
  BY DEF AutoInv, Age, histories
<1>2. /\ locks' \in [Names -> [by : Objects \cup {Nobody}, live : BOOLEAN, old : BOOLEAN]]
      /\ \A m \in Names : locks'[m].by = locks[m].by /\ locks'[m].live = locks[m].live
  BY <1>1 DEF TypeOK
<1>3. TypeOK'
  BY <1>1, <1>2 DEF TypeOK
<1>4. ObjectsAreSound' /\ RemovedByHolder' /\ LeftAlone' /\ FilesAreOwned'
  BY <1>1 DEF AutoInv, ObjectsAreSound, RemovedByHolder, LeftAlone, FilesAreOwned,
              IsSound, Holds, Releases, Owns
<1>5. LocksAreSound'
  BY <1>1, <1>2 DEF AutoInv, LocksAreSound, Holds
<1> QED
  BY <1>3, <1>4, <1>5 DEF AutoInv

-----------------------------------------------------------------------------
LEMMA AutoInitKeeps == AutoInit => AutoInv
<1> SUFFICES ASSUME AutoInit PROVE AutoInv
  OBVIOUS
<1>1. TypeOK
  BY GoneFacts, Constants DEF AutoInit, TypeOK, States, NoLockFile
<1>2. \A f \in Objects : obj[f] = Gone
  BY DEF AutoInit
<1>3. ObjectsAreSound
  BY <1>2, GoneFacts DEF ObjectsAreSound, IsSound
<1>4. LocksAreSound /\ RemovedByHolder
  BY <1>2, GoneFacts DEF LocksAreSound, RemovedByHolder, Holds, AutoInit, NoLockFile
<1>5. LeftAlone /\ FilesAreOwned
  BY DEF LeftAlone, FilesAreOwned, AutoInit
<1> QED
  BY <1>1, <1>3, <1>4, <1>5 DEF AutoInv

LEMMA AutoNextKeeps ==
    ASSUME ~ReusesFailed, AutoInv, [AutoNext]_autoVars
    PROVE  AutoInv'
<1>1. ASSUME NEW f \in Objects,
             \/ Construct(f) \/ OpenFile(f) \/ LockFile(f) \/ Write(f) \/ RemoveFile(f)
             \/ Release(f) \/ setManagedFile(f) \/ Destroy(f) \/ RemoveReleased(f)
             \/ \E n \in Names : staleFiles(f, n)
      PROVE  AutoInv'
  BY <1>1, ConstructKeeps, OpenFileKeeps, LockFileKeeps, WriteKeeps, RemoveFileKeeps,
     CallersKeep, RemoveReleasedKeeps, StaleFilesKeep
<1>2. ASSUME NEW p \in AutoProcesses, Crash(p) PROVE AutoInv'
  BY <1>2, CrashKeeps
<1>3. ASSUME NEW n \in Names, Age(n) PROVE AutoInv'
  BY <1>3, AgeKeeps
<1>4. CASE UNCHANGED autoVars
  BY <1>4 DEF autoVars, histories, AutoInv, TypeOK, ObjectsAreSound, IsSound, LocksAreSound,
              RemovedByHolder, LeftAlone, FilesAreOwned, Holds, Releases, Owns
<1> QED
  BY <1>1, <1>2, <1>3, <1>4 DEF AutoNext

(* Two objects, in one process or in several, never have the same auto-save   *)
(* file open with its lock held, unless the lock was taken from a live      *)
(* process for its age (kautosavefile.cpp, open()).                        *)
THEOREM EditedOnlyByOne == ASSUME ~ReusesFailed PROVE AutoSpec => []EditedByOne
<1>1. AutoInv => EditedByOne
  <2> SUFFICES ASSUME AutoInv, NEW f \in Objects, NEW g \in Objects,
                      f # g, Opened(f), Opened(g), obj[f].name = obj[g].name
               PROVE  obj[f].name \in broken
    BY DEF EditedByOne
  <2>1. Holds(f, obj[f].name) /\ Holds(g, obj[f].name) /\ obj[f].name \in Names
    BY HolderFacts DEF Opened
  <2> QED
    BY <2>1 DEF AutoInv, LocksAreSound
<1> QED
  BY <1>1, AutoInitKeeps, AutoNextKeeps, PTL DEF AutoSpec

(* The unsaved work of a process that crashed stays until it is taken over,    *)
(* however others look at it, release their own files and crash, unless the  *)
(* file was opened between the halves of a releaseLock() or its lock taken   *)
(* from a live process.                                                    *)
THEOREM CrashedWorkIsKept == ASSUME ~ReusesFailed PROVE AutoSpec => []CrashKeepsWork
<1>1. AutoInv => CrashKeepsWork
  BY DEF AutoInv, LeftAlone, CrashKeepsWork
<1> QED
  BY <1>1, AutoInitKeeps, AutoNextKeeps, PTL DEF AutoSpec

(* Without a crash every file on the disk is one that a live object works on.  *)
THEOREM NoFileIsLeft == ASSUME ~ReusesFailed PROVE AutoSpec => []NothingLeftBehind
<1>1. AutoInv => NothingLeftBehind
  <2> SUFFICES ASSUME AutoInv, crashes = 0, NEW n \in disk PROVE Using(n) # {}
    BY DEF NothingLeftBehind
  <2>1. PICK f \in Objects : Owns(f, n)
    BY DEF AutoInv, FilesAreOwned
  <2>2. n \in Names /\ IsSound(f)
    BY DEF AutoInv, TypeOK, ObjectsAreSound
  <2> QED
    BY <2>1, <2>2, Constants DEF Owns, IsSound, Using
<1> QED
  BY <1>1, AutoInitKeeps, AutoNextKeeps, PTL DEF AutoSpec

-----------------------------------------------------------------------------
(* The about data of the application, for any fields and any AppStream files. *)

AboutSpec == AboutInit /\ [][AboutNext]_aboutVars

Keys == {"Unknown", "GPL_V3"} \cup {file.license : file \in AppStreamFiles}
Owners == {"appData", "mine", "none", "other"}
Licenses == [key : Keys, aboutData : Owners]
AboutStates == [fields : [Fields -> FieldValues], licenses : Seq(Licenses)]

(* An object that has all of its fields, a first licence, and licences that    *)
(* refer to what they may refer to.                                        *)
Whole(data, owner) == data \in AboutStates /\ Owned(data, owner)

(* AboutSound with the types that its setters and its copies rely on.  The    *)
(* properties of the Q*Application are values that its fields can have.     *)
AboutInv ==
    /\ appData # NoData => Whole(appData, "appData")
    /\ mine # NoData => Whole(mine, "mine")
    /\ app \in [Fields -> FieldValues] /\ instance \in BOOLEAN /\ synced \in BOOLEAN
    /\ synced => appData # NoData /\ appData.fields = app

(* No object without a licence is whole. *)
LEMMA WholeIsData == ASSUME NEW data, NEW owner, Whole(data, owner) PROVE data # NoData
BY DEF Whole, Owned, NoData

(* The constructors make objects that are whole. *)
LEMMA WithNameWhole ==
    ASSUME NEW name \in FieldValues, NEW owner \in Owners
    PROVE  Whole(WithName(name, owner), owner)
<1> DEFINE licence == License("Unknown", owner)
           data == WithName(name, owner)
           fs == [f \in Fields |-> IF f = "componentName" THEN name ELSE ""]
<1>1. licence \in Licenses /\ licence.aboutData = owner
  BY DEF Licenses, License, Keys, Owners
<1>2. fs \in [Fields -> FieldValues] /\ data = [fields |-> fs, licenses |-> <<licence>>]
  BY AboutAssumption DEF WithName
<1>3. <<licence>> \in Seq(Licenses) /\ <<licence>> # <<>> /\ DOMAIN <<licence>> = {1}
  BY <1>1
<1> HIDE DEF licence, fs, data
<1>4. data.licenses = <<licence>> /\ data \in AboutStates
  BY <1>2, <1>3 DEF AboutStates
<1>5. Owned(data, owner)
  BY <1>1, <1>3, <1>4 DEF Owned, References
<1> QED
  BY <1>4, <1>5 DEF Whole, data

(* What FromApplication takes from the Q*Application is what it has. *)
LEMMA FromApplicationWhole ==
    ASSUME AboutInv
    PROVE  /\ Whole(FromApplication, "appData")
           /\ instance => FromApplication.fields = app
<1> DEFINE name == WithName(app["componentName"], "appData")
           told == [f \in Fields |-> IF f = "componentName" \/ instance THEN app[f] ELSE ""]
<1>1. Whole(name, "appData")
  BY AboutAssumption, WithNameWhole DEF AboutInv, Owners
<1>2. FromApplication = [name EXCEPT !.fields = told]
  BY DEF FromApplication
<1>3. told \in [Fields -> FieldValues] /\ (instance => told = app)
  BY AboutAssumption DEF AboutInv
<1> HIDE DEF name, told
<1>4. /\ FromApplication \in AboutStates /\ FromApplication.fields = told
      /\ FromApplication.licenses = name.licenses
  BY <1>1, <1>2, <1>3 DEF Whole, AboutStates
<1> QED
  BY <1>1, <1>3, <1>4 DEF Whole, Owned

(* A copy has its licences to itself, and the fields of the other. *)
LEMMA CopiedWhole ==
    ASSUME NEW data, NEW other, Whole(data, other), NEW owner \in Owners
    PROVE  Whole(Copied(data, owner), owner) /\ Copied(data, owner).fields = data.fields
<1> DEFINE ls == [i \in DOMAIN data.licenses |-> License(data.licenses[i].key, owner)]
<1>1. data \in AboutStates /\ data.licenses \in Seq(Licenses) /\ data.licenses # <<>>
  BY DEF Whole, AboutStates, Owned
<1>2. \A i \in DOMAIN data.licenses : data.licenses[i] \in Licenses
  BY <1>1
<1>3. \A i \in DOMAIN data.licenses : ls[i] \in Licenses /\ ls[i].aboutData = owner
  BY <1>2 DEF Licenses, License
<1>4. PICK n \in Nat : DOMAIN data.licenses = 1 .. n /\ n # 0
  BY <1>1
<1>5. ls \in Seq(Licenses) /\ DOMAIN ls = 1 .. n /\ ls # <<>>
  BY <1>3, <1>4
<1>6. Copied(data, owner) = [data EXCEPT !.licenses = ls]
  BY DEF Copied
<1>7. \A i \in DOMAIN ls : ls[i].aboutData = owner
  BY <1>3, <1>4, <1>5
<1> HIDE DEF ls
<1>8. /\ Copied(data, owner) \in AboutStates /\ Copied(data, owner).licenses = ls
      /\ Copied(data, owner).fields = data.fields
  BY <1>1, <1>5, <1>6 DEF AboutStates
<1> QED
  BY <1>5, <1>7, <1>8 DEF Whole, Owned, References

(* The setters keep an object whole. *)
LEMMA SetWhole ==
    ASSUME NEW data, NEW owner, Whole(data, owner), NEW field \in Fields, NEW name \in FieldValues
    PROVE  Whole(Set(data, field, name), owner)
<1>1. /\ Set(data, field, name) \in AboutStates
      /\ Set(data, field, name).licenses = data.licenses
  BY DEF Set, Whole, AboutStates
<1> QED
  BY <1>1 DEF Whole, Owned

LEMMA setLicenseWhole ==
    ASSUME NEW data, NEW owner \in Owners, Whole(data, owner), NEW license, license.key \in Keys
    PROVE  Whole(setLicense(data, license, owner), owner)
<1> DEFINE l == License(license.key, owner)
           ls == [data.licenses EXCEPT ![1] = l]
<1>1. l \in Licenses /\ l.aboutData = owner
  BY DEF License, Licenses
<1>2. data \in AboutStates /\ data.licenses \in Seq(Licenses) /\ data.licenses # <<>>
  BY DEF Whole, AboutStates, Owned
<1> HIDE DEF l
<1>3. ls \in Seq(Licenses) /\ ls # <<>> /\ DOMAIN ls = DOMAIN data.licenses
  BY <1>1, <1>2
<1>4. \A i \in DOMAIN ls : ls[i] = IF i = 1 THEN l ELSE data.licenses[i]
  BY <1>2, <1>3
<1>5. \A i \in DOMAIN ls : ls[i].aboutData \in References(owner)
  BY <1>1, <1>3, <1>4 DEF Whole, Owned, References
<1>6. setLicense(data, license, owner) = [data EXCEPT !.licenses = ls]
  BY <1>2 DEF setLicense, l, AboutStates
<1> HIDE DEF ls
<1>7. /\ setLicense(data, license, owner) \in AboutStates
      /\ setLicense(data, license, owner).licenses = ls
  BY <1>2, <1>3, <1>6 DEF AboutStates
<1> QED
  BY <1>3, <1>5, <1>7 DEF Whole, Owned

LEMMA addLicenseWhole ==
    ASSUME NEW data, NEW owner \in Owners, Whole(data, owner),
           NEW license \in Licenses, license.aboutData \in References(owner)
    PROVE  Whole(addLicense(data, license, owner), owner)
<1> DEFINE ls == Append(data.licenses, license)
           added == [data EXCEPT !.licenses = ls]
<1>1. data \in AboutStates /\ data.licenses \in Seq(Licenses) /\ data.licenses # <<>>
  BY DEF Whole, AboutStates, Owned
<1>2. ls \in Seq(Licenses) /\ ls # <<>>
  BY <1>1
<1>3. \A i \in DOMAIN ls : ls[i] = license \/ (i \in DOMAIN data.licenses /\ ls[i] = data.licenses[i])
  BY <1>1
<1>4. \A i \in DOMAIN ls : ls[i].aboutData \in References(owner)
  BY <1>3 DEF Whole, Owned
<1> HIDE DEF ls
<1>5. added \in AboutStates /\ added.licenses = ls
  BY <1>1, <1>2 DEF AboutStates
<1>6. Whole(added, owner)
  BY <1>2, <1>4, <1>5 DEF Whole, Owned
<1>7. license.key \in Keys
  BY DEF Licenses
<1> QED
  BY <1>6, <1>7, setLicenseWhole DEF addLicense, ls

(* Reading an AppStream file into the data of the registry keeps it whole. *)
LEMMA ReadIntoWhole ==
    ASSUME NEW data, Whole(data, "appData"), NEW file \in AppStreamFiles
    PROVE  Whole(ReadInto(data, file), "appData")
<1> DEFINE licensed == IF file.license = "none" THEN data
                       ELSE addLicense(data, License(file.license, "none"), "appData")
           fs == [f \in Fields |->
                    IF f \in DOMAIN file.fields THEN file.fields[f] ELSE licensed.fields[f]]
           named == [licensed EXCEPT !.fields = fs]
           display == IF "displayName" \in DOMAIN file.fields THEN file.fields["displayName"] ELSE ""
<1>1. License(file.license, "none") \in Licenses /\ License(file.license, "none").aboutData = "none"
  BY DEF License, Licenses, Keys, Owners
<1>2. Whole(licensed, "appData")
  <2>1. "appData" \in Owners
    BY DEF Owners
  <2> QED
    BY <1>1, <2>1, addLicenseWhole DEF References
<1> HIDE DEF licensed
<1>3. licensed \in AboutStates
  BY <1>2 DEF Whole
<1>4. fs \in [Fields -> FieldValues]
  BY <1>3, AboutAssumption DEF AboutStates
<1>5. display \in FieldValues /\ "displayName" \in Fields
  BY AboutAssumption
<1>6. ReadInto(data, file) = Set([licensed EXCEPT !.fields = fs], "displayName", display)
  <2>1. [licensed EXCEPT !.fields = [f \in Fields |->
            IF f \in DOMAIN file.fields THEN file.fields[f] ELSE @[f]]] = named
    BY <1>3 DEF AboutStates
  <2> QED
    BY <2>1 DEF ReadInto, licensed
<1> HIDE DEF fs, display
<1>7. named \in AboutStates /\ named.licenses = licensed.licenses
  BY <1>3, <1>4 DEF AboutStates
<1>8. Whole(named, "appData")
  BY <1>2, <1>7 DEF Whole, Owned
<1> QED
  BY <1>5, <1>6, <1>8, SetWhole

LEMMA AboutInitInv == AboutInit => AboutInv
BY AboutAssumption DEF AboutInit, AboutInv

(* What is published is what the caller has, and the Q*Application has it too. *)
LEMMA PublishKeeps ==
    ASSUME AboutInv, NEW data, Whole(data, "mine"), setApplicationData(data),
           instance' = instance, mine' # NoData => Whole(mine', "mine")
    PROVE  AboutInv'
<1>1. Whole(appData', "appData") /\ appData'.fields = data.fields
  BY CopiedWhole DEF setApplicationData, Owners
<1>2. app' = (IF instance THEN data.fields ELSE app) /\ synced' = instance
  BY DEF setApplicationData, SetProperties
<1>3. data.fields \in [Fields -> FieldValues]
  BY DEF Whole, AboutStates
<1> QED
  BY <1>1, <1>2, <1>3, WholeIsData DEF AboutInv

(* Whatever an AppStream file gives, the registry and the copy are whole. *)
LEMMA FileKeeps ==
    ASSUME AboutInv, NEW data, Whole(data, "appData"), NEW file \in AppStreamFiles,
           NEW opened \in BOOLEAN, fromAppStreamFile(data, file, opened)
    PROVE  AboutInv'
<1>1. Whole(appData', "appData") /\ Whole(mine', "mine")
  BY ReadIntoWhole, CopiedWhole DEF fromAppStreamFile, Owners
<1> QED
  BY <1>1 DEF fromAppStreamFile, AboutInv

(* Every step keeps AboutInv. *)
LEMMA AboutNextInv == AboutInv /\ [AboutNext]_aboutVars => AboutInv'
<1> SUFFICES ASSUME AboutInv, [AboutNext]_aboutVars PROVE AboutInv'
  OBVIOUS
<1>1. CASE applicationData
  <2>1. Whole(appData', "appData")
    BY <1>1, FromApplicationWhole DEF applicationData, AboutInv
  <2>2. Whole(mine', "mine")
    BY <1>1, <2>1, CopiedWhole DEF applicationData, Owners
  <2>3. synced' => appData'.fields = app
    BY <1>1, FromApplicationWhole DEF applicationData, AboutInv
  <2> QED
    BY <1>1, <2>1, <2>2, <2>3, WholeIsData DEF applicationData, AboutInv
<1>2. CASE Publish
  BY <1>2, PublishKeeps DEF Publish, AboutInv
<1>3. CASE AboutDestroyed
  BY <1>3 DEF AboutDestroyed, AboutInv
<1>4. CASE CreateApplication
  BY <1>4 DEF CreateApplication, AboutInv
<1>5. ASSUME NEW name \in FieldValues, NewAboutData(name) PROVE AboutInv'
  BY <1>5, WithNameWhole DEF NewAboutData, AboutInv, Owners
<1>6. ASSUME NEW name \in FieldValues, processCommandLine(name) PROVE AboutInv'
  <2>1. Whole(mine', "mine")
    BY <1>6, SetWhole DEF processCommandLine, AboutInv
  <2>2. setApplicationData(mine') /\ instance' = instance
    BY <1>6 DEF processCommandLine
  <2> QED
    BY <2>1, <2>2, PublishKeeps
<1>7. ASSUME NEW field \in Fields, NEW name \in FieldValues, SetApplication(field, name) PROVE AboutInv'
  BY <1>7 DEF SetApplication, AboutInv
<1>8. ASSUME NEW data, Whole(data, "mine"), ChangeMine(data) PROVE AboutInv'
  BY <1>8 DEF ChangeMine, AboutInv
<1>9. ASSUME NEW field \in Fields, NEW name \in FieldValues, mine # NoData PROVE Whole(Set(mine, field, name), "mine")
  BY <1>9, SetWhole DEF AboutInv
<1>10. ASSUME NEW key \in {"Unknown", "GPL_V3"}, NEW owner \in {"mine", "none", "other"}, mine # NoData
       PROVE  /\ Whole(setLicense(mine, License(key, owner), "mine"), "mine")
              /\ Whole(addLicense(mine, License(key, owner), "mine"), "mine")
  <2>1. License(key, owner) \in Licenses /\ License(key, owner).aboutData = owner /\ License(key, owner).key \in Keys
    BY DEF License, Licenses, Keys, Owners
  <2> QED
    BY <1>10, <2>1, setLicenseWhole, addLicenseWhole DEF AboutInv, Owners, References
<1>11. ASSUME NEW file \in AppStreamFiles, NEW opened \in BOOLEAN, FromFile(file, opened) PROVE AboutInv'
  <2>1. Whole(WithName(app["componentName"], "appData"), "appData")
    BY AboutAssumption, WithNameWhole DEF AboutInv, Owners
  <2> QED
    BY <1>11, <2>1, FileKeeps DEF FromFile, AboutInv
<1>12. ASSUME NEW file \in AppStreamFiles, NEW opened \in BOOLEAN, fromAppStreamForApplication(file, opened)
       PROVE  AboutInv'
  BY <1>12, FromApplicationWhole, FileKeeps DEF fromAppStreamForApplication, AboutInv
<1>13. CASE UNCHANGED aboutVars
  BY <1>13 DEF aboutVars, AboutInv
<1> QED
  BY <1>1, <1>2, <1>3, <1>4, <1>5, <1>6, <1>7, <1>8, <1>9, <1>10, <1>11, <1>12, <1>13 DEF AboutNext

(* No copy and no file leaves an object without a first licence, or with one    *)
(* that refers to the object it was copied from; the data of the registry has  *)
(* none of another object at all, also when the one that was published had a   *)
(* licence of another handed to addLicense(); and the registry and the         *)
(* Q*Application agree after each publication until one of them is set without *)
(* the other (kaboutdata.cpp).                                             *)
THEOREM AboutDataIsSound == AboutSpec => []AboutSound
<1>1. AboutInv => AboutSound
  BY DEF AboutInv, AboutSound, Whole
<1> QED
  BY <1>1, AboutInitInv, AboutNextInv, PTL DEF AboutSpec

-----------------------------------------------------------------------------
(* The search for plugins, whatever is installed meanwhile. *)

PluginSpec == PluginInit /\ [][PluginNext]_pluginVars

FileStates == [content : Contents \cup {Absent}, modified : Nat, installed : Nat]
Metadata ==
    [file : FileNames, content : Contents \cup {Absent}, allowEmpty : BOOLEAN, lastQueriedTs : Nat]
Searches ==
    [running : BOOLEAN, todo : Seq(FileNames), results : Seq(Metadata), cached : BOOLEAN,
     allowEmpty : BOOLEAN, accepts : SUBSET Contents, ts : Nat]

(* A search never begins ahead of the clock, and metadata that was asked for    *)
(* after its file was installed is that of the file.                       *)
PluginInv ==
    /\ pluginFiles \in [FileNames -> FileStates] /\ now \in Nat
    /\ pluginCache \in Seq(Metadata) /\ search \in Searches
    /\ search.ts <= now
    /\ \A f \in FileNames : pluginFiles[f].installed <= now
    /\ \A i \in DOMAIN pluginCache :
          /\ pluginCache[i].lastQueriedTs <= now
          /\ pluginFiles[pluginCache[i].file].installed < pluginCache[i].lastQueriedTs =>
                pluginCache[i].content = pluginFiles[pluginCache[i].file].content

(* A non-empty set of naturals has a least member: proper subsets of Nat   *)
(* are well-founded, so of the intervals 0 .. x - 1 one is smallest.       *)
LEMMA LeastNatural ==
    ASSUME NEW S, S \subseteq Nat, S # {}
    PROVE  \E x \in S : \A y \in S : x <= y
<1> DEFINE T == {0 .. x - 1 : x \in S}
<1>1. IsWellFoundedOn(StrictSubsetOrdering(Nat), FiniteSubsetsOf(Nat))
  BY FS_StrictSubsetOrderingWellFounded
<1>2. T \subseteq FiniteSubsetsOf(Nat) /\ T # {}
  <2>1. \A x \in S : IsFiniteSet(0 .. x - 1)
    <3> TAKE x \in S
    <3>1. 0 \in Int /\ x - 1 \in Int
      OBVIOUS
    <3> QED
      BY ONLY <3>1, FS_Interval
  <2>2. \A x \in S : 0 .. x - 1 \in SUBSET Nat
    OBVIOUS
  <2> QED
    BY <2>1, <2>2 DEF FiniteSubsetsOf
<1>3. PICK u \in T : \A v \in T : ~ (<<v, u>> \in StrictSubsetOrdering(Nat))
  <2> HIDE DEF T
  <2> QED
    BY <1>1, <1>2, WFMin
<1>4. PICK x \in S : u = 0 .. x - 1
  BY <1>3
<1>5. ASSUME NEW y \in S, y < x PROVE FALSE
  <2>1. 0 .. y - 1 \in T
    OBVIOUS
  <2>2. <<0 .. y - 1, u>> \in StrictSubsetOrdering(Nat)
    BY <1>4, <1>5 DEF StrictSubsetOrdering
  <2> QED
    BY <1>3, <2>1, <2>2
<1> QED
  BY <1>5

LEMMA PluginInitInv == PluginInit => PluginInv
<1> SUFFICES ASSUME PluginInit PROVE PluginInv
  OBVIOUS
<1>1. pluginFiles \in [FileNames -> FileStates] /\ \A f \in FileNames : pluginFiles[f].installed = 0
  BY DEF PluginInit, FileStates
<1>2. /\ <<>> \in Seq(FileNames) /\ <<>> \in Seq(Metadata) /\ DOMAIN <<>> = {}
      /\ {} \in SUBSET Contents
  OBVIOUS
<1>3. search \in Searches /\ search.ts = 0
  BY <1>2 DEF PluginInit, NoSearch, Searches
<1> QED
  BY <1>1, <1>2, <1>3 DEF PluginInit, PluginInv

(* The entry of a file is one of the cache, about the file. *)
LEMMA EntryIsThere ==
    ASSUME PluginInv, NEW f, EntryOf(f) # <<>>
    PROVE  \E i \in DOMAIN pluginCache : EntryOf(f)[1] = pluginCache[i] /\ pluginCache[i].file = f
<1> DEFINE indices == {i \in DOMAIN pluginCache : pluginCache[i].file = f}
           least == CHOOSE i \in indices : \A j \in indices : i <= j
<1>1. indices # {}
  BY DEF EntryOf
<1>2. \E i \in indices : \A j \in indices : i <= j
  <2>1. PICK k \in indices : TRUE
    BY <1>1
  <2>2. indices \subseteq Nat
    BY DEF PluginInv
  <2> HIDE DEF indices
  <2> QED
    BY <2>1, <2>2, LeastNatural
<1>3. least \in indices
  BY <1>2
<1>4. EntryOf(f) = <<pluginCache[least]>>
  BY <1>1 DEF EntryOf
<1> HIDE DEF least
<1>5. EntryOf(f)[1] = pluginCache[least]
  BY <1>4
<1> QED
  BY <1>3, <1>5

(* Every step keeps PluginInv. *)
LEMMA PluginNextInv == PluginInv /\ [PluginNext]_pluginVars => PluginInv'
<1> SUFFICES ASSUME PluginInv, [PluginNext]_pluginVars PROVE PluginInv'
  OBVIOUS
<1>1. ASSUME NEW cached \in BOOLEAN, NEW allowEmpty \in BOOLEAN, NEW accepts \in Filters,
             findPlugins(cached, allowEmpty, accepts)
      PROVE  PluginInv'
  <2>1. PluginFiles \in Seq(FileNames) /\ <<>> \in Seq(Metadata) /\ accepts \in SUBSET Contents
    BY PluginAssumption DEF FileNames, Filters
  <2>2. search' \in Searches /\ search'.ts = now
    BY <1>1, <2>1 DEF findPlugins, Searches, PluginInv
  <2> QED
    BY <1>1, <2>2 DEF findPlugins, PluginInv
<1>2. CASE forEachPlugin
  <2> DEFINE f == Head(search.todo)
             queried == [file |-> f, content |-> pluginFiles[f].content,
                       allowEmpty |-> search.allowEmpty, lastQueriedTs |-> search.ts]
  <2>1. /\ search \in Searches /\ search.todo \in Seq(FileNames) /\ search.todo # <<>>
        /\ search.results \in Seq(Metadata) /\ pluginCache \in Seq(Metadata)
    BY <1>2 DEF forEachPlugin, PluginInv, Searches
  <2>2. f \in FileNames /\ Tail(search.todo) \in Seq(FileNames)
    BY <2>1
  <2>3. queried \in Metadata
    BY <2>1, <2>2 DEF PluginInv, Metadata, FileStates, Searches
  <2>4. EntryOf(f) # <<>> => EntryOf(f)[1] \in Metadata
    BY <2>1, EntryIsThere
  <2>5. pluginCache' = Append(pluginCache, queried) \/ pluginCache' = pluginCache
    BY <1>2 DEF forEachPlugin
  <2>6. PICK results \in Seq(Metadata) :
          search' = [search EXCEPT !.todo = Tail(@), !.results = results]
    <3>1. (IF ~search.cached \/ IsNew(f) THEN queried ELSE EntryOf(f)[1]) \in Metadata
      BY <2>3, <2>4 DEF IsNew
    <3> DEFINE m == IF ~search.cached \/ IsNew(f) THEN queried ELSE EntryOf(f)[1]
    <3>2. search' = [search EXCEPT !.todo = Tail(@),
                        !.results = IF pluginFiles[f].content # Absent /\ Taken(m) THEN Append(@, m) ELSE @]
      BY <1>2 DEF forEachPlugin
    <3> HIDE DEF m, f, queried
    <3>3. Append(search.results, m) \in Seq(Metadata)
      BY <2>1, <3>1 DEF m
    <3> QED
      BY <2>1, <3>2, <3>3
  <2>7. search' \in Searches /\ search'.ts = search.ts
    BY <2>1, <2>2, <2>6 DEF Searches
  <2>8. UNCHANGED <<pluginFiles, now>>
    BY <1>2 DEF forEachPlugin
  <2>9. queried.lastQueriedTs <= now /\ queried.content = pluginFiles[queried.file].content
    BY DEF PluginInv
  <2> HIDE DEF f, queried
  <2>10. pluginCache' \in Seq(Metadata)
    BY <2>1, <2>3, <2>5
  <2>11. \A i \in DOMAIN pluginCache' :
            pluginCache'[i] = queried \/ (i \in DOMAIN pluginCache /\ pluginCache'[i] = pluginCache[i])
    BY <2>1, <2>5
  <2> QED
    BY <2>7, <2>8, <2>9, <2>10, <2>11 DEF PluginInv
<1>3. CASE SearchReturns
  <2>1. <<>> \in Seq(FileNames) /\ <<>> \in Seq(Metadata) /\ {} \in SUBSET Contents
    OBVIOUS
  <2>2. search' \in Searches /\ search'.ts = 0
    BY <1>3, <2>1 DEF SearchReturns, NoSearch, Searches
  <2> QED
    BY <1>3, <2>2 DEF SearchReturns, PluginInv
<1>4. ASSUME NEW f \in FileNames, NEW content \in Contents \cup {Absent}, NEW modified \in Nat,
             Install(f, content, modified)
      PROVE  PluginInv'
  <2> DEFINE file == [content |-> content, modified |-> modified, installed |-> now]
  <2>1. file \in FileStates
    BY DEF PluginInv, FileStates
  <2>2. /\ pluginFiles' \in [FileNames -> FileStates]
        /\ \A g \in FileNames : pluginFiles'[g] = IF g = f THEN file ELSE pluginFiles[g]
    BY <1>4, <2>1 DEF Install, PluginInv
  <2>3. file.installed = now
    OBVIOUS
  <2> HIDE DEF file
  <2>4. UNCHANGED <<now, pluginCache, search>>
    BY <1>4 DEF Install
  <2>5. now \in Nat /\ now <= now
    BY DEF PluginInv
  <2>6. \A g \in FileNames : pluginFiles'[g].installed <= now'
    BY <2>2, <2>3, <2>4, <2>5 DEF PluginInv
  <2>7. ASSUME NEW i \in DOMAIN pluginCache
        PROVE  /\ pluginCache[i].lastQueriedTs <= now
               /\ pluginFiles'[pluginCache[i].file].installed < pluginCache[i].lastQueriedTs =>
                     pluginCache[i].content = pluginFiles'[pluginCache[i].file].content
    <3> DEFINE m == pluginCache[i]
    <3>0. m \in Metadata
      BY DEF PluginInv
    <3>1. m.file \in FileNames /\ m.lastQueriedTs \in Nat /\ m.lastQueriedTs <= now
      BY <3>0 DEF PluginInv, Metadata
    <3>2. CASE m.file = f
      <4>1. ~(pluginFiles'[m.file].installed < m.lastQueriedTs)
        BY <2>2, <2>3, <2>5, <3>1, <3>2
      <4> QED
        BY <3>1, <4>1
    <3>3. CASE m.file # f
      BY <2>2, <3>1, <3>3 DEF PluginInv
    <3> QED
      BY <3>2, <3>3
  <2> QED
    BY <2>2, <2>4, <2>6, <2>7 DEF PluginInv
<1>5. CASE Later
  <2>1. \A i \in DOMAIN pluginCache : pluginCache[i] \in Metadata
    BY DEF PluginInv
  <2>2. \A f \in FileNames : pluginFiles[f].installed \in Nat
    BY DEF PluginInv, FileStates
  <2>3. search.ts \in Nat
    BY DEF PluginInv, Searches
  <2> QED
    BY <1>5, <2>1, <2>2, <2>3 DEF Later, PluginInv, Metadata
<1>6. CASE UNCHANGED pluginVars
  BY <1>6 DEF pluginVars, PluginInv
<1>7. now \in Nat /\ \A n \in 0 .. MaxNow : n \in Nat
  BY DEF PluginInv
<1> QED
  BY <1>1, <1>2, <1>3, <1>4, <1>5, <1>6, <1>7 DEF PluginNext

(* What the metadata of a file is taken for depends on its file, its content     *)
(* and the options it was read with.                                       *)
LEMMA TakenAlike ==
    ASSUME NEW m, NEW n, m.file = n.file, m.content = n.content, m.allowEmpty = n.allowEmpty
    PROVE  Taken(m) = Taken(n)
BY DEF Taken, isValid

(* The results without the time they were read at, after one more. *)
LEMMA FoundAppended ==
    ASSUME NEW results \in Seq(Metadata), NEW m \in Metadata
    PROVE  LET Seen(rs) == [i \in DOMAIN rs |-> [file |-> rs[i].file, content |-> rs[i].content]]
           IN Seen(Append(results, m)) = Append(Seen(results), [file |-> m.file, content |-> m.content])
<1> DEFINE Seen(rs) == [i \in DOMAIN rs |-> [file |-> rs[i].file, content |-> rs[i].content]]
           Pairs == {[file |-> x.file, content |-> x.content] : x \in Metadata}
           pair == [file |-> m.file, content |-> m.content]
<1>1. PICK n \in Nat : DOMAIN results = 1 .. n /\ Len(results) = n
  OBVIOUS
<1>2. Seen(results) \in Seq(Pairs) /\ Len(Seen(results)) = n
  BY <1>1
<1> QED
  BY <1>1, <1>2

(* However files are replaced while a search goes on, and whatever modification  *)
(* times they are given, one that may use the cache finds what one without it   *)
(* would find, unless the replacement is not newer than the search that read   *)
(* the file before, or other options were asked for then                       *)
(* (KPluginMetaDataPrivate::forEachPlugin(), kpluginmetadata.cpp:272-290).     *)
THEOREM CacheIsUnseen == PluginSpec => CacheUnseen
<1> DEFINE Pair(m) == [file |-> m.file, content |-> m.content]
           Seen(rs) == [i \in DOMAIN rs |-> Pair(rs[i])]
           Unfound(rs, f) == {i \in DOMAIN rs : PluginId[rs[i].file] = PluginId[f]} = {}
           Uncached(f) == [file |-> f, content |-> pluginFiles[f].content,
                           allowEmpty |-> search.allowEmpty, lastQueriedTs |-> search.ts]
           Right(f) == Seen(search'.results) =
                          IF /\ Uncached(f).content # Absent /\ isValid(Uncached(f))
                             /\ Unfound(search.results, f) /\ Uncached(f).content \in search.accepts
                          THEN Append(Seen(search.results), [file |-> f, content |-> Uncached(f).content])
                          ELSE Seen(search.results)
           Excused(f) == Backdated(f) \/ ReadOtherwise(f)
<1>1. ASSUME PluginInv, PluginNext, search.running, search.todo # <<>>, search'.todo # search.todo
      PROVE  Right(Head(search.todo)) \/ Excused(Head(search.todo))
  <2>1. forEachPlugin
    BY <1>1 DEF PluginNext, findPlugins, SearchReturns, Install, Later
  <2> DEFINE f == Head(search.todo)
             queried == Uncached(f)
             metadata == IF ~search.cached \/ IsNew(f) THEN queried ELSE EntryOf(f)[1]
  <2>2. /\ search \in Searches /\ search.todo \in Seq(FileNames)
        /\ search.results \in Seq(Metadata) /\ f \in FileNames
    BY <1>1 DEF PluginInv, Searches
  <2>3. queried \in Metadata
    BY <1>1, <2>2 DEF PluginInv, Metadata, FileStates, Searches
  <2>4. search'.results = IF pluginFiles[f].content # Absent /\ Taken(metadata)
                          THEN Append(search.results, metadata) ELSE search.results
    BY <2>1, <2>2 DEF forEachPlugin, Searches
  <2> SUFFICES ASSUME ~Excused(f) PROVE Right(f)
    OBVIOUS
  <2>5. /\ metadata \in Metadata /\ metadata.file = queried.file
        /\ metadata.content = queried.content /\ metadata.allowEmpty = queried.allowEmpty
    <3>1. CASE metadata = queried
      BY <2>3, <3>1
    <3>2. CASE metadata # queried
      <4>1. EntryOf(f) # <<>> /\ metadata = EntryOf(f)[1] /\ ~IsNew(f)
        BY <3>2 DEF IsNew
      <4>2. PICK i \in DOMAIN pluginCache : metadata = pluginCache[i] /\ pluginCache[i].file = f
        BY <1>1, <4>1, EntryIsThere
      <4>3. metadata \in Metadata
        BY <1>1, <4>2 DEF PluginInv
      <4>4. ~(metadata.lastQueriedTs < pluginFiles[f].modified)
        BY <4>1 DEF IsNew
      <4>5. /\ metadata.allowEmpty = search.allowEmpty
            /\ ~(/\ pluginFiles[f].modified <= metadata.lastQueriedTs
                 /\ metadata.lastQueriedTs <= pluginFiles[f].installed)
        BY <4>1 DEF Backdated, ReadOtherwise
      <4>6. /\ metadata.lastQueriedTs \in Nat /\ pluginFiles[f].modified \in Nat
            /\ pluginFiles[f].installed \in Nat
        BY <1>1, <2>2, <4>3 DEF PluginInv, Metadata, FileStates
      <4>7. metadata.content = pluginFiles[f].content
        BY <1>1, <4>2, <4>4, <4>5, <4>6 DEF PluginInv
      <4> QED
        BY <4>2, <4>3, <4>5, <4>7
    <3> QED
      BY <3>1, <3>2
  <2>6. Taken(metadata) = Taken(queried)
    BY <2>5, TakenAlike
  <2>7. Taken(queried) = (isValid(queried) /\ Unfound(search.results, f) /\ queried.content \in search.accepts)
    BY DEF Taken
  <2>8. Pair(metadata) = [file |-> f, content |-> queried.content]
    BY <2>5
  <2>9. Seen(Append(search.results, metadata)) = Append(Seen(search.results), Pair(metadata))
    BY <2>2, <2>5, FoundAppended
  <2>10. queried.content = pluginFiles[f].content
    OBVIOUS
  <2> HIDE DEF metadata, Seen, Unfound, queried, f, Pair
  <2> QED
    BY <2>4, <2>6, <2>7, <2>8, <2>9, <2>10 DEF queried
<1>2. PluginInv /\ [PluginNext]_pluginVars => FileUnseen \/ UNCHANGED search
  <2> SUFFICES ASSUME PluginInv, [PluginNext]_pluginVars, search' # search PROVE FileUnseen
    OBVIOUS
  <2>1. PluginNext
    BY DEF pluginVars
  <2> QED
    BY <1>1, <2>1 DEF FileUnseen
<1> QED
  BY <1>2, PluginInitInv, PluginNextInv, PTL DEF PluginSpec, CacheUnseen

-----------------------------------------------------------------------------
(* The environment and the execution of a KProcess, for any variables.        *)

ProcessSpec == ProcessInit /\ [][ProcessNext]_processVars

(* Without and With remove and set what they say, on any function. *)
LEMMA WithoutFacts ==
    ASSUME NEW e, NEW names
    PROVE  /\ DOMAIN Without(e, names) = DOMAIN e \ names
           /\ \A n \in DOMAIN e \ names : Without(e, names)[n] = e[n]
           /\ Without(e, names) = [n \in DOMAIN e \ names |-> e[n]]
BY DEF Without, Restrict

LEMMA WithFacts ==
    ASSUME NEW e, NEW name, NEW value
    PROVE  /\ DOMAIN With(e, name, value) = DOMAIN e \cup {name}
           /\ \A n \in DOMAIN e \cup {name} :
                 With(e, name, value)[n] = IF n = name THEN value ELSE e[n]
           /\ With(e, name, value) # NoVariables
<1>1. DOMAIN With(e, name, value) = DOMAIN e \cup {name}
  BY DEF With
<1>2. DOMAIN NoVariables = {}
  BY DEF NoVariables
<1> QED
  BY <1>1, <1>2 DEF With

(* What is taken away of one and set in it, in either order. *)
LEMMA WithoutWith ==
    ASSUME NEW e, NEW name, name # "DUMMY", NEW value
    PROVE  Without(With(e, name, value), {"DUMMY"}) = With(Without(e, {"DUMMY"}), name, value)
BY DEF With, Without, Restrict

LEMMA WithoutWithout ==
    ASSUME NEW e, NEW name
    PROVE  Without(Without(e, {name}), {"DUMMY"}) = Without(Without(e, {"DUMMY"}), {name})
BY DEF Without, Restrict

(* ProcessSound with the types of the two environments: QProcess and the        *)
(* caller have no variables but those, and perhaps the dummy.               *)
ProcessInv ==
    /\ DOMAIN system \subseteq Variables \cup {"DUMMY"}
    /\ DOMAIN env \subseteq Variables \cup {"DUMMY"}
    /\ child \in [state : {"none", "running", "ended"}, code : Int]
    /\ Effective = wanted
    /\ executing = "returned" =>
          /\ child.state # "running"
          /\ code # -2 => child = [state |-> "ended", code |-> code]

(* Base is what the calls want, and perhaps the dummy. *)
LEMMA BaseWanted ==
    ASSUME ProcessInv
    PROVE  /\ Without(Base, {"DUMMY"}) = wanted
           /\ DOMAIN Base \subseteq Variables \cup {"DUMMY"}
           /\ DOMAIN wanted = DOMAIN Base \ {"DUMMY"}
<1>1. DOMAIN Base \subseteq Variables \cup {"DUMMY"}
  BY DEF Base, ProcessInv, Without, Restrict
<1>2. Without(Base, {"DUMMY"}) = wanted
  BY DEF Base, ProcessInv, Effective, Without, Restrict
<1> QED
  BY <1>1, <1>2, WithoutFacts

LEMMA ProcessInitInv == ProcessInit => ProcessInv
<1> SUFFICES ASSUME ProcessInit PROVE ProcessInv
  OBVIOUS
<1>1. PICK names \in SUBSET Variables : \E e \in [names -> Values] : system \in {e, With(e, "DUMMY", "")}
  BY DEF ProcessInit, Environments
<1>2. DOMAIN system \subseteq Variables \cup {"DUMMY"}
  BY <1>1 DEF With
<1>3. env = NoVariables /\ DOMAIN env = {}
  BY DEF ProcessInit, NoVariables
<1>4. Effective = wanted
  BY <1>3 DEF ProcessInit, Effective
<1>5. child = [state |-> "none", code |-> 0] /\ executing = "no"
  BY DEF ProcessInit
<1>6. child \in [state : {"none", "running", "ended"}, code : Int] /\ executing # "returned"
  BY <1>5
<1> QED
  BY <1>2, <1>3, <1>4, <1>6 DEF ProcessInv

(* A call keeps ProcessInv if the new environment has the variables that the    *)
(* calls want now.                                                         *)
LEMMA CallKeeps ==
    ASSUME ProcessInv, UNCHANGED <<system, child, executing, code>>, env' # NoVariables,
           DOMAIN env' \subseteq Variables \cup {"DUMMY"}, Without(env', {"DUMMY"}) = wanted'
    PROVE  ProcessInv'
BY DEF ProcessInv, Effective

LEMMA DummyFacts ==
    /\ DOMAIN DUMMY = {"DUMMY"} /\ DUMMY # NoVariables
    /\ Without(DUMMY, {"DUMMY"}) = NoVariables
<1>1. DOMAIN NoVariables = {}
  BY DEF NoVariables
<1>2. DOMAIN DUMMY = {"DUMMY"} /\ DUMMY # NoVariables
  <2>1. DOMAIN DUMMY = DOMAIN NoVariables \cup {"DUMMY"}
    BY WithFacts DEF DUMMY
  <2> QED
    BY <1>1, <2>1
<1>3. Without(DUMMY, {"DUMMY"}) = NoVariables
  BY <1>2 DEF Without, Restrict, NoVariables
<1> QED
  BY <1>2, <1>3

(* Every step keeps ProcessInv. *)
LEMMA ProcessNextInv == ProcessInv /\ [ProcessNext]_processVars => ProcessInv'
<1> SUFFICES ASSUME ProcessInv, [ProcessNext]_processVars PROVE ProcessInv'
  OBVIOUS
<1>1. CASE clearEnvironment
  BY <1>1, DummyFacts, CallKeeps DEF clearEnvironment
<1>2. ASSUME NEW name \in Variables, NEW value \in Values, NEW overwrite \in BOOLEAN,
             setEnv(name, value, overwrite)
      PROVE  ProcessInv'
  <2>1. name # "DUMMY" /\ (name \in DOMAIN wanted <=> name \in DOMAIN Base)
    BY ProcessAssumption, BaseWanted
  <2>2. CASE name \in DOMAIN Base /\ ~overwrite
    BY <1>2, <2>1, <2>2 DEF setEnv, ProcessInv, Effective
  <2>3. CASE ~(name \in DOMAIN Base /\ ~overwrite)
    <3>1. env' = With(Base, name, value) /\ wanted' = With(wanted, name, value)
      BY <1>2, <2>1, <2>3 DEF setEnv
    <3>2. Without(env', {"DUMMY"}) = wanted'
      BY <2>1, <3>1, BaseWanted, WithoutWith
    <3>3. env' # NoVariables /\ DOMAIN env' \subseteq Variables \cup {"DUMMY"}
      <4>1. DOMAIN env' = DOMAIN Base \cup {name} /\ env' # NoVariables
        BY <3>1, WithFacts
      <4> QED
        BY <4>1, BaseWanted
    <3> QED
      BY <1>2, <3>2, <3>3, CallKeeps DEF setEnv
  <2> QED
    BY <2>2, <2>3
<1>3. ASSUME NEW name \in Variables, unsetEnv(name) PROVE ProcessInv'
  <2>1. name # "DUMMY" /\ (name \in DOMAIN wanted <=> name \in DOMAIN Base)
    BY ProcessAssumption, BaseWanted
  <2>2. wanted' = Without(wanted, {name}) /\ UNCHANGED <<system, child, executing, code>>
    BY <1>3 DEF unsetEnv
  <2>3. CASE name \notin DOMAIN Base
    <3>1. Without(wanted, {name}) = wanted
      <4>1. wanted = [n \in DOMAIN wanted |-> wanted[n]]
        <5>1. wanted = Without(Base, {"DUMMY"})
          BY BaseWanted
        <5> QED
          BY <5>1 DEF Without, Restrict
      <4> QED
        BY <2>1, <2>3, <4>1 DEF Without, Restrict
    <3> QED
      BY <1>3, <2>2, <2>3, <3>1 DEF unsetEnv, ProcessInv, Effective
  <2>4. CASE name \in DOMAIN Base
    <3> DEFINE rest == Without(Base, {name})
    <3>1. env' = IF rest = NoVariables THEN DUMMY ELSE rest
      BY <1>3, <2>4 DEF unsetEnv, Emptied
    <3>2. Without(rest, {"DUMMY"}) = wanted'
      BY <2>2, BaseWanted, WithoutWithout
    <3>3. DOMAIN rest \subseteq Variables \cup {"DUMMY"}
      BY BaseWanted DEF Without, Restrict
    <3>4. Without(NoVariables, {"DUMMY"}) = NoVariables
      BY DEF Without, Restrict, NoVariables
    <3>5. /\ env' # NoVariables /\ DOMAIN env' \subseteq Variables \cup {"DUMMY"}
          /\ Without(env', {"DUMMY"}) = wanted'
      BY <3>1, <3>2, <3>3, <3>4, DummyFacts
    <3> QED
      BY <2>2, <3>5, CallKeeps
  <2> QED
    BY <2>3, <2>4
<1>4. CASE execute
  BY <1>4 DEF execute, ProcessInv, Effective
<1>5. CASE ChildEnds
  BY <1>5, ProcessAssumption DEF ChildEnds, ProcessInv, Effective
<1>6. CASE Finished
  BY <1>6 DEF Finished, ProcessInv, Effective
<1>7. CASE NotFinished
  BY <1>7 DEF NotFinished, ProcessInv, Effective
<1>8. CASE Kill
  BY <1>8 DEF Kill, ProcessInv, Effective
<1>9. CASE UNCHANGED processVars
  BY <1>9 DEF processVars, ProcessInv, Effective
<1> QED
  BY <1>1, <1>2, <1>3, <1>4, <1>5, <1>6, <1>7, <1>8, <1>9 DEF ProcessNext

-----------------------------------------------------------------------------
(* What the host of a sandbox is told. *)

(* The members of a finite set, as SetToSeq puts them. *)
LEMMA SetToSeqFacts ==
    ASSUME NEW S, IsFiniteSet(S)
    PROVE  SetToSeq(S) \in Seq(S) /\ ToSet(SetToSeq(S)) = S
<1> DEFINE n == Cardinality(S)
           f == SetToSeq(S)
<1>1. n \in Nat /\ \E g : g \in Bijection(1 .. n, S)
  BY FS_CardinalityType DEF ExistsBijection
<1>2. \E g \in [1 .. n -> S] : IsInjective(g)
  BY <1>1 DEF Bijection, Injection
<1>3. f \in [1 .. n -> S] /\ IsInjective(f)
  BY <1>2 DEF SetToSeq
<1> HIDE DEF f
<1>4. f \in Injection(1 .. n, S)
  BY <1>3 DEF Injection
<1>5. Cardinality(1 .. n) = n
  BY <1>1, FS_Interval
<1> HIDE DEF n
<1>6. f \in Surjection(1 .. n, S)
  <2>1. Cardinality(1 .. n) = Cardinality(S)
    BY <1>5 DEF n
  <2> QED
    BY <1>4, <2>1, FS_Injection
<1>7. \A x \in S : \E i \in 1 .. n : f[i] = x
  BY <1>6 DEF Surjection
<1>8. DOMAIN f = 1 .. n /\ f \in Seq(S)
  BY <1>1, <1>3
<1>9. {f[i] : i \in DOMAIN f} = S
  BY <1>3, <1>7, <1>8
<1> QED
  BY <1>8, <1>9 DEF f, ToSet

LEMMA ToSetConcat ==
    ASSUME NEW X, NEW a \in Seq(X), NEW b \in Seq(X)
    PROVE  a \o b \in Seq(X) /\ ToSet(a \o b) = ToSet(a) \cup ToSet(b)
<1>1. /\ a \o b \in Seq(X) /\ Len(a \o b) = Len(a) + Len(b)
      /\ \A i \in 1 .. Len(a) : (a \o b)[i] = a[i]
      /\ \A i \in 1 .. Len(b) : (a \o b)[Len(a) + i] = b[i]
  OBVIOUS
<1>2. /\ DOMAIN a = 1 .. Len(a) /\ DOMAIN b = 1 .. Len(b) /\ DOMAIN (a \o b) = 1 .. Len(a) + Len(b)
      /\ Len(a) \in Nat /\ Len(b) \in Nat
  BY <1>1
<1>3. ASSUME NEW i \in 1 .. Len(a) + Len(b) PROVE (a \o b)[i] \in ToSet(a) \cup ToSet(b)
  <2>1. CASE i \in 1 .. Len(a)
    BY <1>1, <1>2, <2>1 DEF ToSet
  <2>2. CASE i \notin 1 .. Len(a)
    <3>1. i - Len(a) \in 1 .. Len(b) /\ i = Len(a) + (i - Len(a))
      BY <1>2, <2>2
    <3>2. (a \o b)[i] = b[i - Len(a)]
      BY <1>1, <3>1
    <3> QED
      BY <1>2, <3>1, <3>2 DEF ToSet
  <2> QED
    BY <2>1, <2>2
<1>4. ASSUME NEW i \in 1 .. Len(a) PROVE i \in DOMAIN (a \o b)
  BY <1>2
<1>5. ASSUME NEW i \in 1 .. Len(b) PROVE Len(a) + i \in DOMAIN (a \o b)
  BY <1>2
<1>6. ToSet(a) \cup ToSet(b) \subseteq ToSet(a \o b)
  BY <1>1, <1>2, <1>4, <1>5 DEF ToSet
<1>7. ToSet(a \o b) \subseteq ToSet(a) \cup ToSet(b)
  BY <1>2, <1>3 DEF ToSet
<1> QED
  BY <1>1, <1>6, <1>7

(* The options name the variables that the caller has not or has otherwise. *)
LEMMA OptionsTold ==
    ASSUME NEW box, box.isFlatpak, box.privileged, NEW words, NEW environment,
           IsFiniteSet(DOMAIN environment),
           NEW context, context = makeHostContext(box, words, "d", environment)
    PROVE  /\ {o.value : o \in {o \in ToSet(context.options) : o.option = "--env"}} =
                 {<<v, environment[v]>> : v \in
                    {v \in DOMAIN environment : v \notin DOMAIN box.env \/ box.env[v] # environment[v]}}
           /\ Option("--directory", <<"d">>) \in ToSet(context.options)
<1> DEFINE S == {v \in DOMAIN environment : v \notin DOMAIN box.env \/ box.env[v] # environment[v]}
           differing == SetToSeq(S)
           spawn == [i \in 1 .. 4 |-> Option(<<"--watch-bus", "--host", "--forward-fd", "--forward-fd">>[i],
                                          <<<<>>, <<>>, <<"1">>, <<"2">>>>[i])]
           dir == <<Option("--directory", <<"d">>)>>
           Env(v) == Option("--env", <<v, environment[v]>>)
           envs == [i \in DOMAIN differing |-> Env(differing[i])]
           X == ToSet(spawn) \cup ToSet(dir) \cup {Env(v) : v \in S}
<1>1. context.options = spawn \o dir \o envs
  BY DEF makeHostContext
<1>2. differing \in Seq(S) /\ ToSet(differing) = S
  BY SetToSeqFacts, FS_Subset
<1>3. spawn \in Seq(X) /\ \A o \in ToSet(spawn) : o.option # "--env"
  <2>1. \A i \in 1 .. 4 : spawn[i].option # "--env"
    <3> TAKE i \in 1 .. 4
    <3>1. i = 1 \/ i = 2 \/ i = 3 \/ i = 4
      OBVIOUS
    <3> QED
      BY <3>1 DEF Option
  <2>2. spawn = [i \in 1 .. 4 |-> spawn[i]] /\ ToSet(spawn) = {spawn[i] : i \in 1 .. 4}
    BY DEF ToSet
  <2> HIDE DEF spawn
  <2>3. spawn \in Seq(ToSet(spawn))
    <3>1. spawn \in [1 .. 4 -> ToSet(spawn)]
      BY <2>2
    <3> DEFINE T == ToSet(spawn)
    <3>2. \E n \in Nat : spawn \in [1 .. n -> T]
      BY <3>1
    <3> HIDE DEF T
    <3>3. spawn \in Seq(T)
      BY <3>2
    <3> QED
      BY <3>3 DEF T
  <2> QED
    BY <2>1, <2>2, <2>3
<1>4. dir \in Seq(X) /\ ToSet(dir) = {Option("--directory", <<"d">>)}
  BY DEF ToSet
<1>5. Option("--directory", <<"d">>).option # "--env"
  BY DEF Option
<1> HIDE DEF differing, S
<1>6. envs \in Seq(X) /\ ToSet(envs) = {Env(v) : v \in S}
  <2>1. \A i \in DOMAIN differing : differing[i] \in S
    BY <1>2
  <2>2. DOMAIN envs = DOMAIN differing /\ \E n \in Nat : DOMAIN envs = 1 .. n
    BY <1>2
  <2>3. ToSet(envs) = {Env(v) : v \in S}
    <3>1. \A v \in S : \E i \in DOMAIN differing : v = differing[i]
      BY <1>2 DEF ToSet
    <3> QED
      <4>1. ToSet(envs) = {Env(differing[i]) : i \in DOMAIN differing}
        BY <2>2 DEF ToSet
      <4> HIDE DEF Env
      <4> QED
        BY <2>1, <3>1, <4>1
  <2>4. envs \in Seq(X)
    <3>1. \A i \in DOMAIN envs : envs[i] \in X
      BY <2>1
    <3> HIDE DEF envs, X
    <3>2. envs = [i \in DOMAIN envs |-> envs[i]]
      BY DEF envs
    <3> QED
      BY <2>2, <3>1, <3>2
  <2> QED
    BY <2>3, <2>4
<1> HIDE DEF envs, X, dir, spawn
<1>7. ToSet(context.options) = ToSet(spawn) \cup ToSet(dir) \cup ToSet(envs)
  <2>1. spawn \o dir \in Seq(X) /\ ToSet(spawn \o dir) = ToSet(spawn) \cup ToSet(dir)
    BY <1>3, <1>4, ToSetConcat
  <2> DEFINE front == spawn \o dir
  <2>2. front \in Seq(X) /\ envs \in Seq(X)
    BY <1>6, <2>1
  <2> HIDE DEF front
  <2>3. ToSet(front \o envs) = ToSet(front) \cup ToSet(envs)
    BY <2>2, ToSetConcat
  <2> QED
    BY <1>1, <2>1, <2>3 DEF front
<1>8. {o \in ToSet(context.options) : o.option = "--env"} = {Env(v) : v \in S}
  <2>1. \A v \in S : Env(v).option = "--env"
    BY DEF Option
  <2> HIDE DEF Env
  <2> QED
    BY <1>3, <1>4, <1>5, <1>6, <1>7, <2>1
<1>9. \A v \in S : Env(v).value = <<v, environment[v]>>
  BY DEF Option
<1>10. {o.value : o \in {Env(v) : v \in S}} = {<<v, environment[v]>> : v \in S}
  <2> HIDE DEF Env
  <2> QED
    BY <1>9
<1> QED
  BY <1>4, <1>7, <1>8, <1>10 DEF S

(* The host is told of what the calls set, because the environment has it. *)
LEMMA HostIsTold == ASSUME ProcessInv PROVE HostTold
<1> DEFINE box == [isFlatpak |-> TRUE, privileged |-> TRUE, env |-> system]
           context == makeHostContext(box, <<"p", "a">>, "d", env)
           told == {o.value : o \in {o \in ToSet(context.options) : o.option = "--env"}}
           Same(v) == v \in DOMAIN system /\ system[v] = wanted[v]
           Differs(v) == v \notin DOMAIN system \/ system[v] # env[v]
<1>1. IsFiniteSet(DOMAIN env)
  <2>1. IsFiniteSet(Variables \cup {"DUMMY"})
    BY ProcessAssumption, FS_AddElement
  <2> QED
    BY <2>1, FS_Subset DEF ProcessInv
<1>2. box.isFlatpak /\ box.privileged /\ box.env = system
  OBVIOUS
<1>3. context.words = <<"p", "a">>
  BY DEF makeHostContext
<1> HIDE DEF context, box
<1>4. /\ told = {<<v, env[v]>> : v \in {v \in DOMAIN env : Differs(v)}}
      /\ Option("--directory", <<"d">>) \in ToSet(context.options)
  BY <1>1, <1>2, OptionsTold DEF context
<1> HIDE DEF told
<1>5. {pair \in told : pair[1] \in Variables} = {<<v, wanted[v]>> : v \in {v \in DOMAIN wanted : ~Same(v)}}
  <2>1. CASE env = NoVariables
    <3>1. DOMAIN env = {} /\ told = {}
      BY <1>4, <2>1 DEF NoVariables
    <3>2. \A v \in DOMAIN wanted : Same(v)
      <4>1. wanted = Without(system, {"DUMMY"})
        BY <2>1 DEF ProcessInv, Effective
      <4> QED
        BY <4>1 DEF Without, Restrict
    <3> QED
      BY <3>1, <3>2
  <2>2. CASE env # NoVariables
    <3>1. DOMAIN wanted = DOMAIN env \ {"DUMMY"} /\ \A v \in DOMAIN wanted : wanted[v] = env[v]
      <4>1. wanted = Without(env, {"DUMMY"})
        BY <2>2 DEF ProcessInv, Effective
      <4> QED
        BY <4>1 DEF Without, Restrict
    <3>2. DOMAIN wanted = DOMAIN env \cap Variables
      BY <3>1, ProcessAssumption DEF ProcessInv
    <3>3. \A v \in DOMAIN wanted : Differs(v) = ~Same(v)
      BY <3>1
    <3>4. {pair \in told : pair[1] \in Variables} =
             {<<v, env[v]>> : v \in {v \in DOMAIN wanted : Differs(v)}}
      BY <1>4, <3>2
    <3> QED
      BY <3>1, <3>3, <3>4
  <2> QED
    BY <2>1, <2>2
<1> QED
  BY <1>3, <1>4, <1>5 DEF HostTold, told, context, box

(* Whatever sets, unsets and clears the environment, a child sees the variables *)
(* that the calls leave; the host of a sandbox is told of those that were set to *)
(* another value and of no other, so that what was unset or cleared stays      *)
(* visible there; and execute() leaves no process behind (kprocess.cpp,        *)
(* ksandbox.cpp).                                                          *)
THEOREM ProcessIsSound == ProcessSpec => []ProcessSound
<1>1. ProcessInv => ProcessSound
  BY HostIsTold DEF ProcessInv, ProcessSound
<1> QED
  BY <1>1, ProcessInitInv, ProcessNextInv, PTL DEF ProcessSpec

-----------------------------------------------------------------------------
(* Loops: FoldLeft over the numbers 1 .. N, as the functions of its steps.    *)

(* What holds before a loop and is kept by each of its steps. *)
LEMMA LoopInduction ==
    ASSUME NEW N \in Nat, NEW S, 0 \in S, \A k \in 1 .. N : k - 1 \in S => k \in S
    PROVE  0 .. N \subseteq S
<1> DEFINE bad == {k \in 0 .. N : k \notin S}
<1>1. ASSUME bad # {} PROVE FALSE
  <2>1. bad \subseteq Nat
    OBVIOUS
  <2> HIDE DEF bad
  <2>2. PICK m \in bad : \A n \in bad : m <= n
    BY <1>1, <2>1, LeastNatural
  <2> USE DEF bad
  <2>3. m \in 1 .. N /\ m \notin S
    OBVIOUS
  <2>4. m - 1 \in 0 .. N /\ m - 1 \notin bad
    BY <2>2, <2>3
  <2> QED
    BY <2>3, <2>4
<1> QED
  BY <1>1

(* The greatest of some of the numbers 1 .. N. *)
LEMMA MaxFacts ==
    ASSUME NEW N \in Nat, NEW s \in SUBSET (1 .. N), s # {}
    PROVE  Max(s) \in s /\ \A y \in s : y <= Max(s)
<1> DEFINE T == {N - x : x \in s}
<1>1. T \subseteq Nat /\ T # {}
  <2>1. \A x \in s : N - x \in Nat
    OBVIOUS
  <2> QED
    BY <2>1
<1> HIDE DEF T
<1>2. PICK m \in T : \A n \in T : m <= n
  BY <1>1, LeastNatural
<1>3. PICK x \in s : m = N - x
  BY DEF T
<1>4. \A y \in s : N - y \in T
  BY DEF T
<1>5. \A y \in s : x >= y
  BY <1>2, <1>3, <1>4
<1>6. \E z \in s : \A y \in s : z >= y
  BY <1>5
<1>7. Max(s) \in s /\ \A y \in s : Max(s) >= y
  BY <1>6 DEF Max
<1> QED
  BY <1>7

LEMMA MaxOfInterval ==
    ASSUME NEW N \in Nat, NEW k \in 1 .. N
    PROVE  /\ Max(1 .. k) = k /\ (1 .. k) \ {k} = 1 .. k - 1
           /\ 1 .. k # {} /\ 1 .. k \in SUBSET (1 .. N)
<1>1. 1 .. k # {} /\ 1 .. k \in SUBSET (1 .. N) /\ k \in 1 .. k
  OBVIOUS
<1>2. Max(1 .. k) \in 1 .. k /\ \A y \in 1 .. k : y <= Max(1 .. k)
  BY <1>1, MaxFacts
<1> QED
  BY <1>1, <1>2

(* The function that FoldLeft iterates exists if its steps stay in a set. *)
Steps(N, T) == [1 .. N -> [T -> T]]
Iterates(h, N, T, base, F) ==
    /\ h \in [SUBSET (1 .. N) -> T]
    /\ \A s \in SUBSET (1 .. N) : h[s] = IF s = {} THEN base ELSE F[Max(s)][h[s \ {Max(s)}]]

LEMMA FoldExists ==
    ASSUME NEW T, NEW base \in T, NEW N \in Nat, NEW F \in Steps(N, T)
    PROVE  \E h : Iterates(h, N, T, base, F)
<1> DEFINE Good(n, h) ==
              /\ h \in [SUBSET (1 .. n) -> T]
              /\ \A s \in SUBSET (1 .. n) :
                    h[s] = IF s = {} THEN base ELSE F[Max(s)][h[s \ {Max(s)}]]
           S == {n \in 0 .. N : \E h : Good(n, h)}
<1>1. 0 \in S
  <2>1. SUBSET (1 .. 0) = {{}}
    OBVIOUS
  <2>2. Good(0, [s \in SUBSET (1 .. 0) |-> base])
    BY <2>1
  <2> HIDE DEF Good
  <2>3. \E h : Good(0, h)
    BY <2>2
  <2> QED
    BY <2>3
<1>2. ASSUME NEW k \in 1 .. N, k - 1 \in S PROVE k \in S
  <2>1. PICK g : Good(k - 1, g)
    <3> HIDE DEF Good
    <3> QED
      BY <1>2
  <2> DEFINE h == [s \in SUBSET (1 .. k) |-> IF k \in s THEN F[k][g[s \ {k}]] ELSE g[s]]
  <2>2. \A s \in SUBSET (1 .. k) : s \ {k} \in SUBSET (1 .. k - 1) /\ (k \notin s => s \in SUBSET (1 .. k - 1))
    <3>1. \A x \in 1 .. k : x # k => x \in 1 .. k - 1
      OBVIOUS
    <3> QED
      BY <3>1
  <2>3. h \in [SUBSET (1 .. k) -> T]
    <3>1. F[k] \in [T -> T]
      BY DEF Steps
    <3>2. \A s \in SUBSET (1 .. k) : g[s \ {k}] \in T /\ (k \notin s => g[s] \in T)
      BY <2>1, <2>2
    <3>3. \A s \in SUBSET (1 .. k) : (IF k \in s THEN F[k][g[s \ {k}]] ELSE g[s]) \in T
      BY <3>1, <3>2
    <3> QED
      BY <3>3
  <2>4. ASSUME NEW s \in SUBSET (1 .. k)
        PROVE  h[s] = IF s = {} THEN base ELSE F[Max(s)][h[s \ {Max(s)}]]
    <3>1. CASE k \in s
      <4>1. k \in Nat /\ s # {}
        BY <3>1
      <4>2. Max(s) \in 1 .. k /\ k <= Max(s)
        BY <3>1, <4>1, MaxFacts
      <4>3. Max(s) = k
        BY <4>2
      <4>4. h[s \ {k}] = g[s \ {k}]
        <5>1. s \ {k} \in SUBSET (1 .. k) /\ k \notin s \ {k}
          OBVIOUS
        <5> QED
          BY <5>1
      <4> QED
        BY <3>1, <4>3, <4>4
    <3>2. CASE k \notin s /\ s # {}
      <4>1. s \in SUBSET (1 .. k - 1)
        BY <2>2, <3>2
      <4>2. g[s] = F[Max(s)][g[s \ {Max(s)}]]
        BY <2>1, <3>2, <4>1
      <4>3. h[s] = g[s] /\ h[s \ {Max(s)}] = g[s \ {Max(s)}]
        BY <3>2
      <4> QED
        BY <3>2, <4>2, <4>3
    <3>3. CASE s = {}
      <4>1. h[s] = g[s]
        BY <3>3
      <4>2. s \in SUBSET (1 .. k - 1)
        BY <3>3
      <4> QED
        BY <2>1, <3>3, <4>1, <4>2
    <3> QED
      BY <3>1, <3>2, <3>3
  <2> HIDE DEF h
  <2>5. Good(k, h)
    BY <2>3, <2>4
  <2> HIDE DEF Good
  <2>6. k \in 0 .. N
    OBVIOUS
  <2> QED
    BY <2>5, <2>6
<1>3. N \in 0 .. N
  OBVIOUS
<1>4. N \in S
  <2> HIDE DEF S
  <2> QED
    BY <1>1, <1>2, <1>3, LoopInduction
<1> QED
  BY <1>4 DEF Iterates

(* What is iterated, step by step: it stays in the set, from base on. *)
Iterated(it, N, T, base, F) ==
    /\ it[{}] = base
    /\ \A s \in SUBSET (1 .. N) :
          s # {} /\ it[s \ {Max(s)}] \in T => it[s] = F[Max(s)][it[s \ {Max(s)}]]

Loops(it, N, T, base, F) ==
    /\ it[1 .. 0] = base
    /\ \A k \in 0 .. N : it[1 .. k] \in T
    /\ \A k \in 1 .. N : it[1 .. k] = F[k][it[1 .. k - 1]]

LEMMA FoldLoop ==
    ASSUME NEW T, NEW base \in T, NEW N \in Nat, NEW F \in Steps(N, T), NEW it,
           Iterated(it, N, T, base, F)
    PROVE  Loops(it, N, T, base, F)
<1> DEFINE S == {k \in 0 .. N : it[1 .. k] \in T}
<1>1. it[1 .. 0] = base
  <2>1. 1 .. 0 = {}
    OBVIOUS
  <2> QED
    BY <2>1 DEF Iterated
<1>2. ASSUME NEW k \in 1 .. N, it[1 .. k - 1] \in T
      PROVE  it[1 .. k] = F[k][it[1 .. k - 1]] /\ it[1 .. k] \in T
  <2>1. /\ Max(1 .. k) = k /\ (1 .. k) \ {k} = 1 .. k - 1
        /\ 1 .. k # {} /\ 1 .. k \in SUBSET (1 .. N)
    BY MaxOfInterval
  <2>2. F[k] \in [T -> T]
    BY DEF Steps
  <2>3. it[1 .. k] = F[k][it[1 .. k - 1]]
    BY <1>2, <2>1 DEF Iterated
  <2> QED
    BY <1>2, <2>2, <2>3
<1>3. 0 \in S
  BY <1>1
<1>4. ASSUME NEW k \in 1 .. N, k - 1 \in S PROVE k \in S
  BY <1>2, <1>4
<1>5. 0 .. N \subseteq S
  <2> HIDE DEF S
  <2> QED
    BY <1>3, <1>4, LoopInduction
<1>6. \A k \in 1 .. N : k - 1 \in 0 .. N
  OBVIOUS
<1> QED
  BY <1>1, <1>2, <1>5, <1>6 DEF Loops

-----------------------------------------------------------------------------
(* Urls that go through the portal, for any lists of them and any batches.    *)

Urls == UNION {ToSet(urls) : urls \in UrlLists}
Uris == {LocalFile(url) : url \in Urls} \cup {Mounted(url) : url \in Urls}

LEMMA AppendFacts ==
    ASSUME NEW X, NEW s \in Seq(X), NEW x \in X
    PROVE  /\ Append(s, x) \in Seq(X) /\ Append(s, x) # <<>>
           /\ DOMAIN Append(s, x) = 1 .. Len(s) + 1
           /\ \A i \in 1 .. Len(s) : Append(s, x)[i] = s[i]
           /\ Append(s, x)[Len(s) + 1] = x
           /\ ToSet(Append(s, x)) = ToSet(s) \cup {x}
<1>1. /\ Append(s, x) \in Seq(X) /\ Len(s) \in Nat /\ DOMAIN s = 1 .. Len(s)
      /\ DOMAIN Append(s, x) = 1 .. Len(s) + 1
      /\ \A i \in 1 .. Len(s) : Append(s, x)[i] = s[i]
      /\ Append(s, x)[Len(s) + 1] = x
  OBVIOUS
<1>2. \A i \in 1 .. Len(s) + 1 : i \in 1 .. Len(s) \/ i = Len(s) + 1
  BY <1>1
<1>3. 1 .. Len(s) \subseteq 1 .. Len(s) + 1 /\ Len(s) + 1 \in 1 .. Len(s) + 1
  BY <1>1
<1>4. ToSet(Append(s, x)) = ToSet(s) \cup {x}
  BY <1>1, <1>2, <1>3 DEF ToSet
<1> QED
  BY <1>1, <1>4

(* The requests are for the remote urls, at their places. *)
LEMMA RequestsFacts ==
    ASSUME NEW urls \in Seq(Urls)
    PROVE  /\ Requests(urls) \in Seq(DOMAIN urls)
           /\ ToSet(Requests(urls)) = {i \in DOMAIN urls : ~urls[i].local}
<1> DEFINE N == Len(urls)
           ids == [i \in DOMAIN urls |-> i]
           T == Seq(1 .. N)
           none == <<>>
           Add(rs, i) == IF urls[i].local THEN rs ELSE Append(rs, i)
           F == [k \in 1 .. N |-> [rs \in T |-> Add(rs, ids[k])]]
<1>1. N \in Nat /\ DOMAIN urls = 1 .. N /\ DOMAIN ids = 1 .. N /\ none \in T
  OBVIOUS
<1>2. ASSUME NEW i \in 1 .. N, NEW rs \in T
      PROVE  Add(rs, i) \in T /\ ToSet(Add(rs, i)) = ToSet(rs) \cup (IF urls[i].local THEN {} ELSE {i})
  <2>1. Append(rs, i) \in T /\ ToSet(Append(rs, i)) = ToSet(rs) \cup {i}
    BY AppendFacts
  <2> QED
    BY <2>1
<1> HIDE DEF T
<1>3. \A k \in 1 .. N : ids[k] = k /\ \A rs \in T : Add(rs, ids[k]) \in T
  <2> HIDE DEF Add
  <2> QED
    BY <1>1, <1>2
<1>4. F \in Steps(N, T)
  <2> HIDE DEF Add, ids
  <2> QED
    BY <1>3 DEF Steps
<1> HIDE DEF N
<1>5. PICK h : Iterates(h, N, T, none, F)
  <2> HIDE DEF F
  <2> QED
    BY <1>1, <1>4, FoldExists
<1>6. \E it : it = [s \in SUBSET DOMAIN ids |->
                       IF s = {} THEN none ELSE Add(it[s \ {Max(s)}], ids[Max(s)])]
  <2>1. ASSUME NEW s \in SUBSET (1 .. N), s # {} PROVE h[s] = Add(h[s \ {Max(s)}], ids[Max(s)])
    <3>1. Max(s) \in 1 .. N /\ s \ {Max(s)} \in SUBSET (1 .. N)
      BY <1>1, <2>1, MaxFacts
    <3>2. h[s \ {Max(s)}] \in T
      BY <1>5, <3>1 DEF Iterates
    <3> HIDE DEF Add, ids
    <3> QED
      BY <1>5, <2>1, <3>1, <3>2 DEF Iterates
  <2> HIDE DEF Add, ids, F
  <2>2. h = [s \in SUBSET DOMAIN ids |-> IF s = {} THEN none ELSE Add(h[s \ {Max(s)}], ids[Max(s)])]
    BY <1>1, <1>5, <2>1 DEF Iterates
  <2> QED
    BY <2>2
<1>7. PICK it : /\ it = [s \in SUBSET DOMAIN ids |->
                              IF s = {} THEN none ELSE Add(it[s \ {Max(s)}], ids[Max(s)])]
                /\ Requests(urls) = it[DOMAIN ids]
  BY <1>6 DEF Requests, FoldLeftDomain, FoldLeft, MapThenFoldSet, none
<1> HIDE DEF Add, ids
<1>8. Loops(it, N, T, none, F)
  <2>1. ASSUME NEW s \in SUBSET (1 .. N), s # {}, it[s \ {Max(s)}] \in T
        PROVE  it[s] = F[Max(s)][it[s \ {Max(s)}]]
    <3>1. Max(s) \in 1 .. N
      BY <1>1, <2>1, MaxFacts
    <3>2. it[s] = Add(it[s \ {Max(s)}], ids[Max(s)])
      BY <1>1, <1>7, <2>1, <3>1
    <3> QED
      BY <2>1, <3>1, <3>2
  <2>2. it[{}] = none
    BY <1>1, <1>7
  <2> HIDE DEF F
  <2>3. Iterated(it, N, T, none, F)
    BY <2>1, <2>2 DEF Iterated
  <2> QED
    BY <1>1, <1>4, <2>3, FoldLoop
<1>9. ASSUME NEW k \in 1 .. N
      PROVE  /\ k - 1 \in 0 .. N /\ k \in 0 .. N /\ it[1 .. k - 1] \in T
             /\ it[1 .. k] = Add(it[1 .. k - 1], ids[k])
  <2>1. k - 1 \in 0 .. N /\ k \in 0 .. N
    BY <1>1
  <2>2. it[1 .. k - 1] \in T /\ it[1 .. k] = F[k][it[1 .. k - 1]]
    BY <1>8, <2>1 DEF Loops
  <2> QED
    BY <2>1, <2>2
<1>10. /\ N \in 0 .. N /\ 0 \in 0 .. N /\ it[1 .. 0] = none
      /\ Requests(urls) = it[1 .. N] /\ it[1 .. N] \in T
  <2>1. N \in 0 .. N /\ 0 \in 0 .. N
    BY <1>1
  <2> QED
    BY <1>1, <1>7, <1>8, <2>1 DEF Loops
<1> DEFINE S == {k \in 0 .. N : ToSet(it[1 .. k]) = {i \in 1 .. k : ~urls[i].local}}
<1>11. 0 \in S
  <2>1. {i \in 1 .. 0 : ~urls[i].local} = {} /\ ToSet(none) = {}
    BY DEF ToSet, none
  <2> QED
    BY <1>10, <2>1
<1>12. ASSUME NEW k \in 1 .. N, k - 1 \in S PROVE k \in S
  <2>1. it[1 .. k] = Add(it[1 .. k - 1], k)
    BY <1>3, <1>9
  <2>2. ToSet(it[1 .. k]) = {i \in 1 .. k - 1 : ~urls[i].local} \cup (IF urls[k].local THEN {} ELSE {k})
    BY <1>2, <1>9, <1>12, <2>1
  <2>3. \A i : i \in 1 .. k <=> i \in 1 .. k - 1 \/ i = k
    BY <1>1
  <2>4. {i \in 1 .. k : ~urls[i].local} = {i \in 1 .. k - 1 : ~urls[i].local} \cup (IF urls[k].local THEN {} ELSE {k})
    BY <2>3
  <2> QED
    BY <1>9, <2>2, <2>4
<1>13. N \in S
  <2> HIDE DEF S
  <2> QED
    BY <1>1, <1>10, <1>11, <1>12, LoopInduction
<1> QED
  BY <1>1, <1>10, <1>13 DEF T

(* The answers go to the places of the remote urls. *)
LEMMA FuseRedirectFacts ==
    ASSUME NEW urls \in Seq(Urls)
    PROVE  fuseRedirect(urls) = Paths(urls) /\ Paths(urls) \in Seq(Uris)
<1> DEFINE rs == Requests(urls)
           N == Len(rs)
           D == DOMAIN urls
           T == [D -> Uris]
           local == [i \in D |-> LocalFile(urls[i])]
           Add(paths, i) == [paths EXCEPT ![i] = Mounted(urls[i])]
           F == [k \in 1 .. N |-> [paths \in T |-> Add(paths, rs[k])]]
<1>a. rs \in Seq(D) /\ ToSet(rs) = {i \in D : ~urls[i].local}
  BY RequestsFacts
<1>b. \A i \in D : urls[i] \in Urls
  OBVIOUS
<1>c. \A i \in D : LocalFile(urls[i]) \in Uris /\ Mounted(urls[i]) \in Uris
  BY <1>b DEF Uris
<1> HIDE DEF rs
<1>1. N \in Nat /\ DOMAIN rs = 1 .. N /\ local \in T
  BY <1>a, <1>c
<1>2. \A k \in 1 .. N : rs[k] \in D
  BY <1>a
<1>3. \A k \in 1 .. N : \A paths \in T : Add(paths, rs[k]) \in T
  BY <1>2, <1>c
<1> HIDE DEF T, local
<1>4. F \in Steps(N, T)
  <2> HIDE DEF Add, rs
  <2> QED
    BY <1>3 DEF Steps
<1> HIDE DEF N
<1>5. PICK h : Iterates(h, N, T, local, F)
  <2> HIDE DEF F
  <2> QED
    BY <1>1, <1>4, FoldExists
<1>6. \E it : it = [s \in SUBSET DOMAIN rs |->
                       IF s = {} THEN local ELSE Add(it[s \ {Max(s)}], rs[Max(s)])]
  <2>1. ASSUME NEW s \in SUBSET (1 .. N), s # {} PROVE h[s] = Add(h[s \ {Max(s)}], rs[Max(s)])
    <3>1. Max(s) \in 1 .. N /\ s \ {Max(s)} \in SUBSET (1 .. N)
      BY <1>1, <2>1, MaxFacts
    <3>2. h[s \ {Max(s)}] \in T
      BY <1>5, <3>1 DEF Iterates
    <3> HIDE DEF Add, rs
    <3> QED
      BY <1>5, <2>1, <3>1, <3>2 DEF Iterates
  <2> HIDE DEF Add, rs, F
  <2>2. h = [s \in SUBSET DOMAIN rs |-> IF s = {} THEN local ELSE Add(h[s \ {Max(s)}], rs[Max(s)])]
    BY <1>1, <1>5, <2>1 DEF Iterates
  <2> QED
    BY <2>2
<1>7. PICK it : /\ it = [s \in SUBSET DOMAIN rs |->
                              IF s = {} THEN local ELSE Add(it[s \ {Max(s)}], rs[Max(s)])]
                /\ fuseRedirect(urls) = it[DOMAIN rs]
  BY <1>6 DEF fuseRedirect, FoldLeft, MapThenFoldSet, local, rs, D
<1> HIDE DEF Add, rs
<1>8. Loops(it, N, T, local, F)
  <2>1. ASSUME NEW s \in SUBSET (1 .. N), s # {}, it[s \ {Max(s)}] \in T
        PROVE  it[s] = F[Max(s)][it[s \ {Max(s)}]]
    <3>1. Max(s) \in 1 .. N
      BY <1>1, <2>1, MaxFacts
    <3>2. it[s] = Add(it[s \ {Max(s)}], rs[Max(s)])
      BY <1>1, <1>7, <2>1, <3>1
    <3> QED
      BY <2>1, <3>1, <3>2
  <2>2. it[{}] = local
    BY <1>1, <1>7
  <2> HIDE DEF F
  <2>3. Iterated(it, N, T, local, F)
    BY <2>1, <2>2 DEF Iterated
  <2> QED
    BY <1>1, <1>4, <2>3, FoldLoop
<1>9. ASSUME NEW k \in 1 .. N
      PROVE  /\ k - 1 \in 0 .. N /\ k \in 0 .. N /\ it[1 .. k - 1] \in T
             /\ it[1 .. k] = Add(it[1 .. k - 1], rs[k])
  <2>1. k - 1 \in 0 .. N /\ k \in 0 .. N
    BY <1>1
  <2>2. it[1 .. k - 1] \in T /\ it[1 .. k] = F[k][it[1 .. k - 1]]
    BY <1>8, <2>1 DEF Loops
  <2> QED
    BY <2>1, <2>2
<1>10. /\ N \in 0 .. N /\ 0 \in 0 .. N /\ it[1 .. 0] = local
      /\ fuseRedirect(urls) = it[1 .. N] /\ it[1 .. N] \in T
  <2>1. N \in 0 .. N /\ 0 \in 0 .. N
    BY <1>1
  <2> QED
    BY <1>1, <1>7, <1>8, <2>1 DEF Loops
<1> DEFINE Told(k) == {rs[j] : j \in 1 .. k}
           S == {k \in 0 .. N : \A i \in D :
                    it[1 .. k][i] = IF i \in Told(k) THEN Mounted(urls[i]) ELSE LocalFile(urls[i])}
<1>11. 0 \in S
  BY <1>10 DEF local
<1>12. ASSUME NEW k \in 1 .. N, k - 1 \in S PROVE k \in S
  <2>1. it[1 .. k] = [it[1 .. k - 1] EXCEPT ![rs[k]] = Mounted(urls[rs[k]])]
    BY <1>9 DEF Add
  <2>2. it[1 .. k - 1] \in [D -> Uris]
    BY <1>9 DEF T
  <2>3. \A i \in D : it[1 .. k][i] = IF i = rs[k] THEN Mounted(urls[i]) ELSE it[1 .. k - 1][i]
    BY <2>1, <2>2
  <2>4. \A j : j \in 1 .. k <=> j \in 1 .. k - 1 \/ j = k
    BY <1>1
  <2>5. \A i : i \in Told(k) <=> i \in Told(k - 1) \/ i = rs[k]
    BY <2>4
  <2> HIDE DEF Told
  <2> QED
    BY <1>9, <1>12, <2>3, <2>5
<1>13. N \in S
  <2> HIDE DEF S
  <2> QED
    BY <1>1, <1>10, <1>11, <1>12, LoopInduction
<1>14. Told(N) = {i \in D : ~urls[i].local}
  BY <1>a, <1>1 DEF ToSet
<1>15. \A i \in D : it[1 .. N][i] = IF urls[i].local THEN LocalFile(urls[i]) ELSE Mounted(urls[i])
  <2> HIDE DEF Told
  <2> QED
    BY <1>13, <1>14
<1>16. it[1 .. N] = Paths(urls)
  BY <1>10, <1>15 DEF T, Paths
<1>17. Paths(urls) \in Seq(Uris)
  <2>1. Paths(urls) \in [D -> Uris]
    BY <1>c DEF Paths
  <2>2. \E n \in Nat : D = 1 .. n
    OBVIOUS
  <2> HIDE DEF D
  <2> QED
    BY <2>1, <2>2
<1> QED
  BY <1>10, <1>16, <1>17

(* Batch by batch, all files are added, in order. *)
LEMMA AddedFacts ==
    ASSUME NEW paths \in Seq(Uris), NEW opened \in 0 .. Len(paths)
    PROVE  /\ Added(paths, opened) \in Seq(Uris)
           /\ opened = Len(paths) => Added(paths, opened) = paths
<1> DEFINE front == SubSeq(paths, 1, opened)
           N == Len(front)
           T == [files : Seq(Uris), pending : Seq(Uris)]
           none == [files |-> <<>>, pending |-> <<>>]
           F == [k \in 1 .. N |-> [t \in T |-> Batched(t, front[k])]]
<1>a. /\ front \in Seq(Uris) /\ (opened = Len(paths) => front = paths)
      /\ <<>> \in Seq(Uris)
  OBVIOUS
<1> HIDE DEF front
<1>1. N \in Nat /\ DOMAIN front = 1 .. N /\ none \in T
  BY <1>a
<1>2. ASSUME NEW k \in 1 .. N, NEW t \in T
      PROVE  /\ Batched(t, front[k]) \in T
             /\ Batched(t, front[k]).files \o Batched(t, front[k]).pending = Append(t.files \o t.pending, front[k])
  <2> DEFINE pending == Append(t.pending, front[k])
             full == [files |-> t.files \o pending, pending |-> <<>>]
             more == [t EXCEPT !.pending = pending]
  <2>1. front[k] \in Uris /\ t.files \in Seq(Uris) /\ t.pending \in Seq(Uris)
    BY <1>a, <1>1
  <2>2. /\ pending \in Seq(Uris) /\ t.files \o pending \in Seq(Uris)
        /\ t.files \o pending = Append(t.files \o t.pending, front[k])
        /\ (t.files \o pending) \o <<>> = t.files \o pending
    BY <2>1
  <2>3. full \in T /\ full.files \o full.pending = t.files \o pending
    BY <1>a, <2>2
  <2>4. more \in T /\ more.files = t.files /\ more.pending = pending
    BY <2>2
  <2>5. Batched(t, front[k]) = full \/ Batched(t, front[k]) = more
    BY DEF Batched
  <2> HIDE DEF full, more, pending
  <2> QED
    BY <2>2, <2>3, <2>4, <2>5
<1> HIDE DEF T, none
<1>3. \A k \in 1 .. N : \A t \in T : Batched(t, front[k]) \in T
  BY <1>2
<1> DEFINE all == FoldLeft(Batched, none, front)
<1>4. F \in Steps(N, T)
  <2> QED
    BY <1>3 DEF Steps
<1> HIDE DEF N
<1>5. PICK h : Iterates(h, N, T, none, F)
  <2> HIDE DEF F
  <2> QED
    BY <1>1, <1>4, FoldExists
<1>6. \E it : it = [s \in SUBSET DOMAIN front |->
                       IF s = {} THEN none ELSE Batched(it[s \ {Max(s)}], front[Max(s)])]
  <2>1. ASSUME NEW s \in SUBSET (1 .. N), s # {} PROVE h[s] = Batched(h[s \ {Max(s)}], front[Max(s)])
    <3>1. Max(s) \in 1 .. N /\ s \ {Max(s)} \in SUBSET (1 .. N)
      BY <1>1, <2>1, MaxFacts
    <3>2. h[s \ {Max(s)}] \in T
      BY <1>5, <3>1 DEF Iterates
    <3> QED
      BY <1>5, <2>1, <3>1, <3>2 DEF Iterates
  <2> HIDE DEF F
  <2>2. h = [s \in SUBSET DOMAIN front |-> IF s = {} THEN none ELSE Batched(h[s \ {Max(s)}], front[Max(s)])]
    BY <1>1, <1>5, <2>1 DEF Iterates
  <2> QED
    BY <2>2
<1>7. PICK it : /\ it = [s \in SUBSET DOMAIN front |->
                              IF s = {} THEN none ELSE Batched(it[s \ {Max(s)}], front[Max(s)])]
                /\ all = it[DOMAIN front]
  BY <1>6 DEF all, FoldLeft, MapThenFoldSet
<1> HIDE DEF all
<1>8. Loops(it, N, T, none, F)
  <2>1. ASSUME NEW s \in SUBSET (1 .. N), s # {}, it[s \ {Max(s)}] \in T
        PROVE  it[s] = F[Max(s)][it[s \ {Max(s)}]]
    <3>1. Max(s) \in 1 .. N
      BY <1>1, <2>1, MaxFacts
    <3>2. it[s] = Batched(it[s \ {Max(s)}], front[Max(s)])
      BY <1>1, <1>7, <2>1, <3>1
    <3> QED
      BY <2>1, <3>1, <3>2
  <2>2. it[{}] = none
    BY <1>1, <1>7
  <2> HIDE DEF F
  <2>3. Iterated(it, N, T, none, F)
    BY <2>1, <2>2 DEF Iterated
  <2> QED
    BY <1>1, <1>4, <2>3, FoldLoop
<1>9. ASSUME NEW k \in 1 .. N
      PROVE  /\ k - 1 \in 0 .. N /\ k \in 0 .. N /\ it[1 .. k - 1] \in T
             /\ it[1 .. k] = Batched(it[1 .. k - 1], front[k])
  <2>1. k - 1 \in 0 .. N /\ k \in 0 .. N
    BY <1>1
  <2>2. it[1 .. k - 1] \in T /\ it[1 .. k] = F[k][it[1 .. k - 1]]
    BY <1>8, <2>1 DEF Loops
  <2> QED
    BY <2>1, <2>2
<1>10. /\ N \in 0 .. N /\ 0 \in 0 .. N /\ it[1 .. 0] = none
      /\ all = it[1 .. N] /\ it[1 .. N] \in T
  <2>1. N \in 0 .. N /\ 0 \in 0 .. N
    BY <1>1
  <2> QED
    BY <1>1, <1>7, <1>8, <2>1 DEF Loops
<1> DEFINE S == {k \in 0 .. N : it[1 .. k].files \o it[1 .. k].pending = SubSeq(front, 1, k)}
<1>11. 0 \in S
  <2>1. none.files \o none.pending = SubSeq(front, 1, 0)
    BY <1>a DEF none
  <2> QED
    BY <1>10, <2>1
<1>12. ASSUME NEW k \in 1 .. N, k - 1 \in S PROVE k \in S
  <2>1. it[1 .. k].files \o it[1 .. k].pending
          = Append(it[1 .. k - 1].files \o it[1 .. k - 1].pending, front[k])
    BY <1>2, <1>9
  <2>2. Append(SubSeq(front, 1, k - 1), front[k]) = SubSeq(front, 1, k)
    BY <1>a DEF N
  <2> QED
    BY <1>9, <1>12, <2>1, <2>2
<1>13. N \in S
  <2> HIDE DEF S
  <2> QED
    BY <1>1, <1>10, <1>11, <1>12, LoopInduction
<1>14. SubSeq(front, 1, N) = front
  BY <1>a DEF N
<1>15. all \in T /\ all.files \o all.pending = front
  BY <1>10, <1>13, <1>14
<1>16. Added(paths, opened) = IF opened = Len(paths) THEN all.files \o all.pending ELSE all.files
  BY DEF Added, all, none, front
<1> QED
  BY <1>a, <1>15, <1>16 DEF T

MimeStates == {"none", "alive", "destroyed"}
UrlsHeld == UrlLists \cup {<<>>}
Transfer == [state : {"open", "stopped", "closed"}, owner : Mimes, iface : BOOLEAN, files : Seq(Uris)]

MimeType ==
    /\ mimes \in [Mimes -> [state : MimeStates, urls : UrlsHeld, portal : Nat]]
    /\ transfers \in Seq(Transfer)
    /\ cache \in [Readers -> [id : Nat, uris : Seq(Uris)]]
    /\ got \in [Readers -> [mime : Mimes \cup {"none"}, uris : Seq(Uris) \cup UrlsHeld]]

(* The transfers are those of objects that were made, an open one is complete, *)
(* and the object lives whose transfer has an interface object; only the     *)
(* signal of an ended transfer takes that from an open one.                 *)
OwnersInv ==
    \A id \in DOMAIN transfers :
       /\ mimes[transfers[id].owner].state # "none"
       /\ transfers[id].iface => IsAlive(id)
       /\ IsOpen(id) =>
            /\ transfers[id].files = Paths(mimes[transfers[id].owner].urls)
            /\ transfers[id].iface \/ \E i \in DOMAIN transfers : transfers[i].state = "closed"

(* The transfer of an object is its own, and what is kept of a transfer are    *)
(* the urls of its object.                                                 *)
KeptInv ==
    /\ \A m \in Mimes : mimes[m].portal # 0 =>
          /\ mimes[m].portal \in DOMAIN transfers
          /\ transfers[mimes[m].portal].owner = m
    /\ \A r \in Readers : cache[r].id # 0 =>
          /\ cache[r].id \in DOMAIN transfers
          /\ cache[r].uris = Paths(mimes[transfers[cache[r].id].owner].urls)

GotInv ==
    \A r \in Readers : got[r].mime # "none" =>
       /\ mimes[got[r].mime].state # "none"
       /\ got[r].uris \in {mimes[got[r].mime].urls, Paths(mimes[got[r].mime].urls)}

MimeInv == MimeType /\ OwnersInv /\ KeptInv /\ GotInv

LEMMA HeldUrls ==
    ASSUME NEW urls \in UrlsHeld
    PROVE  urls \in Seq(Urls)
<1>1. CASE urls \in UrlLists
  <2>1. urls \in Seq(ToSet(urls)) /\ ToSet(urls) \subseteq Urls
    BY <1>1, PortalAssumption DEF Urls
  <2> QED
    BY <2>1
<1>2. CASE urls = <<>>
  BY <1>2
<1> QED
  BY <1>1, <1>2 DEF UrlsHeld

LEMMA TransferFacts ==
    ASSUME MimeType
    PROVE  /\ transfers \in Seq(Transfer)
           /\ \A id \in DOMAIN transfers :
                 transfers[id] \in Transfer /\ transfers[id].owner \in Mimes
<1>1. transfers \in Seq(Transfer)
  BY DEF MimeType
<1>2. \A id \in DOMAIN transfers : transfers[id] \in Transfer
  BY <1>1
<1>3. \A t \in Transfer : t.owner \in Mimes
  BY DEF Transfer
<1> QED
  BY <1>1, <1>2, <1>3

LEMMA InitMimeInv == MimeInit => MimeInv
<1> SUFFICES ASSUME MimeInit PROVE MimeInv
  OBVIOUS
<1>1. <<>> \in Seq(Transfer) /\ <<>> \in Seq(Uris) /\ DOMAIN <<>> = {} /\ 0 \in Nat
  OBVIOUS
<1>2. MimeType
  BY <1>1 DEF MimeInit, MimeType, NoMime, Nothing, MimeStates, UrlsHeld
<1>3. OwnersInv
  BY <1>1 DEF MimeInit, OwnersInv
<1>4. KeptInv /\ GotInv
  BY DEF MimeInit, KeptInv, GotInv, NoMime, Nothing
<1> QED
  BY <1>2, <1>3, <1>4 DEF MimeInv

(* A transfer that is made is the last one; a complete one is open. *)
LEMMA ExportKeepsMimeInv ==
    ASSUME MimeInv, NEW m \in Mimes, NEW fuse \in BOOLEAN, NEW mounts \in BOOLEAN,
           NEW opened \in 0 .. Len(mimes[m].urls), exportUrlsToPortal(m, fuse, mounts, opened)
    PROVE  MimeInv'
<1> DEFINE urls == mimes[m].urls
           kept == mounts /\ opened = Len(urls)
           files == Added(fuseRedirect(urls), opened)
           transfer == [state |-> IF kept THEN "open" ELSE "stopped", owner |-> m,
                        iface |-> kept, files |-> files]
           N == Len(transfers)
<1>1. /\ mimes[m].state = "alive" /\ UNCHANGED <<cache, got>>
      /\ transfers' = Append(transfers, transfer)
      /\ mimes' = IF kept THEN [mimes EXCEPT ![m].portal = N + 1] ELSE mimes
  BY DEF exportUrlsToPortal, Kept
<1>2. urls \in UrlsHeld /\ urls \in Seq(Urls)
  BY HeldUrls DEF MimeInv, MimeType
<1>3. Paths(urls) \in Seq(Uris) /\ fuseRedirect(urls) = Paths(urls) /\ Len(Paths(urls)) = Len(urls)
  <2>1. fuseRedirect(urls) = Paths(urls) /\ Paths(urls) \in Seq(Uris)
    BY <1>2, FuseRedirectFacts
  <2>2. DOMAIN Paths(urls) = DOMAIN urls
    BY DEF Paths
  <2> QED
    BY <1>2, <2>1, <2>2
<1>4. files \in Seq(Uris) /\ (kept => files = Paths(urls))
  <2>1. /\ Added(Paths(urls), opened) \in Seq(Uris)
        /\ opened = Len(Paths(urls)) => Added(Paths(urls), opened) = Paths(urls)
    BY <1>3, AddedFacts
  <2> QED
    BY <1>3, <2>1
<1> HIDE DEF urls, files
<1>5. transfer \in Transfer
  BY <1>4 DEF Transfer
<1>6. transfers \in Seq(Transfer) /\ N \in Nat /\ DOMAIN transfers = 1 .. N
  BY DEF MimeInv, MimeType
<1>7. /\ transfers' \in Seq(Transfer) /\ DOMAIN transfers' = 1 .. N + 1
      /\ \A id \in 1 .. N : id \in 1 .. N + 1 /\ transfers'[id] = transfers[id]
      /\ transfers'[N + 1] = transfer /\ N + 1 \in 1 .. N + 1
      /\ \A id \in 1 .. N + 1 : id \in 1 .. N \/ id = N + 1
  <2>1. /\ transfers' \in Seq(Transfer) /\ DOMAIN transfers' = 1 .. N + 1
        /\ \A id \in 1 .. N : transfers'[id] = transfers[id]
        /\ transfers'[N + 1] = transfer
    BY <1>1, <1>5, <1>6, AppendFacts
  <2> QED
    BY <1>6, <2>1
<1>8. /\ mimes' \in [Mimes -> [state : MimeStates, urls : UrlsHeld, portal : Nat]]
      /\ \A x \in Mimes : mimes'[x].state = mimes[x].state /\ mimes'[x].urls = mimes[x].urls
      /\ \A x \in Mimes : mimes'[x].portal = IF kept /\ x = m THEN N + 1 ELSE mimes[x].portal
  <2>1. mimes \in [Mimes -> [state : MimeStates, urls : UrlsHeld, portal : Nat]] /\ N + 1 \in Nat
    BY <1>6 DEF MimeInv, MimeType
  <2> HIDE DEF N, kept
  <2>2. CASE kept
    BY <1>1, <2>1, <2>2
  <2>3. CASE ~kept
    BY <1>1, <2>1, <2>3
  <2> QED
    BY <2>2, <2>3
<1> HIDE DEF N
<1>9. MimeType'
  BY <1>1, <1>7, <1>8 DEF MimeInv, MimeType
<1>10. \A id \in 1 .. N : transfers[id].owner \in Mimes
  BY <1>6, TransferFacts DEF MimeInv
<1>11. OwnersInv'
  <2> SUFFICES ASSUME NEW id \in 1 .. N + 1
               PROVE  /\ mimes'[transfers'[id].owner].state # "none"
                      /\ transfers'[id].iface => IsAlive(id)'
                      /\ IsOpen(id)' =>
                           /\ transfers'[id].files = Paths(mimes'[transfers'[id].owner].urls)
                           /\ transfers'[id].iface \/ \E i \in DOMAIN transfers' : transfers'[i].state = "closed"
    BY <1>7 DEF OwnersInv
  <2>1. CASE id \in 1 .. N
    <3>1. /\ transfers'[id] = transfers[id] /\ transfers[id].owner \in Mimes
          /\ mimes'[transfers[id].owner].state = mimes[transfers[id].owner].state
          /\ mimes'[transfers[id].owner].urls = mimes[transfers[id].owner].urls
      BY <1>7, <1>8, <1>10, <2>1
    <3>2. /\ mimes[transfers[id].owner].state # "none"
          /\ transfers[id].iface => mimes[transfers[id].owner].state = "alive"
          /\ transfers[id].state = "open" =>
               /\ transfers[id].files = Paths(mimes[transfers[id].owner].urls)
               /\ transfers[id].iface \/ \E i \in 1 .. N : transfers[i].state = "closed"
      BY <1>6, <2>1 DEF MimeInv, OwnersInv, IsAlive, IsOpen
    <3>3. (\E i \in 1 .. N : transfers[i].state = "closed")
            => \E i \in DOMAIN transfers' : transfers'[i].state = "closed"
      BY <1>7
    <3> QED
      BY <3>1, <3>2, <3>3 DEF IsAlive, IsOpen
  <2>2. CASE id = N + 1
    BY <1>1, <1>4, <1>7, <1>8, <2>2 DEF IsAlive, IsOpen, urls
  <2> QED
    BY <1>7, <2>1, <2>2
<1>12. KeptInv'
  <2>1. ASSUME NEW x \in Mimes, mimes'[x].portal # 0
        PROVE  mimes'[x].portal \in DOMAIN transfers' /\ transfers'[mimes'[x].portal].owner = x
    <3>1. CASE kept /\ x = m
      BY <1>7, <1>8, <3>1
    <3>2. CASE ~(kept /\ x = m)
      BY <1>6, <1>7, <1>8, <2>1, <3>2 DEF MimeInv, KeptInv
    <3> QED
      BY <3>1, <3>2
  <2>2. ASSUME NEW r \in Readers, cache'[r].id # 0
        PROVE  /\ cache'[r].id \in DOMAIN transfers'
               /\ cache'[r].uris = Paths(mimes'[transfers'[cache'[r].id].owner].urls)
    BY <1>1, <1>6, <1>7, <1>8, <1>10, <2>2 DEF MimeInv, KeptInv
  <2> QED
    BY <2>1, <2>2 DEF KeptInv
<1>13. GotInv'
  BY <1>1, <1>8 DEF MimeInv, MimeType, GotInv
<1> QED
  BY <1>9, <1>11, <1>12, <1>13 DEF MimeInv

(* The urls of an object are not changed once it is there. *)
LEMMA NewKeepsMimeInv ==
    ASSUME MimeInv, NEW m \in Mimes, NEW urls \in UrlLists, NewMimeData(m, urls)
    PROVE  MimeInv'
<1>1. /\ mimes[m].state = "none" /\ UNCHANGED <<transfers, cache, got>>
      /\ mimes' = [mimes EXCEPT ![m] = [state |-> "alive", urls |-> urls, portal |-> 0]]
  BY DEF NewMimeData
<1>2. MimeType'
  BY <1>1 DEF MimeInv, MimeType, MimeStates, UrlsHeld
<1>3. \A x \in Mimes : mimes[x].state # "none" => mimes'[x] = mimes[x]
  BY <1>1 DEF MimeInv, MimeType
<1>4. \A id \in DOMAIN transfers : transfers[id].owner \in Mimes
  BY TransferFacts DEF MimeInv
<1>5. OwnersInv'
  BY <1>1, <1>3, <1>4 DEF MimeInv, OwnersInv, IsAlive, IsOpen
<1>6. KeptInv'
  <2>1. \A x \in Mimes : mimes'[x] = mimes[x] \/ mimes'[x].portal = 0
    BY <1>1 DEF MimeInv, MimeType
  <2>2. \A id \in DOMAIN transfers : mimes'[transfers[id].owner] = mimes[transfers[id].owner]
    BY <1>3, <1>4 DEF MimeInv, OwnersInv
  <2> QED
    BY <1>1, <2>1, <2>2 DEF MimeInv, KeptInv
<1>7. GotInv'
  <2>1. \A r \in Readers : got[r].mime \in Mimes \cup {"none"}
    BY DEF MimeInv, MimeType
  <2> QED
    BY <1>1, <1>3, <2>1 DEF MimeInv, GotInv
<1> QED
  BY <1>2, <1>5, <1>6, <1>7 DEF MimeInv

(* What ends transfers changes neither their objects nor their files. *)
Ended ==
    /\ transfers' \in Seq(Transfer)
    /\ DOMAIN transfers' = DOMAIN transfers
    /\ \A id \in DOMAIN transfers :
          /\ transfers'[id].owner = transfers[id].owner /\ transfers'[id].files = transfers[id].files
          /\ transfers'[id].iface => transfers[id].iface
          /\ transfers'[id].state = "open" => transfers[id].state = "open"
          /\ transfers[id].state = "closed" => transfers'[id].state = "closed"

LEMMA EndedTransfers ==
    ASSUME transfers \in Seq(Transfer), transfers' \in [DOMAIN transfers -> Transfer],
           \A id \in DOMAIN transfers :
              /\ transfers'[id].owner = transfers[id].owner /\ transfers'[id].files = transfers[id].files
              /\ transfers'[id].iface => transfers[id].iface
              /\ transfers'[id].state = "open" => transfers[id].state = "open"
              /\ transfers[id].state = "closed" => transfers'[id].state = "closed"
    PROVE  Ended
<1>1. \E n \in Nat : DOMAIN transfers = 1 .. n
  OBVIOUS
<1>2. transfers' \in Seq(Transfer) /\ DOMAIN transfers' = DOMAIN transfers
  BY <1>1
<1> QED
  BY <1>2 DEF Ended

LEMMA EndedKeepsMimeInv ==
    ASSUME MimeInv, Ended, UNCHANGED <<cache, got>>,
           mimes' \in [Mimes -> [state : MimeStates, urls : UrlsHeld, portal : Nat]],
           \A x \in Mimes : /\ mimes'[x].urls = mimes[x].urls /\ mimes'[x].portal = mimes[x].portal
                            /\ mimes[x].state # "none" => mimes'[x].state # "none",
           \A id \in DOMAIN transfers :
              /\ transfers'[id].iface => IsAlive(id)'
              /\ IsOpen(id)' => transfers'[id].iface \/ \E i \in DOMAIN transfers : transfers'[i].state = "closed"
    PROVE  MimeInv'
<1>1. \A id \in DOMAIN transfers : transfers[id].owner \in Mimes
  BY TransferFacts DEF MimeInv
<1>2. MimeType'
  BY DEF MimeInv, MimeType, Ended
<1>3. OwnersInv'
  <2> SUFFICES ASSUME NEW id \in DOMAIN transfers
               PROVE  /\ mimes'[transfers'[id].owner].state # "none"
                      /\ transfers'[id].iface => IsAlive(id)'
                      /\ IsOpen(id)' =>
                           /\ transfers'[id].files = Paths(mimes'[transfers'[id].owner].urls)
                           /\ transfers'[id].iface \/ \E i \in DOMAIN transfers' : transfers'[i].state = "closed"
    BY DEF OwnersInv, Ended
  <2>1. mimes'[transfers'[id].owner].state # "none" /\ (transfers'[id].iface => IsAlive(id)')
    BY <1>1 DEF Ended, MimeInv, OwnersInv
  <2>2. ASSUME IsOpen(id)'
        PROVE  transfers'[id].files = Paths(mimes'[transfers'[id].owner].urls)
    BY <1>1, <2>2 DEF Ended, MimeInv, OwnersInv, IsOpen
  <2>3. ASSUME IsOpen(id)'
        PROVE  transfers'[id].iface \/ \E i \in DOMAIN transfers' : transfers'[i].state = "closed"
    BY <2>3 DEF Ended
  <2> QED
    BY <2>1, <2>2, <2>3
<1>4. KeptInv'
  BY <1>1 DEF MimeInv, KeptInv, Ended
<1>5. GotInv'
  <2>1. \A r \in Readers : got[r].mime \in Mimes \cup {"none"}
    BY DEF MimeInv, MimeType
  <2> QED
    BY <2>1 DEF MimeInv, GotInv
<1> QED
  BY <1>2, <1>3, <1>4, <1>5 DEF MimeInv

(* The interface objects of the object that ends stop its transfers. *)
LEMMA DestroyedKeepsMimeInv ==
    ASSUME MimeInv, NEW m \in Mimes, MimeDestroyed(m)
    PROVE  MimeInv'
<1>1. /\ UNCHANGED <<cache, got>> /\ mimes' = [mimes EXCEPT ![m].state = "destroyed"]
      /\ transfers' = [id \in DOMAIN transfers |->
                         IF transfers[id].owner = m /\ transfers[id].iface
                         THEN [transfers[id] EXCEPT !.iface = FALSE,
                                 !.state = IF @ = "open" THEN "stopped" ELSE @]
                         ELSE transfers[id]]
  BY DEF MimeDestroyed
<1>2. transfers \in Seq(Transfer) /\ \A id \in DOMAIN transfers : transfers[id] \in Transfer
  BY TransferFacts DEF MimeInv
<1>3. \A id \in DOMAIN transfers :
         /\ transfers'[id] \in Transfer
         /\ transfers'[id].owner = transfers[id].owner /\ transfers'[id].files = transfers[id].files
         /\ transfers'[id].iface => transfers[id].iface /\ transfers[id].owner # m
         /\ transfers'[id].state = "open" => transfers[id].state = "open" /\ transfers'[id].iface = transfers[id].iface
         /\ transfers[id].state = "closed" => transfers'[id].state = "closed"
  BY <1>1, <1>2 DEF Transfer
<1>4. Ended
  <2>1. transfers' \in [DOMAIN transfers -> Transfer]
    BY <1>1, <1>3
  <2> QED
    BY <1>2, <1>3, <2>1, EndedTransfers
<1>5. /\ mimes' \in [Mimes -> [state : MimeStates, urls : UrlsHeld, portal : Nat]]
      /\ \A x \in Mimes : /\ mimes'[x].urls = mimes[x].urls /\ mimes'[x].portal = mimes[x].portal
                          /\ mimes[x].state # "none" => mimes'[x].state # "none"
                          /\ x # m => mimes'[x].state = mimes[x].state
  BY <1>1 DEF MimeInv, MimeType, MimeStates
<1>6. ASSUME NEW id \in DOMAIN transfers
      PROVE  /\ transfers'[id].iface => IsAlive(id)'
             /\ IsOpen(id)' => transfers'[id].iface \/ \E i \in DOMAIN transfers : transfers'[i].state = "closed"
  <2>1. transfers'[id].iface => IsAlive(id)'
    <3>1. transfers[id].owner \in Mimes /\ (transfers[id].iface => IsAlive(id))
      BY TransferFacts DEF MimeInv, OwnersInv
    <3> QED
      BY <1>3, <1>5, <3>1 DEF IsAlive
  <2>2. IsOpen(id)' => transfers'[id].iface \/ \E i \in DOMAIN transfers : transfers'[i].state = "closed"
    BY <1>3 DEF IsOpen, MimeInv, OwnersInv
  <2> QED
    BY <2>1, <2>2
<1> QED
  BY <1>1, <1>4, <1>5, <1>6, EndedKeepsMimeInv

LEMMA PortalEndsKeepsMimeInv ==
    ASSUME MimeInv, NEW id \in DOMAIN transfers, PortalStops(id) \/ TransferClosed(id)
    PROVE  MimeInv'
<1>1. transfers \in Seq(Transfer) /\ \A i \in DOMAIN transfers : transfers[i] \in Transfer
  BY TransferFacts DEF MimeInv
<1>2. UNCHANGED <<mimes, cache, got>>
  BY DEF PortalStops, TransferClosed
<1>3. \A i \in DOMAIN transfers :
         /\ transfers'[i] \in Transfer
         /\ transfers'[i].owner = transfers[i].owner /\ transfers'[i].files = transfers[i].files
         /\ transfers'[i].iface => transfers[i].iface
         /\ transfers'[i].state = "open" => transfers[i].state = "open"
         /\ transfers[i].state = "closed" => transfers'[i].state = "closed"
  <2>1. CASE PortalStops(id)
    BY <1>1, <2>1 DEF PortalStops, Transfer
  <2>2. CASE TransferClosed(id)
    BY <1>1, <2>2 DEF TransferClosed, Transfer
  <2> QED
    BY <2>1, <2>2
<1>4. Ended
  <2>1. transfers' \in [DOMAIN transfers -> Transfer]
    BY <1>3 DEF PortalStops, TransferClosed
  <2> QED
    BY <1>1, <1>3, <2>1, EndedTransfers
<1>5. ASSUME NEW i \in DOMAIN transfers
      PROVE  /\ transfers'[i].iface => IsAlive(i)'
             /\ IsOpen(i)' => transfers'[i].iface \/ \E j \in DOMAIN transfers : transfers'[j].state = "closed"
  <2>1. transfers'[i].iface => IsAlive(i)'
    BY <1>2, <1>3 DEF IsAlive, MimeInv, OwnersInv
  <2>2. CASE PortalStops(id)
    <3>1. \A j \in DOMAIN transfers : transfers'[j].iface = transfers[j].iface
      BY <1>1, <2>2 DEF PortalStops, Transfer
    <3> QED
      BY <1>3, <2>1, <3>1 DEF IsOpen, MimeInv, OwnersInv
  <2>3. CASE TransferClosed(id)
    <3>1. transfers'[id].state = "closed"
      BY <1>1, <2>3 DEF TransferClosed, Transfer
    <3> QED
      BY <2>1, <3>1
  <2> QED
    BY <2>2, <2>3
<1>6. mimes' \in [Mimes -> [state : MimeStates, urls : UrlsHeld, portal : Nat]]
  BY <1>2 DEF MimeInv, MimeType
<1> QED
  BY <1>2, <1>4, <1>5, <1>6, EndedKeepsMimeInv

(* What is read is what the object holds: the transfer is its own, and so is   *)
(* what was kept of it.                                                    *)
LEMMA ReadKeepsMimeInv ==
    ASSUME MimeInv, NEW m \in Mimes, NEW r \in Readers, NEW answered \in BOOLEAN,
           urlsFromMimeData(r, m, answered)
    PROVE  MimeInv'
<1> DEFINE id == mimes[m].portal
           own == r = Source \/ id = 0
           read == answered /\ transfers[id].state = "open"
           urls == mimes[m].urls
           uris == IF own THEN <<>> ELSE IF cache[r].id = id THEN cache[r].uris
                   ELSE IF read THEN transfers[id].files ELSE <<>>
           given == IF uris = <<>> THEN urls ELSE uris
<1>1. /\ mimes[m].state = "alive" /\ UNCHANGED <<mimes, transfers>>
      /\ got' = [got EXCEPT ![r] = [mime |-> m, uris |-> given]]
      /\ cache' = IF ~own /\ cache[r].id # id /\ read THEN [cache EXCEPT ![r] = [id |-> id, uris |-> uris]] ELSE cache
  BY DEF urlsFromMimeData, hasSameSourceId, Cached, extractPortalUriList
<1>2. urls \in UrlsHeld /\ Paths(urls) \in Seq(Uris) /\ id \in Nat
  BY HeldUrls, FuseRedirectFacts DEF MimeInv, MimeType
<1>3. ASSUME ~own
      PROVE  /\ id \in DOMAIN transfers /\ transfers[id].owner = m /\ id # 0
             /\ cache[r].id = id => cache[r].uris = Paths(urls)
             /\ transfers[id].state = "open" => transfers[id].files = Paths(urls)
  BY <1>3 DEF MimeInv, KeptInv, OwnersInv, IsOpen
<1>4. /\ given \in {urls, Paths(urls)}
      /\ ~own /\ cache[r].id # id /\ read => uris = Paths(urls)
  <2>1. CASE own
    BY <2>1
  <2>2. CASE ~own
    BY <1>3, <2>2
  <2> QED
    BY <2>1, <2>2
<1> HIDE DEF urls, uris, given
<1>5. MimeType'
  <2>1. got' \in [Readers -> [mime : Mimes \cup {"none"}, uris : Seq(Uris) \cup UrlsHeld]]
    <3>1. given \in Seq(Uris) \cup UrlsHeld
      BY <1>2, <1>4
    <3> QED
      BY <1>1, <3>1 DEF MimeInv, MimeType
  <2>2. cache' \in [Readers -> [id : Nat, uris : Seq(Uris)]]
    BY <1>1, <1>2, <1>4 DEF MimeInv, MimeType
  <2> QED
    BY <1>1, <2>1, <2>2 DEF MimeInv, MimeType
<1>6. OwnersInv'
  BY <1>1 DEF MimeInv, OwnersInv, IsAlive, IsOpen
<1>7. KeptInv'
  <2>1. ASSUME NEW x \in Readers, cache'[x].id # 0
        PROVE  /\ cache'[x].id \in DOMAIN transfers
               /\ cache'[x].uris = Paths(mimes[transfers[cache'[x].id].owner].urls)
    <3>1. CASE cache'[x] = cache[x]
      BY <2>1, <3>1 DEF MimeInv, KeptInv
    <3>2. CASE cache'[x] # cache[x]
      <4>1. ~own /\ cache[r].id # id /\ read /\ cache'[x] = [id |-> id, uris |-> uris]
        BY <1>1, <3>2 DEF MimeInv, MimeType
      <4> QED
        BY <1>3, <1>4, <4>1 DEF urls
    <3> QED
      BY <3>1, <3>2
  <2> QED
    BY <1>1, <2>1 DEF MimeInv, KeptInv
<1>8. GotInv'
  <2> SUFFICES ASSUME NEW x \in Readers, got'[x].mime # "none"
               PROVE  /\ mimes[got'[x].mime].state # "none"
                      /\ got'[x].uris \in {mimes[got'[x].mime].urls, Paths(mimes[got'[x].mime].urls)}
    BY <1>1 DEF GotInv
  <2>1. CASE x = r
    <3>1. got'[x] = [mime |-> m, uris |-> given]
      BY <1>1, <2>1 DEF MimeInv, MimeType
    <3> QED
      BY <1>1, <1>4, <3>1 DEF urls
  <2>2. CASE x # r
    BY <1>1, <2>2 DEF MimeInv, MimeType, GotInv
  <2> QED
    BY <2>1, <2>2
<1> QED
  BY <1>5, <1>6, <1>7, <1>8 DEF MimeInv

LEMMA NextMimeInv == MimeInv /\ [MimeNext]_mimeVars => MimeInv'
<1> SUFFICES ASSUME MimeInv, [MimeNext]_mimeVars PROVE MimeInv'
  OBVIOUS
<1>1. ASSUME NEW m \in Mimes, MimeDestroyed(m) PROVE MimeInv'
  BY <1>1, DestroyedKeepsMimeInv
<1>2. ASSUME NEW m \in Mimes, NEW urls \in UrlLists, NewMimeData(m, urls) PROVE MimeInv'
  BY <1>2, NewKeepsMimeInv
<1>3. ASSUME NEW m \in Mimes, NEW fuse \in BOOLEAN, NEW mounts \in BOOLEAN,
             NEW opened \in 0 .. Len(mimes[m].urls), exportUrlsToPortal(m, fuse, mounts, opened)
      PROVE  MimeInv'
  BY <1>3, ExportKeepsMimeInv
<1>4. ASSUME NEW m \in Mimes, NEW r \in Readers, NEW answered \in BOOLEAN, urlsFromMimeData(r, m, answered)
      PROVE  MimeInv'
  BY <1>4, ReadKeepsMimeInv
<1>5. ASSUME NEW id \in DOMAIN transfers, PortalStops(id) \/ TransferClosed(id) PROVE MimeInv'
  BY <1>5, PortalEndsKeepsMimeInv
<1>6. CASE UNCHANGED mimeVars
  BY <1>6 DEF mimeVars, MimeInv, MimeType, OwnersInv, KeptInv, GotInv, IsOpen, IsAlive
<1> QED
  BY <1>1, <1>2, <1>3, <1>4, <1>5, <1>6 DEF MimeNext

(* What goes through the portal is all that the object holds, in order: an open *)
(* transfer has a file for each of its urls, and its object lives unless the  *)
(* signal of another transfer has come; and whoever reads an object gets its *)
(* urls or the files for them, for any urls, batches and numbers of objects   *)
(* and readers (exportUrlsToPortal() and urlsFromMimeData(),                *)
(* kurlmimedata.cpp:280-352, 160-200).                                      *)
THEOREM PortalIsSound == MimeSpec => []PortalSound
<1>1. MimeInit => MimeInv
  BY InitMimeInv
<1>2. MimeInv /\ [MimeNext]_mimeVars => MimeInv'
  BY NextMimeInv
<1>3. MimeInv => PortalSound
  <2> SUFFICES ASSUME MimeInv PROVE PortalSound
    OBVIOUS
  <2>1. ASSUME NEW id \in DOMAIN transfers, IsOpen(id)
        PROVE  /\ transfers[id].files = Paths(mimes[transfers[id].owner].urls)
               /\ IsAlive(id) \/ \E i \in DOMAIN transfers : transfers[i].state = "closed"
    BY <2>1 DEF MimeInv, OwnersInv
  <2>2. ASSUME NEW r \in Readers, got[r].mime # "none"
        PROVE  got[r].uris \in {mimes[got[r].mime].urls, Paths(mimes[got[r].mime].urls)}
    BY <2>2 DEF MimeInv, GotInv
  <2> QED
    BY <2>1, <2>2 DEF PortalSound
<1> QED
  BY <1>1, <1>2, <1>3, PTL DEF MimeSpec
=============================================================================
