------------------------- MODULE KCompositeJobProofs -------------------------
(***************************************************************************)
(* Proofs about KCompositeJob, for any number of subjobs and any nesting   *)
(* of signals: the list holds the subjobs that can report and no others,   *)
(* they die with their composite, and the composite reports once, with the *)
(* first error of a subjob.                                                *)
(***************************************************************************)
EXTENDS KCompositeJob, TLAPS

JobStates ==
    [alive : BOOLEAN, started : BOOLEAN, finished : BOOLEAN, error : Errors,
     parent : BOOLEAN, connected : BOOLEAN, deletePosted : BOOLEAN]

SelfStates ==
    [alive : BOOLEAN, started : BOOLEAN, finished : BOOLEAN, error : Errors,
     deletePosted : BOOLEAN]

(* Subjob j is reporting: its result() comes, or the composite handles it. *)
Reports(f, j) == f.job = j /\ f.at \in {"finished", "slotResult", "removeSubjob"}
Reporting(j) == \E n \in DOMAIN stack : Reports(stack[n], j)

(* What a call under way says of the job it is about: subjobs js, composite  *)
(* s, which has emitted result() r times.                                  *)
IsSound(f, js, s, r) ==
    /\ f.at \notin {"selfFinished", "selfResult"} => js[f.job].finished
    /\ f.at \in {"selfFinished", "selfResult"} => s.finished
    /\ f.at = "selfFinished" => r = 0

(* The composite's slot runs for a connected subjob only, and nothing comes  *)
(* in between; the composite emits finished() once.                        *)
FramesAreSound ==
    /\ \A n \in DOMAIN stack : IsSound(stack[n], job, self, results)
    /\ \A n \in DOMAIN stack :
          stack[n].at = "slotResult" => n = 1 /\ job[stack[n].job].connected
    /\ \A m, n \in DOMAIN stack :
          stack[m].at = "selfFinished" /\ stack[n].at = "selfFinished" => m = n

IsDistinct(list) == \A m, n \in DOMAIN list : list[m] = list[n] => m = n

(* Who is on the list is a child and listened to, or lost. *)
ListIsSound ==
    /\ IsDistinct(subjobs)
    /\ \A j \in ToSet(subjobs) : job[j].parent
    /\ self.alive =>
          /\ \A j \in ToSet(subjobs) : job[j].connected \/ j \in abandoned
          /\ \A j \in ToSet(subjobs) : job[j].finished => Reporting(j) \/ j \in abandoned
          /\ \A j \in Jobs : job[j].connected => Contains(subjobs, j)
          /\ self.finished /\ self.error = NoError => subjobs = <<>>

(* The error of the composite is the first one, from the moment it finishes. *)
ErrorIsFirst ==
    /\ self.error = firstError
    /\ self.error # NoError => self.finished
    /\ results # 0 => self.finished
    /\ results <= 1
    /\ results = 1 => reported = firstError

(* Once the composite is gone nothing is under way. *)
GoneIsQuiet == ~self.alive => stack = <<>> /\ self.finished

DeletedAreFinished == \A j \in Jobs : job[j].deletePosted => job[j].finished

CompositeInv ==
    /\ TypeOK
    /\ FramesAreSound
    /\ ListIsSound
    /\ ErrorIsFirst
    /\ GoneIsQuiet
    /\ DeletedAreFinished
    /\ DiesWithComposite

-----------------------------------------------------------------------------
(* The list. *)

(* addSubjob() appends a job that is not there. *)
LEMMA AppendFacts ==
    ASSUME NEW list \in Seq(Jobs), IsDistinct(list), NEW j \in Jobs, ~Contains(list, j)
    PROVE  /\ Append(list, j) \in Seq(Jobs) /\ IsDistinct(Append(list, j))
           /\ ToSet(Append(list, j)) = ToSet(list) \cup {j}
<1> DEFINE t == Append(list, j)
<1>1. /\ t \in Seq(Jobs) /\ DOMAIN t = 1 .. Len(list) + 1 /\ DOMAIN list = 1 .. Len(list)
      /\ Len(list) \in Nat
      /\ \A n \in 1 .. Len(list) : t[n] = list[n]
      /\ t[Len(list) + 1] = j
  OBVIOUS
<1>2. \A n \in 1 .. Len(list) : list[n] # j
  BY DEF Contains
<1> HIDE DEF t
<1>3. \A n \in DOMAIN t : n \in 1 .. Len(list) \/ n = Len(list) + 1
  BY <1>1
<1>4. IsDistinct(t)
  BY <1>1, <1>2, <1>3 DEF IsDistinct
<1>5. \A k \in ToSet(t) : k \in ToSet(list) \cup {j}
  BY <1>1, <1>3 DEF ToSet
<1>6. \A n \in DOMAIN list : n \in DOMAIN t
  BY <1>1
<1>7. Len(list) + 1 \in DOMAIN t
  BY <1>1
<1>8. \A k \in ToSet(list) \cup {j} : k \in ToSet(t)
  BY <1>1, <1>6, <1>7 DEF ToSet
<1> QED
  BY <1>1, <1>4, <1>5, <1>8 DEF t

(* Removing a job leaves the others, each once. *)
LEMMA RemoveFacts ==
    ASSUME NEW list \in Seq(Jobs), IsDistinct(list), NEW j \in Jobs, Contains(list, j)
    PROVE  /\ RemovedFrom(list, j) \in Seq(Jobs) /\ IsDistinct(RemovedFrom(list, j))
           /\ ToSet(RemovedFrom(list, j)) = ToSet(list) \ {j}
<1> DEFINE n == CHOOSE i \in DOMAIN list : list[i] = j
           before == SubSeq(list, 1, n - 1)
           after == SubSeq(list, n + 1, Len(list))
           t == before \o after
<1>1. n \in 1 .. Len(list) /\ list[n] = j /\ Len(list) \in Nat
  BY DEF Contains
<1>2. RemovedFrom(list, j) = t
  BY DEF RemovedFrom, RemoveAt
<1> HIDE DEF n
<1>3. /\ before \in Seq(Jobs) /\ Len(before) = n - 1
      /\ \A i \in 1 .. n - 1 : before[i] = list[i]
  BY <1>1
<1>4. /\ after \in Seq(Jobs) /\ Len(after) = Len(list) - n
      /\ \A i \in 1 .. Len(list) - n : after[i] = list[(i + (n + 1)) - 1]
  BY <1>1
<1> HIDE DEF before, after
<1>5. /\ t \in Seq(Jobs) /\ DOMAIN t = 1 .. Len(list) - 1
      /\ \A i \in 1 .. n - 1 : t[i] = list[i]
      /\ \A i \in n .. Len(list) - 1 : t[i] = list[i + 1]
  <2>1. t \in Seq(Jobs) /\ DOMAIN t = 1 .. Len(list) - 1
    BY <1>1, <1>3, <1>4
  <2>2. \A i \in 1 .. n - 1 : t[i] = list[i]
    BY <1>1, <1>3, <1>4
  <2>3. ASSUME NEW i \in n .. Len(list) - 1 PROVE t[i] = list[i + 1]
    <3>1. t[i] = after[i - (n - 1)]
      BY <1>1, <1>3, <1>4
    <3>2. i - (n - 1) \in 1 .. Len(list) - n /\ (i - (n - 1) + (n + 1)) - 1 = i + 1
      BY <1>1
    <3> QED
      BY <1>4, <3>1, <3>2
  <2> QED
    BY <2>1, <2>2, <2>3
<1> HIDE DEF t
<1>6. \A i \in DOMAIN t :
         \/ i < n /\ i \in DOMAIN list /\ t[i] = list[i]
         \/ i >= n /\ i + 1 \in DOMAIN list /\ t[i] = list[i + 1]
  BY <1>1, <1>5
<1>7. DOMAIN t \subseteq Int
  BY <1>5
<1>8. IsDistinct(t)
  BY <1>1, <1>6, <1>7 DEF IsDistinct
<1>9. \A k \in ToSet(t) : k \in ToSet(list)
  BY <1>6 DEF ToSet
<1>10. \A i \in DOMAIN t : t[i] # j
  BY <1>1, <1>6, <1>7 DEF IsDistinct
<1>11. ASSUME NEW k \in ToSet(list), k # j PROVE k \in ToSet(t)
  <2>1. PICK i \in DOMAIN list : list[i] = k
    BY DEF ToSet
  <2>2. CASE i < n
    <3>1. i \in DOMAIN t /\ t[i] = k
      BY <1>1, <1>5, <2>1, <2>2
    <3> QED
      BY <3>1 DEF ToSet
  <2>3. CASE i > n
    <3>1. i - 1 \in DOMAIN t /\ t[i - 1] = list[(i - 1) + 1]
      BY <1>1, <1>5, <2>1, <2>3
    <3>2. (i - 1) + 1 = i
      BY <2>1
    <3> QED
      BY <2>1, <3>1, <3>2 DEF ToSet
  <2> QED
    BY <1>1, <1>11, <2>1, <2>2, <2>3
<1>12. ToSet(t) = ToSet(list) \ {j}
  BY <1>9, <1>10, <1>11 DEF ToSet
<1> QED
  BY <1>2, <1>5, <1>8, <1>12

LEMMA ContainsIsMember ==
    ASSUME NEW list \in Seq(Jobs), NEW j
    PROVE  Contains(list, j) <=> j \in ToSet(list)
BY DEF Contains, ToSet
-----------------------------------------------------------------------------
(* The calls under way. *)

(* What is remembered of subjobs and the composite only grows. *)
Grows ==
    /\ \A j \in Jobs : job[j].finished => job'[j].finished
    /\ self.finished => self'.finished

LEMMA StaysSound ==
    ASSUME TypeOK, FramesAreSound, Grows, results' = results
    PROVE  \A n \in DOMAIN stack : IsSound(stack[n], job', self', results')
<1> TAKE n \in DOMAIN stack
<1>1. IsSound(stack[n], job, self, results)
  BY DEF FramesAreSound
<1>2. stack[n] \in Frames
  BY DEF TypeOK
<1>3. stack[n].at \notin {"selfFinished", "selfResult"} => stack[n].job \in Jobs
  BY <1>2 DEF Frames
<1> QED
  BY <1>1, <1>3 DEF IsSound, Grows

(* Nobody else runs while the composite's slot does. *)
LEMMA OnlyOnTop ==
    ASSUME TypeOK, FramesAreSound, stack # <<>>
    PROVE  /\ Len(stack) \in Nat /\ 1 \in DOMAIN stack /\ Head(stack) = stack[1]
           /\ Head(stack) \in Frames
           /\ \A n \in 2 .. Len(stack) : stack[n].at # "slotResult"
           /\ Head(stack).at # "slotResult" => \A n \in DOMAIN stack : stack[n].at # "slotResult"
BY DEF TypeOK, FramesAreSound

(* The stack stays as it is. *)
LEMMA FramesStay ==
    ASSUME TypeOK, FramesAreSound, Grows, stack' = stack, results' = results,
           stack # <<>> => Head(stack).at # "slotResult"
    PROVE  FramesAreSound' /\ \A j : Reporting(j) => Reporting(j)'
<1>1. \A n \in DOMAIN stack : IsSound(stack[n], job', self', results')
  BY StaysSound
<1>2. \A n \in DOMAIN stack : stack[n].at # "slotResult"
  <2>1. CASE stack = <<>>
    BY <2>1
  <2>2. CASE stack # <<>>
    BY <2>2, OnlyOnTop
  <2> QED
    BY <2>1, <2>2
<1>3. FramesAreSound'
  BY <1>1, <1>2 DEF FramesAreSound
<1> QED
  BY <1>3 DEF Reporting

(* A call comes on top of those there are. *)
LEMMA FramesPush ==
    ASSUME TypeOK, FramesAreSound, Grows, NEW f \in Frames, Push(f), results' = results,
           stack # <<>> => Head(stack).at # "slotResult",
           IsSound(f, job', self', results'), f.at # "slotResult",
           f.at = "selfFinished" => ~self.finished
    PROVE  /\ stack' \in Seq(Frames) /\ FramesAreSound'
           /\ \A j : Reporting(j) \/ Reports(f, j) => Reporting(j)'
<1> DEFINE s == <<f>> \o stack
<1>1. /\ s \in Seq(Frames) /\ DOMAIN s = 1 .. Len(stack) + 1 /\ Len(stack) \in Nat
      /\ DOMAIN stack = 1 .. Len(stack) /\ s[1] = f
      /\ \A n \in 2 .. Len(stack) + 1 : s[n] = stack[n - 1]
  BY DEF TypeOK
<1>2. stack' = s
  BY DEF Push
<1> HIDE DEF s
<1>3. \A n \in DOMAIN stack : IsSound(stack[n], job', self', results')
  BY StaysSound
<1>4. \A n \in DOMAIN stack : stack[n].at # "slotResult"
  <2>1. CASE stack = <<>>
    BY <2>1
  <2>2. CASE stack # <<>>
    BY <2>2, OnlyOnTop
  <2> QED
    BY <2>1, <2>2
<1>5. \A n \in DOMAIN s : n = 1 \/ (n - 1 \in DOMAIN stack /\ s[n] = stack[n - 1])
  BY <1>1
<1>6. \A n \in DOMAIN s : IsSound(s[n], job', self', results') /\ s[n].at # "slotResult"
  BY <1>1, <1>3, <1>4, <1>5
<1>7. f.at = "selfFinished" => \A n \in DOMAIN stack : stack[n].at # "selfFinished"
  BY DEF FramesAreSound, IsSound
<1>8. \A m, n \in DOMAIN s : s[m].at = "selfFinished" /\ s[n].at = "selfFinished" => m = n
  <2> TAKE m, n \in DOMAIN s
  <2> HAVE s[m].at = "selfFinished" /\ s[n].at = "selfFinished"
  <2>1. CASE m = 1 \/ n = 1
    BY <1>1, <1>5, <1>7, <2>1
  <2>2. CASE m # 1 /\ n # 1
    <3>1. m - 1 = n - 1
      BY <1>5, <2>2 DEF FramesAreSound
    <3>2. m \in Int /\ n \in Int
      BY <1>1
    <3> QED
      BY <3>1, <3>2
  <2> QED
    BY <2>1, <2>2
<1>9. FramesAreSound'
  BY <1>2, <1>6, <1>8 DEF FramesAreSound
<1>10. \A n \in DOMAIN stack : n + 1 \in DOMAIN s /\ s[n + 1] = stack[n]
  <2> TAKE n \in DOMAIN stack
  <2>1. n + 1 \in 2 .. Len(stack) + 1 /\ (n + 1) - 1 = n
    BY <1>1
  <2> QED
    BY <1>1, <2>1
<1>11. ASSUME NEW j, Reporting(j) \/ Reports(f, j) PROVE Reporting(j)'
  <2>1. 1 \in DOMAIN s
    BY <1>1
  <2> QED
    BY <1>1, <1>2, <1>10, <1>11, <2>1 DEF Reporting
<1> QED
  BY <1>1, <1>2, <1>9, <1>11

(* The innermost call goes on to its next place. *)
LEMMA FramesBecome ==
    ASSUME TypeOK, FramesAreSound, Grows, NEW f \in Frames, stack # <<>>, Become(f),
           results' = results \/ Head(stack).at = "selfFinished",
           IsSound(f, job', self', results'), f.at # "selfFinished",
           f.at = "slotResult" => job'[f.job].connected
    PROVE  /\ stack' \in Seq(Frames) /\ FramesAreSound'
           /\ \A j : Reporting(j) /\ ~Reports(Head(stack), j) => Reporting(j)'
           /\ \A j : Reports(f, j) => Reporting(j)'
<1> DEFINE s == <<f>> \o Tail(stack)
<1>1. /\ s \in Seq(Frames) /\ DOMAIN s = DOMAIN stack /\ 1 \in DOMAIN stack /\ s[1] = f
      /\ DOMAIN stack = 1 .. Len(stack)
      /\ \A n \in 2 .. Len(stack) : s[n] = stack[n]
      /\ Head(stack) = stack[1]
  BY DEF TypeOK
<1>2. stack' = s
  BY DEF Become
<1> HIDE DEF s
<1>3. \A n \in DOMAIN stack : n = 1 \/ n \in 2 .. Len(stack)
  BY <1>1
<1>4. \A n \in 2 .. Len(stack) : IsSound(stack[n], job', self', results')
  <2>1. CASE results' = results
    BY <1>1, <2>1, StaysSound
  <2>2. CASE Head(stack).at = "selfFinished"
    <3> TAKE n \in 2 .. Len(stack)
    <3>1. n \in DOMAIN stack /\ n # 1
      BY <1>1
    <3>2. stack[n].at # "selfFinished" /\ IsSound(stack[n], job, self, results)
      BY <1>1, <2>2, <3>1 DEF FramesAreSound
    <3>3. stack[n].at \notin {"selfFinished", "selfResult"} => stack[n].job \in Jobs
      BY <3>1 DEF TypeOK, Frames
    <3> QED
      BY <3>2, <3>3 DEF IsSound, Grows
  <2> QED
    BY <2>1, <2>2
<1>5. \A n \in 2 .. Len(stack) : stack[n].at # "slotResult"
  BY OnlyOnTop
<1>6. \A n \in DOMAIN s : IsSound(s[n], job', self', results')
  BY <1>1, <1>3, <1>4
<1>7. \A n \in DOMAIN s : s[n].at = "slotResult" => n = 1 /\ job'[s[n].job].connected
  BY <1>1, <1>3, <1>5
<1>8. \A m, n \in DOMAIN s : s[m].at = "selfFinished" /\ s[n].at = "selfFinished" => m = n
  BY <1>1, <1>3 DEF FramesAreSound
<1>9. FramesAreSound'
  BY <1>2, <1>6, <1>7, <1>8 DEF FramesAreSound
<1>10. ASSUME NEW j, Reporting(j), ~Reports(Head(stack), j) PROVE Reporting(j)'
  BY <1>1, <1>2, <1>3, <1>10 DEF Reporting
<1>11. ASSUME NEW j, Reports(f, j) PROVE Reporting(j)'
  BY <1>1, <1>2, <1>11 DEF Reporting
<1> QED
  BY <1>1, <1>2, <1>9, <1>10, <1>11

(* The innermost call returns. *)
LEMMA FramesPop ==
    ASSUME TypeOK, FramesAreSound, Grows, stack # <<>>, Pop, results' = results
    PROVE  /\ stack' \in Seq(Frames) /\ FramesAreSound'
           /\ \A j : Reporting(j) /\ ~Reports(Head(stack), j) => Reporting(j)'
<1> DEFINE s == Tail(stack)
<1>1. /\ s \in Seq(Frames) /\ DOMAIN s = 1 .. Len(stack) - 1 /\ Len(stack) \in Nat
      /\ DOMAIN stack = 1 .. Len(stack)
      /\ \A n \in 1 .. Len(stack) - 1 : s[n] = stack[n + 1]
      /\ Head(stack) = stack[1]
  BY DEF TypeOK
<1>2. stack' = s
  BY DEF Pop
<1> HIDE DEF s
<1>3. \A n \in DOMAIN s : n + 1 \in 2 .. Len(stack) /\ n + 1 \in DOMAIN stack /\ s[n] = stack[n + 1]
  BY <1>1
<1>4. \A n \in DOMAIN s : IsSound(s[n], job', self', results')
  BY <1>3, StaysSound
<1>5. \A n \in DOMAIN s : s[n].at # "slotResult"
  BY <1>3, OnlyOnTop
<1>6. \A m, n \in DOMAIN s : s[m].at = "selfFinished" /\ s[n].at = "selfFinished" => m = n
  <2> TAKE m, n \in DOMAIN s
  <2> HAVE s[m].at = "selfFinished" /\ s[n].at = "selfFinished"
  <2>1. m + 1 = n + 1
    BY <1>3 DEF FramesAreSound
  <2>2. m \in Int /\ n \in Int
    BY <1>1
  <2> QED
    BY <2>1, <2>2
<1>7. FramesAreSound'
  BY <1>2, <1>4, <1>5, <1>6 DEF FramesAreSound
<1>8. ASSUME NEW j, Reporting(j), ~Reports(Head(stack), j) PROVE Reporting(j)'
  <2>1. PICK n \in DOMAIN stack : Reports(stack[n], j)
    BY <1>8 DEF Reporting
  <2>2. n - 1 \in DOMAIN s /\ s[n - 1] = stack[n]
    <3>1. n # 1 /\ n \in 1 .. Len(stack)
      BY <1>1, <1>8, <2>1
    <3>2. n - 1 \in 1 .. Len(stack) - 1 /\ (n - 1) + 1 = n
      BY <1>1, <3>1
    <3> QED
      BY <1>1, <3>2
  <2> QED
    BY <1>2, <2>1, <2>2 DEF Reporting
<1> QED
  BY <1>1, <1>2, <1>7, <1>8
(* The composite finishes on the way: its signal comes first, then f. *)
LEMMA FramesFinish ==
    ASSUME TypeOK, FramesAreSound, Grows, NEW f \in Frames, stack # <<>>,
           stack' = <<Frame("selfFinished", Self), f>> \o Tail(stack),
           ~self.finished, self'.finished, results = 0, results' = results,
           IsSound(f, job', self', results'), f.at \notin {"selfFinished", "slotResult"}
    PROVE  /\ stack' \in Seq(Frames) /\ FramesAreSound'
           /\ \A j : Reporting(j) /\ ~Reports(Head(stack), j) => Reporting(j)'
           /\ \A j : Reports(f, j) => Reporting(j)'
<1> DEFINE e == Frame("selfFinished", Self)
           s == <<e, f>> \o Tail(stack)
<1>1. e \in Frames /\ e.at = "selfFinished"
  BY DEF Frame, Frames
<1> HIDE DEF e
<1>2. /\ s \in Seq(Frames) /\ DOMAIN s = 1 .. Len(stack) + 1 /\ 1 \in DOMAIN stack
      /\ s[1] = e /\ s[2] = f /\ Len(stack) \in Nat \ {0}
      /\ DOMAIN stack = 1 .. Len(stack)
      /\ \A n \in 3 .. Len(stack) + 1 : s[n] = stack[n - 1]
      /\ Head(stack) = stack[1]
  BY <1>1 DEF TypeOK
<1>3. stack' = s
  BY DEF e
<1> HIDE DEF s
<1>4. \A n \in DOMAIN s : \/ n = 1 \/ n = 2
                          \/ (n - 1 \in 2 .. Len(stack) /\ s[n] = stack[n - 1])
  BY <1>2
<1>5. \A n \in DOMAIN stack : stack[n].at # "selfFinished"
  BY DEF FramesAreSound, IsSound
<1>6. \A n \in DOMAIN stack : IsSound(stack[n], job', self', results')
  BY StaysSound
<1>7. IsSound(e, job', self', results')
  BY <1>1 DEF IsSound
<1>8. \A n \in 2 .. Len(stack) : n \in DOMAIN stack /\ stack[n].at # "slotResult"
  BY <1>2, OnlyOnTop
<1>9. \A n \in DOMAIN s : IsSound(s[n], job', self', results') /\ s[n].at # "slotResult"
  BY <1>1, <1>2, <1>4, <1>6, <1>7, <1>8
<1>10. \A n \in DOMAIN s : s[n].at = "selfFinished" => n = 1
  BY <1>2, <1>4, <1>5, <1>8
<1>11. FramesAreSound'
  BY <1>3, <1>9, <1>10 DEF FramesAreSound
<1>12. ASSUME NEW j, Reporting(j), ~Reports(Head(stack), j) PROVE Reporting(j)'
  <2>1. PICK n \in DOMAIN stack : Reports(stack[n], j)
    BY <1>12 DEF Reporting
  <2>2. n + 1 \in DOMAIN s /\ s[n + 1] = stack[n]
    <3>1. n # 1 /\ n \in 1 .. Len(stack)
      BY <1>2, <1>12, <2>1
    <3>2. n + 1 \in 3 .. Len(stack) + 1 /\ (n + 1) - 1 = n
      BY <1>2, <3>1
    <3> QED
      BY <1>2, <3>2
  <2> QED
    BY <1>3, <2>1, <2>2 DEF Reporting
<1>13. ASSUME NEW j, Reports(f, j) PROVE Reporting(j)'
  <2>1. 2 \in DOMAIN s
    BY <1>2
  <2> QED
    BY <1>2, <1>3, <1>13, <2>1 DEF Reporting
<1> QED
  BY <1>2, <1>3, <1>11, <1>12, <1>13

-----------------------------------------------------------------------------
(* What clients do. *)

(* A call of a client from a slot or the event loop that pushes nothing. *)
LEMMA ClientFrames ==
    ASSUME CompositeInv, Reentrant \/ stack = <<>>, stack' = stack, results' = results, Grows
    PROVE  /\ stack' \in Seq(Frames) /\ FramesAreSound'
           /\ \A j : Reporting(j) => Reporting(j)'
<1>1. stack # <<>> => Head(stack).at # "slotResult"
  BY DEF Reentrant
<1> QED
  BY <1>1, FramesStay DEF CompositeInv, TypeOK

LEMMA AddSubjobKeeps ==
    ASSUME CompositeInv, NEW j \in Jobs, AddSubjob(j)
    PROVE  CompositeInv'
<1> USE DEF CompositeInv
<1>1. /\ Reentrant /\ self.alive /\ ~self.finished /\ job[j].alive /\ ~Contains(subjobs, j)
      /\ subjobs' = Append(subjobs, j)
      /\ job' = [job EXCEPT ![j].parent = TRUE, ![j].connected = TRUE]
      /\ abandoned' = IF job[j].finished THEN abandoned \cup {j} ELSE abandoned \ {j}
      /\ UNCHANGED <<self, stack, firstError, reported, results>>
  BY DEF AddSubjob, addSubjob, Reentrant
<1>2. /\ job' \in [Jobs -> JobStates]
      /\ \A k \in Jobs : /\ job'[k].finished = job[k].finished
                         /\ job'[k].deletePosted = job[k].deletePosted
                         /\ k # j => job'[k] = job[k]
      /\ job'[j].parent /\ job'[j].connected
  BY <1>1 DEF TypeOK, JobStates
<1>3. /\ subjobs' \in Seq(Jobs) /\ IsDistinct(subjobs')
      /\ ToSet(subjobs') = ToSet(subjobs) \cup {j}
  BY <1>1, AppendFacts DEF TypeOK, ListIsSound
<1>4. /\ stack' \in Seq(Frames) /\ FramesAreSound'
      /\ \A k : Reporting(k) => Reporting(k)'
  BY <1>1, <1>2, ClientFrames DEF Grows
<1>5. TypeOK'
  BY <1>1, <1>2, <1>3, <1>4 DEF TypeOK, JobStates
<1>6. ListIsSound'
  <2>1. \A k \in ToSet(subjobs) : k \in Jobs
    BY DEF TypeOK, ToSet
  <2>2. \A k \in ToSet(subjobs') : job'[k].parent
    BY <1>2, <1>3, <2>1 DEF ListIsSound
  <2>3. \A k \in ToSet(subjobs') : job'[k].connected \/ k \in abandoned'
    BY <1>1, <1>2, <1>3, <2>1 DEF ListIsSound
  <2>4. \A k \in ToSet(subjobs') : job'[k].finished => Reporting(k)' \/ k \in abandoned'
    BY <1>1, <1>2, <1>3, <1>4, <2>1 DEF ListIsSound
  <2>5. \A k \in Jobs : job'[k].connected => Contains(subjobs', k)
    BY <1>1, <1>2, <1>3, ContainsIsMember DEF ListIsSound, TypeOK
  <2> QED
    BY <1>1, <1>3, <2>2, <2>3, <2>4, <2>5 DEF ListIsSound
<1>7. ErrorIsFirst'
  BY <1>1 DEF ErrorIsFirst
<1>8. GoneIsQuiet' /\ DiesWithComposite'
  BY <1>1 DEF GoneIsQuiet, DiesWithComposite
<1>9. DeletedAreFinished'
  BY <1>2 DEF DeletedAreFinished
<1> QED
  BY <1>4, <1>5, <1>6, <1>7, <1>8, <1>9
(* Releasing jobs changes nothing but their ties to the composite. *)
LEMMA ReleasedFacts ==
    ASSUME TypeOK, NEW js \in SUBSET Jobs
    PROVE  /\ Released(js) \in [Jobs -> JobStates]
           /\ \A k \in Jobs : /\ Released(js)[k].finished = job[k].finished
                              /\ Released(js)[k].alive = job[k].alive
                              /\ Released(js)[k].deletePosted = job[k].deletePosted
                              /\ k \notin js => Released(js)[k] = job[k]
                              /\ k \in js => ~Released(js)[k].connected
BY DEF Released, TypeOK, JobStates

(* Jobs that leave the list are no longer listened to. *)
LEMMA ReleaseKeeps ==
    ASSUME CompositeInv, NEW js \in SUBSET Jobs,
           job' = Released(js), self' = self, abandoned \subseteq abandoned',
           subjobs' \in Seq(Jobs), IsDistinct(subjobs'), ToSet(subjobs') = ToSet(subjobs) \ js,
           \A k \in ToSet(subjobs') : Reporting(k) => Reporting(k)'
    PROVE  ListIsSound' /\ DeletedAreFinished'
<1> USE DEF CompositeInv
<1>1. /\ \A k \in Jobs : /\ job'[k].finished = job[k].finished
                         /\ job'[k].deletePosted = job[k].deletePosted
                         /\ k \notin js => job'[k] = job[k]
                         /\ k \in js => ~job'[k].connected
  BY ReleasedFacts
<1>2. \A k \in ToSet(subjobs') : k \in Jobs /\ k \in ToSet(subjobs) /\ job'[k] = job[k]
  <2>1. \A k \in ToSet(subjobs) : k \in Jobs
    BY DEF TypeOK, ToSet
  <2> QED
    BY <1>1, <2>1
<1>3. DeletedAreFinished'
  BY <1>1 DEF DeletedAreFinished
<1>4. \A k \in ToSet(subjobs') : job'[k].parent
  BY <1>2 DEF ListIsSound
<1>5. self.alive => \A k \in ToSet(subjobs') : job'[k].connected \/ k \in abandoned'
  BY <1>2 DEF ListIsSound
<1>6. self.alive => \A k \in ToSet(subjobs') :
                       job'[k].finished => Reporting(k)' \/ k \in abandoned'
  BY <1>2 DEF ListIsSound
<1>7. self.alive => \A k \in Jobs : job'[k].connected => Contains(subjobs', k)
  BY <1>1, ContainsIsMember DEF ListIsSound, TypeOK
<1>8. subjobs = <<>> => subjobs' = <<>>
  <2>1. subjobs = <<>> => ToSet(subjobs') = {}
    BY DEF ToSet
  <2>2. ToSet(subjobs') = {} => subjobs' = <<>>
    BY DEF ToSet
  <2> QED
    BY <2>1, <2>2
<1> QED
  BY <1>3, <1>4, <1>5, <1>6, <1>7, <1>8 DEF ListIsSound

LEMMA RemoveSubjobKeeps ==
    ASSUME CompositeInv, NEW j \in Jobs, RemoveSubjob(j)
    PROVE  CompositeInv'
<1> USE DEF CompositeInv
<1>1. /\ Reentrant /\ self.alive
      /\ job' = Released({j}) /\ subjobs' = RemovedFrom(subjobs, j) /\ Contains(subjobs, j)
      /\ abandoned \subseteq abandoned' /\ abandoned' \subseteq Jobs
      /\ UNCHANGED <<self, stack, firstError, reported, results>>
  BY DEF RemoveSubjob, removeSubjob, Reentrant, TypeOK
<1>2. /\ subjobs' \in Seq(Jobs) /\ IsDistinct(subjobs')
      /\ ToSet(subjobs') = ToSet(subjobs) \ {j}
  BY <1>1, RemoveFacts DEF TypeOK, ListIsSound
<1>3. job' \in [Jobs -> JobStates] /\ \A k \in Jobs : job'[k].finished = job[k].finished
  BY <1>1, ReleasedFacts
<1>4. /\ stack' \in Seq(Frames) /\ FramesAreSound'
      /\ \A k : Reporting(k) => Reporting(k)'
  BY <1>1, <1>3, ClientFrames DEF Grows
<1>5. ListIsSound' /\ DeletedAreFinished'
  BY <1>1, <1>2, <1>4, ReleaseKeeps
<1>6. TypeOK'
  BY <1>1, <1>2, <1>3, <1>4 DEF TypeOK, JobStates
<1>7. ErrorIsFirst' /\ GoneIsQuiet' /\ DiesWithComposite'
  BY <1>1 DEF ErrorIsFirst, GoneIsQuiet, DiesWithComposite
<1> QED
  BY <1>4, <1>5, <1>6, <1>7

LEMMA ClearSubjobsKeeps ==
    ASSUME CompositeInv, clearSubjobs
    PROVE  CompositeInv'
<1> USE DEF CompositeInv
<1>1. /\ Reentrant /\ self.alive
      /\ job' = Released(ToSet(subjobs)) /\ subjobs' = <<>>
      /\ abandoned \subseteq abandoned' /\ abandoned' \subseteq Jobs
      /\ UNCHANGED <<self, stack, firstError, reported, results>>
      /\ ToSet(subjobs) \in SUBSET Jobs
  BY DEF clearSubjobs, Reentrant, TypeOK, ToSet
<1>2. /\ subjobs' \in Seq(Jobs) /\ IsDistinct(subjobs')
      /\ ToSet(subjobs') = ToSet(subjobs) \ ToSet(subjobs)
  BY <1>1 DEF IsDistinct, ToSet
<1>3. job' \in [Jobs -> JobStates] /\ \A k \in Jobs : job'[k].finished = job[k].finished
  BY <1>1, ReleasedFacts
<1>4. /\ stack' \in Seq(Frames) /\ FramesAreSound'
      /\ \A k : Reporting(k) => Reporting(k)'
  BY <1>1, <1>3, ClientFrames DEF Grows
<1>5. ListIsSound' /\ DeletedAreFinished'
  BY <1>1, <1>2, <1>4, ReleaseKeeps
<1>6. TypeOK'
  BY <1>1, <1>2, <1>3, <1>4 DEF TypeOK, JobStates
<1>7. ErrorIsFirst' /\ GoneIsQuiet' /\ DiesWithComposite'
  BY <1>1 DEF ErrorIsFirst, GoneIsQuiet, DiesWithComposite
<1> QED
  BY <1>4, <1>5, <1>6, <1>7

(* A job is started by a client; nothing here depends on it. *)
LEMMA StartedFacts ==
    ASSUME TypeOK, NEW j \in Jobs, job' = [job EXCEPT ![j].started = TRUE]
    PROVE  /\ job' \in [Jobs -> JobStates]
           /\ \A k \in Jobs : /\ job'[k].finished = job[k].finished
                              /\ job'[k].alive = job[k].alive
                              /\ job'[k].parent = job[k].parent
                              /\ job'[k].connected = job[k].connected
                              /\ job'[k].deletePosted = job[k].deletePosted
BY DEF TypeOK, JobStates

(* What the list says is about these parts of its jobs only. *)
LEMMA ListStays ==
    ASSUME CompositeInv, subjobs' = subjobs, self'.alive = self.alive,
           self'.finished /\ self'.error = NoError =>
              (self.finished /\ self.error = NoError) \/ subjobs = <<>>,
           abandoned \subseteq abandoned',
           \A k \in Jobs : /\ job'[k].parent = job[k].parent
                           /\ job'[k].connected = job[k].connected,
           \A k \in ToSet(subjobs) :
              (job'[k].finished /\ ~job[k].finished) \/ Reporting(k) =>
                 Reporting(k)' \/ k \in abandoned'
    PROVE  ListIsSound'
<1> USE DEF CompositeInv
<1>1. ToSet(subjobs) \subseteq Jobs
  BY DEF TypeOK, ToSet
<1>2. IsDistinct(subjobs')
  BY DEF ListIsSound
<1>3. \A k \in ToSet(subjobs') : job'[k].parent
  BY <1>1 DEF ListIsSound
<1>4. self'.alive => \A k \in ToSet(subjobs') : job'[k].connected \/ k \in abandoned'
  BY <1>1 DEF ListIsSound
<1>5. self'.alive => \A k \in ToSet(subjobs') :
                        job'[k].finished => Reporting(k)' \/ k \in abandoned'
  BY <1>1 DEF ListIsSound
<1>6. self'.alive => \A k \in Jobs : job'[k].connected => Contains(subjobs', k)
  BY DEF ListIsSound
<1> QED
  BY <1>2, <1>3, <1>4, <1>5, <1>6 DEF ListIsSound

LEMMA StartSubjobKeeps ==
    ASSUME CompositeInv, NEW j \in Jobs, StartSubjob(j)
    PROVE  CompositeInv'
<1> USE DEF CompositeInv
<1>1. /\ Reentrant /\ job' = [job EXCEPT ![j].started = TRUE]
      /\ UNCHANGED <<subjobs, self, stack, firstError, reported, results, abandoned>>
  BY DEF StartSubjob, history
<1>2. /\ job' \in [Jobs -> JobStates]
      /\ \A k \in Jobs : /\ job'[k].finished = job[k].finished
                         /\ job'[k].alive = job[k].alive
                         /\ job'[k].parent = job[k].parent
                         /\ job'[k].connected = job[k].connected
                         /\ job'[k].deletePosted = job[k].deletePosted
  BY <1>1, StartedFacts
<1>3. /\ stack' \in Seq(Frames) /\ FramesAreSound'
      /\ \A k : Reporting(k) => Reporting(k)'
  BY <1>1, <1>2, ClientFrames DEF Grows
<1>4. ToSet(subjobs) \subseteq Jobs
  BY DEF TypeOK, ToSet
<1>5. ListIsSound'
  BY <1>1, <1>2, <1>3, <1>4, ListStays
<1>6. TypeOK'
  BY <1>1, <1>2, <1>3 DEF TypeOK, JobStates
<1>7. ErrorIsFirst' /\ GoneIsQuiet'
  BY <1>1 DEF ErrorIsFirst, GoneIsQuiet
<1>8. DeletedAreFinished' /\ DiesWithComposite'
  BY <1>1, <1>2, <1>4 DEF DeletedAreFinished, DiesWithComposite
<1> QED
  BY <1>3, <1>5, <1>6, <1>7, <1>8
-----------------------------------------------------------------------------
(* Deletion. *)

LEMMA DestroyedFacts ==
    ASSUME TypeOK, NEW js \in SUBSET Jobs
    PROVE  /\ Destroyed(js) \in [Jobs -> JobStates]
           /\ \A k \in Jobs : /\ Destroyed(js)[k].parent = job[k].parent
                              /\ Destroyed(js)[k].deletePosted = job[k].deletePosted
                              /\ job[k].finished => Destroyed(js)[k].finished
                              /\ ~job[k].alive => ~Destroyed(js)[k].alive
                              /\ k \notin js => Destroyed(js)[k] = job[k]
                              /\ k \in js => /\ ~Destroyed(js)[k].alive
                                             /\ ~Destroyed(js)[k].connected
<1>1. Destroyed(js) \in [Jobs -> JobStates]
  BY DEF Destroyed, TypeOK, JobStates
<1>2. \A k \in Jobs : /\ Destroyed(js)[k].parent = job[k].parent
                      /\ Destroyed(js)[k].deletePosted = job[k].deletePosted
                      /\ job[k].finished => Destroyed(js)[k].finished
                      /\ ~job[k].alive => ~Destroyed(js)[k].alive
  BY DEF Destroyed, TypeOK
<1>3. \A k \in Jobs : /\ k \notin js => Destroyed(js)[k] = job[k]
                      /\ k \in js => /\ ~Destroyed(js)[k].alive
                                     /\ ~Destroyed(js)[k].connected
  BY DEF Destroyed, TypeOK
<1> QED
  BY <1>1, <1>2, <1>3

(* A subjob that is deleted is lost if it is on the list. *)
LEMMA DestroyKeeps ==
    ASSUME CompositeInv, NEW j \in Jobs, Reentrant \/ stack = <<>>,
           job' = Destroyed({j}), abandoned \subseteq abandoned', abandoned' \subseteq Jobs,
           UNCHANGED <<subjobs, self, stack, firstError, reported, results>>,
           self.alive /\ j \in ToSet(subjobs) => j \in abandoned'
    PROVE  CompositeInv'
<1> USE DEF CompositeInv
<1>1. /\ job' \in [Jobs -> JobStates]
      /\ \A k \in Jobs : /\ job'[k].parent = job[k].parent
                         /\ job'[k].deletePosted = job[k].deletePosted
                         /\ job[k].finished => job'[k].finished
                         /\ ~job[k].alive => ~job'[k].alive
                         /\ k # j => job'[k] = job[k]
                         /\ k = j => ~job'[k].connected
  BY DestroyedFacts
<1>2. /\ stack' \in Seq(Frames) /\ FramesAreSound'
      /\ \A k : Reporting(k) => Reporting(k)'
  BY <1>1, ClientFrames DEF Grows
<1>3. ToSet(subjobs) \subseteq Jobs
  BY DEF TypeOK, ToSet
<1>4. ListIsSound'
  <2>1. IsDistinct(subjobs')
    BY DEF ListIsSound
  <2>2. \A k \in ToSet(subjobs') : job'[k].parent
    BY <1>1, <1>3 DEF ListIsSound
  <2>3. self'.alive => \A k \in ToSet(subjobs') : job'[k].connected \/ k \in abandoned'
    BY <1>1, <1>3 DEF ListIsSound
  <2>4. self'.alive => \A k \in ToSet(subjobs') :
                          job'[k].finished => Reporting(k)' \/ k \in abandoned'
    BY <1>1, <1>2, <1>3 DEF ListIsSound
  <2>5. self'.alive => \A k \in Jobs : job'[k].connected => Contains(subjobs', k)
    BY <1>1 DEF ListIsSound
  <2> QED
    BY <2>1, <2>2, <2>3, <2>4, <2>5 DEF ListIsSound
<1>5. TypeOK'
  BY <1>1, <1>2 DEF TypeOK, JobStates
<1>6. ErrorIsFirst' /\ GoneIsQuiet'
  BY DEF ErrorIsFirst, GoneIsQuiet
<1>7. DeletedAreFinished' /\ DiesWithComposite'
  BY <1>1, <1>3 DEF DeletedAreFinished, DiesWithComposite
<1> QED
  BY <1>2, <1>4, <1>5, <1>6, <1>7

LEMMA DeleteKeeps ==
    ASSUME CompositeInv, NEW j \in Jobs, DeleteSubjob(j) \/ DeferredDelete(j)
    PROVE  CompositeInv'
<1>1. CASE DeleteSubjob(j)
  <2>1. /\ Reentrant /\ job' = Destroyed({j}) /\ abandoned' = abandoned \cup {j}
        /\ UNCHANGED <<subjobs, self, stack, firstError, reported, results>>
    BY <1>1 DEF DeleteSubjob
  <2>2. abandoned' \subseteq Jobs
    BY <2>1 DEF CompositeInv, TypeOK
  <2> QED
    BY <2>1, <2>2, DestroyKeeps
<1>2. CASE DeferredDelete(j)
  <2>1. /\ stack = <<>> /\ job[j].deletePosted /\ job' = Destroyed({j})
        /\ UNCHANGED <<subjobs, self, stack, firstError, reported, results, abandoned>>
    BY <1>2 DEF DeferredDelete, history
  <2>2. job[j].finished /\ ~Reporting(j)
    BY <2>1 DEF CompositeInv, DeletedAreFinished, Reporting
  <2>3. self.alive /\ j \in ToSet(subjobs) => j \in abandoned
    BY <2>2 DEF CompositeInv, ListIsSound
  <2>4. abandoned' \subseteq Jobs
    BY <2>1 DEF CompositeInv, TypeOK
  <2> QED
    BY <2>1, <2>3, <2>4, DestroyKeeps
<1> QED
  BY <1>1, <1>2

(* The composite goes, and its children with it. *)
LEMMA DestroyCompositeKeeps ==
    ASSUME CompositeInv, Destroy
    PROVE  CompositeInv'
<1> USE DEF CompositeInv
<1> DEFINE js == {j \in Jobs : job[j].parent}
<1>1. /\ stack = <<>> /\ self' = [self EXCEPT !.alive = FALSE, !.finished = TRUE]
      /\ job' = Destroyed(js)
      /\ UNCHANGED <<subjobs, stack, firstError, reported, results, abandoned>>
  BY DEF Destroy, history
<1>2. /\ self' \in SelfStates /\ ~self'.alive /\ self'.finished /\ self'.error = self.error
  BY <1>1 DEF TypeOK, SelfStates
<1>3. js \in SUBSET Jobs
  OBVIOUS
<1> HIDE DEF js
<1>4. /\ job' \in [Jobs -> JobStates]
      /\ \A k \in Jobs : /\ job'[k].parent = job[k].parent
                         /\ job'[k].deletePosted = job[k].deletePosted
                         /\ job[k].finished => job'[k].finished
                         /\ k \in js => ~job'[k].alive
  BY <1>1, <1>3, DestroyedFacts
<1>5. stack' \in Seq(Frames) /\ FramesAreSound'
  BY <1>1, <1>2, <1>4, ClientFrames DEF Grows
<1>6. ToSet(subjobs) \subseteq Jobs
  BY DEF TypeOK, ToSet
<1>7. ListIsSound'
  BY <1>1, <1>2, <1>4, <1>6 DEF ListIsSound
<1>8. TypeOK'
  BY <1>1, <1>2, <1>4, <1>5 DEF TypeOK, JobStates, SelfStates
<1>9. ErrorIsFirst' /\ GoneIsQuiet'
  BY <1>1, <1>2 DEF ErrorIsFirst, GoneIsQuiet
<1>10. DeletedAreFinished'
  BY <1>4 DEF DeletedAreFinished
<1>11. DiesWithComposite'
  <2>1. \A k \in ToSet(subjobs) : k \in js
    BY <1>6 DEF ListIsSound, js
  <2> QED
    BY <1>1, <1>4, <1>6, <2>1 DEF DiesWithComposite
<1> QED
  BY <1>5, <1>7, <1>8, <1>9, <1>10, <1>11

-----------------------------------------------------------------------------
(* Jobs that begin and end. *)

(* A subjob finishes, and says so or is lost. *)
LEMMA FinishJobKeeps ==
    ASSUME CompositeInv, NEW j \in Jobs, NEW error \in Errors, NEW announces \in BOOLEAN,
           Reentrant, FinishJob(j, error, announces),
           abandoned' = IF announces THEN abandoned ELSE abandoned \cup {j},
           UNCHANGED <<subjobs, self, firstError, reported, results>>
    PROVE  CompositeInv'
<1> USE DEF CompositeInv
<1> DEFINE f == Frame(IF announces THEN "finished" ELSE "quiet", j)
<1>1. ~job[j].finished /\ Push(f)
      /\ job' = [job EXCEPT ![j].finished = TRUE, ![j].error = error]
  BY DEF FinishJob
<1>2. /\ job' \in [Jobs -> JobStates] /\ job'[j].finished
      /\ \A k \in Jobs : /\ job'[k].alive = job[k].alive
                         /\ job'[k].parent = job[k].parent
                         /\ job'[k].connected = job[k].connected
                         /\ job'[k].deletePosted = job[k].deletePosted
                         /\ k # j => job'[k].finished = job[k].finished
  <2> HIDE DEF CompositeInv
  <2>0. job \in [Jobs -> JobStates] /\ error \in Errors
    BY DEF CompositeInv, TypeOK, JobStates
  <2>1. job' \in [Jobs -> JobStates]
    BY <1>1, <2>0 DEF JobStates
  <2>2. job'[j].finished
    BY <1>1, <2>0 DEF JobStates
  <2>3. \A k \in Jobs : k # j => job'[k] = job[k]
    BY <1>1, <2>0
  <2>4. /\ job'[j].alive = job[j].alive
        /\ job'[j].parent = job[j].parent
        /\ job'[j].connected = job[j].connected
        /\ job'[j].deletePosted = job[j].deletePosted
    BY <1>1, <2>0 DEF JobStates
  <2> QED
    BY <2>1, <2>2, <2>3, <2>4
<1>3. /\ f \in Frames /\ f.job = j /\ f.at \in {"finished", "quiet"}
      /\ announces => f.at = "finished"
  BY DEF Frame, Frames
<1> HIDE DEF f
<1>4. /\ stack' \in Seq(Frames) /\ FramesAreSound'
      /\ \A k : Reporting(k) \/ Reports(f, k) => Reporting(k)'
  <2>1. IsSound(f, job', self', results')
    BY <1>2, <1>3 DEF IsSound
  <2>2. Grows
    BY <1>2 DEF Grows
  <2>3. stack # <<>> => Head(stack).at # "slotResult"
    BY DEF Reentrant
  <2> QED
    BY <1>1, <1>3, <2>1, <2>2, <2>3, FramesPush
<1>5. ToSet(subjobs) \subseteq Jobs
  BY DEF TypeOK, ToSet
<1>6. Reporting(j)' \/ j \in abandoned'
  BY <1>3, <1>4 DEF Reports
<1>7. ListIsSound'
  BY <1>2, <1>4, <1>5, <1>6, ListStays
<1>8. TypeOK'
  BY <1>2, <1>4 DEF TypeOK, JobStates
<1>9. ErrorIsFirst' /\ GoneIsQuiet'
  BY DEF ErrorIsFirst, GoneIsQuiet, Reentrant
<1>10. DeletedAreFinished' /\ DiesWithComposite'
  BY <1>2, <1>5 DEF DeletedAreFinished, DiesWithComposite
<1> QED
  BY <1>4, <1>7, <1>8, <1>9, <1>10

LEMMA JobEndsKeeps ==
    ASSUME CompositeInv, NEW j \in Jobs,
           JobEnds(j) \/ \E quietly \in BOOLEAN : KillSubjob(j, quietly)
    PROVE  CompositeInv'
<1>1. CASE JobEnds(j)
  <2>1. PICK error \in {NoError, "UserDefinedError"} : FinishJob(j, error, TRUE)
    BY <1>1 DEF JobEnds
  <2>2. Reentrant /\ UNCHANGED <<subjobs, self, firstError, reported, results, abandoned>>
    BY <1>1 DEF JobEnds, history
  <2>3. error \in Errors
    BY DEF Errors
  <2> QED
    BY <2>1, <2>2, <2>3, FinishJobKeeps
<1>2. ASSUME NEW quietly \in BOOLEAN, KillSubjob(j, quietly) PROVE CompositeInv'
  <2>1. /\ Reentrant /\ FinishJob(j, "KilledJobError", ~quietly)
        /\ abandoned' = IF ~quietly THEN abandoned ELSE abandoned \cup {j}
        /\ UNCHANGED <<subjobs, self, firstError, reported, results>>
    BY <1>2 DEF KillSubjob
  <2>2. "KilledJobError" \in Errors
    BY DEF Errors
  <2>3. (~quietly) \in BOOLEAN
    OBVIOUS
  <2> QED
    BY <2>1, <2>2, <2>3, FinishJobKeeps
<1> QED
  BY <1>1, <1>2
LEMMA StartKeeps ==
    ASSUME CompositeInv, Start
    PROVE  CompositeInv'
<1> USE DEF CompositeInv
<1>1. /\ self.alive /\ stack = <<>>
      /\ self' = [self EXCEPT !.started = TRUE, !.finished = (@ \/ subjobs = <<>>)]
      /\ UNCHANGED <<subjobs, firstError, reported, results, abandoned>>
  BY DEF Start, history
<1>2. /\ self' \in SelfStates /\ self'.alive = self.alive /\ self'.error = self.error
      /\ self'.finished = (self.finished \/ subjobs = <<>>)
  BY <1>1 DEF TypeOK, SelfStates
<1>3. /\ job' \in [Jobs -> JobStates]
      /\ \A k \in Jobs : /\ job'[k].finished = job[k].finished
                         /\ job'[k].alive = job[k].alive
                         /\ job'[k].parent = job[k].parent
                         /\ job'[k].connected = job[k].connected
                         /\ job'[k].deletePosted = job[k].deletePosted
  <2>1. CASE subjobs # <<>>
    <3>1. job' = [job EXCEPT ![Head(subjobs)].started = TRUE]
      BY <2>1 DEF Start, StartFirst
    <3>2. Head(subjobs) \in Jobs
      BY <2>1 DEF TypeOK
    <3> QED
      BY <3>1, <3>2, StartedFacts
  <2>2. CASE subjobs = <<>>
    BY <2>2 DEF Start, TypeOK, JobStates
  <2> QED
    BY <2>1, <2>2
<1>4. Grows
  BY <1>2, <1>3 DEF Grows
<1>5. /\ stack' \in Seq(Frames) /\ FramesAreSound'
      /\ \A k : Reporting(k) => Reporting(k)'
  <2>1. CASE self'.finished # self.finished
    <3> DEFINE f == Frame("selfFinished", Self)
    <3>1. f \in Frames /\ f.at = "selfFinished"
      BY DEF Frame, Frames
    <3>2. Push(f)
      BY <2>1 DEF Start
    <3>3. self'.finished /\ ~self.finished
      BY <1>2, <2>1 DEF TypeOK
    <3>4. results = 0
      BY <3>3 DEF ErrorIsFirst
    <3> HIDE DEF f
    <3>5. IsSound(f, job', self', results')
      BY <1>1, <3>1, <3>3, <3>4 DEF IsSound
    <3> QED
      BY <1>1, <1>4, <3>1, <3>2, <3>3, <3>5, FramesPush
  <2>2. CASE self'.finished = self.finished
    <3>1. stack' = stack
      BY <2>2 DEF Start
    <3> QED
      BY <1>1, <1>4, <3>1, ClientFrames
  <2> QED
    BY <2>1, <2>2
<1>6. ToSet(subjobs) \subseteq Jobs
  BY DEF TypeOK, ToSet
<1>7. ListIsSound'
  BY <1>1, <1>2, <1>3, <1>5, <1>6, ListStays
<1>8. TypeOK'
  BY <1>1, <1>2, <1>3, <1>5 DEF TypeOK, JobStates, SelfStates
<1>9. ErrorIsFirst' /\ GoneIsQuiet'
  BY <1>1, <1>2 DEF ErrorIsFirst, GoneIsQuiet
<1>10. DeletedAreFinished' /\ DiesWithComposite'
  BY <1>1, <1>2, <1>3, <1>6 DEF DeletedAreFinished, DiesWithComposite
<1> QED
  BY <1>5, <1>7, <1>8, <1>9, <1>10

-----------------------------------------------------------------------------
(* The signal under way goes on. *)

(* The innermost call, and whom it is about. *)
LEMMA TopFacts ==
    ASSUME CompositeInv, NEW at, Top(at)
    PROVE  /\ stack # <<>> /\ Head(stack).at = at /\ self.alive
           /\ Head(stack) \in Frames /\ IsSound(Head(stack), job, self, results)
           /\ at = "slotResult" => job[Head(stack).job].connected
           /\ at \notin {"selfFinished", "selfResult"} =>
                 Head(stack).job \in Jobs /\ job[Head(stack).job].finished
<1>1. stack # <<>> /\ Head(stack).at = at
  BY DEF Top
<1>2. /\ 1 \in DOMAIN stack /\ Head(stack) = stack[1] /\ Head(stack) \in Frames
  BY <1>1, OnlyOnTop DEF CompositeInv
<1>3. self.alive
  BY <1>1 DEF CompositeInv, GoneIsQuiet
<1>4. IsSound(Head(stack), job, self, results)
  BY <1>2 DEF CompositeInv, FramesAreSound
<1>5. at = "slotResult" => job[Head(stack).job].connected
  BY <1>1, <1>2 DEF CompositeInv, FramesAreSound
<1>6. at \notin {"selfFinished", "selfResult"} => Head(stack).job \in Jobs
  BY <1>1, <1>2 DEF Frames
<1> QED
  BY <1>1, <1>2, <1>3, <1>4, <1>5, <1>6 DEF IsSound

(* The calls change, and nothing else: the one on top no longer reports a     *)
(* job that could still be on the list.                                    *)
LEMMA OnlyCalls ==
    ASSUME CompositeInv, stack' \in Seq(Frames), FramesAreSound', stack # <<>>,
           UNCHANGED <<subjobs, job, self, firstError, reported, results, abandoned>>,
           \A k : Reporting(k) /\ ~Reports(Head(stack), k) => Reporting(k)',
           \A k \in ToSet(subjobs) :
              Reports(Head(stack), k) => Reporting(k)' \/ k \in abandoned
    PROVE  CompositeInv'
<1> USE DEF CompositeInv
<1>1. ListIsSound'
  BY ListStays
<1>2. TypeOK'
  BY DEF TypeOK
<1>3. ErrorIsFirst' /\ GoneIsQuiet'
  BY DEF ErrorIsFirst, GoneIsQuiet
<1>4. DeletedAreFinished' /\ DiesWithComposite'
  BY DEF DeletedAreFinished, DiesWithComposite
<1> QED
  BY <1>1, <1>2, <1>3, <1>4

LEMMA FinishedReturnsKeeps ==
    ASSUME CompositeInv, FinishedReturns
    PROVE  CompositeInv'
<1> DEFINE j == Head(stack).job
           f == Frame(IF job[j].connected THEN "slotResult" ELSE "deleted", j)
<1>1. /\ Top("finished") /\ Become(f)
      /\ UNCHANGED <<subjobs, job, self, firstError, reported, results, abandoned>>
  BY DEF FinishedReturns, history
<1>2. stack # <<>> /\ Head(stack).at = "finished" /\ self.alive /\ j \in Jobs /\ job[j].finished
  BY <1>1, TopFacts
<1>3. /\ f \in Frames /\ f.job = j
      /\ f.at = IF job[j].connected THEN "slotResult" ELSE "deleted"
  BY <1>2 DEF Frame, Frames
<1> HIDE DEF f
<1>4. Grows
  BY <1>1 DEF Grows
<1>5. IsSound(f, job', self', results')
  BY <1>1, <1>2, <1>3 DEF IsSound
<1>6. /\ stack' \in Seq(Frames) /\ FramesAreSound'
      /\ \A k : Reporting(k) /\ ~Reports(Head(stack), k) => Reporting(k)'
      /\ \A k : Reports(f, k) => Reporting(k)'
  BY <1>1, <1>2, <1>3, <1>4, <1>5, FramesBecome DEF CompositeInv
<1>7. ASSUME NEW k \in ToSet(subjobs), Reports(Head(stack), k)
      PROVE  Reporting(k)' \/ k \in abandoned
  <2>1. k = j
    BY <1>7 DEF Reports
  <2>2. job[j].connected \/ j \in abandoned
    BY <1>2, <1>7, <2>1 DEF CompositeInv, ListIsSound
  <2>3. job[j].connected => Reports(f, j)
    BY <1>3 DEF Reports
  <2> QED
    BY <1>6, <2>1, <2>2, <2>3
<1> QED
  BY <1>1, <1>2, <1>6, <1>7, OnlyCalls

LEMMA QuietReturnsKeeps ==
    ASSUME CompositeInv, QuietReturns
    PROVE  CompositeInv'
<1> DEFINE j == Head(stack).job
           f == Frame("deleted", j)
<1>1. /\ Top("quiet") /\ Become(f)
      /\ UNCHANGED <<subjobs, job, self, firstError, reported, results, abandoned>>
  BY DEF QuietReturns, history
<1>2. stack # <<>> /\ Head(stack).at = "quiet" /\ j \in Jobs /\ job[j].finished
  BY <1>1, TopFacts
<1>3. f \in Frames /\ f.job = j /\ f.at = "deleted"
  BY <1>2 DEF Frame, Frames
<1> HIDE DEF f
<1>4. Grows
  BY <1>1 DEF Grows
<1>5. IsSound(f, job', self', results')
  BY <1>1, <1>2, <1>3 DEF IsSound
<1>6. /\ stack' \in Seq(Frames) /\ FramesAreSound'
      /\ \A k : Reporting(k) /\ ~Reports(Head(stack), k) => Reporting(k)'
  BY <1>1, <1>2, <1>3, <1>4, <1>5, FramesBecome DEF CompositeInv
<1>7. \A k : ~Reports(Head(stack), k)
  BY <1>2 DEF Reports
<1> QED
  BY <1>1, <1>2, <1>6, <1>7, OnlyCalls

LEMMA ResultReturnsKeeps ==
    ASSUME CompositeInv, ResultReturns
    PROVE  CompositeInv'
<1> USE DEF CompositeInv
<1> DEFINE j == Head(stack).job
<1>1. /\ Top("deleted") /\ Pop
      /\ job' = [job EXCEPT ![j].deletePosted = TRUE]
      /\ UNCHANGED <<subjobs, self, firstError, reported, results, abandoned>>
  BY DEF ResultReturns, history
<1>2. /\ stack # <<>> /\ Head(stack).at = "deleted" /\ self.alive
      /\ j \in Jobs /\ job[j].finished
  BY <1>1, TopFacts
<1> HIDE DEF j
<1>3. /\ job' \in [Jobs -> JobStates]
      /\ \A k \in Jobs : /\ job'[k].finished = job[k].finished
                         /\ job'[k].alive = job[k].alive
                         /\ job'[k].parent = job[k].parent
                         /\ job'[k].connected = job[k].connected
                         /\ k # j => job'[k].deletePosted = job[k].deletePosted
  BY <1>1, <1>2 DEF TypeOK, JobStates
<1>4. Grows
  BY <1>1, <1>3 DEF Grows
<1>5. /\ stack' \in Seq(Frames) /\ FramesAreSound'
      /\ \A k : Reporting(k) /\ ~Reports(Head(stack), k) => Reporting(k)'
  BY <1>1, <1>2, <1>4, FramesPop
<1>6. \A k : ~Reports(Head(stack), k)
  BY <1>2 DEF Reports
<1>7. ToSet(subjobs) \subseteq Jobs
  BY DEF TypeOK, ToSet
<1>8. ListIsSound'
  BY <1>1, <1>3, <1>5, <1>6, <1>7, ListStays
<1>9. TypeOK'
  BY <1>1, <1>3, <1>5 DEF TypeOK, JobStates
<1>10. ErrorIsFirst' /\ GoneIsQuiet'
  BY <1>1, <1>2 DEF ErrorIsFirst, GoneIsQuiet
<1>11. DeletedAreFinished' /\ DiesWithComposite'
  BY <1>1, <1>2, <1>3, <1>7 DEF DeletedAreFinished, DiesWithComposite
<1> QED
  BY <1>5, <1>8, <1>9, <1>10, <1>11
(* emitResult() of the composite, with f to go on with. *)
LEMMA EmitResultFacts ==
    ASSUME CompositeInv, stack # <<>>, NEW error \in Errors, NEW f \in Frames,
           EmitResult(error, f), results' = results,
           f.at \notin {"selfFinished", "selfResult", "slotResult"}, job'[f.job].finished,
           \A k \in Jobs : job[k].finished => job'[k].finished
    PROVE  /\ self' \in SelfStates /\ self'.alive = self.alive
           /\ self'.error = error /\ self'.finished
           /\ stack' \in Seq(Frames) /\ FramesAreSound'
           /\ \A k : Reporting(k) /\ ~Reports(Head(stack), k) => Reporting(k)'
           /\ \A k : Reports(f, k) => Reporting(k)'
<1> USE DEF CompositeInv
<1>1. CASE self.finished
  <2>1. Become(f) /\ self' = [self EXCEPT !.error = error]
    BY <1>1 DEF EmitResult
  <2>2. /\ self' \in SelfStates /\ self'.alive = self.alive
        /\ self'.error = error /\ self'.finished
    BY <1>1, <2>1 DEF TypeOK, SelfStates
  <2>3. Grows
    BY <2>2 DEF Grows
  <2>4. IsSound(f, job', self', results')
    BY DEF IsSound
  <2> QED
    BY <2>1, <2>2, <2>3, <2>4, FramesBecome
<1>2. CASE ~self.finished
  <2>1. /\ stack' = <<Frame("selfFinished", Self), f>> \o Tail(stack)
        /\ self' = [self EXCEPT !.error = error, !.finished = TRUE]
    BY <1>2 DEF EmitResult
  <2>2. /\ self' \in SelfStates /\ self'.alive = self.alive
        /\ self'.error = error /\ self'.finished
    BY <2>1 DEF TypeOK, SelfStates
  <2>3. Grows
    BY <2>2 DEF Grows
  <2>4. IsSound(f, job', self', results')
    BY DEF IsSound
  <2>5. results = 0
    BY <1>2 DEF ErrorIsFirst
  <2> QED
    BY <1>2, <2>1, <2>2, <2>3, <2>4, <2>5, FramesFinish
<1> QED
  BY <1>1, <1>2

(* The first error ends the composite: it has not finished without one, for   *)
(* then the subjob would no longer be listened to.                         *)
LEMMA SlotResultKeeps ==
    ASSUME CompositeInv, slotResult
    PROVE  CompositeInv'
<1> USE DEF CompositeInv
<1> DEFINE j == Head(stack).job
           f == Frame("removeSubjob", j)
<1>1. /\ Top("slotResult")
      /\ IF job[j].error # NoError /\ self.error = NoError
         THEN EmitResult(job[j].error, f) ELSE Become(f) /\ self' = self
      /\ firstError' = IF firstError = NoError THEN job[j].error ELSE firstError
      /\ UNCHANGED <<subjobs, job, reported, results, abandoned>>
  BY DEF slotResult
<1>2. /\ stack # <<>> /\ Head(stack).at = "slotResult" /\ self.alive
      /\ j \in Jobs /\ job[j].finished /\ job[j].connected
  BY <1>1, TopFacts
<1>3. f \in Frames /\ f.job = j /\ f.at = "removeSubjob"
  BY <1>2 DEF Frame, Frames
<1>4. Reports(f, j) /\ \A k : Reports(Head(stack), k) => k = j
  BY <1>3 DEF Reports
<1> HIDE DEF f, j
<1>5. job[j].error \in Errors
  BY <1>2 DEF TypeOK
<1>6. ToSet(subjobs) \subseteq Jobs /\ j \in ToSet(subjobs) /\ subjobs # <<>>
  <2>1. Contains(subjobs, j)
    BY <1>2 DEF ListIsSound
  <2> QED
    BY <2>1, ContainsIsMember DEF TypeOK, ToSet
<1>7. CASE job[j].error # NoError /\ self.error = NoError
  <2>1. ~self.finished
    BY <1>2, <1>6, <1>7 DEF ListIsSound
  <2>2. /\ self' \in SelfStates /\ self'.alive = self.alive
        /\ self'.error = job[j].error /\ self'.finished
        /\ stack' \in Seq(Frames) /\ FramesAreSound'
        /\ \A k : Reporting(k) /\ ~Reports(Head(stack), k) => Reporting(k)'
        /\ \A k : Reports(f, k) => Reporting(k)'
    BY <1>1, <1>2, <1>3, <1>5, <1>7, EmitResultFacts
  <2>3. \A k : Reporting(k) => Reporting(k)'
    BY <1>4, <2>2
  <2>4. ListIsSound'
    BY <1>1, <1>7, <2>2, <2>3, ListStays
  <2>5. firstError' = job[j].error
    BY <1>1, <1>7 DEF ErrorIsFirst
  <2>6. TypeOK'
    BY <1>1, <1>5, <2>2, <2>5 DEF TypeOK, SelfStates
  <2>7. ErrorIsFirst'
    BY <1>1, <2>1, <2>2, <2>5 DEF ErrorIsFirst
  <2>8. GoneIsQuiet' /\ DeletedAreFinished' /\ DiesWithComposite'
    BY <1>1, <1>2, <2>2 DEF GoneIsQuiet, DeletedAreFinished, DiesWithComposite
  <2> QED
    BY <2>2, <2>4, <2>6, <2>7, <2>8
<1>8. CASE ~(job[j].error # NoError /\ self.error = NoError)
  <2>1. Become(f) /\ self' = self
    BY <1>1, <1>8
  <2>2. firstError' = firstError
    BY <1>1, <1>8 DEF ErrorIsFirst
  <2>3. Grows /\ IsSound(f, job', self', results')
    BY <1>1, <1>2, <1>3, <2>1 DEF Grows, IsSound
  <2>4. /\ stack' \in Seq(Frames) /\ FramesAreSound'
        /\ \A k : Reporting(k) /\ ~Reports(Head(stack), k) => Reporting(k)'
        /\ \A k : Reports(f, k) => Reporting(k)'
    BY <1>1, <1>2, <1>3, <2>1, <2>3, FramesBecome
  <2>5. \A k \in ToSet(subjobs) : Reports(Head(stack), k) => Reporting(k)' \/ k \in abandoned
    BY <1>4, <2>4
  <2> QED
    BY <1>1, <1>2, <2>1, <2>2, <2>4, <2>5, OnlyCalls
<1> QED
  BY <1>7, <1>8

(* The subjob that has reported leaves the list. *)
LEMMA SlotRemovesKeeps ==
    ASSUME CompositeInv, SlotRemoves
    PROVE  CompositeInv'
<1> USE DEF CompositeInv
<1> DEFINE j == Head(stack).job
           f == Frame("next", j)
<1>1. /\ Top("removeSubjob") /\ removeSubjob(j) /\ Become(f)
      /\ UNCHANGED <<self, firstError, reported, results, abandoned>>
  BY DEF SlotRemoves, history
<1>2. /\ stack # <<>> /\ Head(stack).at = "removeSubjob" /\ self.alive
      /\ j \in Jobs /\ job[j].finished
  BY <1>1, TopFacts
<1>3. f \in Frames /\ f.job = j /\ f.at = "next"
  BY <1>2 DEF Frame, Frames
<1>4. \A k : Reports(Head(stack), k) => k = j
  BY DEF Reports
<1> HIDE DEF f, j
<1>5. CASE Contains(subjobs, j)
  <2>1. job' = Released({j}) /\ subjobs' = RemovedFrom(subjobs, j)
    BY <1>1, <1>5 DEF removeSubjob
  <2>2. /\ subjobs' \in Seq(Jobs) /\ IsDistinct(subjobs')
        /\ ToSet(subjobs') = ToSet(subjobs) \ {j}
    BY <1>2, <1>5, <2>1, RemoveFacts DEF TypeOK, ListIsSound
  <2>3. job' \in [Jobs -> JobStates] /\ \A k \in Jobs : job'[k].finished = job[k].finished
    BY <1>2, <2>1, ReleasedFacts
  <2>4. Grows /\ IsSound(f, job', self', results')
    BY <1>1, <1>2, <1>3, <2>3 DEF Grows, IsSound
  <2>5. /\ stack' \in Seq(Frames) /\ FramesAreSound'
        /\ \A k : Reporting(k) /\ ~Reports(Head(stack), k) => Reporting(k)'
    BY <1>1, <1>2, <1>3, <2>4, FramesBecome
  <2>6. ListIsSound' /\ DeletedAreFinished'
    <3>1. \A k \in ToSet(subjobs') : Reporting(k) => Reporting(k)'
      BY <1>4, <2>2, <2>5
    <3> QED
      BY <1>1, <1>2, <2>1, <2>2, <3>1, ReleaseKeeps
  <2>7. TypeOK'
    BY <1>1, <2>2, <2>3, <2>5 DEF TypeOK, JobStates
  <2>8. ErrorIsFirst' /\ GoneIsQuiet' /\ DiesWithComposite'
    BY <1>1, <1>2 DEF ErrorIsFirst, GoneIsQuiet, DiesWithComposite
  <2> QED
    BY <2>5, <2>6, <2>7, <2>8
<1>6. CASE ~Contains(subjobs, j)
  <2>1. UNCHANGED <<job, subjobs>>
    BY <1>1, <1>6 DEF removeSubjob
  <2>2. Grows /\ IsSound(f, job', self', results')
    BY <1>1, <1>2, <1>3, <2>1 DEF Grows, IsSound
  <2>3. /\ stack' \in Seq(Frames) /\ FramesAreSound'
        /\ \A k : Reporting(k) /\ ~Reports(Head(stack), k) => Reporting(k)'
    BY <1>1, <1>2, <1>3, <2>2, FramesBecome
  <2>4. \A k \in ToSet(subjobs) : ~Reports(Head(stack), k)
    BY <1>4, <1>6, ContainsIsMember DEF TypeOK
  <2> QED
    BY <1>1, <1>2, <2>1, <2>3, <2>4, OnlyCalls
<1> QED
  BY <1>5, <1>6

(* The next subjob is started, or the composite ends with what it knows. *)
LEMMA StartNextKeeps ==
    ASSUME CompositeInv, StartNext
    PROVE  CompositeInv'
<1> USE DEF CompositeInv
<1> DEFINE j == Head(stack).job
           f == Frame("deleted", j)
<1>1. /\ Top("next")
      /\ IF self.error = NoError /\ subjobs # <<>>
         THEN StartFirst /\ Become(f) /\ self' = self
         ELSE EmitResult(self.error, f) /\ job' = job
      /\ UNCHANGED <<subjobs, firstError, reported, results, abandoned>>
  BY DEF StartNext, history
<1>2. /\ stack # <<>> /\ Head(stack).at = "next" /\ self.alive
      /\ j \in Jobs /\ job[j].finished
  BY <1>1, TopFacts
<1>3. f \in Frames /\ f.job = j /\ f.at = "deleted"
  BY <1>2 DEF Frame, Frames
<1>4. \A k : ~Reports(Head(stack), k)
  BY <1>2 DEF Reports
<1> HIDE DEF f, j
<1>5. ToSet(subjobs) \subseteq Jobs
  BY DEF TypeOK, ToSet
<1>6. CASE self.error = NoError /\ subjobs # <<>>
  <2>1. job' = [job EXCEPT ![Head(subjobs)].started = TRUE] /\ Become(f) /\ self' = self
    BY <1>1, <1>6 DEF StartFirst
  <2>2. Head(subjobs) \in Jobs
    BY <1>6 DEF TypeOK
  <2>3. /\ job' \in [Jobs -> JobStates]
        /\ \A k \in Jobs : /\ job'[k].finished = job[k].finished
                           /\ job'[k].alive = job[k].alive
                           /\ job'[k].parent = job[k].parent
                           /\ job'[k].connected = job[k].connected
                           /\ job'[k].deletePosted = job[k].deletePosted
    BY <2>1, <2>2, StartedFacts
  <2>4. Grows /\ IsSound(f, job', self', results')
    BY <1>2, <1>3, <2>1, <2>3 DEF Grows, IsSound
  <2>5. /\ stack' \in Seq(Frames) /\ FramesAreSound'
        /\ \A k : Reporting(k) /\ ~Reports(Head(stack), k) => Reporting(k)'
    BY <1>1, <1>2, <1>3, <2>1, <2>4, FramesBecome
  <2>6. ListIsSound'
    BY <1>1, <1>4, <1>5, <2>1, <2>3, <2>5, ListStays
  <2>7. TypeOK'
    BY <1>1, <2>1, <2>3, <2>5 DEF TypeOK, JobStates
  <2>8. ErrorIsFirst' /\ GoneIsQuiet'
    BY <1>1, <1>2, <2>1 DEF ErrorIsFirst, GoneIsQuiet
  <2>9. DeletedAreFinished' /\ DiesWithComposite'
    BY <1>1, <1>5, <2>1, <2>3 DEF DeletedAreFinished, DiesWithComposite
  <2> QED
    BY <2>5, <2>6, <2>7, <2>8, <2>9
<1>7. CASE ~(self.error = NoError /\ subjobs # <<>>)
  <2>1. EmitResult(self.error, f) /\ job' = job
    BY <1>1, <1>7
  <2>2. self.error \in Errors
    BY DEF TypeOK
  <2>3. /\ self' \in SelfStates /\ self'.alive = self.alive
        /\ self'.error = self.error /\ self'.finished
        /\ stack' \in Seq(Frames) /\ FramesAreSound'
        /\ \A k : Reporting(k) /\ ~Reports(Head(stack), k) => Reporting(k)'
    BY <1>1, <1>2, <1>3, <2>1, <2>2, EmitResultFacts
  <2>4. ListIsSound'
    BY <1>1, <1>4, <1>5, <1>7, <2>1, <2>3, ListStays
  <2>5. TypeOK'
    BY <1>1, <2>1, <2>3 DEF TypeOK, SelfStates
  <2>6. ErrorIsFirst' /\ GoneIsQuiet'
    BY <1>1, <1>2, <2>3 DEF ErrorIsFirst, GoneIsQuiet
  <2>7. DeletedAreFinished' /\ DiesWithComposite'
    BY <1>1, <2>1, <2>3 DEF DeletedAreFinished, DiesWithComposite
  <2> QED
    BY <2>3, <2>4, <2>5, <2>6, <2>7
<1> QED
  BY <1>6, <1>7

(* The composite emits result(), after finished() and once. *)
LEMMA SelfReturnsKeep ==
    ASSUME CompositeInv, SelfFinishedReturns \/ SelfResultReturns
    PROVE  CompositeInv'
<1> USE DEF CompositeInv
<1>1. \A k \in ToSet(subjobs) : k \in Jobs
  BY DEF TypeOK, ToSet
<1>2. CASE SelfFinishedReturns
  <2> DEFINE f == Frame("selfResult", Self)
  <2>1. /\ Top("selfFinished") /\ Become(f)
        /\ results' = results + 1 /\ reported' = self.error
        /\ UNCHANGED <<subjobs, job, self, firstError, abandoned>>
    BY <1>2 DEF SelfFinishedReturns
  <2>2. /\ stack # <<>> /\ Head(stack).at = "selfFinished" /\ self.alive
        /\ self.finished /\ results = 0
    BY <2>1, TopFacts DEF IsSound
  <2>3. f \in Frames /\ f.at = "selfResult"
    BY DEF Frame, Frames
  <2>4. \A k : ~Reports(Head(stack), k)
    BY <2>2 DEF Reports
  <2> HIDE DEF f
  <2>5. Grows /\ IsSound(f, job', self', results')
    BY <2>1, <2>2, <2>3 DEF Grows, IsSound
  <2>6. /\ stack' \in Seq(Frames) /\ FramesAreSound'
        /\ \A k : Reporting(k) /\ ~Reports(Head(stack), k) => Reporting(k)'
    BY <2>1, <2>2, <2>3, <2>5, FramesBecome
  <2>7. ListIsSound'
    BY <2>1, <2>4, <2>6, ListStays
  <2>8. TypeOK'
    BY <2>1, <2>2, <2>6 DEF TypeOK
  <2>9. ErrorIsFirst'
    BY <2>1, <2>2 DEF ErrorIsFirst
  <2>10. GoneIsQuiet' /\ DeletedAreFinished' /\ DiesWithComposite'
    BY <2>1, <2>2 DEF GoneIsQuiet, DeletedAreFinished, DiesWithComposite
  <2> QED
    BY <2>6, <2>7, <2>8, <2>9, <2>10
<1>3. CASE SelfResultReturns
  <2>1. /\ Top("selfResult") /\ Pop
        /\ self' = [self EXCEPT !.deletePosted = TRUE]
        /\ UNCHANGED <<subjobs, job, firstError, reported, results, abandoned>>
    BY <1>3 DEF SelfResultReturns, history
  <2>2. stack # <<>> /\ Head(stack).at = "selfResult" /\ self.alive
    BY <2>1, TopFacts
  <2>3. \A k : ~Reports(Head(stack), k)
    BY <2>2 DEF Reports
  <2>4. /\ self' \in SelfStates /\ self'.alive = self.alive
        /\ self'.error = self.error /\ self'.finished = self.finished
    BY <2>1 DEF TypeOK, SelfStates
  <2>5. Grows
    BY <2>1, <2>4 DEF Grows
  <2>6. /\ stack' \in Seq(Frames) /\ FramesAreSound'
        /\ \A k : Reporting(k) /\ ~Reports(Head(stack), k) => Reporting(k)'
    BY <2>1, <2>2, <2>5, FramesPop
  <2>7. ListIsSound'
    BY <1>1, <2>1, <2>3, <2>4, <2>6, ListStays
  <2>8. TypeOK'
    BY <2>1, <2>4, <2>6 DEF TypeOK, SelfStates
  <2>9. ErrorIsFirst' /\ GoneIsQuiet'
    BY <2>1, <2>2, <2>4 DEF ErrorIsFirst, GoneIsQuiet
  <2>10. DeletedAreFinished' /\ DiesWithComposite'
    BY <2>1, <2>4 DEF DeletedAreFinished, DiesWithComposite
  <2> QED
    BY <2>6, <2>7, <2>8, <2>9, <2>10
<1> QED
  BY <1>2, <1>3

-----------------------------------------------------------------------------
(* Before anything is added nothing is wrong. *)
LEMMA InitKeeps == Init => CompositeInv
<1> SUFFICES ASSUME Init PROVE CompositeInv
  OBVIOUS
<1>1. TypeOK
  BY DEF Init, TypeOK, FreshJob, FreshSelf, Errors
<1>2. FramesAreSound
  BY DEF Init, FramesAreSound
<1>3. ListIsSound
  BY DEF Init, ListIsSound, IsDistinct, ToSet, FreshJob, FreshSelf
<1>4. ErrorIsFirst /\ GoneIsQuiet
  BY DEF Init, ErrorIsFirst, GoneIsQuiet, FreshSelf
<1>5. DeletedAreFinished /\ DiesWithComposite
  BY DEF Init, DeletedAreFinished, DiesWithComposite, FreshJob, FreshSelf
<1> QED
  BY <1>1, <1>2, <1>3, <1>4, <1>5 DEF CompositeInv

LEMMA NextKeeps == CompositeInv /\ [Next]_vars => CompositeInv'
<1> SUFFICES ASSUME CompositeInv, [Next]_vars PROVE CompositeInv'
  OBVIOUS
<1>1. CASE Continue
  BY <1>1, FinishedReturnsKeeps, QuietReturnsKeeps, ResultReturnsKeeps, SlotResultKeeps,
     SlotRemovesKeeps, StartNextKeeps, SelfReturnsKeep DEF Continue
<1>2. CASE Client
  BY <1>2, StartKeeps, ClearSubjobsKeeps, DestroyCompositeKeeps, AddSubjobKeeps,
     RemoveSubjobKeeps, StartSubjobKeeps, DeleteKeeps, JobEndsKeeps DEF Client
<1>3. CASE \E j \in Jobs : JobEnds(j) \/ DeferredDelete(j)
  BY <1>3, JobEndsKeeps, DeleteKeeps
<1>4. CASE UNCHANGED vars
  <2>1. UNCHANGED <<subjobs, job, self, stack, firstError, reported, results, abandoned>>
    BY <1>4 DEF vars, history
  <2>2. TypeOK' /\ FramesAreSound'
    BY <2>1 DEF CompositeInv, TypeOK, FramesAreSound
  <2>3. ListIsSound'
    BY <2>1 DEF CompositeInv, ListIsSound, Reporting
  <2>4. ErrorIsFirst' /\ GoneIsQuiet' /\ DeletedAreFinished' /\ DiesWithComposite'
    BY <2>1 DEF CompositeInv, ErrorIsFirst, GoneIsQuiet, DeletedAreFinished, DiesWithComposite
  <2> QED
    BY <2>2, <2>3, <2>4 DEF CompositeInv
<1> QED
  BY <1>1, <1>2, <1>3, <1>4 DEF Next

(* The list holds the subjobs that can report and no others, each once, and  *)
(* they die with their composite, whatever slots do in between.            *)
THEOREM SubjobsAreSound == Spec => []SubjobsSound
<1>1. CompositeInv => SubjobsSound
  <2> SUFFICES ASSUME CompositeInv PROVE SubjobsSound
    OBVIOUS
  <2>1. \A j : Reporting(j) => OnStack(j)
    BY DEF Reporting, Reports, OnStack
  <2>2. ListSound
    BY <2>1 DEF CompositeInv, ListIsSound, ListSound, IsDistinct
  <2> QED
    BY <2>2 DEF CompositeInv, SubjobsSound
<1> QED
  BY <1>1, InitKeeps, NextKeeps, PTL DEF Spec

(* The composite reports once, and reports the first error of a subjob. *)
THEOREM FirstErrorIsReported == Spec => []ReportsFirstError
<1>1. CompositeInv => ReportsFirstError
  BY DEF CompositeInv, ErrorIsFirst, ReportsFirstError
<1> QED
  BY <1>1, InitKeeps, NextKeeps, PTL DEF Spec
=============================================================================
