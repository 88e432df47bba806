---------------------------- MODULE KSDCMapping ----------------------------
(***************************************************************************)
(* How processes share a KSharedDataCache: they open or create its file,   *)
(* map it, agree on who initialises it (ready: 0, 1, 2), take its lock     *)
(* around every operation, and throw the file away when they take it for   *)
(* corrupt.  Modelled from createMemoryMapping(), recoverCorruptedCache()  *)
(* and CacheLocker (kshareddatacache.cpp) and KSDCMapping                  *)
(* (ksdcmapping_p.h), with the lock of simpleSpinLock or of a mutex with   *)
(* timeout (ksdclock_p.h).  What happens inside an operation is            *)
(* KSharedDataCache's business.                                            *)
(*                                                                         *)
(* A file that was unlinked lives on while some process maps it; a segment *)
(* stands for an inode and is reused once nobody can reach it.  Local      *)
(* variables of a call have their initial value when it is not running.    *)
(***************************************************************************)
EXTENDS Integers, FiniteSets

CONSTANTS
    Processes,
    Segments,       \* one more than there are processes are enough
    NoSegment,
    Request,        \* the cache size every process asks for
    RetryLimit      \* recoveries cautiousLock() retries after (4 in the code)

ASSUME MappingAssumption ==
    /\ NoSegment \notin Segments
    /\ Request \in [Processes -> Nat]
    /\ RetryLimit \in Nat

VARIABLES
    file,       \* the segment that is linked under the name of the cache
    segment,    \* ready, the lock word and the size in the header
    mapped,     \* the segment every process maps (m_mapped)
    hasShm,     \* whether Private::shm of the process points to it
    pc,         \* where the process is
    attempt,    \* which of the two mappings of createMemoryMapping()
    returnTo,   \* what createMemoryMapping() was called from
    lockCount,  \* lockCount of cautiousLock()
    owns        \* whether lock() of the running operation returned true

vars == <<file, segment, mapped, hasShm, pc, attempt, returnTo, lockCount, owns>>
mapping == <<file, segment, mapped, hasShm, attempt, returnTo>>

Blank == [ready |-> 0, locked |-> FALSE, size |-> 0]

Unused == Segments \ ({file} \cup {mapped[p] : p \in Processes})

(* Segments that are neither linked nor mapped are gone. *)
Reachable(seg, link, maps) ==
    [s \in Segments |->
        IF s = link \/ \E p \in Processes : maps[p] = s THEN seg[s] ELSE Blank]

Goto(p, label) == pc' = [pc EXCEPT ![p] = label]

Attached(p) == pc[p] \in {"idle", "lock", "inside"}

-----------------------------------------------------------------------------
(* createMemoryMapping() *)

(* Detach and start over; label `to' follows once a mapping is there.       *)
CreateMapping(p, to, seg, link) ==
    /\ file' = link
    /\ mapped' = [mapped EXCEPT ![p] = NoSegment]
    /\ segment' = Reachable(seg, file', mapped')
    /\ hasShm' = [hasShm EXCEPT ![p] = FALSE]
    /\ attempt' = [attempt EXCEPT ![p] = 1]
    /\ returnTo' = [returnTo EXCEPT ![p] = to]
    /\ Goto(p, "open")

(* The constructor of KSharedDataCache. *)
Construct(p) ==
    /\ pc[p] = "absent"
    /\ CreateMapping(p, "idle", segment, file)
    /\ UNCHANGED <<lockCount, owns>>

(* file.open(), resize() and mmap(): the linked segment, or a new one. *)
OpenFile(p) ==
    /\ pc[p] = "open"
    /\ IF file # NoSegment
       THEN /\ mapped' = [mapped EXCEPT ![p] = file]
            /\ UNCHANGED <<file, segment>>
       ELSE \E s \in Unused :
            /\ file' = s
            /\ segment' = [segment EXCEPT ![s] = Blank]
            /\ mapped' = [mapped EXCEPT ![p] = s]
    /\ Goto(p, "wait")
    /\ UNCHANGED <<hasShm, attempt, returnTo, lockCount, owns>>

(* Mutant: ready is loaded and then stored. *)
Claim_NotAtomic(p) ==
    /\ pc[p] = "wait"
    /\ segment[mapped[p]].ready # 2
    /\ segment' = [segment EXCEPT ![mapped[p]].ready = 1]
    /\ Goto(p, "setup")
    /\ UNCHANGED <<file, mapped, hasShm, attempt, returnTo, lockCount, owns>>

(* ready.testAndSetAcquire(0, 1) *)
Claim(p) ==
    /\ pc[p] = "wait"
    /\ segment[mapped[p]].ready = 0
    /\ segment' = [segment EXCEPT ![mapped[p]].ready = 1]
    /\ Goto(p, "setup")
    /\ UNCHANGED <<file, mapped, hasShm, attempt, returnTo, lockCount, owns>>

(* performInitialSetup() initialises the lock, the sizes and the tables,    *)
(* and then increments ready.                                              *)
Setup(p) ==
    /\ pc[p] = "setup"
    /\ segment' = [segment EXCEPT ![mapped[p]] =
                      [ready |-> @.ready + 1, locked |-> FALSE, size |-> Request[p]]]
    /\ Goto(p, "wait")
    /\ UNCHANGED <<file, mapped, hasShm, attempt, returnTo, lockCount, owns>>

(* Mutant: any initialisation, finished or not, will do. *)
SeeReady_Early(p) ==
    /\ pc[p] = "wait"
    /\ segment[mapped[p]].ready > 0
    /\ Goto(p, "initLock")
    /\ UNCHANGED <<mapping, lockCount, owns>>

(* ready == 2 ends the wait. *)
SeeReady(p) ==
    /\ pc[p] = "wait"
    /\ segment[mapped[p]].ready = 2
    /\ Goto(p, "initLock")
    /\ UNCHANGED <<mapping, lockCount, owns>>

(* createMemoryMapping() returns; recoverCorruptedCache() was called by     *)
(* cautiousLock(), which may try again, or by an operation that is over.   *)
Return(p) ==
    /\ IF returnTo[p] = "retry" /\ lockCount[p] <= RetryLimit
       THEN Goto(p, "lock") /\ lockCount' = [lockCount EXCEPT ![p] = @ + 1]
       ELSE Goto(p, "idle") /\ lockCount' = [lockCount EXCEPT ![p] = 0]
    /\ attempt' = [attempt EXCEPT ![p] = 1]
    /\ returnTo' = [returnTo EXCEPT ![p] = "idle"]

(* m_lock->initialize(), on every attach (ksdcmapping_p.h:307).  Only the   *)
(* first mapping is assigned to shm; the one of the catch block is not     *)
(* (kshareddatacache.cpp:75, 85).                                          *)
InitLock(p) ==
    /\ pc[p] = "initLock"
    /\ segment' = [segment EXCEPT ![mapped[p]].locked = FALSE]
    /\ hasShm' = [hasShm EXCEPT ![p] = (attempt[p] = 1)]
    /\ Return(p)
    /\ UNCHANGED <<file, mapped, owns>>

(* Mutant: the file is deleted and created again without end. *)
GiveUpWaiting_Again(p) ==
    /\ pc[p] = "wait"
    /\ segment[mapped[p]].ready = 1
    /\ file' = NoSegment
    /\ mapped' = [mapped EXCEPT ![p] = NoSegment]
    /\ segment' = Reachable(segment, file', mapped')
    /\ attempt' = [attempt EXCEPT ![p] = @ + 1]
    /\ Goto(p, "open")
    /\ UNCHANGED <<hasShm, returnTo, lockCount, owns>>

(* Mutant: the wait has no end. *)
GiveUpWaiting_Never(p) == FALSE

(* Nobody sets ready to 2 for 8 seconds: the first time the file is removed *)
(* and created again, ...                                                  *)
GiveUpWaiting(p) ==
    /\ pc[p] = "wait" /\ attempt[p] = 1
    /\ segment[mapped[p]].ready = 1
    /\ file' = NoSegment
    /\ mapped' = [mapped EXCEPT ![p] = NoSegment]
    /\ segment' = Reachable(segment, file', mapped')
    /\ attempt' = [attempt EXCEPT ![p] = 2]
    /\ Goto(p, "open")
    /\ UNCHANGED <<hasShm, returnTo, lockCount, owns>>

(* ... the second time the process falls back to anonymous memory. *)
FallBack(p) ==
    /\ pc[p] = "wait" /\ attempt[p] = 2
    /\ segment[mapped[p]].ready = 1
    /\ \E s \in Unused :
        /\ mapped' = [mapped EXCEPT ![p] = s]
        /\ segment' = Reachable([segment EXCEPT ![s] =
                          [ready |-> 2, locked |-> FALSE, size |-> Request[p]]],
                          file, mapped')
    /\ hasShm' = [hasShm EXCEPT ![p] = TRUE]
    /\ Return(p)
    /\ UNCHANGED <<file, owns>>

-----------------------------------------------------------------------------
(* Operations. *)

Begin(p) ==
    /\ pc[p] = "idle"
    /\ Goto(p, "lock")
    /\ UNCHANGED <<mapping, lockCount, owns>>

(* m_mapping->lock() returns true. *)
Acquire(p) ==
    /\ pc[p] = "lock"
    /\ ~segment[mapped[p]].locked
    /\ segment' = [segment EXCEPT ![mapped[p]].locked = TRUE]
    /\ owns' = [owns EXCEPT ![p] = TRUE]
    /\ lockCount' = [lockCount EXCEPT ![p] = 0]
    /\ Goto(p, "inside")
    /\ UNCHANGED <<file, mapped, hasShm, attempt, returnTo>>

(* isLockedCacheSafe(): the size mapped is that of the cache in the header. *)
IsLockedCacheSafe(p) == segment[mapped[p]].size = Request[p]

(* Mutant: the lock is not a timed one. *)
TimeOutSafe_Never(p) == FALSE

(* lock() timed out.  When the header is sane the loop of cautiousLock()    *)
(* ends, and the operation runs all the same.                              *)
TimeOutSafe(p) ==
    /\ pc[p] = "lock"
    /\ segment[mapped[p]].locked /\ IsLockedCacheSafe(p)
    /\ lockCount' = [lockCount EXCEPT ![p] = 0]
    /\ Goto(p, "inside")
    /\ UNCHANGED <<mapping, owns>>

(* Otherwise the cache is deleted and created again before the next try. *)
TimeOutUnsafe(p) ==
    /\ pc[p] = "lock"
    /\ segment[mapped[p]].locked /\ ~IsLockedCacheSafe(p)
    /\ CreateMapping(p, "retry", segment, NoSegment)
    /\ UNCHANGED <<lockCount, owns>>

(* ~CacheLocker() unlocks, whether or not the lock was taken. *)
Unlocked(p) == [segment EXCEPT ![mapped[p]].locked = FALSE]

End(p) ==
    /\ pc[p] = "inside" /\ hasShm[p]
    /\ segment' = Unlocked(p)
    /\ owns' = [owns EXCEPT ![p] = FALSE]
    /\ Goto(p, "idle")
    /\ UNCHANGED <<file, mapped, hasShm, attempt, returnTo, lockCount>>

(* The operation throws KSDCCorrupted: unlock, then recoverCorruptedCache(). *)
Corrupted(p) ==
    /\ pc[p] = "inside" /\ hasShm[p]
    /\ owns' = [owns EXCEPT ![p] = FALSE]
    /\ CreateMapping(p, "idle", Unlocked(p), NoSegment)
    /\ UNCHANGED lockCount

(* The process ends, in the middle of anything; the kernel unmaps.  A null  *)
(* shm ends it for sure.                                                   *)
Die(p) ==
    /\ pc[p] # "absent"
    /\ mapped' = [mapped EXCEPT ![p] = NoSegment]
    /\ segment' = Reachable(segment, file, mapped')
    /\ hasShm' = [hasShm EXCEPT ![p] = FALSE]
    /\ attempt' = [attempt EXCEPT ![p] = 1]
    /\ returnTo' = [returnTo EXCEPT ![p] = "idle"]
    /\ lockCount' = [lockCount EXCEPT ![p] = 0]
    /\ owns' = [owns EXCEPT ![p] = FALSE]
    /\ Goto(p, "absent")
    /\ UNCHANGED file

(* deleteCache(), by anyone. *)
DeleteCache ==
    /\ file # NoSegment
    /\ file' = NoSegment
    /\ segment' = Reachable(segment, file', mapped)
    /\ UNCHANGED <<mapped, hasShm, pc, attempt, returnTo, lockCount, owns>>

-----------------------------------------------------------------------------
Init ==
    /\ file = NoSegment
    /\ segment = [s \in Segments |-> Blank]
    /\ mapped = [p \in Processes |-> NoSegment]
    /\ hasShm = [p \in Processes |-> FALSE]
    /\ pc = [p \in Processes |-> "absent"]
    /\ attempt = [p \in Processes |-> 1]
    /\ returnTo = [p \in Processes |-> "idle"]
    /\ lockCount = [p \in Processes |-> 0]
    /\ owns = [p \in Processes |-> FALSE]

(* The steps a process makes by itself once an operation or an attach has   *)
(* begun; every wait in them ends with a timeout.                          *)
Proceed(p) ==
    \/ OpenFile(p) \/ Claim(p) \/ Setup(p) \/ SeeReady(p) \/ InitLock(p)
    \/ GiveUpWaiting(p) \/ FallBack(p)
    \/ Acquire(p) \/ TimeOutSafe(p) \/ TimeOutUnsafe(p)
    \/ End(p) \/ Corrupted(p)
    \/ pc[p] = "inside" /\ ~hasShm[p] /\ Die(p)

Next ==
    \/ \E p \in Processes : Construct(p) \/ Begin(p) \/ Proceed(p) \/ Die(p)
    \/ DeleteCache

(* A process that is inside an attach or an operation keeps running: it is  *)
(* scheduled, and usleep() and the timed lock return.                      *)
MappingFairness == \A p \in Processes : WF_vars(Proceed(p))

Spec == Init /\ [][Next]_vars /\ MappingFairness

-----------------------------------------------------------------------------
(* Properties. *)

Labels == {"absent", "open", "wait", "setup", "initLock", "idle", "lock", "inside"}

TypeOK ==
    /\ file \in Segments \cup {NoSegment}
    /\ segment \in [Segments -> [ready : 0 .. 2, locked : BOOLEAN, size : Nat]]
    /\ mapped \in [Processes -> Segments \cup {NoSegment}]
    /\ hasShm \in [Processes -> BOOLEAN]
    /\ pc \in [Processes -> Labels]
    /\ attempt \in [Processes -> 1 .. 2]
    /\ returnTo \in [Processes -> {"idle", "retry"}]
    /\ lockCount \in [Processes -> 0 .. RetryLimit + 1]
    /\ owns \in [Processes -> BOOLEAN]

(* Who sets up a segment is alone on it: nobody else sets it up, and nobody   *)
(* has gone past the wait for ready, so that performInitialSetup() never    *)
(* clears tables that are in use.                                          *)
SetupIsExclusive ==
    \A p, q \in Processes :
        pc[p] = "setup" /\ p # q /\ mapped[q] = mapped[p] => pc[q] = "wait"

(* No operation works on a segment that is not completely set up. *)
OperationsSeeReady ==
    \A p \in Processes :
        pc[p] \in {"initLock", "idle", "lock", "inside"} =>
            mapped[p] # NoSegment /\ segment[mapped[p]].ready = 2

(* An operation that has begun ends, although the holder of the lock may die *)
(* with it or the process that sets the cache up may die half-way.         *)
OperationsEnd ==
    \A p \in Processes : pc[p] = "lock" ~> pc[p] \in {"idle", "absent"}

(* So does an attach. *)
AttachesEnd ==
    \A p \in Processes : pc[p] = "open" ~> pc[p] \in {"idle", "lock", "absent"}

(* Two processes that took the lock of one segment are not both inside: "Must *)
(* be called while the lock is already held!" (ksdcmemory.cpp:822, on       *)
(* removeEntry()).                                                         *)
LockIsExclusive ==
    \A p, q \in Processes :
        p # q /\ owns[p] /\ owns[q] => mapped[p] # mapped[q]

(* Nobody who is alive waits for ever for another process.                  *)
NobodyHangs == OperationsEnd /\ AttachesEnd
=============================================================================
