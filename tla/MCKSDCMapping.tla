--------------------------- MODULE MCKSDCMapping ---------------------------
(***************************************************************************)
(* Two parts of a cache that share nothing with each other, checked by one *)
(* run: how processes attach and lock (KSDCMapping), and the loop of       *)
(* defragment() (KSDCDefragment).  The part a behaviour is not about stays *)
(* as it is, with no process there or with the loop at its end.            *)
(***************************************************************************)
EXTENDS KSDCMapping, KSDCDefragment, TLC

CONSTANTS p1, p2, p3

VARIABLE part

(* Segments are interchangeable, and processes that ask for the same size.  *)
Symmetry == Permutations(Segments) \cup Permutations(Processes)

SameRequest == [p \in Processes |-> 1]

MixedRequest == [p \in Processes |-> IF p = p1 THEN 1 ELSE 2]

(* The loop has ended on an empty segment. *)
LoopIdle ==
    /\ shm0 = Segment([p \in Pages |-> -1]) /\ shm = shm0
    /\ currentPage = 0 /\ freeSpot = 0 /\ affectedIndex = -1 /\ stage = "done"

MCInit ==
    /\ part \in {"mapping", "defragment"}
    /\ Init
    /\ IF part = "defragment" THEN LoopInit ELSE LoopIdle

MCNext ==
    /\ UNCHANGED part
    /\ \/ part = "mapping" /\ Next /\ UNCHANGED loopVars
       \/ part = "defragment" /\ LoopNext /\ UNCHANGED vars
       \/ part = "defragment" /\ Terminated /\ UNCHANGED vars

MCSpec ==
    /\ MCInit /\ [][MCNext]_<<vars, loopVars, part>>
    /\ part = "mapping" => MappingFairness
    /\ part = "defragment" => LoopFairness
=============================================================================
