--------------------------- MODULE KSDCDefragment ---------------------------
(***************************************************************************)
(* The loop of SharedMemory::defragment() (ksdcmemory.cpp:513-597), one    *)
(* step per iteration of its loops, started on any consistent segment.  It *)
(* implements the operator defragment of KSDCMemory, which is what the     *)
(* operations of KSharedDataCache use.                                     *)
(***************************************************************************)
EXTENDS KSDCMemory

(* The loop looks at no key and no value: an instance may have none. *)
NoItems == [x \in {} |-> 0]

(* A page of entry i holds a piece of item i, which no free page does. *)
ASSUME PiecesAssumption == Junk \notin [item : Slots, chunk : Nat]

VARIABLES
    shm,            \* the segment the loop works on
    shm0,           \* the segment it started from
    currentPage,    \* the page looked at
    freeSpot,       \* the first free page
    affectedIndex,  \* the entry whose pages are being moved
    stage              \* which loop runs

loopVars == <<shm, shm0, currentPage, freeSpot, affectedIndex, stage>>

(* The pages of entry i in table t. *)
PagesOf(t, i) == {p \in Pages : t[p] = i}

IsContiguous(S) == \A p, q \in S : \A r \in p .. q : r \in S

FirstOf(S) == CHOOSE p \in S : \A q \in S : p <= q

(* The consistent segment with page table t, entry i holding item i. *)
Segment(t) ==
    [index |-> [i \in Slots |->
        IF PagesOf(t, i) = {} THEN FreeEntry
        ELSE [fileNameHash |-> i,
              totalItemSize |-> PageSize * Cardinality(PagesOf(t, i)),
              useCount |-> 1, addTime |-> 0, lastUsedTime |-> 0,
              firstPage |-> FirstOf(PagesOf(t, i))]],
     pageTable |-> t,
     page |-> [p \in Pages |->
        IF t[p] < 0 THEN Junk ELSE Piece(t[p], p - FirstOf(PagesOf(t, t[p])))],
     cacheAvail |-> Cardinality({p \in Pages : t[p] < 0}),
     failed |-> {},
     cacheTimestamp |-> 0,
     evictionPolicy |-> "NoEvictionPreference"]

ConsistentTables ==
    {t \in [Pages -> Slots \cup {-1}] : \A i \in Slots : IsContiguous(PagesOf(t, i))}

LoopInit ==
    /\ \E t \in ConsistentTables : shm0 = Segment(t)
    /\ shm = shm0
    /\ currentPage = 0
    /\ freeSpot = 0
    /\ affectedIndex = -1
    /\ stage = "begin"

(* currentPage < idLimit && pages[currentPage].index >= 0 *)
AtUsedPage == currentPage < NumPages /\ shm.pageTable[currentPage] >= 0

BeginLoop ==
    /\ stage = "begin"
    /\ stage' = IF shm.cacheAvail = NumPages THEN "done" ELSE "skipUsed"
    /\ UNCHANGED <<shm, shm0, currentPage, freeSpot, affectedIndex>>

(* Skip used pages: what lies left of the first free page stays. *)
SkipUsed ==
    /\ stage = "skipUsed"
    /\ IF AtUsedPage
       THEN currentPage' = currentPage + 1 /\ UNCHANGED <<freeSpot, stage>>
       ELSE freeSpot' = currentPage /\ stage' = "nextUsed" /\ UNCHANGED currentPage
    /\ UNCHANGED <<shm, shm0, affectedIndex>>

(* Mutant: two pages at a time. *)
SkipFree_ByTwo ==
    /\ stage = "nextUsed"
    /\ currentPage < NumPages /\ ~AtUsedPage
    /\ currentPage' = currentPage + 2
    /\ UNCHANGED <<shm, shm0, freeSpot, affectedIndex, stage>>

(* Mutant: the loop does not advance. *)
SkipFree_Stuck ==
    /\ stage = "nextUsed"
    /\ currentPage < NumPages /\ ~AtUsedPage
    /\ UNCHANGED loopVars

(* Find the next used page; at the end of the cache the main loop ends. *)
SkipFree ==
    /\ stage = "nextUsed"
    /\ currentPage < NumPages /\ ~AtUsedPage
    /\ currentPage' = currentPage + 1
    /\ UNCHANGED <<shm, shm0, freeSpot, affectedIndex, stage>>

Finish ==
    /\ stage = "nextUsed"
    /\ currentPage >= NumPages
    /\ stage' = "done"
    /\ UNCHANGED <<shm, shm0, currentPage, freeSpot, affectedIndex>>

(* Found an entry, move it. *)
StartMove ==
    /\ stage = "nextUsed"
    /\ AtUsedPage
    /\ LET i == shm.pageTable[currentPage] IN
       IF shm.index[i].firstPage # currentPage
       THEN stage' = "thrown" /\ UNCHANGED <<shm, affectedIndex>>
       ELSE /\ affectedIndex' = i
            /\ shm' = [shm EXCEPT !.index[i].firstPage = freeSpot]
            /\ stage' = "move"
    /\ UNCHANGED <<shm0, currentPage, freeSpot>>

(* Mutant: memcpy() with its arguments swapped. *)
Moved_Backwards ==
    [shm EXCEPT !.page = [shm.page EXCEPT ![currentPage] = shm.page[freeSpot]],
                !.pageTable = [shm.pageTable EXCEPT ![freeSpot] = affectedIndex,
                                                    ![currentPage] = -1]]

(* The segment after page currentPage moved to freeSpot. *)
Moved ==
    [shm EXCEPT !.page = [shm.page EXCEPT ![freeSpot] = shm.page[currentPage],
                                          ![currentPage] = Junk],
                !.pageTable = [shm.pageTable EXCEPT ![freeSpot] = affectedIndex,
                                                    ![currentPage] = -1]]

(* Mutant: a block of used pages is taken for the pages of one entry. *)
Relinked_Never(m, i, first) == m

(* The write to the firstPage of the entry that owns the next page; when    *)
(* that page is free the word is indexTable()[-1].firstPage, cacheTimestamp. *)
Relinked(m, i, first) ==
    IF i = affectedIndex THEN m
    ELSE IF i = -1 THEN [m EXCEPT !.cacheTimestamp = first]
    ELSE [m EXCEPT !.index[i].firstPage = first]

(* One round of the inner loop. *)
MovePage ==
    /\ stage = "move"
    /\ AtUsedPage
    /\ currentPage' = currentPage + 1
    /\ freeSpot' = freeSpot + 1
    /\ IF currentPage' >= NumPages
       THEN shm' = Moved /\ UNCHANGED affectedIndex
       ELSE LET next == Moved.pageTable[currentPage'] IN
            shm' = Relinked(Moved, next, freeSpot') /\ affectedIndex' = next
    /\ UNCHANGED <<shm0, stage>>

(* The inner loop ends on a free page or at the end of the cache. *)
EndMove ==
    /\ stage = "move"
    /\ ~AtUsedPage
    /\ stage' = "nextUsed"
    /\ UNCHANGED <<shm, shm0, currentPage, freeSpot, affectedIndex>>

LoopNext == BeginLoop \/ SkipUsed \/ SkipFree \/ Finish \/ StartMove \/ MovePage \/ EndMove

Terminated == stage \in {"done", "thrown"} /\ UNCHANGED loopVars

LoopFairness == WF_loopVars(LoopNext)

LoopSpec == LoopInit /\ [][LoopNext \/ Terminated]_loopVars /\ LoopFairness

-----------------------------------------------------------------------------
(* When the loop ends the segment is what defragment() of KSDCMemory says:   *)
(* the used pages packed to the left in their order, every firstPage        *)
(* following its pages, and the header word that the code overruns.        *)
ImplementsDefragment == stage = "done" => shm = defragment(shm0)

(* The checks that throw KSDCCorrupted never fire on consistent tables, and  *)
(* pages always move to the left.                                          *)
NeverThrows == stage # "thrown" /\ freeSpot <= currentPage

(* Between two rounds no page of any item is lost or duplicated.            *)
NoPageLost ==
    \A p \in UsedPages(shm0) :
        Cardinality({q \in Pages : shm.page[q] = shm0.page[p]}) = 1

(* The loop ends on every consistent segment. *)
Terminates == <>(stage = "done")

(* The segment that the loop leaves is the one that defragment() gives, and  *)
(* on the way no page is lost and no check throws.                         *)
DefragmentSound == ImplementsDefragment /\ NeverThrows /\ NoPageLost
=============================================================================
