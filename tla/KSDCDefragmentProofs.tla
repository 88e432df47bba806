------------------------ MODULE KSDCDefragmentProofs ------------------------
(***************************************************************************)
(* Proof, for any number of pages and any consistent page table, that the  *)
(* loop of SharedMemory::defragment() (ksdcmemory.cpp:513-597) computes    *)
(* what the operator defragment says, throws no KSDCCorrupted and loses no *)
(* page on the way: LoopSpec => []DefragmentSound.                             *)
(*                                                                         *)
(* The inductive invariant says how far the loop is.  With c the current   *)
(* page, the used pages left of c stand where NewPosition puts them, what  *)
(* lies between them and c is free, and from c on nothing has changed; the *)
(* entries follow their first pages, and the header word that the loop     *)
(* overruns holds what the last overrun left there.                        *)
(***************************************************************************)
EXTENDS KSDCDefragment, KSDCMemoryProofs

Entries ==
    [fileNameHash : Int, totalItemSize : Int, useCount : Int,
     addTime : Int, lastUsedTime : Int, firstPage : Int]

Contents == [item : Slots, chunk : Nat] \cup {Junk}

Segments ==
    [index : [Slots -> Entries],
     pageTable : [Pages -> Slots \cup {-1}],
     page : [Pages -> Contents],
     cacheAvail : Int,
     failed : {{}},
     cacheTimestamp : Int,
     evictionPolicy : {"NoEvictionPreference"}]

First(m, i) == m.index[i].firstPage

(* An entry has pages from its first page on without a gap, and no two used *)
(* pages, and no used and free page, hold the same.                        *)
Consistent(m) ==
    /\ m.cacheAvail = Cardinality(FreePages(m))
    /\ \A p \in UsedPages(m) :
         /\ First(m, m.pageTable[p]) \in 0 .. p
         /\ \A q \in First(m, m.pageTable[p]) .. p : m.pageTable[q] = m.pageTable[p]
    /\ \A i \in Slots : First(m, i) \in UsedPages(m) => m.pageTable[First(m, i)] = i
    /\ \A p, q \in UsedPages(m) : m.page[p] = m.page[q] => p = q
    /\ \A p \in Pages : m.page[p] = Junk <=> p \in FreePages(m)

(* The page table and the pages, when the pages left of c have moved. *)
PagesMoved(m, m0, c) ==
    /\ \A p \in UsedPages(m0) : p < c =>
         /\ m.pageTable[NewPosition(m0, p)] = m0.pageTable[p]
         /\ m.page[NewPosition(m0, p)] = m0.page[p]
    /\ \A q \in Pages : NewPosition(m0, c) <= q /\ q < c =>
         m.pageTable[q] = -1 /\ m.page[q] = Junk
    /\ \A q \in Pages : q >= c =>
         m.pageTable[q] = m0.pageTable[q] /\ m.page[q] = m0.page[q]

(* The index table, when the entries whose first page lies left of c know   *)
(* where it is now.                                                        *)
EntriesMoved(m, m0, c) ==
    \A i \in Slots :
        /\ m.index[i] = [m0.index[i] EXCEPT !.firstPage = First(m, i)]
        /\ First(m, i) = IF First(m0, i) \in UsedPages(m0) /\ First(m0, i) < c
                         THEN NewPosition(m0, First(m0, i))
                         ELSE First(m0, i)

(* The word the loop overruns, when the pages left of c have moved. *)
Overrun(m, m0, c) ==
    /\ (\A p \in Overruns(m0) : p >= c) => m.cacheTimestamp = m0.cacheTimestamp
    /\ \A p \in Overruns(m0) :
         p < c /\ (\A q \in Overruns(m0) : q < c => q <= p) =>
            m.cacheTimestamp = NewPosition(m0, p) + 1

(* While pages move, the entry of the current page already knows the place  *)
(* that page will get.                                                     *)
Relinks == IF stage = "move" THEN currentPage + 1 ELSE currentPage

(* Where the loop is: nothing but used pages so far; after a free page; in  *)
(* a block of used pages right of a free one.                              *)
LoopPosition ==
    /\ currentPage \in 0 .. NumPages
    /\ stage \in {"begin", "skipUsed", "nextUsed", "move", "done"}
    /\ stage \in {"begin", "skipUsed"} =>
         freeSpot = 0 /\ NewPosition(shm0, currentPage) = currentPage
    /\ stage \notin {"begin", "skipUsed"} => freeSpot = NewPosition(shm0, currentPage)
    /\ stage = "nextUsed" /\ currentPage \in UsedPages(shm0) =>
         currentPage - 1 \in FreePages(shm0)
    /\ stage = "move" =>
         /\ freeSpot < currentPage
         /\ currentPage < NumPages => affectedIndex = shm0.pageTable[currentPage]

DefragmentInv ==
    /\ shm0 \in Segments /\ shm \in Segments
    /\ Consistent(shm0)
    /\ shm.cacheAvail = shm0.cacheAvail
    /\ LoopPosition
    /\ PagesMoved(shm, shm0, currentPage)
    /\ EntriesMoved(shm, shm0, Relinks)
    /\ Overrun(shm, shm0, currentPage)
    /\ stage = "begin" => shm = shm0 /\ currentPage = 0
    /\ stage \in {"skipUsed", "nextUsed", "move"} => shm0.cacheAvail # NumPages
    /\ stage = "done" => shm = defragment(shm0)

-----------------------------------------------------------------------------
(* The segments that the loop starts on. *)

LEMMA FirstFacts ==
    ASSUME NEW t \in [Pages -> Slots \cup {-1}], NEW i, PagesOf(t, i) # {}
    PROVE  FirstOf(PagesOf(t, i)) \in PagesOf(t, i)
           /\ \A p \in PagesOf(t, i) : FirstOf(PagesOf(t, i)) <= p
<1>1. PagesOf(t, i) \subseteq Nat
    BY PageFacts DEF PagesOf
<1>2. \E p \in PagesOf(t, i) : \A q \in PagesOf(t, i) : p <= q
    BY <1>1, LeastNatural
<1> QED BY <1>2 DEF FirstOf

(* Every consistent page table gives a consistent segment. *)
LEMMA SegmentConsistent ==
    ASSUME NEW t \in ConsistentTables
    PROVE  Segment(t) \in Segments /\ Consistent(Segment(t))
<1> DEFINE m == Segment(t)
           F(i) == FirstOf(PagesOf(t, i))
<1>1. t \in [Pages -> Slots \cup {-1}] /\ \A i \in Slots : IsContiguous(PagesOf(t, i))
    BY DEF ConsistentTables
<1>2. m.pageTable = t
    BY DEF Segment
<1>3. ASSUME NEW p \in Pages, t[p] >= 0
      PROVE  /\ t[p] \in Slots /\ p \in PagesOf(t, t[p])
             /\ F(t[p]) \in PagesOf(t, t[p]) /\ F(t[p]) <= p /\ F(t[p]) \in Nat
    <2>1. t[p] \in Slots /\ p \in PagesOf(t, t[p])
        BY <1>1, <1>3, TableFacts DEF PagesOf, IsTable
    <2>2. F(t[p]) \in PagesOf(t, t[p]) /\ F(t[p]) <= p
        BY <1>1, <2>1, FirstFacts
    <2>3. F(t[p]) \in Nat
        BY <2>2, PageFacts DEF PagesOf
    <2> QED BY <2>1, <2>2, <2>3
<1>4. \A i \in Slots : m.index[i] \in Entries
    <2> TAKE i \in Slots
    <2>1. CASE PagesOf(t, i) = {}
        BY <2>1 DEF Segment, Entries, FreeEntry
    <2>2. CASE PagesOf(t, i) # {}
        <3>1. F(i) \in Int
            <4>1. F(i) \in PagesOf(t, i)
                BY <1>1, <2>2, FirstFacts
            <4>2. PagesOf(t, i) \subseteq Nat
                BY PageFacts DEF PagesOf
            <4> HIDE DEF F
            <4> QED BY <4>1, <4>2
        <3>2. Cardinality(PagesOf(t, i)) \in Nat
            <4>1. PagesOf(t, i) \in SUBSET Pages
                BY DEF PagesOf
            <4>2. IsFiniteSet(PagesOf(t, i))
                BY <4>1, PageFacts, FS_Subset
            <4> QED BY ONLY <4>2, FS_CardinalityType
        <3>3. PageSize * Cardinality(PagesOf(t, i)) \in Int /\ i \in Int
            BY <3>2, SizesAssumption, PageFacts
        <3> QED BY <2>2, <3>1, <3>3 DEF Segment, Entries
    <2> QED BY <2>1, <2>2
<1>5. \A p \in Pages : m.page[p] \in Contents
    <2> TAKE p \in Pages
    <2>1. CASE t[p] < 0
        BY <2>1 DEF Segment, Contents
    <2>2. CASE ~(t[p] < 0)
        <3>1. t[p] >= 0
            BY <2>2, <1>1, TableFacts DEF IsTable
        <3>2. t[p] \in Slots /\ p - F(t[p]) \in Nat
            BY <1>3, <3>1, PageFacts
        <3>3. m.page[p] = [item |-> t[p], chunk |-> p - F(t[p])]
            BY <2>2 DEF Segment, Piece
        <3> QED BY <3>2, <3>3 DEF Contents
    <2> QED BY <2>1, <2>2
<1>6. m.cacheAvail \in Int
    <2>1. m.cacheAvail = Cardinality(FreePages(m))
        BY <1>2 DEF Segment, FreePages
    <2>2. IsTable(m.pageTable)
        BY <1>1, <1>2 DEF IsTable
    <2> QED BY <2>1, <2>2, FreeAndUsed, PageFacts
<1>7. m \in Segments
    <2>1. /\ m.index \in [Slots -> Entries] /\ m.page \in [Pages -> Contents]
          /\ m.pageTable \in [Pages -> Slots \cup {-1}]
        <3>1. m.index = [i \in Slots |-> m.index[i]] /\ m.page = [p \in Pages |-> m.page[p]]
            BY DEF Segment
        <3> QED BY <3>1, <1>1, <1>2, <1>4, <1>5
    <2> QED BY <2>1, <1>6 DEF Segment, Segments
<1>8. \A p \in UsedPages(m) : p \in Pages /\ t[p] >= 0 /\ First(m, t[p]) = F(t[p])
    <2> TAKE p \in UsedPages(m)
    <2>1. p \in Pages /\ t[p] >= 0
        BY <1>2 DEF UsedPages
    <2> QED BY <2>1, <1>3 DEF Segment, First
<1>9. \A p \in UsedPages(m) :
        /\ First(m, t[p]) \in 0 .. p
        /\ \A q \in First(m, t[p]) .. p : t[q] = t[p]
    <2> TAKE p \in UsedPages(m)
    <2>1. /\ p \in Nat /\ F(t[p]) \in Nat /\ F(t[p]) <= p
          /\ p \in PagesOf(t, t[p]) /\ F(t[p]) \in PagesOf(t, t[p]) /\ t[p] \in Slots
        BY <1>3, <1>8, PageFacts
    <2>2. \A q \in F(t[p]) .. p : q \in PagesOf(t, t[p])
        BY <1>1, <2>1 DEF IsContiguous
    <2> QED BY <1>8, <2>1, <2>2 DEF PagesOf
<1>10. \A i \in Slots : First(m, i) \in UsedPages(m) => t[First(m, i)] = i
    <2> TAKE i \in Slots
    <2>1. CASE PagesOf(t, i) = {}
        <3>1. First(m, i) = -1
            BY <2>1 DEF Segment, First, FreeEntry
        <3> QED BY <3>1, PageFacts DEF UsedPages
    <2>2. CASE PagesOf(t, i) # {}
        <3>1. First(m, i) = F(i)
            BY <2>2 DEF Segment, First
        <3> QED BY <3>1, <1>1, <2>2, FirstFacts DEF PagesOf
    <2> QED BY <2>1, <2>2
<1>11. \A p \in UsedPages(m) :
         m.page[p] = [item |-> t[p], chunk |-> p - F(t[p])]
         /\ m.page[p] \in [item : Slots, chunk : Nat]
    <2> TAKE p \in UsedPages(m)
    <2>1. t[p] \in Slots /\ p - F(t[p]) \in Nat /\ ~(t[p] < 0) /\ p \in Pages
        <3>1. p \in Pages /\ t[p] >= 0
            BY <1>8
        <3>2. t[p] \in Slots /\ F(t[p]) <= p /\ F(t[p]) \in Nat
            BY <1>3, <3>1
        <3>3. p \in Nat /\ t[p] \in Nat
            BY <3>1, <3>2, PageFacts
        <3> HIDE DEF F
        <3> QED BY <3>1, <3>2, <3>3
    <2> QED BY <2>1 DEF Segment, Piece
<1>12. \A p, q \in UsedPages(m) : m.page[p] = m.page[q] => p = q
    <2>1. ASSUME NEW p \in UsedPages(m), NEW q \in UsedPages(m), m.page[p] = m.page[q]
          PROVE  p = q
        <3>1. t[p] = t[q] /\ p - F(t[p]) = q - F(t[q])
            <4>1. m.page[p] = [item |-> t[p], chunk |-> p - F(t[p])]
                BY <1>11
            <4>2. m.page[q] = [item |-> t[q], chunk |-> q - F(t[q])]
                BY <1>11
            <4> HIDE DEF m, F
            <4>3. [item |-> t[p], chunk |-> p - F(t[p])] = [item |-> t[q], chunk |-> q - F(t[q])]
                BY <4>1, <4>2, <2>1
            <4> QED BY ONLY <4>3
        <3>2. p \in Nat /\ q \in Nat /\ F(t[p]) \in Nat
            BY <1>3, <1>8, PageFacts
        <3> QED BY <3>1, <3>2
    <2> QED BY <2>1
<1>13. \A p \in Pages : m.page[p] = Junk <=> p \in FreePages(m)
    <2> TAKE p \in Pages
    <2>1. CASE p \in UsedPages(m)
        <3>1. m.page[p] # Junk
            BY <1>11, <2>1, PiecesAssumption
        <3>2. p \notin FreePages(m)
            BY <1>1, <1>2, <2>1, FreeAndUsed DEF IsTable
        <3> QED BY <3>1, <3>2
    <2>2. CASE p \notin UsedPages(m)
        <3>1. p \in FreePages(m)
            BY <1>1, <1>2, <2>2, FreeAndUsed DEF IsTable
        <3> QED BY <3>1, <1>2 DEF Segment, FreePages
    <2> QED BY <2>1, <2>2
<1>14. m.cacheAvail = Cardinality(FreePages(m))
    BY <1>2 DEF Segment, FreePages
<1> QED BY <1>2, <1>7, <1>9, <1>10, <1>12, <1>13, <1>14 DEF Consistent

-----------------------------------------------------------------------------
(* The used pages left of page c in a consistent segment. *)

(* A page has moved to the left just when some page left of it is free. *)
LEMMA MovedLeft ==
    ASSUME NEW m, IsTable(m.pageTable), NEW p \in UsedPages(m)
    PROVE  NewPosition(m, p) < p <=> \E q \in FreePages(m) : q < p
<1>1. p \in Pages /\ p \in Nat /\ p \in 0 .. NumPages
    BY PageFacts DEF UsedPages, Pages
<1>2. ASSUME \A q \in FreePages(m) : ~(q < p)
      PROVE  NewPosition(m, p) = p
    <2>1. \A q \in 0 .. p - 1 : m.pageTable[q] >= 0
        <3> TAKE q \in 0 .. p - 1
        <3>1. q \in Pages /\ q < p
            BY <1>1, PageFacts DEF Pages
        <3> QED BY <3>1, <1>2, TableFacts DEF FreePages
    <2>2. {q \in 0 .. p - 1 : m.pageTable[q] >= 0} = 0 .. 0 + p - 1
        BY <2>1, <1>1
    <2>3. Cardinality(0 .. 0 + p - 1) = p
        BY <1>1, IntervalSize
    <2> QED BY <2>2, <2>3 DEF NewPosition
<1>3. ASSUME NEW q \in FreePages(m), q < p
      PROVE  NewPosition(m, p) < p
    <2>1. q \in Pages /\ q \in Nat /\ q \in 0 .. NumPages /\ q + 1 \in 0 .. NumPages
          /\ p \in q + 1 .. NumPages
        BY <1>1, <1>3, PageFacts DEF FreePages, Pages
    <2>2. NewPosition(m, q) \in 0 .. q /\ NewPosition(m, q + 1) = NewPosition(m, q)
          /\ NewPosition(m, p) - NewPosition(m, q + 1) <= p - (q + 1)
          /\ NewPosition(m, p) \in 0 .. p
        BY <1>1, <2>1, NewPositionFacts
    <2> QED BY <1>1, <2>1, <2>2
<1>4. NewPosition(m, p) \in 0 .. p
    BY <1>1, NewPositionFacts
<1> QED BY <1>1, <1>2, <1>3, <1>4

(* Facts of one step over page c: where it goes, and where those before it  *)
(* and after it are.                                                       *)
LEMMA StepFacts ==
    ASSUME NEW m, IsTable(m.pageTable), NEW c \in Pages
    PROVE  /\ c \in Nat /\ c + 1 \in 0 .. NumPages
           /\ NewPosition(m, c) \in Nat /\ NewPosition(m, c) <= c
           /\ NewPosition(m, c + 1) = IF c \in UsedPages(m) THEN NewPosition(m, c) + 1
                                                            ELSE NewPosition(m, c)
           /\ \A p \in UsedPages(m) : p < c =>
                NewPosition(m, p) \in Nat /\ NewPosition(m, p) < NewPosition(m, c)
           /\ c \in UsedPages(m) <=> c \notin FreePages(m)
<1>1. c \in Nat /\ c \in 0 .. NumPages /\ c + 1 \in 0 .. NumPages /\ NumPages \in Nat
    BY PageFacts DEF Pages
<1>2. NewPosition(m, c) \in 0 .. c
    BY <1>1, NewPositionFacts
<1>3. c \in UsedPages(m) <=> c \notin FreePages(m)
    BY FreeAndUsed
<1>4. NewPosition(m, c + 1) = IF c \in UsedPages(m) THEN NewPosition(m, c) + 1
                                                    ELSE NewPosition(m, c)
    BY <1>3, NewPositionFacts
<1>5. ASSUME NEW p \in UsedPages(m), p < c
      PROVE  NewPosition(m, p) \in Nat /\ NewPosition(m, p) < NewPosition(m, c)
    <2>1. p \in Nat /\ p \in 0 .. NumPages
        BY <1>5, PageFacts DEF UsedPages, Pages
    <2>2. c \in p + 1 .. NumPages
        BY <1>1, <1>5, <2>1
    <2>3. NewPosition(m, p) \in 0 .. p
        BY <2>1, NewPositionFacts
    <2> QED BY <2>1, <2>2, <2>3, NewPositionFacts
<1> QED BY <1>1, <1>2, <1>3, <1>4, <1>5

(* The page that links to an entry right of a page that does not is the     *)
(* first page of the entry.                                                *)
LEMMA FirstAfterOther ==
    ASSUME NEW m, IsTable(m.pageTable), Consistent(m), NEW c \in UsedPages(m),
           c - 1 \in Pages => m.pageTable[c - 1] # m.pageTable[c]
    PROVE  First(m, m.pageTable[c]) = c
<1>1. c \in Pages /\ c \in Nat /\ NumPages \in Nat
    BY PageFacts DEF UsedPages
<1>2. /\ First(m, m.pageTable[c]) \in 0 .. c
      /\ \A q \in First(m, m.pageTable[c]) .. c : m.pageTable[q] = m.pageTable[c]
    BY DEF Consistent
<1>3. ASSUME First(m, m.pageTable[c]) < c
      PROVE  FALSE
    <2>1. c - 1 \in Pages /\ c - 1 \in First(m, m.pageTable[c]) .. c
        BY <1>1, <1>2, <1>3 DEF Pages
    <2> QED BY <1>2, <2>1
<1> QED BY <1>1, <1>2, <1>3

(* A free page, or a used one that stays, is no overrun. *)
LEMMA NoOverrun ==
    ASSUME NEW m, IsTable(m.pageTable), NEW c \in Pages,
           c \in FreePages(m) \/ NewPosition(m, c) = c \/ c + 1 \notin FreePages(m)
    PROVE  c \notin Overruns(m)
<1>1. ASSUME c \in Overruns(m)
      PROVE  FALSE
    <2>1. c \in UsedPages(m) /\ (\E q \in FreePages(m) : q < c) /\ c + 1 \in FreePages(m)
        BY <1>1 DEF Overruns, MovedPages
    <2>2. c \notin FreePages(m)
        BY <2>1, FreeAndUsed
    <2>3. NewPosition(m, c) < c
        BY <2>1, MovedLeft
    <2>4. NewPosition(m, c) # c
        BY <2>3, StepFacts
    <2> QED BY <2>1, <2>2, <2>4
<1> QED BY <1>1

-----------------------------------------------------------------------------
(* What one step over page c does to each part of the invariant. *)

(* A free page is passed by, and so is a used one that stays. *)
LEMMA PagesPassed ==
    ASSUME NEW m, NEW m0, IsTable(m0.pageTable), Consistent(m0), NEW c \in Pages,
           PagesMoved(m, m0, c), c \in FreePages(m0) \/ NewPosition(m0, c) = c
    PROVE  PagesMoved(m, m0, c + 1)
<1>1. c \in Nat /\ NewPosition(m0, c) \in Nat /\ NewPosition(m0, c) <= c
    BY StepFacts
<1>2. m.pageTable[c] = m0.pageTable[c] /\ m.page[c] = m0.page[c]
    BY <1>1 DEF PagesMoved
<1>3. NewPosition(m0, c + 1) = IF c \in UsedPages(m0) THEN NewPosition(m0, c) + 1
                                                      ELSE NewPosition(m0, c)
    BY StepFacts
<1>4. c \in UsedPages(m0) <=> c \notin FreePages(m0)
    BY StepFacts
<1>5. \A p \in UsedPages(m0) : p \in Nat /\ p \in Pages
    BY PageFacts DEF UsedPages
<1>6. \A p \in UsedPages(m0) : p < c + 1 =>
        /\ m.pageTable[NewPosition(m0, p)] = m0.pageTable[p]
        /\ m.page[NewPosition(m0, p)] = m0.page[p]
    <2> TAKE p \in UsedPages(m0)
    <2> HAVE p < c + 1
    <2>1. CASE p = c
        BY <2>1, <1>2, <1>4
    <2>2. CASE p # c
        <3>1. p < c
            BY <1>1, <1>5, <2>2
        <3> QED BY <3>1 DEF PagesMoved
    <2> QED BY <2>1, <2>2
<1>7. ASSUME c \in FreePages(m0)
      PROVE  m.pageTable[c] = -1 /\ m.page[c] = Junk
    <2>1. m0.pageTable[c] < 0
        BY <1>7 DEF FreePages
    <2>2. m0.pageTable[c] = -1
        BY <2>1, TableFacts
    <2>3. m0.page[c] = Junk
        BY <1>7 DEF Consistent
    <2> QED BY <1>2, <2>2, <2>3
<1>8. \A q \in Pages : q \in Nat
    BY PageFacts
<1>9. \A q \in Pages : NewPosition(m0, c + 1) <= q /\ q < c + 1 =>
        m.pageTable[q] = -1 /\ m.page[q] = Junk
    <2> TAKE q \in Pages
    <2> HAVE NewPosition(m0, c + 1) <= q /\ q < c + 1
    <2>1. c \in FreePages(m0) /\ NewPosition(m0, c) <= q
        <3>1. CASE c \in UsedPages(m0)
            BY <3>1, <1>1, <1>3, <1>4, <1>8
        <3>2. CASE c \notin UsedPages(m0)
            BY <3>2, <1>3, <1>4
        <3> QED BY <3>1, <3>2
    <2>2. CASE q = c
        BY <2>1, <2>2, <1>7
    <2>3. CASE q # c
        <3>1. q < c
            BY <2>3, <1>1, <1>8
        <3> QED BY <3>1, <2>1 DEF PagesMoved
    <2> QED BY <2>2, <2>3
<1>10. \A q \in Pages : q >= c + 1 =>
         m.pageTable[q] = m0.pageTable[q] /\ m.page[q] = m0.page[q]
    <2> TAKE q \in Pages
    <2> HAVE q >= c + 1
    <2>1. q >= c
        BY <1>1, <1>8
    <2> QED BY <2>1 DEF PagesMoved
<1> QED BY <1>6, <1>9, <1>10 DEF PagesMoved

(* The round of the inner loop that moves page c. *)
LEMMA PageMoves ==
    ASSUME NEW m, NEW m0, NEW n, IsTable(m0.pageTable), IsTable(m.pageTable),
           Consistent(m0), NEW c \in UsedPages(m0), PagesMoved(m, m0, c),
           m.page \in [Pages -> Contents],
           NewPosition(m0, c) < c,
           n.pageTable = [m.pageTable EXCEPT ![NewPosition(m0, c)] = m0.pageTable[c],
                                             ![c] = -1],
           n.page = [m.page EXCEPT ![NewPosition(m0, c)] = m.page[c], ![c] = Junk]
    PROVE  PagesMoved(n, m0, c + 1)
<1> DEFINE f == NewPosition(m0, c)
<1>1. c \in Nat /\ c \in Pages /\ f \in Nat /\ f < c /\ f \in Pages
    <2>1. c \in Pages
        BY DEF UsedPages
    <2> QED BY <2>1, NewPositionFacts, StepFacts, PageFacts
<1>2. NewPosition(m0, c + 1) = f + 1
    BY <1>1, StepFacts
<1>3. \A p \in UsedPages(m0) : p < c =>
        NewPosition(m0, p) \in Nat /\ NewPosition(m0, p) < f
    BY <1>1, StepFacts
<1>4. \A p \in Pages : p \in Nat
    BY PageFacts
<1>5. m.page[c] = m0.page[c]
    BY <1>1 DEF PagesMoved
<1>6. \A p \in UsedPages(m0) : p \in Pages /\ NewPosition(m0, p) \in Pages
    BY NewPositionFacts DEF UsedPages
<1>7. \A q \in Pages :
        /\ n.pageTable[q] = IF q = c THEN -1
                            ELSE IF q = f THEN m0.pageTable[c] ELSE m.pageTable[q]
        /\ n.page[q] = IF q = c THEN Junk ELSE IF q = f THEN m0.page[c] ELSE m.page[q]
    <2> HIDE DEF f
    <2>1. m.pageTable \in [Pages -> Slots \cup {-1}]
        BY DEF IsTable
    <2> QED BY <1>1, <1>5, <2>1 DEF f
<1> HIDE DEF f
<1>8. \A p \in UsedPages(m0) : p < c + 1 =>
        /\ n.pageTable[NewPosition(m0, p)] = m0.pageTable[p]
        /\ n.page[NewPosition(m0, p)] = m0.page[p]
    <2> TAKE p \in UsedPages(m0)
    <2> HAVE p < c + 1
    <2>1. CASE p = c
        <3>1. NewPosition(m0, p) = f /\ f # c
            BY <1>1, <2>1 DEF f
        <3> QED BY <3>1, <2>1, <1>1, <1>7
    <2>2. CASE p # c
        <3>1. p < c
            BY <1>1, <1>4, <1>6, <2>2
        <3>2. NewPosition(m0, p) # f /\ NewPosition(m0, p) # c
            BY <3>1, <1>1, <1>3
        <3> QED BY <3>1, <3>2, <1>6, <1>7 DEF PagesMoved
    <2> QED BY <2>1, <2>2
<1>9. \A q \in Pages : f + 1 <= q /\ q < c + 1 => n.pageTable[q] = -1 /\ n.page[q] = Junk
    <2> TAKE q \in Pages
    <2> HAVE f + 1 <= q /\ q < c + 1
    <2>1. CASE q = c
        BY <2>1, <1>7
    <2>2. CASE q # c
        <3>1. q < c /\ f <= q /\ q # f
            BY <1>1, <1>4, <2>2
        <3>2. m.pageTable[q] = -1 /\ m.page[q] = Junk
            BY <3>1 DEF PagesMoved, f
        <3> QED BY <3>1, <3>2, <2>2, <1>7
    <2> QED BY <2>1, <2>2
<1>10. \A q \in Pages : q >= c + 1 =>
         n.pageTable[q] = m0.pageTable[q] /\ n.page[q] = m0.page[q]
    <2> TAKE q \in Pages
    <2> HAVE q >= c + 1
    <2>1. q >= c /\ q # c /\ q # f
        BY <1>1, <1>4
    <2> QED BY <2>1, <1>7 DEF PagesMoved
<1> QED BY <1>2, <1>8, <1>9, <1>10 DEF PagesMoved

(* No entry changes when page c is the first page of none, or stays. *)
LEMMA EntriesPassed ==
    ASSUME NEW m, NEW m0 \in Segments, NEW c \in Pages, EntriesMoved(m, m0, c),
           \/ NewPosition(m0, c) = c
           \/ \A i \in Slots : First(m0, i) = c => c \notin UsedPages(m0)
    PROVE  EntriesMoved(m, m0, c + 1)
<1>1. \A i \in Slots : First(m0, i) \in Int
    BY DEF First, Segments, Entries
<1>2. c \in Nat
    BY PageFacts
<1>3. ASSUME NEW i \in Slots
      PROVE  /\ m.index[i] = [m0.index[i] EXCEPT !.firstPage = First(m, i)]
             /\ First(m, i) = IF First(m0, i) \in UsedPages(m0) /\ First(m0, i) < c + 1
                              THEN NewPosition(m0, First(m0, i))
                              ELSE First(m0, i)
    <2>1. m.index[i] = [m0.index[i] EXCEPT !.firstPage = First(m, i)]
        BY DEF EntriesMoved
    <2>2. First(m, i) = IF First(m0, i) \in UsedPages(m0) /\ First(m0, i) < c
                        THEN NewPosition(m0, First(m0, i))
                        ELSE First(m0, i)
        BY DEF EntriesMoved
    <2>3. CASE First(m0, i) = c
        BY <2>1, <2>2, <2>3, <1>2
    <2>4. CASE First(m0, i) # c
        <3>1. First(m0, i) < c + 1 <=> First(m0, i) < c
            BY <1>1, <1>2, <2>4
        <3> QED BY <3>1, <2>1, <2>2
    <2> QED BY <2>3, <2>4
<1> QED BY <1>3 DEF EntriesMoved

(* The entry whose first page is c is told the new place of that page. *)
LEMMA EntryRelinked ==
    ASSUME NEW m \in Segments, NEW m0 \in Segments, NEW n, Consistent(m0),
           NEW c \in UsedPages(m0), EntriesMoved(m, m0, c),
           First(m0, m0.pageTable[c]) = c, m0.pageTable[c] \in Slots,
           n.index = [m.index EXCEPT ![m0.pageTable[c]].firstPage = NewPosition(m0, c)]
    PROVE  EntriesMoved(n, m0, c + 1)
<1> DEFINE j == m0.pageTable[c]
           f == NewPosition(m0, c)
<1>1. \A i \in Slots : First(m0, i) \in Int
    BY DEF First, Segments, Entries
<1>2. c \in Nat
    BY PageFacts DEF UsedPages
<1>3. \A i \in Slots : i # j => First(m0, i) # c
    BY DEF Consistent
<1>4. m.index \in [Slots -> Entries] /\ m0.index \in [Slots -> Entries]
    BY DEF Segments
<1>5. \A i \in Slots : n.index[i] = IF i = j THEN [m.index[i] EXCEPT !.firstPage = f]
                                              ELSE m.index[i]
    <2> HIDE DEF f, j
    <2>1. n.index = [m.index EXCEPT ![j].firstPage = f]
        BY DEF f, j
    <2> QED BY <2>1, <1>4
<1>6. ASSUME NEW i \in Slots
      PROVE  /\ n.index[i] = [m0.index[i] EXCEPT !.firstPage = First(n, i)]
             /\ First(n, i) = IF First(m0, i) \in UsedPages(m0) /\ First(m0, i) < c + 1
                              THEN NewPosition(m0, First(m0, i))
                              ELSE First(m0, i)
    <2>1. m.index[i] = [m0.index[i] EXCEPT !.firstPage = First(m, i)]
        BY DEF EntriesMoved
    <2>2. First(m, i) = IF First(m0, i) \in UsedPages(m0) /\ First(m0, i) < c
                        THEN NewPosition(m0, First(m0, i))
                        ELSE First(m0, i)
        BY DEF EntriesMoved
    <2>3. CASE i = j
        <3> HIDE DEF f
        <3>1. n.index[i] = [m.index[i] EXCEPT !.firstPage = f]
            BY <1>5, <2>3
        <3>2. m.index[i] \in Entries /\ m0.index[i] \in Entries
            BY <1>4
        <3>3. n.index[i].firstPage = f
            BY <3>1, <3>2 DEF Entries
        <3>4. n.index[i] = [m0.index[i] EXCEPT !.firstPage = f]
            BY <3>1, <3>2, <2>1 DEF Entries
        <3>5. First(m0, i) = c /\ First(m0, i) < c + 1
            BY <2>3, <1>2
        <3> QED BY <3>3, <3>4, <3>5 DEF First, f
    <2>4. CASE i # j
        <3>1. First(m0, i) < c + 1 <=> First(m0, i) < c
            BY <1>1, <1>2, <1>3, <2>4
        <3>2. First(n, i) = First(m, i) /\ n.index[i] = m.index[i]
            BY <1>5, <2>4 DEF First
        <3> QED BY <3>1, <3>2, <2>1, <2>2
    <2> QED BY <2>3, <2>4
<1> QED BY <1>6 DEF EntriesMoved

LEMMA OverrunPassed ==
    ASSUME NEW m, NEW m0, NEW c \in Pages, Overrun(m, m0, c), c \notin Overruns(m0)
    PROVE  Overrun(m, m0, c + 1)
<1>1. c \in Nat /\ \A p \in Overruns(m0) : p \in Nat /\ p # c
    BY PageFacts DEF Overruns, MovedPages, UsedPages
<1>2. \A p \in Overruns(m0) : (p >= c + 1 <=> p >= c) /\ (p < c + 1 <=> p < c)
    BY <1>1
<1> QED BY <1>2 DEF Overrun

(* The step over an overrun writes the place after the new one. *)
LEMMA OverrunWritten ==
    ASSUME NEW m, NEW m0, NEW c \in Pages, c \in Overruns(m0),
           m.cacheTimestamp = NewPosition(m0, c) + 1
    PROVE  Overrun(m, m0, c + 1)
<1>1. c \in Nat /\ \A p \in Overruns(m0) : p \in Nat
    BY PageFacts DEF Overruns, MovedPages, UsedPages
<1>2. ~(\A p \in Overruns(m0) : p >= c + 1)
    BY <1>1
<1>3. ASSUME NEW p \in Overruns(m0), p < c + 1,
             \A q \in Overruns(m0) : q < c + 1 => q <= p
      PROVE  p = c
    <2>1. c <= p
        BY <1>1, <1>3
    <2> QED BY <1>1, <1>3, <2>1
<1> QED BY <1>2, <1>3 DEF Overrun

(* When the loop has passed the last page the segment is defragment()'s. *)
LEMMA AllMoved ==
    ASSUME NEW m \in Segments, NEW m0 \in Segments, m.cacheAvail = m0.cacheAvail,
           Consistent(m0), m0.cacheAvail # NumPages,
           PagesMoved(m, m0, NumPages), EntriesMoved(m, m0, NumPages),
           Overrun(m, m0, NumPages)
    PROVE  m = defragment(m0)
<1> DEFINE d == defragment(m0)
           used == Cardinality(UsedPages(m0))
<1>1. IsTable(m0.pageTable) /\ IsRecord(m0) /\ IsRecord(m)
    BY DEF Segments, IsTable, IsRecord
<1>2. NewPosition(m0, NumPages) = used /\ used \in Nat /\ NumPages \in Nat
    BY <1>1, NewPositionFacts, FreeAndUsed, PageFacts
<1>3. \A p \in Pages : p \in Nat /\ p < NumPages
    BY PageFacts DEF Pages
<1>4. m.pageTable = [q \in Pages |-> m.pageTable[q]] /\ m.page = [q \in Pages |-> m.page[q]]
      /\ m.index = [i \in Slots |-> m.index[i]]
      /\ m0.index = [i \in Slots |-> m0.index[i]]
      /\ \A i \in Slots : m.index[i] \in Entries /\ m0.index[i] \in Entries
    BY DEF Segments
<1>5. /\ d.index = [i \in Slots |->
            IF m0.index[i].firstPage \in UsedPages(m0)
            THEN [m0.index[i] EXCEPT
                    !.firstPage = NewPosition(m0, m0.index[i].firstPage)]
            ELSE m0.index[i]]
      /\ d.cacheAvail = m0.cacheAvail
      /\ d.evictionPolicy = m0.evictionPolicy
      /\ d.failed = m0.failed
      /\ IsRecord(d)
    <2>1. m0.cacheAvail = Cardinality(FreePages(m0))
        BY DEF Consistent
    <2>2. \A i \in Slots : IsEntry(m0.index[i])
        BY <1>4 DEF Entries, IsEntry
    <2> QED BY <1>1, <1>4, <2>1, <2>2, DefragmentMovesEntries
<1>6. /\ DOMAIN d.pageTable = Pages /\ DOMAIN d.page = Pages
      /\ d.pageTable = [q \in Pages |-> d.pageTable[q]]
      /\ d.page = [q \in Pages |-> d.page[q]]
      /\ \A q \in Pages : ~(q < used) => d.pageTable[q] = -1 /\ d.page[q] = Junk
      /\ d.cacheTimestamp = IF Overruns(m0) = {} THEN m0.cacheTimestamp
                            ELSE NewPosition(m0, LastOverrun(m0)) + 1
    BY <1>1 DEF defragment, IsRecord
<1>7. \A q \in Pages : q < used =>
        \E p \in UsedPages(m0) : q = NewPosition(m0, p)
              /\ d.pageTable[q] = m0.pageTable[p] /\ d.page[q] = m0.page[p]
    <2>1. m0.cacheAvail = Cardinality(FreePages(m0))
        BY DEF Consistent
    <2> QED BY <1>1, <2>1, DefragmentMovesPages
<1> HIDE DEF d, used
<1>8. \A q \in Pages : m.pageTable[q] = d.pageTable[q] /\ m.page[q] = d.page[q]
    <2> TAKE q \in Pages
    <2>1. CASE q < used
        <3>1. PICK p \in UsedPages(m0) : q = NewPosition(m0, p)
                  /\ d.pageTable[q] = m0.pageTable[p] /\ d.page[q] = m0.page[p]
            BY <1>7, <2>1
        <3>2. p < NumPages
            BY <1>3 DEF UsedPages
        <3> QED BY <3>1, <3>2 DEF PagesMoved
    <2>2. CASE ~(q < used)
        <3>1. used <= q /\ q < NumPages
            BY <1>2, <1>3, <2>2
        <3>2. m.pageTable[q] = -1 /\ m.page[q] = Junk
            BY <1>2, <3>1 DEF PagesMoved
        <3> QED BY <3>2, <2>2, <1>6
    <2> QED BY <2>1, <2>2
<1>9. m.pageTable = d.pageTable /\ m.page = d.page
    <2>1. [q \in Pages |-> m.pageTable[q]] = [q \in Pages |-> d.pageTable[q]]
        BY <1>8
    <2>2. [q \in Pages |-> m.page[q]] = [q \in Pages |-> d.page[q]]
        BY <1>8
    <2> QED BY <2>1, <2>2, <1>4, <1>6
<1>10. m.index = d.index
    <2>1. \A i \in Slots : m.index[i] =
            IF m0.index[i].firstPage \in UsedPages(m0)
            THEN [m0.index[i] EXCEPT
                    !.firstPage = NewPosition(m0, m0.index[i].firstPage)]
            ELSE m0.index[i]
        <3> TAKE i \in Slots
        <3>1. m.index[i] = [m0.index[i] EXCEPT !.firstPage = First(m, i)]
            BY DEF EntriesMoved
        <3>2. First(m, i) = IF First(m0, i) \in UsedPages(m0) /\ First(m0, i) < NumPages
                            THEN NewPosition(m0, First(m0, i))
                            ELSE First(m0, i)
            BY DEF EntriesMoved
        <3>3. First(m0, i) = m0.index[i].firstPage
            BY DEF First
        <3>4. CASE First(m0, i) \in UsedPages(m0)
            <4>1. First(m0, i) < NumPages
                BY <3>4, <1>3 DEF UsedPages
            <4> QED BY <3>1, <3>2, <3>3, <3>4, <4>1
        <3>5. CASE First(m0, i) \notin UsedPages(m0)
            <4>1. m.index[i] = [m0.index[i] EXCEPT !.firstPage = m0.index[i].firstPage]
                BY <3>1, <3>2, <3>3, <3>5
            <4>2. m0.index[i] \in Entries
                BY <1>4
            <4>3. m.index[i] = m0.index[i]
                BY <4>1, <4>2 DEF Entries
            <4> QED BY <4>3, <3>3, <3>5
        <3> QED BY <3>4, <3>5
    <2>2. [i \in Slots |-> m.index[i]] = [i \in Slots |->
            IF m0.index[i].firstPage \in UsedPages(m0)
            THEN [m0.index[i] EXCEPT
                    !.firstPage = NewPosition(m0, m0.index[i].firstPage)]
            ELSE m0.index[i]]
        BY <2>1
    <2> QED BY <2>2, <1>4, <1>5
<1>11. m.cacheTimestamp = d.cacheTimestamp
    <2>0. \A p \in Overruns(m0) : p < NumPages /\ ~(p >= NumPages)
        BY <1>2, <1>3 DEF Overruns, MovedPages, UsedPages
    <2>1. CASE Overruns(m0) = {}
        BY <2>1, <1>6 DEF Overrun
    <2>2. CASE Overruns(m0) # {}
        <3>1. /\ LastOverrun(m0) \in Overruns(m0)
              /\ \A q \in Overruns(m0) : q <= LastOverrun(m0)
            BY <2>2, LastOverrunIsPage
        <3>2. m.cacheTimestamp = NewPosition(m0, LastOverrun(m0)) + 1
            BY <2>0, <3>1 DEF Overrun
        <3> QED BY <2>2, <3>2, <1>6
    <2> QED BY <2>1, <2>2
<1>12. m.evictionPolicy = d.evictionPolicy /\ m.failed = d.failed
    BY <1>5 DEF Segments
<1> QED BY <1>1, <1>5, <1>9, <1>10, <1>11, <1>12 DEF IsRecord, d

-----------------------------------------------------------------------------
(* The invariant holds on every segment the loop can start on. *)
LEMMA InitDefragmentInv == LoopInit => DefragmentInv
<1> SUFFICES ASSUME LoopInit
             PROVE  DefragmentInv
    OBVIOUS
<1>1. shm0 \in Segments /\ Consistent(shm0) /\ shm = shm0
    BY SegmentConsistent DEF LoopInit
<1>2. IsTable(shm0.pageTable)
    BY <1>1 DEF Segments, IsTable
<1>3. NewPosition(shm0, 0) = 0 /\ currentPage = 0 /\ 0 \in 0 .. NumPages
    <2>1. 0 \in 0 .. NumPages
        BY PageFacts
    <2>2. NewPosition(shm0, 0) \in 0 .. 0
        BY <1>2, <2>1, NewPositionFacts
    <2> QED BY <2>1, <2>2 DEF LoopInit
<1>4. \A p \in UsedPages(shm0) : ~(p < 0) /\ p >= 0
    BY PageFacts DEF UsedPages
<1>5. \A q \in Pages : q >= 0 /\ ~(q < 0)
    BY PageFacts
<1>6. PagesMoved(shm, shm0, 0)
    BY <1>1, <1>4, <1>5 DEF PagesMoved
<1>7. EntriesMoved(shm, shm0, 0)
    <2> SUFFICES ASSUME NEW i \in Slots
                 PROVE  /\ shm.index[i] = [shm0.index[i] EXCEPT !.firstPage = First(shm, i)]
                        /\ First(shm, i) = First(shm0, i)
        BY <1>1, <1>4 DEF EntriesMoved
    <2>1. shm0.index[i] \in Entries
        BY <1>1 DEF Segments
    <2>2. shm0.index[i] = [shm0.index[i] EXCEPT !.firstPage = shm0.index[i].firstPage]
        BY <2>1 DEF Entries
    <2> QED BY <2>2, <1>1, <1>4 DEF First
<1>8. Overrun(shm, shm0, 0)
    BY <1>1, <1>5 DEF Overrun, Overruns, MovedPages, UsedPages
<1>9. LoopPosition
    BY <1>3 DEF LoopPosition, LoopInit
<1> QED BY <1>1, <1>3, <1>6, <1>7, <1>8, <1>9 DEF DefragmentInv, Relinks, LoopInit

(* What the loop reads of the current page is what the segment had there.   *)
LEMMA LoopFacts ==
    ASSUME DefragmentInv
    PROVE  /\ IsTable(shm0.pageTable) /\ IsTable(shm.pageTable)
           /\ currentPage \in Nat /\ currentPage <= NumPages /\ NumPages \in Nat
           /\ currentPage < NumPages <=> currentPage \in Pages
           /\ currentPage \in Pages =>
                /\ shm.pageTable[currentPage] = shm0.pageTable[currentPage]
                /\ shm.page[currentPage] = shm0.page[currentPage]
           /\ AtUsedPage <=> currentPage \in UsedPages(shm0)
           /\ currentPage < NumPages /\ ~AtUsedPage => currentPage \in FreePages(shm0)
           /\ \A p \in UsedPages(shm0) : shm0.pageTable[p] \in Slots /\ p \in Pages
<1>1. IsTable(shm0.pageTable) /\ IsTable(shm.pageTable)
    BY DEF DefragmentInv, Segments, IsTable
<1>2. currentPage \in Nat /\ currentPage <= NumPages /\ NumPages \in Nat
    BY PageFacts DEF DefragmentInv, LoopPosition
<1>3. currentPage < NumPages <=> currentPage \in Pages
    BY <1>2 DEF Pages
<1>4. ASSUME currentPage \in Pages
      PROVE  /\ shm.pageTable[currentPage] = shm0.pageTable[currentPage]
             /\ shm.page[currentPage] = shm0.page[currentPage]
    <2>1. PagesMoved(shm, shm0, currentPage) /\ currentPage >= currentPage
        BY <1>2 DEF DefragmentInv
    <2> QED BY <1>4, <2>1 DEF PagesMoved
<1>5. AtUsedPage <=> currentPage \in UsedPages(shm0)
    BY <1>3, <1>4 DEF AtUsedPage, UsedPages
<1>6. currentPage < NumPages /\ ~AtUsedPage => currentPage \in FreePages(shm0)
    BY <1>1, <1>3, <1>5, FreeAndUsed
<1>7. \A p \in UsedPages(shm0) : shm0.pageTable[p] \in Slots /\ p \in Pages
    BY <1>1, TableFacts DEF UsedPages
<1> QED BY <1>1, <1>2, <1>3, <1>4, <1>5, <1>6, <1>7

LEMMA BeginKeepsInv ==
    ASSUME DefragmentInv, BeginLoop
    PROVE  DefragmentInv'
<1>1. shm = shm0 /\ currentPage = 0
    BY DEF DefragmentInv, BeginLoop
<1>2. UNCHANGED <<shm, shm0, currentPage, freeSpot, affectedIndex>>
    BY DEF BeginLoop
<1>3. \/ stage' = "done" /\ shm.cacheAvail = NumPages
      \/ stage' = "skipUsed" /\ shm.cacheAvail # NumPages
    BY DEF BeginLoop
<1>4. shm.cacheAvail = NumPages => shm = defragment(shm0)
    BY <1>1 DEF defragment
<1>5. LoopPosition'
    BY <1>1, <1>2, <1>3 DEF LoopPosition, DefragmentInv, BeginLoop
<1>6. Relinks' = Relinks
    BY <1>2, <1>3 DEF Relinks, BeginLoop
<1> QED BY <1>1, <1>2, <1>3, <1>4, <1>5, <1>6 DEF DefragmentInv

(* Before the first free page every page stays where it is. *)
LEMMA SkipUsedKeepsInv ==
    ASSUME DefragmentInv, SkipUsed
    PROVE  DefragmentInv'
<1>1. stage = "skipUsed" /\ shm' = shm /\ shm0' = shm0
    BY DEF SkipUsed
<1>2. freeSpot = 0 /\ NewPosition(shm0, currentPage) = currentPage /\ Relinks = currentPage
    BY <1>1 DEF DefragmentInv, LoopPosition, Relinks
<1>3. CASE AtUsedPage
    <2>1. currentPage' = currentPage + 1 /\ freeSpot' = freeSpot /\ stage' = stage
        BY <1>3 DEF SkipUsed
    <2>2. currentPage \in Pages /\ currentPage \in UsedPages(shm0)
          /\ IsTable(shm0.pageTable)
        BY <1>3, LoopFacts
    <2>3. NewPosition(shm0, currentPage + 1) = currentPage + 1
          /\ currentPage + 1 \in 0 .. NumPages
        BY <1>2, <2>2, StepFacts
    <2>4. PagesMoved(shm, shm0, currentPage + 1)
        BY <1>2, <2>2, PagesPassed DEF DefragmentInv
    <2>5. EntriesMoved(shm, shm0, currentPage + 1)
        BY <1>2, <2>2, EntriesPassed DEF DefragmentInv
    <2>6. Overrun(shm, shm0, currentPage + 1)
        BY <1>2, <2>2, NoOverrun, OverrunPassed DEF DefragmentInv
    <2>7. LoopPosition'
        BY <1>1, <1>2, <2>1, <2>3 DEF LoopPosition
    <2>8. Relinks' = currentPage + 1
        BY <1>1, <2>1 DEF Relinks
    <2> QED BY <1>1, <2>1, <2>4, <2>5, <2>6, <2>7, <2>8 DEF DefragmentInv
<1>4. CASE ~AtUsedPage
    <2>1. currentPage' = currentPage /\ freeSpot' = currentPage /\ stage' = "nextUsed"
        BY <1>4 DEF SkipUsed
    <2>2. currentPage \notin UsedPages(shm0)
        BY <1>4, LoopFacts
    <2>3. LoopPosition'
        BY <1>1, <1>2, <2>1, <2>2 DEF LoopPosition, DefragmentInv
    <2>4. Relinks' = currentPage
        BY <2>1 DEF Relinks
    <2> QED BY <1>1, <1>2, <2>1, <2>3, <2>4 DEF DefragmentInv
<1> QED BY <1>3, <1>4

LEMMA SkipFreeKeepsInv ==
    ASSUME DefragmentInv, SkipFree
    PROVE  DefragmentInv'
<1>1. stage = "nextUsed" /\ shm' = shm /\ shm0' = shm0 /\ freeSpot' = freeSpot
      /\ stage' = stage /\ currentPage' = currentPage + 1
    BY DEF SkipFree
<1>2. currentPage \in Pages /\ currentPage \in FreePages(shm0)
      /\ currentPage \notin UsedPages(shm0) /\ IsTable(shm0.pageTable)
    BY LoopFacts DEF SkipFree
<1>3. freeSpot = NewPosition(shm0, currentPage) /\ Relinks = currentPage
    BY <1>1 DEF DefragmentInv, LoopPosition, Relinks
<1>4. NewPosition(shm0, currentPage + 1) = NewPosition(shm0, currentPage)
      /\ currentPage + 1 \in 0 .. NumPages
    BY <1>2, StepFacts
<1>5. PagesMoved(shm, shm0, currentPage + 1)
    BY <1>2, PagesPassed DEF DefragmentInv
<1>6. EntriesMoved(shm, shm0, currentPage + 1)
    BY <1>2, <1>3, EntriesPassed DEF DefragmentInv
<1>7. Overrun(shm, shm0, currentPage + 1)
    BY <1>2, NoOverrun, OverrunPassed DEF DefragmentInv
<1>8. LoopPosition'
    <2>1. /\ currentPage' \in 0 .. NumPages /\ currentPage' - 1 \in FreePages(shm0')
          /\ freeSpot' = NewPosition(shm0', currentPage') /\ stage' = "nextUsed"
        <3>1. currentPage' \in 0 .. NumPages
            BY <1>1, <1>4
        <3>2. currentPage' - 1 = currentPage
            <4>1. currentPage \in Nat /\ currentPage' = currentPage + 1
                BY <1>1, <1>2, PageFacts
            <4> QED BY ONLY <4>1
        <3>3. currentPage' - 1 \in FreePages(shm0')
            BY ONLY <1>1, <1>2, <3>2
        <3>4. freeSpot' = NewPosition(shm0', currentPage')
            BY ONLY <1>1, <1>3, <1>4
        <3> QED BY <1>1, <3>1, <3>3, <3>4
    <2> QED BY <2>1 DEF LoopPosition
<1>9. Relinks' = currentPage + 1
    BY <1>1 DEF Relinks
<1> QED BY <1>1, <1>5, <1>6, <1>7, <1>8, <1>9 DEF DefragmentInv

(* At the end of the cache everything has moved. *)
LEMMA FinishKeepsInv ==
    ASSUME DefragmentInv, Finish
    PROVE  DefragmentInv'
<1>1. stage = "nextUsed" /\ stage' = "done"
      /\ UNCHANGED <<shm, shm0, currentPage, freeSpot, affectedIndex>>
    BY DEF Finish
<1>2. currentPage = NumPages
    BY LoopFacts DEF Finish
<1>3. Relinks = currentPage /\ Relinks' = currentPage
    BY <1>1 DEF Relinks
<1>4. shm = defragment(shm0)
    BY <1>1, <1>2, <1>3, AllMoved DEF DefragmentInv
<1>5. LoopPosition'
    BY <1>1 DEF LoopPosition, DefragmentInv
<1> QED BY <1>1, <1>3, <1>4, <1>5 DEF DefragmentInv

(* The entries are right for b when no first page separates a and b. *)
LEMMA EntriesSame ==
    ASSUME NEW m, NEW m0, NEW n, NEW a, NEW b, EntriesMoved(m, m0, a), n.index = m.index,
           \A i \in Slots : First(m0, i) \in UsedPages(m0) =>
                                (First(m0, i) < a <=> First(m0, i) < b)
    PROVE  EntriesMoved(n, m0, b)
<1> SUFFICES ASSUME NEW i \in Slots
             PROVE  /\ n.index[i] = [m0.index[i] EXCEPT !.firstPage = First(n, i)]
                    /\ First(n, i) = IF First(m0, i) \in UsedPages(m0) /\ First(m0, i) < b
                                     THEN NewPosition(m0, First(m0, i))
                                     ELSE First(m0, i)
    BY DEF EntriesMoved
<1>1. n.index[i] = m.index[i] /\ First(n, i) = First(m, i)
    BY DEF First
<1>2. /\ m.index[i] = [m0.index[i] EXCEPT !.firstPage = First(m, i)]
      /\ First(m, i) = IF First(m0, i) \in UsedPages(m0) /\ First(m0, i) < a
                       THEN NewPosition(m0, First(m0, i))
                       ELSE First(m0, i)
    BY DEF EntriesMoved
<1> QED BY <1>1, <1>2

(* The page the outer loop finds is the first of its entry, so the check    *)
(* that throws KSDCCorrupted does not fire, and it will move to the left.  *)
LEMMA StartMoveKeepsInv ==
    ASSUME DefragmentInv, StartMove
    PROVE  DefragmentInv'
<1> DEFINE i == shm0.pageTable[currentPage]
<1>1. stage = "nextUsed" /\ AtUsedPage /\ shm0' = shm0 /\ currentPage' = currentPage
      /\ freeSpot' = freeSpot
    BY DEF StartMove
<1>2. /\ IsTable(shm0.pageTable) /\ IsTable(shm.pageTable)
      /\ currentPage \in UsedPages(shm0) /\ currentPage \in Pages /\ currentPage \in Nat
      /\ shm.pageTable[currentPage] = i /\ i \in Slots
    BY <1>1, LoopFacts
<1>3. currentPage - 1 \in FreePages(shm0) /\ freeSpot = NewPosition(shm0, currentPage)
      /\ Relinks = currentPage
    BY <1>1, <1>2 DEF DefragmentInv, LoopPosition, Relinks
<1>4. shm0.pageTable[currentPage - 1] # i
    BY <1>2, <1>3, TableFacts DEF FreePages
<1>5. First(shm0, i) = currentPage
    BY <1>2, <1>4, FirstAfterOther DEF DefragmentInv
<1>6. shm.index[i].firstPage = currentPage
    <2>1. EntriesMoved(shm, shm0, currentPage)
        BY <1>3 DEF DefragmentInv
    <2>2. First(shm, i) = IF First(shm0, i) \in UsedPages(shm0) /\ First(shm0, i) < currentPage
                          THEN NewPosition(shm0, First(shm0, i))
                          ELSE First(shm0, i)
        BY <1>2, <2>1 DEF EntriesMoved
    <2>3. ~(First(shm0, i) < currentPage)
        BY <1>2, <1>5
    <2> QED BY <1>5, <2>2, <2>3 DEF First
<1>7. /\ affectedIndex' = i /\ stage' = "move"
      /\ shm' = [shm EXCEPT !.index[i].firstPage = freeSpot]
    BY <1>2, <1>6 DEF StartMove
<1>8. shm \in Segments /\ shm0 \in Segments /\ Consistent(shm0)
    BY DEF DefragmentInv
<1>9. /\ shm'.index = [shm.index EXCEPT ![i].firstPage = freeSpot]
      /\ shm'.pageTable = shm.pageTable /\ shm'.page = shm.page
      /\ shm'.cacheAvail = shm.cacheAvail /\ shm'.cacheTimestamp = shm.cacheTimestamp
    <2> HIDE DEF i
    <2> QED BY <1>7, <1>8 DEF Segments
<1>10. freeSpot \in Int /\ freeSpot < currentPage
    <2>1. currentPage - 1 < currentPage
        BY <1>2
    <2>2. freeSpot < currentPage
        BY <1>2, <1>3, <2>1, MovedLeft
    <2> QED BY <1>2, <1>3, <2>2, StepFacts
<1>11. shm' \in Segments
    <2> HIDE DEF i
    <2>1. [shm.index[i] EXCEPT !.firstPage = freeSpot] \in Entries
        <3>1. shm.index[i] \in Entries
            BY <1>2, <1>8 DEF Segments
        <3>2. freeSpot \in Int
            BY <1>10
        <3> QED BY ONLY <3>1, <3>2 DEF Entries
    <2>2. shm'.index \in [Slots -> Entries]
        BY <1>2, <1>8, <1>9, <2>1 DEF Segments
    <2> QED BY <1>7, <1>8, <1>9, <2>2 DEF Segments
<1>12. EntriesMoved(shm', shm0, currentPage + 1)
    BY <1>2, <1>3, <1>5, <1>8, <1>9, EntryRelinked DEF DefragmentInv
<1>13. PagesMoved(shm', shm0, currentPage)
    BY <1>9 DEF PagesMoved, DefragmentInv
<1>14. Overrun(shm', shm0, currentPage)
    BY <1>9 DEF Overrun, DefragmentInv
<1>15. LoopPosition'
    <2>1. currentPage' \in 0 .. NumPages
        BY <1>1 DEF DefragmentInv, LoopPosition
    <2>2. affectedIndex' = shm0'.pageTable[currentPage']
        BY <1>1, <1>7
    <2>3. freeSpot' = NewPosition(shm0', currentPage') /\ freeSpot' < currentPage'
        BY <1>1, <1>3, <1>10
    <2> QED BY <1>7, <2>1, <2>2, <2>3 DEF LoopPosition
<1>16. Relinks' = currentPage + 1
    BY <1>1, <1>7 DEF Relinks
<1> QED BY <1>1, <1>7, <1>8, <1>9, <1>11, <1>12, <1>13, <1>14, <1>15, <1>16
        DEF DefragmentInv

(* The inner loop ends: no first page lies at a page that is not used. *)
LEMMA EndMoveKeepsInv ==
    ASSUME DefragmentInv, EndMove
    PROVE  DefragmentInv'
<1>1. stage = "move" /\ ~AtUsedPage /\ stage' = "nextUsed"
      /\ UNCHANGED <<shm, shm0, currentPage, freeSpot, affectedIndex>>
    BY DEF EndMove
<1>2. currentPage \notin UsedPages(shm0) /\ currentPage \in Nat
    BY <1>1, LoopFacts
<1>3. \A p \in UsedPages(shm0) : p \in Nat
    BY PageFacts DEF UsedPages
<1>4. \A p \in UsedPages(shm0) : p < currentPage + 1 <=> p < currentPage
    BY <1>2, <1>3
<1>5. EntriesMoved(shm, shm0, currentPage + 1)
    BY <1>1 DEF DefragmentInv, Relinks
<1>6. EntriesMoved(shm, shm0, currentPage)
    BY <1>4, <1>5, EntriesSame
<1>7. LoopPosition'
    BY <1>1, <1>2 DEF LoopPosition, DefragmentInv
<1>8. Relinks' = currentPage
    BY <1>1 DEF Relinks
<1> QED BY <1>1, <1>6, <1>7, <1>8 DEF DefragmentInv

(* One round of the inner loop moves the current page.  The entry of the    *)
(* next page is told its new place when the page is its first; when the    *)
(* next page is free the write lands on cacheTimestamp.                    *)
LEMMA MovePageKeepsInv ==
    ASSUME DefragmentInv, MovePage
    PROVE  DefragmentInv'
<1> DEFINE c == currentPage
           t == shm0.pageTable
<1>1. stage = "move" /\ AtUsedPage /\ shm0' = shm0 /\ stage' = stage
      /\ currentPage' = currentPage + 1 /\ freeSpot' = freeSpot + 1
    BY DEF MovePage
<1>2. /\ IsTable(t) /\ IsTable(shm.pageTable) /\ NumPages \in Nat
      /\ c \in UsedPages(shm0) /\ c \in Pages /\ c \in Nat /\ c < NumPages
      /\ shm.pageTable[c] = t[c] /\ t[c] \in Slots
      /\ \A p \in UsedPages(shm0) : t[p] \in Slots /\ p \in Pages
    BY <1>1, LoopFacts
<1>3. /\ freeSpot = NewPosition(shm0, c) /\ freeSpot < c /\ affectedIndex = t[c]
      /\ Relinks = c + 1 /\ Relinks' = c + 1 + 1
    BY <1>1, <1>2 DEF DefragmentInv, LoopPosition, Relinks
<1>4. /\ freeSpot \in Nat /\ freeSpot \in Pages
      /\ NewPosition(shm0, c + 1) = freeSpot + 1 /\ c + 1 \in 0 .. NumPages
    BY <1>2, <1>3, StepFacts, NewPositionFacts
<1>5. shm \in Segments /\ shm0 \in Segments /\ Consistent(shm0)
      /\ PagesMoved(shm, shm0, c) /\ EntriesMoved(shm, shm0, c + 1) /\ Overrun(shm, shm0, c)
    BY <1>3 DEF DefragmentInv
<1>6. /\ Moved.pageTable = [shm.pageTable EXCEPT ![freeSpot] = t[c], ![c] = -1]
      /\ Moved.page = [shm.page EXCEPT ![freeSpot] = shm.page[c], ![c] = Junk]
      /\ Moved.index = shm.index /\ Moved.cacheAvail = shm.cacheAvail
      /\ Moved.cacheTimestamp = shm.cacheTimestamp
      /\ Moved.evictionPolicy = shm.evictionPolicy /\ Moved.failed = shm.failed
      /\ IsRecord(Moved)
    <2>1. IsRecord(shm)
        BY <1>5 DEF Segments, IsRecord
    <2> DEFINE table == [shm.pageTable EXCEPT ![freeSpot] = affectedIndex, ![currentPage] = -1]
               page == [shm.page EXCEPT ![freeSpot] = shm.page[currentPage],
                                        ![currentPage] = Junk]
    <2>2. Moved = [shm EXCEPT !.page = page, !.pageTable = table]
        BY DEF Moved
    <2>3. table = [shm.pageTable EXCEPT ![freeSpot] = t[c], ![c] = -1]
        BY <1>3
    <2> HIDE DEF table
    <2>4. page = [shm.page EXCEPT ![freeSpot] = shm.page[c], ![c] = Junk]
        OBVIOUS
    <2> HIDE DEF page
    <2>5. /\ Moved.pageTable = table /\ Moved.page = page
          /\ Moved.index = shm.index /\ Moved.cacheAvail = shm.cacheAvail
          /\ Moved.cacheTimestamp = shm.cacheTimestamp
          /\ Moved.evictionPolicy = shm.evictionPolicy /\ Moved.failed = shm.failed
        BY <2>1, <2>2 DEF IsRecord
    <2>6. IsRecord(Moved)
        BY <2>1, <2>2 DEF IsRecord
    <2> QED BY <2>3, <2>4, <2>5, <2>6
<1>7. Moved \in Segments
    <2>1. Moved.pageTable \in [Pages -> Slots \cup {-1}]
        BY <1>2, <1>6 DEF IsTable
    <2>2. Moved.page \in [Pages -> Contents]
        <3>1. shm.page \in [Pages -> Contents] /\ Junk \in Contents
            BY <1>5 DEF Segments, Contents
        <3> QED BY <1>2, <1>6, <3>1
    <2>3. Moved.index \in [Slots -> Entries] /\ Moved.cacheAvail \in Int
          /\ Moved.cacheTimestamp \in Int /\ Moved.evictionPolicy \in {"NoEvictionPreference"}
          /\ Moved.failed \in {{}}
        BY <1>5, <1>6 DEF Segments
    <2> QED BY <2>1, <2>2, <2>3, <1>6 DEF Segments, IsRecord
<1>8. PagesMoved(Moved, shm0, c + 1)
    <2>1. shm.page \in [Pages -> Contents]
        BY <1>5 DEF Segments
    <2> QED BY <1>2, <1>3, <1>5, <1>6, <2>1, PageMoves
<1> HIDE DEF c, t
<1>9. c = currentPage /\ t = shm0.pageTable
    BY DEF c, t
(* What remains: the write about the next page. *)
<1> SUFFICES /\ shm' \in Segments /\ shm'.cacheAvail = shm.cacheAvail
             /\ shm'.pageTable = Moved.pageTable /\ shm'.page = Moved.page
             /\ c + 1 < NumPages => affectedIndex' = t[c + 1]
             /\ EntriesMoved(shm', shm0, c + 1 + 1)
             /\ Overrun(shm', shm0, c + 1)
    <2> SUFFICES ASSUME /\ shm' \in Segments /\ shm'.cacheAvail = shm.cacheAvail
                        /\ shm'.pageTable = Moved.pageTable /\ shm'.page = Moved.page
                        /\ c + 1 < NumPages => affectedIndex' = t[c + 1]
                        /\ EntriesMoved(shm', shm0, c + 1 + 1)
                        /\ Overrun(shm', shm0, c + 1)
                 PROVE  DefragmentInv'
        OBVIOUS
    <2>1. PagesMoved(shm', shm0, c + 1)
        BY <1>8 DEF PagesMoved
    <2>2. LoopPosition'
        <3>1. /\ currentPage' \in 0 .. NumPages /\ stage' = "move"
              /\ freeSpot' = NewPosition(shm0', currentPage')
            BY <1>1, <1>4, <1>9
        <3>2. freeSpot' < currentPage'
            BY <1>1, <1>2, <1>3, <1>4, <1>9
        <3>3. currentPage' < NumPages => affectedIndex' = shm0'.pageTable[currentPage']
            BY <1>1, <1>9
        <3> QED BY <3>1, <3>2, <3>3 DEF LoopPosition
    <2>3. shm'.cacheAvail = shm0'.cacheAvail /\ shm0'.cacheAvail # NumPages
        BY <1>1 DEF DefragmentInv
    <2> QED BY <1>1, <1>3, <1>5, <1>9, <2>1, <2>2, <2>3 DEF DefragmentInv
<1>10. \A p \in UsedPages(shm0) : p \in Nat
    BY PageFacts DEF UsedPages
<1>11. c + 1 \notin UsedPages(shm0) =>
          \A p \in UsedPages(shm0) : p < c + 1 <=> p < c + 1 + 1
    BY <1>2, <1>10
<1>12. t[c] \in Nat /\ t[c] # -1
    <2>1. t[c] \in Nat
        BY <1>2, PageFacts
    <2> QED BY ONLY <2>1
<1>13. CASE ~(c + 1 < NumPages)
    <2>1. shm' = Moved
        BY <1>1, <1>2, <1>9, <1>13 DEF MovePage
    <2>2. c + 1 \notin Pages
        BY <1>2, <1>13 DEF Pages
    <2>3. c \notin Overruns(shm0)
        BY <1>2, <1>9, <2>2, NoOverrun DEF FreePages
    <2>4. Overrun(shm', shm0, c + 1)
        <3>1. Overrun(shm, shm0, c + 1)
            BY <1>2, <1>5, <2>3, OverrunPassed
        <3> QED BY <1>6, <2>1, <3>1 DEF Overrun
    <2>5. EntriesMoved(shm', shm0, c + 1 + 1)
        <3>1. c + 1 \notin UsedPages(shm0)
            BY <2>2 DEF UsedPages
        <3> QED BY <1>5, <1>6, <1>11, <2>1, <3>1, EntriesSame
    <2> QED BY <1>6, <1>7, <1>13, <2>1, <2>4, <2>5
<1>14. CASE c + 1 < NumPages
    <2>1. c + 1 \in Pages /\ c + 1 \in Nat /\ c + 1 - 1 = c
        BY <1>2, <1>14 DEF Pages
    <2>2. Moved.pageTable[c + 1] = t[c + 1]
        <3>1. shm.pageTable[c + 1] = t[c + 1]
            <4>1. c + 1 >= c
                BY <1>2
            <4> QED BY <1>5, <1>9, <2>1, <4>1 DEF PagesMoved
        <3>2. c + 1 # c /\ c + 1 # freeSpot
            BY <1>2, <1>3, <1>4
        <3>3. shm.pageTable \in [Pages -> Slots \cup {-1}]
            BY <1>2 DEF IsTable
        <3> QED BY <1>6, <2>1, <3>1, <3>2, <3>3
    <2>3. shm' = Relinked(Moved, t[c + 1], freeSpot + 1) /\ affectedIndex' = t[c + 1]
        <3>1. ~(currentPage' >= NumPages)
            BY <1>1, <1>2, <1>9, <1>14
        <3>2. /\ shm' = Relinked(Moved, Moved.pageTable[currentPage'], freeSpot')
              /\ affectedIndex' = Moved.pageTable[currentPage']
            BY <3>1 DEF MovePage
        <3> QED BY <1>1, <1>9, <2>2, <3>2
    <2>4. CASE t[c + 1] = t[c]
        <3>1. shm' = Moved
            BY <1>3, <2>3, <2>4 DEF Relinked
        <3>2. c + 1 \in UsedPages(shm0) /\ c + 1 \notin FreePages(shm0)
            <4>1. t[c + 1] >= 0
                BY <1>12, <2>4
            <4>2. c + 1 \in UsedPages(shm0)
                BY <1>9, <2>1, <4>1 DEF UsedPages
            <4> QED BY <1>2, <1>9, <4>2, FreeAndUsed
        <3>3. Overrun(shm', shm0, c + 1)
            <4>1. c \notin Overruns(shm0)
                BY <1>2, <1>9, <3>2, NoOverrun
            <4>2. Overrun(shm, shm0, c + 1)
                BY <1>2, <1>5, <4>1, OverrunPassed
            <4> QED BY <1>6, <3>1, <4>2 DEF Overrun
        <3>4. \A i \in Slots : First(shm0, i) \in UsedPages(shm0) =>
                    (First(shm0, i) < c + 1 <=> First(shm0, i) < c + 1 + 1)
            <4> SUFFICES ASSUME NEW i \in Slots, First(shm0, i) \in UsedPages(shm0)
                         PROVE  First(shm0, i) # c + 1
                <5>1. \A n \in Nat : n # c + 1 => (n < c + 1 <=> n < c + 1 + 1)
                    BY <1>2
                <5> QED BY <1>10, <5>1
            <4>1. t[First(shm0, i)] = i
                BY <1>5, <1>9 DEF Consistent
            <4>2. First(shm0, t[c]) \in 0 .. c
                BY <1>2, <1>5, <1>9 DEF Consistent
            <4>3. First(shm0, t[c]) # c + 1
                BY <1>2, <4>2
            <4> QED BY <2>4, <4>1, <4>3
        <3>5. EntriesMoved(shm', shm0, c + 1 + 1)
            BY <1>5, <1>6, <3>1, <3>4, EntriesSame
        <3> QED BY <1>6, <1>7, <2>3, <3>1, <3>3, <3>5
    <2>5. CASE t[c + 1] = -1
        <3>1. t[c] # -1
            BY <1>12
        <3>2. shm' = [Moved EXCEPT !.cacheTimestamp = freeSpot + 1]
            BY <1>3, <2>3, <2>5, <3>1 DEF Relinked
        <3>3. /\ shm'.index = Moved.index /\ shm'.pageTable = Moved.pageTable
              /\ shm'.page = Moved.page /\ shm'.cacheAvail = Moved.cacheAvail
              /\ shm'.cacheTimestamp = freeSpot + 1 /\ shm' \in Segments
            <4>1. freeSpot + 1 \in Int
                BY <1>4
            <4> QED BY <1>7, <3>2, <4>1 DEF Segments
        <3>4. c + 1 \in FreePages(shm0)
            BY <1>9, <2>1, <2>5 DEF FreePages
        <3>5. c \in Overruns(shm0)
            <4>1. \E q \in FreePages(shm0) : q < c
                BY <1>2, <1>3, <1>9, MovedLeft
            <4> QED BY <1>2, <3>4, <4>1 DEF Overruns, MovedPages
        <3>6. Overrun(shm', shm0, c + 1)
            BY <1>2, <1>3, <3>3, <3>5, OverrunWritten
        <3>7. c + 1 \notin UsedPages(shm0)
            BY <1>2, <1>9, <3>4, FreeAndUsed
        <3>8. EntriesMoved(shm', shm0, c + 1 + 1)
            BY <1>5, <1>6, <1>11, <3>3, <3>7, EntriesSame
        <3> QED BY <1>6, <2>3, <3>3, <3>6, <3>8
    <2>6. CASE t[c + 1] # t[c] /\ t[c + 1] # -1
        <3>1. t[c + 1] \in Slots /\ c + 1 \in UsedPages(shm0)
            <4>1. t[c + 1] >= 0
                BY <1>2, <2>1, <2>6, TableFacts
            <4>2. c + 1 \in UsedPages(shm0)
                BY <1>9, <2>1, <4>1 DEF UsedPages
            <4> QED BY <1>2, <4>2
        <3>2. c + 1 \notin FreePages(shm0)
            BY <1>2, <1>9, <3>1, FreeAndUsed
        <3>3. First(shm0, t[c + 1]) = c + 1
            BY <1>2, <1>5, <1>9, <2>1, <2>6, <3>1, FirstAfterOther
        <3>4. shm' = [Moved EXCEPT !.index[t[c + 1]].firstPage = freeSpot + 1]
            BY <1>3, <2>3, <2>6 DEF Relinked
        <3>5. /\ shm'.index = [Moved.index EXCEPT ![t[c + 1]].firstPage = freeSpot + 1]
              /\ shm'.pageTable = Moved.pageTable
              /\ shm'.page = Moved.page /\ shm'.cacheAvail = Moved.cacheAvail
              /\ shm'.cacheTimestamp = Moved.cacheTimestamp
              /\ shm'.evictionPolicy = Moved.evictionPolicy
              /\ shm'.failed = Moved.failed /\ IsRecord(shm')
            BY <1>7, <3>4 DEF Segments, IsRecord
        <3>6. shm' \in Segments
            <4>1. Moved.index[t[c + 1]] \in Entries
                BY <1>7, <3>1 DEF Segments
            <4>2. freeSpot + 1 \in Int
                BY <1>4
            <4>3. [Moved.index[t[c + 1]] EXCEPT !.firstPage = freeSpot + 1] \in Entries
                BY ONLY <4>1, <4>2 DEF Entries
            <4>4. shm'.index \in [Slots -> Entries]
                BY <1>7, <3>1, <3>5, <4>3 DEF Segments
            <4> QED BY <1>7, <3>5, <4>4 DEF Segments, IsRecord
        <3>7. EntriesMoved(Moved, shm0, c + 1)
            BY <1>5, <1>6, EntriesSame
        <3>8. EntriesMoved(shm', shm0, c + 1 + 1)
            <4>1. shm'.index = [Moved.index EXCEPT ![shm0.pageTable[c + 1]].firstPage
                                                     = NewPosition(shm0, c + 1)]
                BY <1>4, <1>9, <3>5
            <4> QED BY <1>5, <1>7, <1>9, <3>1, <3>3, <3>7, <4>1, EntryRelinked
        <3>9. Overrun(shm', shm0, c + 1)
            <4>1. c \notin Overruns(shm0)
                BY <1>2, <1>9, <3>2, NoOverrun
            <4>2. Overrun(shm, shm0, c + 1)
                BY <1>2, <1>5, <4>1, OverrunPassed
            <4> QED BY <1>6, <3>5, <4>2 DEF Overrun
        <3> QED BY <1>6, <2>3, <3>5, <3>6, <3>8, <3>9
    <2> QED BY <2>4, <2>5, <2>6
<1> QED BY <1>13, <1>14

-----------------------------------------------------------------------------
(* The invariant gives the property: the second part because no round        *)
(* throws and pages move left, the third because the pieces of the pages    *)
(* differ and each lies at one place.                                       *)
LEMMA InvImpliesSound == DefragmentInv => DefragmentSound
<1> SUFFICES ASSUME DefragmentInv
             PROVE  DefragmentSound
    OBVIOUS
<1> DEFINE c == currentPage
           N(p) == NewPosition(shm0, p)
<1>1. ImplementsDefragment
    BY DEF ImplementsDefragment, DefragmentInv
<1>2. /\ IsTable(shm0.pageTable) /\ c \in Nat /\ c \in 0 .. NumPages /\ NumPages \in Nat
      /\ \A p \in UsedPages(shm0) : p \in Pages
    BY LoopFacts DEF DefragmentInv, LoopPosition
<1>3. NeverThrows
    <2>1. N(c) \in 0 .. c
        BY <1>2, NewPositionFacts
    <2>2. freeSpot = 0 \/ freeSpot = N(c)
        BY DEF DefragmentInv, LoopPosition
    <2>3. freeSpot <= c
        BY <1>2, <2>1, <2>2
    <2> QED BY <2>3 DEF NeverThrows, DefragmentInv, LoopPosition
<1>4. PagesMoved(shm, shm0, c) /\ Consistent(shm0)
    BY DEF DefragmentInv
<1>5. \A p \in UsedPages(shm0) : shm0.page[p] # Junk
    BY <1>2, <1>4, FreeAndUsed DEF Consistent
<1>6. ASSUME NEW p \in UsedPages(shm0), NEW q \in Pages, shm.page[q] = shm0.page[p]
      PROVE  q = IF p < c THEN N(p) ELSE p
    <2>1. q \in Nat /\ p \in Nat
        BY <1>2, PageFacts
    <2>2. CASE q >= c
        <3>1. shm0.page[q] = shm0.page[p]
            BY <1>4, <1>6, <2>2 DEF PagesMoved
        <3>2. q \in UsedPages(shm0)
            BY <1>2, <1>4, <1>5, <3>1, FreeAndUsed DEF Consistent
        <3>3. q = p
            BY <1>4, <3>1, <3>2 DEF Consistent
        <3> QED BY <1>2, <2>1, <2>2, <3>3
    <2>3. CASE q < c
        <3>1. q < N(c)
            <4>1. N(c) \in 0 .. c
                BY <1>2, NewPositionFacts
            <4>2. ~(N(c) <= q)
                BY <1>4, <1>5, <1>6, <2>3 DEF PagesMoved
            <4> HIDE DEF N
            <4> QED BY <1>2, <2>1, <4>1, <4>2
        <3>2. q < Cardinality(UsedPages(shm0)) /\ Cardinality(UsedPages(shm0)) \in Nat
            <4>1. /\ N(c) <= N(NumPages) /\ N(NumPages) = Cardinality(UsedPages(shm0))
                  /\ N(c) \in 0 .. c
                <5>1. NumPages \in c .. NumPages
                    BY <1>2
                <5> QED BY <1>2, <5>1, NewPositionFacts
            <4>2. Cardinality(UsedPages(shm0)) \in Nat
                BY <1>2, FreeAndUsed
            <4> HIDE DEF N
            <4> QED BY <1>2, <2>1, <3>1, <4>1, <4>2
        <3>3. PICK r \in UsedPages(shm0) : N(r) = q
            <4>1. q \in 0 .. Cardinality(UsedPages(shm0)) - 1
                BY <2>1, <3>2
            <4> QED BY <1>2, <4>1, NewPositionOnto
        <3>4. r < c
            <4>1. r \in Nat /\ r \in 0 .. NumPages
                BY <1>2, PageFacts DEF Pages
            <4>2. ASSUME r >= c
                  PROVE  FALSE
                <5>1. r \in c .. NumPages
                    BY <1>2, <4>1, <4>2
                <5>2. N(c) <= N(r) /\ N(c) \in 0 .. c
                    BY <1>2, <5>1, NewPositionFacts
                <5> HIDE DEF N
                <5> QED BY <1>2, <2>1, <3>1, <3>3, <5>2
            <4> QED BY <1>2, <4>1, <4>2
        <3>5. shm0.page[r] = shm0.page[p]
            BY <1>4, <1>6, <3>3, <3>4 DEF PagesMoved
        <3>6. r = p
            BY <1>4, <3>5 DEF Consistent
        <3> QED BY <3>3, <3>4, <3>6
    <2> QED BY <1>2, <2>1, <2>2, <2>3
<1>7. ASSUME NEW p \in UsedPages(shm0)
      PROVE  Cardinality({q \in Pages : shm.page[q] = shm0.page[p]}) = 1
    <2> DEFINE at == IF p < c THEN N(p) ELSE p
    <2>1. at \in Pages /\ shm.page[at] = shm0.page[p]
        <3>1. CASE p < c
            BY <1>2, <1>4, <3>1, NewPositionFacts DEF PagesMoved
        <3>2. CASE ~(p < c)
            <4>1. p \in Pages /\ p \in Nat
                BY <1>2, PageFacts
            <4>2. p >= c
                BY <1>2, <3>2, <4>1
            <4> QED BY <1>4, <3>2, <4>1, <4>2 DEF PagesMoved
        <3> QED BY <3>1, <3>2
    <2>2. \A q \in Pages : shm.page[q] = shm0.page[p] => q = at
        BY <1>6
    <2> HIDE DEF at
    <2>3. {q \in Pages : shm.page[q] = shm0.page[p]} = {at}
        BY <2>1, <2>2
    <2>4. Cardinality({at}) = 1
        BY FS_Singleton
    <2> QED BY <2>3, <2>4
<1>8. NoPageLost
    BY <1>7 DEF NoPageLost
<1> QED BY <1>1, <1>3, <1>8 DEF DefragmentSound

(* On every consistent segment, whatever the number of pages, the loop of   *)
(* defragment() (ksdcmemory.cpp:513-597) packs the used pages to the left   *)
(* in their order, lets every entry follow its first page, overruns the     *)
(* header as the operator defragment says, throws nothing, and loses no     *)
(* page between two rounds.                                                 *)
THEOREM LoopDefragments == LoopSpec => []DefragmentSound
<1>1. LoopInit => DefragmentInv
    BY InitDefragmentInv
<1>2. DefragmentInv /\ [LoopNext \/ Terminated]_loopVars => DefragmentInv'
    <2> SUFFICES ASSUME DefragmentInv, [LoopNext \/ Terminated]_loopVars
                 PROVE  DefragmentInv'
        OBVIOUS
    <2>1. CASE BeginLoop
        BY <2>1, BeginKeepsInv
    <2>2. CASE SkipUsed
        BY <2>2, SkipUsedKeepsInv
    <2>3. CASE SkipFree
        BY <2>3, SkipFreeKeepsInv
    <2>4. CASE Finish
        BY <2>4, FinishKeepsInv
    <2>5. CASE StartMove
        BY <2>5, StartMoveKeepsInv
    <2>6. CASE MovePage
        BY <2>6, MovePageKeepsInv
    <2>7. CASE EndMove
        BY <2>7, EndMoveKeepsInv
    <2>8. CASE UNCHANGED loopVars
        BY <2>8 DEF loopVars, DefragmentInv, LoopPosition, Relinks
    <2> QED BY <2>1, <2>2, <2>3, <2>4, <2>5, <2>6, <2>7, <2>8 DEF LoopNext, Terminated
<1>3. DefragmentInv => DefragmentSound
    BY InvImpliesSound
<1> QED BY <1>1, <1>2, <1>3, PTL DEF LoopSpec

=============================================================================
