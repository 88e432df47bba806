-------------------------- MODULE KSDCMemoryProofs --------------------------
(***************************************************************************)
(* Lemmas about the helpers of the segment (ksdcmemory.cpp), for any       *)
(* number of pages and slots: what findEmptyPages(), removeEntry() and     *)
(* defragment() do to a segment whose tables agree. KSharedDataCacheProofs *)
(* builds on them.                                                         *)
(***************************************************************************)
EXTENDS KSDCMemory, FiniteSetTheorems, TLAPS

(* A non-empty set of naturals has a least member: proper subsets of Nat   *)
(* are well-founded, so of the intervals 0 .. x - 1 one is smallest.       *)
LEMMA LeastNatural ==
    ASSUME NEW S, S \subseteq Nat, S # {}
    PROVE  \E x \in S : \A y \in S : x <= y
<1> DEFINE T == {0 .. x - 1 : x \in S}
<1>1. IsWellFoundedOn(StrictSubsetOrdering(Nat), FiniteSubsetsOf(Nat))
    BY FS_StrictSubsetOrderingWellFounded
<1>2. T \subseteq FiniteSubsetsOf(Nat) /\ T # {}
    <2>1. \A x \in S : IsFiniteSet(0 .. x - 1)
        <3> TAKE x \in S
        <3>1. 0 \in Int /\ x - 1 \in Int
            OBVIOUS
        <3> QED BY ONLY <3>1, FS_Interval
    <2>2. \A x \in S : 0 .. x - 1 \in SUBSET Nat
        OBVIOUS
    <2> QED BY <2>1, <2>2 DEF FiniteSubsetsOf
<1>3. PICK u \in T : \A v \in T : ~ (<<v, u>> \in StrictSubsetOrdering(Nat))
    <2> HIDE DEF T
    <2> QED BY <1>1, <1>2, WFMin
<1>4. PICK x \in S : u = 0 .. x - 1
    BY <1>3
<1>5. ASSUME NEW y \in S, y < x
      PROVE  FALSE
    <2>1. 0 .. y - 1 \in T
        BY <1>5
    <2>2. 0 .. y - 1 \subseteq u /\ y \in u /\ y \notin 0 .. y - 1
        BY <1>5, <1>4
    <2>3. <<0 .. y - 1, u>> \in StrictSubsetOrdering(Nat)
        BY <1>2, <1>3, <2>1, <2>2 DEF StrictSubsetOrdering, FiniteSubsetsOf
    <2> QED BY <2>1, <2>3, <1>3
<1> QED BY <1>5

(* The n numbers from a on. *)
LEMMA IntervalSize ==
    ASSUME NEW a \in Int, NEW n \in Nat
    PROVE  IsFiniteSet(a .. a + n - 1) /\ Cardinality(a .. a + n - 1) = n
<1>1. a \in Int /\ a + n - 1 \in Int
    OBVIOUS
<1>2. IsFiniteSet(a .. a + n - 1)
      /\ Cardinality(a .. a + n - 1)
            = IF a > a + n - 1 THEN 0 ELSE a + n - 1 - a + 1
    BY ONLY <1>1, FS_Interval
<1> QED BY <1>2

(* intCeil() of a size in pages: enough, and not a page too many. *)
LEMMA CeilFacts ==
    ASSUME NEW s \in Nat
    PROVE  /\ intCeil(s, PageSize) \in Nat
           /\ intCeil(s, PageSize) * PageSize >= s
           /\ intCeil(s, PageSize) * PageSize < s + PageSize
           /\ s > 0 => intCeil(s, PageSize) >= 1
<1>1. PageSize \in Nat /\ PageSize >= 1
    BY SizesAssumption
<1> QED BY <1>1 DEF intCeil

(* The numbers of pages and slots are finite, and there is one of each. *)
LEMMA PageFacts ==
    /\ NumPages \in Nat /\ NumPages >= 2
    /\ NumSlots \in Nat /\ NumSlots >= 1
    /\ Pages \subseteq Nat /\ IsFiniteSet(Pages) /\ Cardinality(Pages) = NumPages
    /\ Slots \subseteq Nat /\ IsFiniteSet(Slots)
<1>1. NumPages \in Nat /\ NumPages >= 2
    BY SizesAssumption
<1>2. NumSlots \in Nat /\ NumSlots >= 1
    BY <1>1 DEF NumSlots
<1>3. 0 \in Int /\ NumPages - 1 \in Int /\ NumSlots - 1 \in Int
    BY <1>1, <1>2
<1>4. IsFiniteSet(Pages) /\ Cardinality(Pages) = NumPages
    <2>1. IsFiniteSet(0 .. NumPages - 1)
          /\ Cardinality(0 .. NumPages - 1)
               = IF 0 > NumPages - 1 THEN 0 ELSE NumPages - 1 - 0 + 1
        BY ONLY <1>3, FS_Interval
    <2> QED BY <2>1, <1>1 DEF Pages
<1>5. IsFiniteSet(Slots)
    BY ONLY <1>3, FS_Interval DEF Slots
<1> QED BY <1>1, <1>2, <1>4, <1>5 DEF Pages, Slots

(* A page table: every page links to a slot or to none. *)
IsTable(t) == t \in [Pages -> Slots \cup {-1}]

(* What one word of a page table can be. *)
LEMMA TableFacts ==
    ASSUME NEW t, IsTable(t), NEW p \in Pages
    PROVE  t[p] \in Int /\ t[p] >= -1 /\ (t[p] >= 0 <=> t[p] \in Slots)
BY PageFacts DEF IsTable, Slots

(* A page is free or used, and cacheAvail, which counts the free ones,     *)
(* stays within 0 .. NumPages.                                             *)
LEMMA FreeAndUsed ==
    ASSUME NEW m, IsTable(m.pageTable)
    PROVE  /\ IsFiniteSet(FreePages(m)) /\ IsFiniteSet(UsedPages(m))
           /\ Cardinality(FreePages(m)) \in 0 .. NumPages
           /\ Cardinality(UsedPages(m)) \in 0 .. NumPages
           /\ Cardinality(FreePages(m)) + Cardinality(UsedPages(m)) = NumPages
           /\ FreePages(m) = Pages \ UsedPages(m)
           /\ UsedPages(m) \subseteq Pages
<1>1. FreePages(m) = Pages \ UsedPages(m) /\ UsedPages(m) \in SUBSET Pages
    BY TableFacts DEF FreePages, UsedPages
<1>2. IsFiniteSet(UsedPages(m))
    BY <1>1, PageFacts, FS_Subset
<1>3. /\ IsFiniteSet(FreePages(m))
      /\ Cardinality(FreePages(m))
            = Cardinality(Pages) - Cardinality(Pages \cap UsedPages(m))
    BY <1>1, PageFacts, FS_Difference
<1>4. Pages \cap UsedPages(m) = UsedPages(m)
    BY <1>1
<1>5. Cardinality(UsedPages(m)) \in Nat /\ Cardinality(FreePages(m)) \in Nat
    BY <1>2, <1>3, FS_CardinalityType
<1>6. Cardinality(FreePages(m)) = NumPages - Cardinality(UsedPages(m))
    BY <1>3, <1>4, PageFacts
<1> QED BY <1>1, <1>2, <1>3, <1>5, <1>6, PageFacts

-----------------------------------------------------------------------------
(* findEmptyPages() returns NumPages, or the first page of a free run of   *)
(* the length asked for, and does so whenever there is one.                *)
LEMMA FindEmptyPages ==
    ASSUME NEW m, NEW n \in Nat
    PROVE  /\ findEmptyPages(m, n) \in 0 .. NumPages
           /\ findEmptyPages(m, n) < NumPages =>
                /\ findEmptyPages(m, n) \in Pages
                /\ IsFreeRun(m, findEmptyPages(m, n), n)
           /\ (\E p \in Pages : IsFreeRun(m, p, n)) => findEmptyPages(m, n) < NumPages
<1> DEFINE S == {p \in Pages : IsFreeRun(m, p, n)}
<1>1. CASE S = {}
    BY <1>1, PageFacts DEF findEmptyPages
<1>2. CASE S # {}
    <2>1. S \subseteq Nat
        BY PageFacts
    <2>2. PICK p \in S : \A q \in S : p <= q
        BY <1>2, <2>1, LeastNatural
    <2>3. p \in Pages /\ IsFreeRun(m, p, n)
          /\ \A q \in Pages : IsFreeRun(m, q, n) => p <= q
        BY <2>2
    <2>4. findEmptyPages(m, n) \in Pages /\ IsFreeRun(m, findEmptyPages(m, n), n)
        BY <2>3 DEF findEmptyPages
    <2> QED BY <2>4, PageFacts DEF Pages
<1> QED BY <1>1, <1>2

-----------------------------------------------------------------------------
(* What defragment() does to the page at p. *)

(* The new position of page r is that of page p before it, plus the used   *)
(* pages between them.                                                     *)
LEMMA NewPositionStep ==
    ASSUME NEW m, IsTable(m.pageTable), NEW p \in 0 .. NumPages, NEW r \in p .. NumPages
    PROVE  /\ NewPosition(m, p) \in 0 .. p
           /\ NewPosition(m, r)
                = NewPosition(m, p) + Cardinality({q \in p .. r - 1 : m.pageTable[q] >= 0})
           /\ Cardinality({q \in p .. r - 1 : m.pageTable[q] >= 0}) \in 0 .. r - p
<1> DEFINE U(a, b) == {q \in a .. b - 1 : m.pageTable[q] >= 0}
<1>1. ASSUME NEW a \in Nat, NEW b \in Nat, a <= b
      PROVE  IsFiniteSet(U(a, b)) /\ Cardinality(U(a, b)) \in 0 .. b - a
    <2>1. a \in Int /\ b - 1 \in Int
        BY <1>1
    <2>2. IsFiniteSet(a .. b - 1)
          /\ Cardinality(a .. b - 1) = IF a > b - 1 THEN 0 ELSE b - 1 - a + 1
        BY ONLY <2>1, FS_Interval
    <2>3. Cardinality(a .. b - 1) = b - a
        BY <2>2, <1>1
    <2>4. U(a, b) \in SUBSET (a .. b - 1)
        OBVIOUS
    <2>5. IsFiniteSet(U(a, b)) /\ Cardinality(U(a, b)) <= Cardinality(a .. b - 1)
        BY ONLY <2>2, <2>4, FS_Subset
    <2>6. Cardinality(U(a, b)) \in Nat
        BY ONLY <2>5, FS_CardinalityType
    <2> QED BY <2>3, <2>5, <2>6, <1>1
<1>2. p \in Nat /\ r \in Nat /\ p <= r
    BY PageFacts
<1>3. U(0, r) = U(0, p) \cup U(p, r) /\ U(0, p) \cap U(p, r) = {}
    BY <1>2
<1>4. /\ IsFiniteSet(U(0, p)) /\ IsFiniteSet(U(p, r))
      /\ Cardinality(U(0, p)) \in 0 .. p /\ Cardinality(U(p, r)) \in 0 .. r - p
    <2> HIDE DEF U
    <2>1. IsFiniteSet(U(0, p)) /\ Cardinality(U(0, p)) \in 0 .. p - 0
        BY ONLY <1>1, <1>2
    <2>2. IsFiniteSet(U(p, r)) /\ Cardinality(U(p, r)) \in 0 .. r - p
        BY ONLY <1>1, <1>2
    <2> QED BY <1>2, <2>1, <2>2
<1>5. Cardinality(U(0, p) \cup U(p, r))
        = Cardinality(U(0, p)) + Cardinality(U(p, r)) - Cardinality(U(0, p) \cap U(p, r))
    <2> HIDE DEF U
    <2> QED BY ONLY <1>4, FS_Union
<1>6. Cardinality(U(0, p) \cap U(p, r)) = 0
    BY <1>3, FS_EmptySet
<1> QED BY <1>3, <1>4, <1>5, <1>6 DEF NewPosition

(* New positions never lie right of the old ones, keep the order of the    *)
(* pages and lie close together.                                           *)
LEMMA NewPositionFacts ==
    ASSUME NEW m, IsTable(m.pageTable)
    PROVE  /\ \A p \in 0 .. NumPages : NewPosition(m, p) \in 0 .. p
           /\ NewPosition(m, NumPages) = Cardinality(UsedPages(m))
           /\ \A p \in Pages : NewPosition(m, p) \in Pages
           /\ \A p \in 0 .. NumPages : \A r \in p .. NumPages :
                /\ NewPosition(m, p) <= NewPosition(m, r)
                /\ NewPosition(m, r) - NewPosition(m, p) <= r - p
           /\ \A p \in UsedPages(m) :
                /\ NewPosition(m, p + 1) = NewPosition(m, p) + 1
                /\ NewPosition(m, p) < Cardinality(UsedPages(m))
                /\ \A r \in p + 1 .. NumPages : NewPosition(m, p) < NewPosition(m, r)
           /\ \A p \in FreePages(m) : NewPosition(m, p + 1) = NewPosition(m, p)
<1>1. \A p \in 0 .. NumPages : \A r \in p .. NumPages :
        /\ NewPosition(m, p) \in 0 .. p
        /\ NewPosition(m, p) <= NewPosition(m, r)
        /\ NewPosition(m, r) - NewPosition(m, p) <= r - p
    <2> TAKE p \in 0 .. NumPages
    <2> TAKE r \in p .. NumPages
    <2>1. /\ NewPosition(m, p) \in 0 .. p
          /\ NewPosition(m, r)
               = NewPosition(m, p) + Cardinality({q \in p .. r - 1 : m.pageTable[q] >= 0})
          /\ Cardinality({q \in p .. r - 1 : m.pageTable[q] >= 0}) \in 0 .. r - p
        BY NewPositionStep
    <2>2. p \in Nat /\ r \in Nat
        BY PageFacts
    <2> QED BY <2>1, <2>2
<1>2. \A p \in 0 .. NumPages : NewPosition(m, p) \in 0 .. p
    BY <1>1, PageFacts
<1>3. NewPosition(m, NumPages) = Cardinality(UsedPages(m))
    <2>1. {q \in 0 .. NumPages - 1 : m.pageTable[q] >= 0} = UsedPages(m)
        BY DEF UsedPages, Pages
    <2> QED BY <2>1 DEF NewPosition
<1>4. \A p \in Pages : /\ p \in 0 .. NumPages /\ p + 1 \in p .. NumPages
                       /\ p + 1 \in 0 .. NumPages
    BY PageFacts DEF Pages
<1>5. \A p \in UsedPages(m) : NewPosition(m, p + 1) = NewPosition(m, p) + 1
    <2> TAKE p \in UsedPages(m)
    <2>1. p \in Pages /\ m.pageTable[p] >= 0
        BY DEF UsedPages
    <2>2. {q \in p .. p + 1 - 1 : m.pageTable[q] >= 0} = {p}
        BY <2>1, PageFacts
    <2>3. Cardinality({q \in p .. p + 1 - 1 : m.pageTable[q] >= 0}) = 1
        BY <2>2, FS_Singleton
    <2>4. p \in 0 .. NumPages /\ p + 1 \in p .. NumPages
        BY <1>4, <2>1
    <2> QED BY <2>3, <2>4, NewPositionStep
<1>6. \A p \in FreePages(m) : NewPosition(m, p + 1) = NewPosition(m, p)
    <2> TAKE p \in FreePages(m)
    <2>1. p \in Pages /\ m.pageTable[p] < 0 /\ m.pageTable[p] \in Int
        BY TableFacts DEF FreePages
    <2>2. {q \in p .. p + 1 - 1 : m.pageTable[q] >= 0} = {}
        BY <2>1, PageFacts
    <2>3. Cardinality({q \in p .. p + 1 - 1 : m.pageTable[q] >= 0}) = 0
        BY <2>2, FS_EmptySet
    <2>4. p \in 0 .. NumPages /\ p + 1 \in p .. NumPages
        BY <1>4, <2>1
    <2>5. NewPosition(m, p) \in 0 .. p
        BY <2>4, <1>2
    <2>6. NewPosition(m, p + 1)
            = NewPosition(m, p) + Cardinality({q \in p .. p + 1 - 1 : m.pageTable[q] >= 0})
        BY <2>4, NewPositionStep
    <2> QED BY <2>1, <2>3, <2>5, <2>6, PageFacts
<1>7. \A p \in UsedPages(m) : \A r \in p + 1 .. NumPages :
        NewPosition(m, p) < NewPosition(m, r)
    <2> TAKE p \in UsedPages(m)
    <2>1. p \in Pages
        BY DEF UsedPages
    <2> TAKE r \in p + 1 .. NumPages
    <2>2. NewPosition(m, p + 1) <= NewPosition(m, r)
        BY <1>1, <1>4, <2>1
    <2>3. r \in 0 .. NumPages
        BY <2>1, PageFacts
    <2> QED BY <2>1, <2>2, <2>3, <1>2, <1>4, <1>5
<1>8. \A p \in UsedPages(m) : NewPosition(m, p) < Cardinality(UsedPages(m))
    <2> TAKE p \in UsedPages(m)
    <2>1. NumPages \in p + 1 .. NumPages
        BY PageFacts DEF UsedPages, Pages
    <2> QED BY <2>1, <1>3, <1>7
<1>9. \A p \in Pages : NewPosition(m, p) \in Pages
    BY <1>2, <1>4, PageFacts DEF Pages
<1> QED BY <1>1, <1>2, <1>3, <1>5, <1>6, <1>7, <1>8, <1>9

(* Every position left of the number of used pages is the new position of  *)
(* some used page: defragment() leaves no gap.                             *)
LEMMA NewPositionOnto ==
    ASSUME NEW m, IsTable(m.pageTable),
           NEW q \in 0 .. Cardinality(UsedPages(m)) - 1
    PROVE  \E p \in UsedPages(m) : NewPosition(m, p) = q
<1> DEFINE U == UsedPages(m)
           n == Cardinality(U)
           f == [p \in U |-> NewPosition(m, p)]
<1>1. IsFiniteSet(U) /\ n \in 0 .. NumPages /\ U \subseteq Pages
    BY FreeAndUsed
<1>2. f \in [U -> 0 .. n - 1]
    <2>1. \A p \in U : NewPosition(m, p) \in 0 .. p /\ NewPosition(m, p) < n
        BY <1>1, NewPositionFacts, PageFacts DEF Pages
    <2> QED BY <2>1, <1>1, PageFacts
<1>3. \A p, r \in U : f[p] = f[r] => p = r
    <2>1. ASSUME NEW p \in U, NEW r \in U, p < r
          PROVE  NewPosition(m, p) < NewPosition(m, r)
        <3>1. r \in p + 1 .. NumPages
            BY <2>1, <1>1, PageFacts DEF Pages
        <3> QED BY <3>1, NewPositionFacts
    <2>2. \A p \in U : NewPosition(m, p) \in Nat
        BY <1>1, NewPositionFacts, PageFacts DEF Pages
    <2>3. ASSUME NEW p \in U, NEW r \in U, p # r
          PROVE  p < r \/ r < p
        <3>1. p \in Nat /\ r \in Nat
            BY <1>1, PageFacts
        <3> QED BY <3>1, <2>3
    <2>4. ASSUME NEW p \in U, NEW r \in U, p # r
          PROVE  f[p] # f[r]
        <3>1. f[p] \in Nat /\ f[r] \in Nat /\ f[p] = NewPosition(m, p) /\ f[r] = NewPosition(m, r)
            BY <2>2
        <3>2. f[p] < f[r] \/ f[r] < f[p]
            BY <3>1, <2>1, <2>3, <2>4
        <3> QED BY <3>1, <3>2
    <2> QED BY <2>4
<1>4. f \in Injection(U, 0 .. n - 1)
    BY <1>2, <1>3 DEF Injection, IsInjective
<1>5. IsFiniteSet(0 .. n - 1) /\ Cardinality(0 .. n - 1) = n
    <2>1. 0 \in Int /\ n - 1 \in Int
        BY <1>1, PageFacts
    <2>2. IsFiniteSet(0 .. n - 1)
          /\ Cardinality(0 .. n - 1) = IF 0 > n - 1 THEN 0 ELSE n - 1 - 0 + 1
        BY ONLY <2>1, FS_Interval
    <2> QED BY <2>2, <1>1, PageFacts
<1>6. f \in Surjection(U, 0 .. n - 1)
    <2> HIDE DEF f, n
    <2>1. Cardinality(U) = n
        BY DEF n
    <2> QED BY <1>4, <1>5, <2>1, FS_Injection
<1> QED BY <1>6 DEF Surjection

(* The pages of a run without a gap move together. *)
LEMMA NewPositionInRun ==
    ASSUME NEW m, IsTable(m.pageTable), NEW p \in Pages, NEW n \in Nat,
           p + n <= NumPages, \A q \in p .. p + n - 1 : m.pageTable[q] >= 0
    PROVE  \A k \in 0 .. n : NewPosition(m, p + k) = NewPosition(m, p) + k
<1> TAKE k \in 0 .. n
<1>1. p \in 0 .. NumPages /\ p + k \in p .. NumPages
    BY PageFacts DEF Pages
<1>2. p \in Int /\ k \in Nat
    BY PageFacts
<1>3. {q \in p .. p + k - 1 : m.pageTable[q] >= 0} = p .. p + k - 1
    BY PageFacts
<1>5. Cardinality(p .. p + k - 1) = k
    BY ONLY <1>2, IntervalSize
<1>6. NewPosition(m, p + k)
        = NewPosition(m, p) + Cardinality({q \in p .. p + k - 1 : m.pageTable[q] >= 0})
    BY <1>1, NewPositionStep
<1> QED BY <1>3, <1>5, <1>6

(* A segment is a record with these seven fields. *)
IsRecord(m) ==
    m = [index |-> m.index, pageTable |-> m.pageTable, page |-> m.page,
         cacheAvail |-> m.cacheAvail, failed |-> m.failed,
         cacheTimestamp |-> m.cacheTimestamp, evictionPolicy |-> m.evictionPolicy]

(* An entry is a record with these. *)
IsEntry(e) ==
    e = [fileNameHash |-> e.fileNameHash, totalItemSize |-> e.totalItemSize,
         useCount |-> e.useCount, addTime |-> e.addTime,
         lastUsedTime |-> e.lastUsedTime, firstPage |-> e.firstPage]

(* defragment() copies every used page and its link to its new position,   *)
(* and frees every page behind them.                                       *)
LEMMA DefragmentMovesPages ==
    ASSUME NEW m, IsRecord(m), IsTable(m.pageTable),
           m.cacheAvail = Cardinality(FreePages(m))
    PROVE  LET d == defragment(m) IN
           /\ IsTable(d.pageTable)
           /\ \A p \in UsedPages(m) :
                /\ d.pageTable[NewPosition(m, p)] = m.pageTable[p]
                /\ d.page[NewPosition(m, p)] = m.page[p]
           /\ \A q \in Pages :
                IF q < Cardinality(UsedPages(m))
                THEN \E p \in UsedPages(m) :
                        /\ q = NewPosition(m, p)
                        /\ d.pageTable[q] = m.pageTable[p]
                        /\ d.page[q] = m.page[p]
                ELSE d.pageTable[q] = -1
<1> DEFINE d == defragment(m)
           used == Cardinality(UsedPages(m))
           source == [q \in 0 .. used - 1 |->
                         CHOOSE p \in UsedPages(m) : NewPosition(m, p) = q]
<1>1. used \in 0 .. NumPages /\ m.cacheAvail = NumPages - used
      /\ UsedPages(m) \subseteq Pages /\ IsFiniteSet(UsedPages(m))
    BY FreeAndUsed, PageFacts
<1>2. CASE m.cacheAvail = NumPages
    <2>1. used = 0
        BY <1>1, <1>2, PageFacts
    <2>2. UsedPages(m) = {}
        BY <2>1, <1>1, FS_EmptySet
    <2>3. \A q \in Pages : m.pageTable[q] = -1
        BY <2>2, TableFacts DEF UsedPages
    <2>4. \A q \in Pages : ~(q < used)
        BY <2>1, PageFacts
    <2> QED BY <1>2, <2>2, <2>3, <2>4 DEF defragment
<1>3. CASE m.cacheAvail # NumPages
    <2>1. \A q \in 0 .. used - 1 :
            source[q] \in UsedPages(m) /\ NewPosition(m, source[q]) = q
        BY NewPositionOnto
    <2>2. \A p \in UsedPages(m) :
            /\ NewPosition(m, p) \in Pages /\ NewPosition(m, p) \in 0 .. used - 1
            /\ NewPosition(m, p) < used
        <3> TAKE p \in UsedPages(m)
        <3>1. p \in Pages /\ p \in 0 .. NumPages /\ p \in Nat
            BY <1>1, PageFacts DEF Pages
        <3>2. NewPosition(m, p) \in 0 .. p
            BY <3>1, NewPositionFacts
        <3>3. NewPosition(m, p) \in Pages
            BY <3>1, NewPositionFacts
        <3>4. NewPosition(m, p) < used
            BY NewPositionFacts
        <3> QED BY <1>1, <3>1, <3>2, <3>3, <3>4, PageFacts
    <2>3. ASSUME NEW p \in UsedPages(m), NEW r \in UsedPages(m),
                 NewPosition(m, p) = NewPosition(m, r)
          PROVE  p = r
        <3>1. p \in 0 .. NumPages - 1 /\ r \in 0 .. NumPages - 1
            BY <1>1 DEF Pages
        <3>2. NumPages \in Nat /\ NewPosition(m, p) \in Int
            BY <2>2, PageFacts
        <3>3. r \in p + 1 .. NumPages => NewPosition(m, p) < NewPosition(m, r)
            BY NewPositionFacts
        <3>4. p \in r + 1 .. NumPages => NewPosition(m, r) < NewPosition(m, p)
            BY NewPositionFacts
        <3>5. p = r \/ r \in p + 1 .. NumPages \/ p \in r + 1 .. NumPages
            BY <3>1, <3>2
        <3> QED BY <2>3, <3>2, <3>3, <3>4, <3>5
    <2>4. \A p \in UsedPages(m) : source[NewPosition(m, p)] = p
        BY <2>1, <2>2, <2>3
    <2>5. /\ d.pageTable = [q \in Pages |->
                IF q < used THEN m.pageTable[source[q]] ELSE -1]
          /\ d.page = [q \in Pages |->
                IF q < used THEN m.page[source[q]] ELSE Junk]
        BY <1>3 DEF defragment, IsRecord
    <2> HIDE DEF d, source, used
    <2>6. \A q \in Pages : q < used => q \in 0 .. used - 1
        BY <1>1, PageFacts
    <2>7. IsTable(d.pageTable)
        BY <2>1, <2>5, <2>6, <1>1 DEF IsTable
    <2>8. \A p \in UsedPages(m) :
                /\ d.pageTable[NewPosition(m, p)] = m.pageTable[p]
                /\ d.page[NewPosition(m, p)] = m.page[p]
        BY <2>2, <2>4, <2>5
    <2>9. \A q \in Pages :
                IF q < used
                THEN \E p \in UsedPages(m) :
                        /\ q = NewPosition(m, p)
                        /\ d.pageTable[q] = m.pageTable[p]
                        /\ d.page[q] = m.page[p]
                ELSE d.pageTable[q] = -1
        BY <2>1, <2>5, <2>6
    <2> QED BY <2>7, <2>8, <2>9 DEF d, used
<1> QED BY <1>2, <1>3

(* defragment() changes nothing of an entry but its first page, and of the *)
(* header words only the timestamp.                                        *)
LEMMA DefragmentMovesEntries ==
    ASSUME NEW m, IsRecord(m), IsTable(m.pageTable),
           m.cacheAvail = Cardinality(FreePages(m)),
           m.index = [i \in Slots |-> m.index[i]],
           \A i \in Slots : IsEntry(m.index[i])
    PROVE  LET d == defragment(m) IN
           /\ d.index = [i \in Slots |->
                 IF m.index[i].firstPage \in UsedPages(m)
                 THEN [m.index[i] EXCEPT
                         !.firstPage = NewPosition(m, m.index[i].firstPage)]
                 ELSE m.index[i]]
           /\ d.cacheAvail = m.cacheAvail
           /\ d.failed = m.failed
           /\ d.evictionPolicy = m.evictionPolicy
           /\ IsRecord(d)
<1>1. CASE m.cacheAvail = NumPages
    <2>1. Cardinality(UsedPages(m)) = 0 /\ IsFiniteSet(UsedPages(m))
        <3>1. /\ Cardinality(UsedPages(m)) \in 0 .. NumPages
              /\ Cardinality(FreePages(m)) \in 0 .. NumPages
              /\ Cardinality(FreePages(m)) + Cardinality(UsedPages(m)) = NumPages
              /\ IsFiniteSet(UsedPages(m))
            BY FreeAndUsed
        <3> QED BY <1>1, <3>1, PageFacts
    <2>2. UsedPages(m) = {}
        BY <2>1, FS_EmptySet
    <2>3. defragment(m) = m
        BY <1>1 DEF defragment
    <2> QED BY <2>2, <2>3
<1>2. CASE m.cacheAvail # NumPages
    BY <1>2 DEF defragment, IsRecord
<1> QED BY <1>1, <1>2

-----------------------------------------------------------------------------
(* Segments whose tables agree. *)

(* A segment of the right shape, whatever its words mean. *)
HasShape(m) ==
    /\ IsRecord(m)
    /\ IsTable(m.pageTable)
    /\ m.index = [i \in Slots |-> m.index[i]]
    /\ \A i \in Slots :
          /\ IsEntry(m.index[i])
          /\ m.index[i].totalItemSize \in Nat
          /\ m.index[i].useCount \in Nat
          /\ m.index[i].firstPage \in Pages \cup {-1}

(* The pages that the size of an entry calls for. *)
PageCount(e) == intCeil(e.totalItemSize, PageSize)

(* The run removeEntry() frees is all that the entry owns and nothing      *)
(* else, so removeEntry() does not take the entry for corrupt.             *)
LEMMA OwnedRun ==
    ASSUME NEW m, HasShape(m), NEW i \in Slots, OwnsRun(m, i)
    PROVE  LET first == m.index[i].firstPage
               n == PageCount(m.index[i])
           IN /\ first \in Pages /\ n \in Nat /\ n >= 1 /\ first + n <= NumPages
              /\ Run(m, i) = first .. first + n - 1
              /\ Run(m, i) = {p \in Pages : m.pageTable[p] = i}
              /\ IsFiniteSet(Run(m, i)) /\ Cardinality(Run(m, i)) = n
              /\ first .. first + n - 1 \subseteq UsedPages(m)
              /\ ~RemoveEntryThrows(m, i) \/ m.cacheAvail > NumPages
<1> DEFINE first == m.index[i].firstPage
           n == PageCount(m.index[i])
<1>1. first \in Pages /\ n \in Nat /\ n >= 1 /\ first + n <= NumPages
      /\ \A p \in Pages : m.pageTable[p] = i <=> p \in first .. first + n - 1
    BY CeilFacts DEF HasShape, OwnsRun, PageCount
<1> HIDE DEF first, n
<1>2. first .. first + n - 1 \subseteq Pages
    BY <1>1, PageFacts DEF Pages
<1>3. Run(m, i) = first .. first + n - 1
    <2>1. Run(m, i) = {p \in Pages : /\ first >= 0
                                     /\ p >= first
                                     /\ \A q \in first .. p : m.pageTable[q] = i}
        BY DEF Run, first
    <2>2. ASSUME NEW p \in Pages, p >= first, \A q \in first .. p : m.pageTable[q] = i
          PROVE  p \in first .. first + n - 1
        <3>1. p \in first .. p
            BY <2>2, <1>1, PageFacts
        <3> QED BY <3>1, <2>2, <1>1
    <2>3. ASSUME NEW p \in first .. first + n - 1
          PROVE  p \in Pages /\ p >= first /\ first >= 0
                 /\ \A q \in first .. p : m.pageTable[q] = i
        <3>1. first \in Nat /\ p \in Nat
            BY <1>1, <1>2, PageFacts
        <3>2. \A q \in first .. p : q \in first .. first + n - 1
            BY <3>1, <1>1
        <3> QED BY <3>1, <3>2, <1>1, <1>2
    <2> QED BY <2>1, <2>2, <2>3
<1>4. Run(m, i) = {p \in Pages : m.pageTable[p] = i}
    BY <1>1, <1>2, <1>3
<1>5. IsFiniteSet(Run(m, i)) /\ Cardinality(Run(m, i)) = n
    <2>1. first \in Int
        BY <1>1, PageFacts
    <2>2. IsFiniteSet(first .. first + n - 1)
          /\ Cardinality(first .. first + n - 1) = n
        BY <2>1, <1>1, IntervalSize
    <2> QED BY <1>3, <2>2
<1>6. first .. first + n - 1 \subseteq UsedPages(m)
    BY <1>1, <1>2, PageFacts DEF UsedPages
<1>7. m.pageTable[first] = i
    <2>1. first \in first .. first + n - 1
        BY <1>1, PageFacts
    <2> QED BY <2>1, <1>1
<1>8. ~RemoveEntryThrows(m, i) \/ m.cacheAvail > NumPages
    BY <1>1, <1>5, <1>7 DEF RemoveEntryThrows, PageCount, first, n
<1> QED BY <1>1, <1>3, <1>4, <1>5, <1>6, <1>8 DEF first, n

(* defragment() moves the run of an entry as a whole, with its contents,   *)
(* and lets the entry point at it.                                         *)
LEMMA DefragmentKeepsRun ==
    ASSUME NEW m, HasShape(m), m.cacheAvail = Cardinality(FreePages(m)),
           NEW i \in Slots, OwnsRun(m, i)
    PROVE  LET d == defragment(m)
               first == m.index[i].firstPage
               n == PageCount(m.index[i])
           IN /\ d.index[i] = [m.index[i] EXCEPT !.firstPage = NewPosition(m, first)]
              /\ NewPosition(m, first) \in Pages
              /\ PageCount(d.index[i]) = n
              /\ OwnsRun(d, i)
              /\ \A k \in 0 .. n - 1 :
                    d.page[NewPosition(m, first) + k] = m.page[first + k]
<1> DEFINE d == defragment(m)
           first == m.index[i].firstPage
           n == PageCount(m.index[i])
           moved == NewPosition(m, first)
<1>1. first \in Pages /\ n \in Nat /\ n >= 1 /\ first + n <= NumPages
      /\ first .. first + n - 1 \subseteq UsedPages(m)
      /\ first .. first + n - 1 = {p \in Pages : m.pageTable[p] = i}
    BY OwnedRun
<1>2. first \in Nat /\ first \in first .. first + n - 1
    <2> HIDE DEF first, n
    <2>1. first \in Nat
        BY <1>1, PageFacts
    <2> QED BY <2>1, <1>1
<1>3. d.index[i] = [m.index[i] EXCEPT !.firstPage = moved]
    <2>1. d.index = [j \in Slots |->
             IF m.index[j].firstPage \in UsedPages(m)
             THEN [m.index[j] EXCEPT
                     !.firstPage = NewPosition(m, m.index[j].firstPage)]
             ELSE m.index[j]]
        BY DefragmentMovesEntries DEF HasShape
    <2> HIDE DEF d
    <2> QED BY <1>1, <1>2, <2>1
<1>4. d.index[i].firstPage = moved
      /\ d.index[i].totalItemSize = m.index[i].totalItemSize
    <2> HIDE DEF d, moved
    <2> QED BY <1>3 DEF HasShape, IsEntry
<1>5. \A k \in 0 .. n - 1 : NewPosition(m, first + k) = moved + k
    <2>1. \A q \in first .. first + n - 1 : m.pageTable[q] >= 0
        BY <1>1 DEF UsedPages
    <2>2. \A k \in 0 .. n : NewPosition(m, first + k) = moved + k
        <3> HIDE DEF first, n
        <3>1. IsTable(m.pageTable)
            BY DEF HasShape
        <3> QED BY ONLY <1>1, <2>1, <3>1, NewPositionInRun DEF moved
    <2> QED BY <2>2, <1>1
<1>6. moved \in Pages /\ moved + n <= NumPages
    <2>1. moved \in 0 .. first /\ moved \in Pages
        <3>1. first \in 0 .. NumPages
            BY <1>1, PageFacts DEF Pages
        <3> QED BY <3>1, <1>1, NewPositionFacts DEF HasShape
    <2> QED BY <2>1, <1>1, <1>2, PageFacts
<1>7. \A p \in UsedPages(m) :
                /\ d.pageTable[NewPosition(m, p)] = m.pageTable[p]
                /\ d.page[NewPosition(m, p)] = m.page[p]
    BY DefragmentMovesPages DEF HasShape
<1>8. \A q \in Pages :
                IF q < Cardinality(UsedPages(m))
                THEN \E p \in UsedPages(m) :
                        /\ q = NewPosition(m, p)
                        /\ d.pageTable[q] = m.pageTable[p]
                        /\ d.page[q] = m.page[p]
                ELSE d.pageTable[q] = -1
    BY DefragmentMovesPages DEF HasShape
<1> HIDE DEF d, first, n, moved
<1>9. \A k \in 0 .. n - 1 : first + k \in first .. first + n - 1
    BY <1>1, <1>2
<1>10. \A k \in 0 .. n - 1 : /\ d.page[moved + k] = m.page[first + k]
                             /\ d.pageTable[moved + k] = i
    <2> TAKE k \in 0 .. n - 1
    <2>1. first + k \in UsedPages(m) /\ m.pageTable[first + k] = i
        BY <1>1, <1>9
    <2>2. NewPosition(m, first + k) = moved + k
        BY <1>5
    <2> QED BY <1>7, <2>1, <2>2
<1>11. ASSUME NEW q \in Pages
       PROVE  d.pageTable[q] = i <=> q \in moved .. moved + n - 1
    <2>1. ASSUME d.pageTable[q] = i PROVE q \in moved .. moved + n - 1
        <3>1. i # -1
            BY PageFacts
        <3>2. PICK p \in UsedPages(m) : q = NewPosition(m, p) /\ m.pageTable[p] = i
            BY <1>8, <2>1, <3>1
        <3>3. p \in first .. first + n - 1
            BY <1>1, <3>2 DEF UsedPages
        <3>4. p - first \in 0 .. n - 1 /\ first + (p - first) = p
            BY <3>3, <1>1, <1>2
        <3>5. q = moved + (p - first)
            BY <1>5, <3>2, <3>4
        <3> QED BY <3>4, <3>5, <1>1, <1>6, PageFacts
    <2>2. ASSUME q \in moved .. moved + n - 1 PROVE d.pageTable[q] = i
        <3>1. moved \in Nat
            BY <1>6, PageFacts
        <3>2. q - moved \in 0 .. n - 1 /\ moved + (q - moved) = q
            BY <2>2, <3>1, <1>1
        <3> QED BY <1>10, <3>2
    <2> QED BY <2>1, <2>2
<1>12. PageCount(d.index[i]) = n
    BY <1>4 DEF PageCount, n
<1>13. OwnsRun(d, i)
    <2>1. m.index[i].totalItemSize > 0
        BY DEF OwnsRun
    <2>2. intCeil(m.index[i].totalItemSize, PageSize) = n
        BY DEF n, PageCount
    <2> QED BY <1>4, <1>6, <1>11, <2>1, <2>2 DEF OwnsRun
<1> QED BY <1>3, <1>6, <1>10, <1>12, <1>13 DEF d, first, n, moved

(* After defragment() the free pages are one run at the end: what the      *)
(* second loop of removeUsedPages() would have to make up for never        *)
(* happens.                                                                *)
LEMMA DefragmentPacks ==
    ASSUME NEW m, HasShape(m), m.cacheAvail = Cardinality(FreePages(m))
    PROVE  LET d == defragment(m) IN
           /\ FreePages(d) = Cardinality(UsedPages(m)) .. NumPages - 1
           /\ d.cacheAvail = Cardinality(FreePages(d))
           /\ \A n \in 1 .. d.cacheAvail : findEmptyPages(d, n) < NumPages
<1> DEFINE d == defragment(m)
           used == Cardinality(UsedPages(m))
<1>1. used \in 0 .. NumPages /\ m.cacheAvail = NumPages - used
    BY FreeAndUsed, PageFacts DEF HasShape
<1>2. d.cacheAvail = m.cacheAvail
    BY DefragmentMovesEntries DEF HasShape
<1>3. IsTable(d.pageTable)
      /\ \A q \in Pages :
                IF q < used
                THEN \E p \in UsedPages(m) : d.pageTable[q] = m.pageTable[p]
                ELSE d.pageTable[q] = -1
    BY DefragmentMovesPages DEF HasShape
<1> HIDE DEF d, used
<1>4. \A q \in Pages : d.pageTable[q] < 0 <=> q \in used .. NumPages - 1
    <2> TAKE q \in Pages
    <2>1. q \in 0 .. NumPages - 1
        BY DEF Pages
    <2>2. CASE q < used
        <3>1. PICK p \in UsedPages(m) : d.pageTable[q] = m.pageTable[p]
            BY <1>3, <2>2
        <3>2. m.pageTable[p] \in Int /\ m.pageTable[p] >= 0
            BY TableFacts DEF UsedPages, HasShape
        <3> QED BY <2>1, <2>2, <3>1, <3>2, <1>1, PageFacts
    <2>3. CASE ~(q < used)
        BY <1>1, <1>3, <2>1, <2>3, PageFacts
    <2> QED BY <2>2, <2>3
<1>5. FreePages(d) = used .. NumPages - 1
    BY <1>1, <1>4, PageFacts DEF FreePages, Pages
<1>6. Cardinality(FreePages(d)) = NumPages - used
    <2>1. used \in Int /\ NumPages - 1 \in Int
        BY <1>1, PageFacts
    <2>2. Cardinality(used .. NumPages - 1)
            = IF used > NumPages - 1 THEN 0 ELSE NumPages - 1 - used + 1
        BY ONLY <2>1, FS_Interval
    <2> QED BY <1>1, <1>5, <2>2, PageFacts
<1>7. ASSUME NEW n \in 1 .. NumPages - used
      PROVE  findEmptyPages(d, n) < NumPages
    <2>1. used \in Pages /\ n \in Nat
        BY <1>1, PageFacts DEF Pages
    <2>2. IsFreeRun(d, used, n)
        <3>1. used + n <= NumPages
            BY <1>1, PageFacts
        <3>2. \A p \in used .. used + n - 1 : p \in Pages /\ p \in used .. NumPages - 1
            BY <1>1, PageFacts DEF Pages
        <3> QED BY <1>4, <3>1, <3>2 DEF IsFreeRun
    <2> QED BY <2>1, <2>2, FindEmptyPages
<1> QED BY <1>1, <1>2, <1>5, <1>6, <1>7 DEF d, used

(* The last write that defragment() makes in front of the index table is   *)
(* about a page ...                                                        *)
LEMMA LastOverrunIsPage ==
    ASSUME NEW m, Overruns(m) # {}
    PROVE  /\ LastOverrun(m) \in Pages /\ LastOverrun(m) \in Overruns(m)
           /\ \A q \in Overruns(m) : q <= LastOverrun(m)
<1> DEFINE S == {NumPages - p : p \in Overruns(m)}
<1>1. Overruns(m) \subseteq Pages
    BY DEF Overruns, MovedPages, UsedPages
<1>2. S \subseteq Nat /\ S # {}
    BY <1>1, PageFacts DEF Pages
<1>3. PICK s \in S : \A x \in S : s <= x
    <2> HIDE DEF S
    <2> QED BY <1>2, LeastNatural
<1>4. PICK p \in Overruns(m) : s = NumPages - p
    BY <1>3
<1>5. \A q \in Overruns(m) : q <= p
    <2> TAKE q \in Overruns(m)
    <2>1. NumPages - p <= NumPages - q
        BY <1>3, <1>4
    <2>2. p \in Nat /\ q \in Nat /\ NumPages \in Nat
        BY <1>1, PageFacts
    <2> QED BY <2>1, <2>2
<1> QED BY <1>1, <1>5 DEF LastOverrun

(* ... so the timestamp that it overwrites is still a number. *)
LEMMA DefragmentTimestamp ==
    ASSUME NEW m, HasShape(m), m.cacheTimestamp \in Nat
    PROVE  defragment(m).cacheTimestamp \in Nat
<1>1. CASE m.cacheAvail = NumPages \/ Overruns(m) = {}
    BY <1>1 DEF defragment, HasShape, IsRecord
<1>2. CASE m.cacheAvail # NumPages /\ Overruns(m) # {}
    <2>1. NewPosition(m, LastOverrun(m)) \in Pages
        BY <1>2, LastOverrunIsPage, NewPositionFacts DEF HasShape
    <2>2. defragment(m).cacheTimestamp = NewPosition(m, LastOverrun(m)) + 1
        BY <1>2 DEF defragment, HasShape, IsRecord
    <2>3. NewPosition(m, LastOverrun(m)) \in Nat
        BY <2>1, PageFacts
    <2> QED BY <2>2, <2>3
<1> QED BY <1>1, <1>2

(* defragment() keeps the tables in agreement and the entries in use.       *)
LEMMA DefragmentAgrees ==
    ASSUME NEW m, HasShape(m), TablesAgree(m)
    PROVE  /\ HasShape(defragment(m))
           /\ TablesAgree(defragment(m))
           /\ InUse(defragment(m)) = InUse(m)
           /\ \A i \in InUse(m) :
                defragment(m).index[i] =
                    [m.index[i] EXCEPT !.firstPage = NewPosition(m, m.index[i].firstPage)]
           /\ \A i \in Slots \ InUse(m) : defragment(m).index[i] = m.index[i]
<1> DEFINE d == defragment(m)
<1>1. /\ \A i \in InUse(m) : OwnsRun(m, i)
      /\ \A i \in Slots \ InUse(m) : m.index[i] = FreeEntry
      /\ \A p \in UsedPages(m) : m.pageTable[p] \in InUse(m)
      /\ m.cacheAvail = Cardinality(FreePages(m))
      /\ InUse(m) \subseteq Slots
    BY DEF TablesAgree, InUse
<1>2. /\ d.index = [i \in Slots |->
             IF m.index[i].firstPage \in UsedPages(m)
             THEN [m.index[i] EXCEPT
                     !.firstPage = NewPosition(m, m.index[i].firstPage)]
             ELSE m.index[i]]
      /\ IsRecord(d)
    BY <1>1, DefragmentMovesEntries DEF HasShape
<1>3. /\ d.cacheAvail = Cardinality(FreePages(d))
      /\ FreePages(d) = Cardinality(UsedPages(m)) .. NumPages - 1
    BY <1>1, DefragmentPacks
<1>4. IsTable(d.pageTable)
      /\ \A q \in Pages :
                IF q < Cardinality(UsedPages(m))
                THEN \E p \in UsedPages(m) : d.pageTable[q] = m.pageTable[p]
                ELSE d.pageTable[q] = -1
    BY <1>1, DefragmentMovesPages DEF HasShape
<1>5. \A i \in InUse(m) :
        /\ d.index[i] = [m.index[i] EXCEPT !.firstPage = NewPosition(m, m.index[i].firstPage)]
        /\ NewPosition(m, m.index[i].firstPage) \in Pages
        /\ OwnsRun(d, i)
    BY <1>1, DefragmentKeepsRun
<1> HIDE DEF d
<1>6. \A i \in Slots \ InUse(m) : d.index[i] = FreeEntry
    <2>1. -1 \notin UsedPages(m)
        BY PageFacts DEF UsedPages
    <2> QED BY <1>1, <1>2, <2>1 DEF FreeEntry
<1>7. \A i \in Slots :
          /\ IsEntry(d.index[i])
          /\ d.index[i].totalItemSize = m.index[i].totalItemSize
          /\ d.index[i].useCount = m.index[i].useCount
          /\ d.index[i].firstPage \in Pages \cup {-1}
    <2> TAKE i \in Slots
    <2>1. IsEntry(m.index[i]) /\ m.index[i].firstPage \in Pages \cup {-1}
        BY DEF HasShape
    <2>2. CASE i \in InUse(m)
        BY <1>5, <2>1, <2>2 DEF IsEntry
    <2>3. CASE i \notin InUse(m)
        BY <1>1, <1>6, <2>1, <2>3
    <2> QED BY <2>2, <2>3
<1>8. HasShape(d)
    <2>1. d.index = [i \in Slots |-> d.index[i]]
        BY <1>2
    <2> QED BY <1>2, <1>4, <1>7, <2>1 DEF HasShape
<1>9. InUse(d) = InUse(m)
    BY <1>7 DEF InUse
<1>10. \A q \in UsedPages(d) : d.pageTable[q] \in InUse(d)
    <2> TAKE q \in UsedPages(d)
    <2>1. q \in Pages /\ d.pageTable[q] >= 0
        BY DEF UsedPages
    <2>2. PICK p \in UsedPages(m) : d.pageTable[q] = m.pageTable[p]
        BY <1>4, <2>1
    <2> QED BY <1>1, <1>9, <2>2
<1>11. TablesAgree(d)
    BY <1>3, <1>5, <1>6, <1>9, <1>10 DEF TablesAgree
<1> QED BY <1>1, <1>5, <1>6, <1>8, <1>9, <1>11 DEF d

(* ... and its check of the page left of a run never fires.                *)
LEMMA DefragmentNeverThrows ==
    ASSUME NEW m, HasShape(m), TablesAgree(m)
    PROVE  ~DefragmentThrows(m)
<1> SUFFICES ASSUME NEW p \in MovedPages(m), p - 1 \in FreePages(m),
                    m.index[m.pageTable[p]].firstPage # p
             PROVE  FALSE
    BY DEF DefragmentThrows
<1> DEFINE i == m.pageTable[p]
           first == m.index[i].firstPage
           n == PageCount(m.index[i])
<1>1. p \in UsedPages(m) /\ p \in Pages
    BY DEF MovedPages, UsedPages
<1>2. i \in InUse(m) /\ i \in Slots /\ OwnsRun(m, i)
    BY <1>1 DEF TablesAgree, InUse
<1>3. first \in Pages /\ n \in Nat
      /\ first .. first + n - 1 = {q \in Pages : m.pageTable[q] = i}
      /\ first .. first + n - 1 \subseteq UsedPages(m)
    BY <1>2, OwnedRun
<1>4. p \in first .. first + n - 1 /\ first # p
    BY <1>1, <1>3
<1>5. p - 1 \in first .. first + n - 1
    <2> HIDE DEF i, first, n
    <2>1. p \in Nat /\ first \in Nat
        BY <1>1, <1>3, PageFacts
    <2> QED BY <1>3, <1>4, <2>1
<1>6. p - 1 \in UsedPages(m)
    BY <1>3, <1>5
<1> QED BY <1>6, FreeAndUsed DEF HasShape

-----------------------------------------------------------------------------
(* What removeEntries() leaves. *)

(* The pages that removing the entries V frees. *)
RunsOf(m, V) == UNION {Run(m, i) : i \in V}

(* They are the pages that link to a member of V. *)
LEMMA RunsOfEntries ==
    ASSUME NEW m, HasShape(m), TablesAgree(m), NEW V \in SUBSET InUse(m)
    PROVE  /\ RunsOf(m, V) = {p \in Pages : m.pageTable[p] \in V}
           /\ RunsOf(m, V) \subseteq UsedPages(m)
           /\ IsFiniteSet(RunsOf(m, V))
<1>1. \A i \in V : i \in Slots /\ OwnsRun(m, i)
    BY DEF TablesAgree, InUse
<1>2. \A i \in V : Run(m, i) = {p \in Pages : m.pageTable[p] = i}
    BY <1>1, OwnedRun
<1>3. RunsOf(m, V) = {p \in Pages : m.pageTable[p] \in V}
    BY <1>2 DEF RunsOf
<1>4. {p \in Pages : m.pageTable[p] \in V} \in SUBSET UsedPages(m)
    <2>1. ASSUME NEW p \in Pages, m.pageTable[p] \in V
          PROVE  p \in UsedPages(m)
        <3>1. m.pageTable[p] \in Slots
            BY <1>1, <2>1
        <3> QED BY <3>1, TableFacts DEF UsedPages, HasShape
    <2> QED BY <2>1
<1>5. IsFiniteSet(UsedPages(m))
    BY FreeAndUsed DEF HasShape
<1>6. IsFiniteSet({p \in Pages : m.pageTable[p] \in V})
    BY <1>4, <1>5, FS_Subset
<1> QED BY <1>3, <1>4, <1>6

(* Removing any set of entries in use keeps the tables in agreement, and   *)
(* frees the pages of those entries and the slots.                         *)
LEMMA RemovalAgrees ==
    ASSUME NEW m, HasShape(m), TablesAgree(m), NEW V \in SUBSET InUse(m)
    PROVE  LET r == removeEntries(m, V) IN
           /\ HasShape(r) /\ TablesAgree(r)
           /\ InUse(r) = InUse(m) \ V
           /\ \A i \in V : r.index[i] = FreeEntry
           /\ \A i \in Slots \ V : r.index[i] = m.index[i]
           /\ r.cacheAvail = m.cacheAvail + Freed(m, V)
           /\ r.failed = m.failed \ V
           /\ r.cacheTimestamp = m.cacheTimestamp
           /\ r.evictionPolicy = m.evictionPolicy
<1> DEFINE r == removeEntries(m, V)
           freed == RunsOf(m, V)
<1>1. /\ freed = {p \in Pages : m.pageTable[p] \in V}
      /\ freed \subseteq UsedPages(m) /\ IsFiniteSet(freed)
    BY RunsOfEntries
<1>2. V \subseteq Slots /\ InUse(m) \subseteq Slots
    BY DEF InUse
<1>3. /\ r.index = [i \in Slots |-> IF i \in V THEN FreeEntry ELSE m.index[i]]
      /\ r.pageTable = [p \in Pages |-> IF p \in freed THEN -1 ELSE m.pageTable[p]]
      /\ r.cacheAvail = m.cacheAvail + Cardinality(freed)
      /\ r.failed = m.failed \ V
      /\ r.cacheTimestamp = m.cacheTimestamp
      /\ r.evictionPolicy = m.evictionPolicy
      /\ IsRecord(r)
    <2> DEFINE page == [p \in Pages |->
                IF p \in freed \cup UNION {Labelled(m, i) : i \in V}
                THEN Junk ELSE m.page[p]]
    <2>1. r = [m EXCEPT
                !.index = [i \in Slots |-> IF i \in V THEN FreeEntry ELSE m.index[i]],
                !.pageTable = [p \in Pages |->
                                  IF p \in freed THEN -1 ELSE m.pageTable[p]],
                !.page = page,
                !.cacheAvail = m.cacheAvail + Cardinality(freed),
                !.failed = m.failed \ V]
        BY DEF removeEntries, RunsOf
    <2>2. IsRecord(m)
        BY DEF HasShape
    <2> HIDE DEF r, freed, page
    <2> QED BY <2>1, <2>2 DEF IsRecord
<1> HIDE DEF r, freed
<1>4. r.pageTable = [p \in Pages |->
                    IF m.pageTable[p] \in V THEN -1 ELSE m.pageTable[p]]
    BY <1>1, <1>3
<1>5. FreePages(r) = FreePages(m) \cup freed /\ FreePages(m) \cap freed = {}
    <2>1. FreePages(m) = Pages \ UsedPages(m)
        BY FreeAndUsed DEF HasShape
    <2>2. \A p \in Pages : r.pageTable[p] < 0 <=> p \in freed \/ m.pageTable[p] < 0
        BY <1>3, TableFacts DEF HasShape
    <2> QED BY <1>1, <2>1, <2>2 DEF FreePages
<1>6. r.cacheAvail = Cardinality(FreePages(r))
    <2>1. IsFiniteSet(FreePages(m)) /\ m.cacheAvail = Cardinality(FreePages(m))
          /\ Cardinality(FreePages(m)) \in Int
        BY FreeAndUsed, PageFacts DEF HasShape, TablesAgree
    <2>2. Cardinality(freed) \in Nat
        BY <1>1, FS_CardinalityType
    <2>3. Cardinality(FreePages(m) \cup freed)
            = Cardinality(FreePages(m)) + Cardinality(freed)
                - Cardinality(FreePages(m) \cap freed)
        BY ONLY <1>1, <2>1, FS_Union
    <2>4. Cardinality(FreePages(m) \cap freed) = 0
        BY <1>5, FS_EmptySet
    <2> QED BY <1>3, <1>5, <2>1, <2>2, <2>3, <2>4
<1>7. FreeEntry.useCount = 0 /\ FreeEntry.firstPage = -1
      /\ FreeEntry.totalItemSize = 0 /\ IsEntry(FreeEntry)
    BY DEF FreeEntry, IsEntry
<1>8. HasShape(r)
    <2>1. \A i \in Slots :
            /\ IsEntry(r.index[i])
            /\ r.index[i].totalItemSize \in Nat
            /\ r.index[i].useCount \in Nat
            /\ r.index[i].firstPage \in Pages \cup {-1}
        BY <1>3, <1>7 DEF HasShape
    <2>2. IsTable(r.pageTable)
        BY <1>3 DEF HasShape, IsTable
    <2>3. r.index = [i \in Slots |-> r.index[i]]
        BY <1>3
    <2> QED BY <1>3, <2>1, <2>2, <2>3 DEF HasShape
<1>9. InUse(r) = InUse(m) \ V
    BY <1>2, <1>3, <1>7 DEF InUse
<1>10. \A i \in InUse(r) : OwnsRun(r, i)
    <2> TAKE i \in InUse(r)
    <2>1. i \in InUse(m) /\ i \notin V /\ i \in Slots /\ r.index[i] = m.index[i]
        BY <1>2, <1>3, <1>9
    <2>2. OwnsRun(m, i)
        BY <2>1 DEF TablesAgree
    <2>3. \A p \in Pages : r.pageTable[p] = i <=> m.pageTable[p] = i
        BY <1>4, <2>1, PageFacts
    <2> QED BY <2>1, <2>2, <2>3 DEF OwnsRun
<1>11. \A i \in Slots \ InUse(r) : r.index[i] = FreeEntry
    BY <1>3, <1>9 DEF TablesAgree
<1>12. \A p \in UsedPages(r) : r.pageTable[p] \in InUse(r)
    <2> TAKE p \in UsedPages(r)
    <2>1. p \in Pages /\ r.pageTable[p] >= 0
        BY DEF UsedPages
    <2>2. m.pageTable[p] \notin V /\ r.pageTable[p] = m.pageTable[p]
        BY <1>4, <2>1
    <2>3. p \in UsedPages(m)
        BY <2>1, <2>2 DEF UsedPages
    <2> QED BY <1>9, <2>2, <2>3 DEF TablesAgree
<1>13. TablesAgree(r)
    BY <1>6, <1>10, <1>11, <1>12 DEF TablesAgree
<1>14. /\ \A i \in V : r.index[i] = FreeEntry
       /\ \A i \in Slots \ V : r.index[i] = m.index[i]
    BY <1>2, <1>3
<1>15. r.cacheAvail = m.cacheAvail + Freed(m, V)
    BY <1>3 DEF Freed, RunsOf, freed
<1> QED BY <1>3, <1>8, <1>9, <1>13, <1>14, <1>15 DEF r

(* While the tables agree, removeEntry() never throws. *)
LEMMA EntryNeverThrows ==
    ASSUME NEW m, HasShape(m), TablesAgree(m), NEW i \in InUse(m)
    PROVE  ~RemoveEntryThrows(m, i)
<1>1. i \in Slots /\ OwnsRun(m, i)
    BY DEF InUse, TablesAgree
<1>2. m.cacheAvail \in 0 .. NumPages
    BY FreeAndUsed DEF TablesAgree, HasShape
<1> QED BY <1>1, <1>2, OwnedRun, PageFacts

(* Evicting every entry frees every page, so removeUsedPages() can always  *)
(* free as many as it is asked to.                                         *)
LEMMA FreedByAll ==
    ASSUME NEW m, HasShape(m), TablesAgree(m)
    PROVE  m.cacheAvail + Freed(m, InUse(m)) = NumPages
<1>1. RunsOf(m, InUse(m)) = {p \in Pages : m.pageTable[p] \in InUse(m)}
    BY RunsOfEntries
<1>2. {p \in Pages : m.pageTable[p] \in InUse(m)} = UsedPages(m)
    <2>1. \A p \in Pages : m.pageTable[p] \in InUse(m) => m.pageTable[p] >= 0
        BY TableFacts DEF InUse, HasShape
    <2> QED BY <2>1 DEF TablesAgree, UsedPages
<1> QED BY <1>1, <1>2, FreeAndUsed DEF Freed, RunsOf, TablesAgree, HasShape
=============================================================================
