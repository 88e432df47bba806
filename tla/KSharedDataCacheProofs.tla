----------------------- MODULE KSharedDataCacheProofs -----------------------
(***************************************************************************)
(* Proofs about KSharedDataCache, for any sizes, keys, values and hashes:  *)
(* its tables always agree, no check for corruption fires, every item      *)
(* stays whole, insert() finds room and what it stored is found, and the   *)
(* cache implements LossyCache. The invariant that carries all of them is  *)
(* Sound, for the tables, and AllWhole, for the pages.                     *)
(***************************************************************************)
EXTENDS KSharedDataCache, KSDCMemoryProofs

(* What every operation keeps: the shape of the segment, the agreement of  *)
(* its tables, and every entry on the probe chain of its hash.             *)
Sound(m) ==
    /\ m \in Segments
    /\ TablesAgree(m)
    /\ \A i \in InUse(m) : IsOnChain(m, i)

(* r has lost entries of m, or moved their pages, and nothing else.         *)
Shrinks(m, r) ==
    /\ InUse(r) \subseteq InUse(m)
    /\ \A i \in InUse(r) :
          r.index[i] = [m.index[i] EXCEPT !.firstPage = r.index[i].firstPage]

-----------------------------------------------------------------------------
(* Types. *)

(* The fields of a segment. *)
LEMMA SegmentsHaveShape ==
    ASSUME NEW m \in Segments
    PROVE  /\ HasShape(m)
           /\ m.index \in [Slots -> Entries]
           /\ m.pageTable \in [Pages -> Slots \cup {-1}]
           /\ m.page \in [Pages -> Contents]
           /\ m.cacheAvail \in 0 .. NumPages
           /\ m.failed \in SUBSET Slots
           /\ m.cacheTimestamp \in Nat
           /\ m.evictionPolicy \in EvictionPolicies
<1>1. /\ IsRecord(m)
      /\ m.index \in [Slots -> Entries]
      /\ m.pageTable \in [Pages -> Slots \cup {-1}]
      /\ m.page \in [Pages -> Contents]
      /\ m.cacheAvail \in 0 .. NumPages
      /\ m.failed \in SUBSET Slots
      /\ m.cacheTimestamp \in Nat
      /\ m.evictionPolicy \in EvictionPolicies
    BY DEF Segments, IsRecord
<1>2. \A e \in Entries : /\ IsEntry(e)
                         /\ e.totalItemSize \in Nat
                         /\ e.useCount \in Nat
                         /\ e.firstPage \in Pages \cup {-1}
    BY ClientsAssumption DEF Entries, IsEntry
<1>3. m.index = [i \in Slots |-> m.index[i]]
    BY <1>1
<1>4. \A i \in Slots : m.index[i] \in Entries
    BY <1>1
<1>5. HasShape(m)
    BY <1>1, <1>2, <1>3, <1>4 DEF HasShape, IsTable
<1> QED BY <1>1, <1>5

(* ... and a segment from its fields. *)
LEMMA SegmentsByFields ==
    ASSUME NEW m, IsRecord(m),
           m.index \in [Slots -> Entries],
           m.pageTable \in [Pages -> Slots \cup {-1}],
           m.page \in [Pages -> Contents],
           m.cacheAvail \in 0 .. NumPages,
           m.failed \in SUBSET Slots,
           m.cacheTimestamp \in Nat,
           m.evictionPolicy \in EvictionPolicies
    PROVE  m \in Segments
BY DEF IsRecord, Segments

(* A cleared slot is an entry like another. *)
LEMMA FreeEntryIsEntry == FreeEntry \in Entries
BY ClientsAssumption DEF FreeEntry, Entries

(* defragment() keeps a segment sound and every entry in use, and leaves   *)
(* its free pages in one run.                                              *)
LEMMA DefragmentKeepsSound ==
    ASSUME NEW m, Sound(m)
    PROVE  /\ Sound(defragment(m))
           /\ Shrinks(m, defragment(m))
           /\ InUse(defragment(m)) = InUse(m)
           /\ defragment(m).cacheAvail = m.cacheAvail
           /\ defragment(m).failed = m.failed
           /\ \A n \in 1 .. m.cacheAvail : findEmptyPages(defragment(m), n) < NumPages
<1> DEFINE d == defragment(m)
<1>1. /\ m \in Segments /\ HasShape(m) /\ TablesAgree(m)
      /\ m.cacheAvail = Cardinality(FreePages(m))
      /\ InUse(m) \subseteq Slots
    BY SegmentsHaveShape DEF Sound, TablesAgree, InUse
<1>2. /\ HasShape(d) /\ TablesAgree(d) /\ InUse(d) = InUse(m)
      /\ \A i \in InUse(m) :
            d.index[i] = [m.index[i] EXCEPT !.firstPage = NewPosition(m, m.index[i].firstPage)]
      /\ \A i \in Slots \ InUse(m) : d.index[i] = m.index[i]
    BY <1>1, DefragmentAgrees
<1>3. /\ d.cacheAvail = m.cacheAvail /\ d.failed = m.failed
      /\ d.evictionPolicy = m.evictionPolicy /\ IsRecord(d)
    BY <1>1, DefragmentMovesEntries DEF HasShape
<1>4. \A n \in 1 .. m.cacheAvail : findEmptyPages(d, n) < NumPages
    BY <1>1, <1>3, DefragmentPacks
<1>5. d.cacheTimestamp \in Nat
    BY <1>1, SegmentsHaveShape, DefragmentTimestamp
<1>6. d.page \in [Pages -> Contents]
    <2>1. CASE m.cacheAvail = NumPages
        BY <2>1, SegmentsHaveShape, <1>1 DEF defragment
    <2>2. CASE m.cacheAvail # NumPages
        <3> DEFINE used == Cardinality(UsedPages(m))
                   source == [q \in 0 .. used - 1 |->
                                 CHOOSE p \in UsedPages(m) : NewPosition(m, p) = q]
        <3>1. d.page = [q \in Pages |-> IF q < used THEN m.page[source[q]] ELSE Junk]
            BY <2>2, <1>1 DEF defragment, HasShape, IsRecord
        <3>2. \A q \in 0 .. used - 1 : source[q] \in UsedPages(m)
            BY <1>1, NewPositionOnto DEF HasShape
        <3>3. used \in Int
            BY <1>1, FreeAndUsed, PageFacts DEF HasShape
        <3> HIDE DEF used, source, d
        <3>4. \A q \in Pages : q < used => q \in 0 .. used - 1
            BY <3>3, PageFacts
        <3>5. \A q \in Pages : d.page[q] \in Contents
            <4> TAKE q \in Pages
            <4>1. CASE q < used
                <5>1. source[q] \in Pages
                    BY <4>1, <3>2, <3>4 DEF UsedPages
                <5> QED BY <4>1, <5>1, <3>1, <1>1, SegmentsHaveShape
            <4>2. CASE ~(q < used)
                BY <4>2, <3>1 DEF Contents
            <4> QED BY <4>1, <4>2
        <3> QED BY <3>1, <3>5
    <2> QED BY <2>1, <2>2
<1> HIDE DEF d
<1>7. \A i \in Slots : d.index[i] \in Entries
    <2> TAKE i \in Slots
    <2>1. m.index[i] \in Entries
        BY <1>1, SegmentsHaveShape
    <2>2. d.index[i].firstPage \in Pages \cup {-1}
        BY <1>2 DEF HasShape
    <2>3. CASE i \in InUse(m)
        <3>1. d.index[i] = [m.index[i] EXCEPT !.firstPage = d.index[i].firstPage]
            BY <1>2, <2>1, <2>3 DEF Entries
        <3> QED BY <2>1, <2>2, <3>1 DEF Entries
    <2>4. CASE i \notin InUse(m)
        BY <1>2, <2>1, <2>4
    <2> QED BY <2>3, <2>4
<1>8. d \in Segments
    <2>1. d.index \in [Slots -> Entries]
        BY <1>2, <1>7 DEF HasShape
    <2>2. d.pageTable \in [Pages -> Slots \cup {-1}]
        BY <1>2 DEF HasShape, IsTable
    <2> QED BY <1>1, <1>3, <1>5, <1>6, <2>1, <2>2, SegmentsByFields, SegmentsHaveShape
<1>9. Shrinks(m, d)
    <2>1. \A i \in InUse(m) : m.index[i] \in Entries
        BY <1>1, SegmentsHaveShape
    <2>2. \A i \in InUse(m) :
            d.index[i] = [m.index[i] EXCEPT !.firstPage = d.index[i].firstPage]
        BY <1>2, <2>1 DEF Entries
    <2> QED BY <1>2, <2>2 DEF Shrinks
<1>10. \A i \in InUse(d) : IsOnChain(d, i)
    <2> TAKE i \in InUse(d)
    <2>1. i \in InUse(m) /\ m.index[i] \in Entries
        BY <1>1, <1>2, SegmentsHaveShape
    <2>2. d.index[i].fileNameHash = m.index[i].fileNameHash
        BY <1>2, <2>1 DEF Entries
    <2> QED BY <2>1, <2>2 DEF Sound, IsOnChain
<1> QED BY <1>2, <1>3, <1>4, <1>8, <1>9, <1>10 DEF Sound, d

(* Removing entries, by remove() or by eviction, keeps a segment sound. *)
LEMMA RemovalSound ==
    ASSUME NEW m, Sound(m), NEW V \in SUBSET InUse(m)
    PROVE  /\ Sound(removeEntries(m, V))
           /\ Shrinks(m, removeEntries(m, V))
           /\ InUse(removeEntries(m, V)) = InUse(m) \ V
           /\ removeEntries(m, V).cacheAvail = m.cacheAvail + Freed(m, V)
           /\ removeEntries(m, V).failed = m.failed \ V
<1> DEFINE r == removeEntries(m, V)
<1>1. m \in Segments /\ HasShape(m) /\ TablesAgree(m) /\ InUse(m) \subseteq Slots
    BY SegmentsHaveShape DEF Sound, InUse
<1>2. /\ HasShape(r) /\ TablesAgree(r)
      /\ InUse(r) = InUse(m) \ V
      /\ \A i \in V : r.index[i] = FreeEntry
      /\ \A i \in Slots \ V : r.index[i] = m.index[i]
      /\ r.cacheAvail = m.cacheAvail + Freed(m, V)
      /\ r.failed = m.failed \ V
      /\ r.cacheTimestamp = m.cacheTimestamp
      /\ r.evictionPolicy = m.evictionPolicy
    BY <1>1, RemovalAgrees
<1>3. r.page = [p \in Pages |->
                  IF p \in RunsOf(m, V) \cup UNION {Labelled(m, i) : i \in V}
                  THEN Junk ELSE m.page[p]]
    BY <1>1 DEF removeEntries, RunsOf, HasShape, IsRecord
<1> HIDE DEF r
<1>4. r.page \in [Pages -> Contents]
    BY <1>1, <1>3, SegmentsHaveShape DEF Contents
<1>5. r.index \in [Slots -> Entries]
    <2>1. \A i \in Slots : r.index[i] \in Entries
        BY <1>1, <1>2, SegmentsHaveShape, FreeEntryIsEntry
    <2>2. r.index = [i \in Slots |-> r.index[i]]
        BY <1>2 DEF HasShape
    <2> QED BY <2>1, <2>2
<1>6. r.cacheAvail \in 0 .. NumPages
    <2>1. IsTable(r.pageTable) /\ r.cacheAvail = Cardinality(FreePages(r))
        BY <1>2 DEF TablesAgree, HasShape
    <2> QED BY <2>1, FreeAndUsed
<1>7. r \in Segments
    <2>1. r.pageTable \in [Pages -> Slots \cup {-1}] /\ IsRecord(r)
        BY <1>2 DEF HasShape, IsTable
    <2> QED BY <1>1, <1>2, <1>4, <1>5, <1>6, <2>1, SegmentsByFields, SegmentsHaveShape
<1>8. \A i \in InUse(r) : i \in InUse(m) /\ r.index[i] = m.index[i]
    BY <1>1, <1>2
<1>9. Shrinks(m, r)
    <2>1. \A i \in InUse(r) : m.index[i] \in Entries
        BY <1>1, <1>8, SegmentsHaveShape
    <2> QED BY <1>8, <2>1 DEF Shrinks, Entries
<1>10. \A i \in InUse(r) : IsOnChain(r, i)
    BY <1>8 DEF Sound, IsOnChain
<1> QED BY <1>2, <1>7, <1>9, <1>10 DEF Sound, r

(* Counters of entries in use change, and the entries stay in use. *)
LEMMA TouchedSound ==
    ASSUME NEW m, Sound(m), NEW r \in Segments,
           r.pageTable = m.pageTable, r.cacheAvail = m.cacheAvail,
           InUse(r) = InUse(m),
           \A i \in Slots \ InUse(m) : r.index[i] = m.index[i],
           \A i \in InUse(m) :
              /\ r.index[i].firstPage = m.index[i].firstPage
              /\ r.index[i].totalItemSize = m.index[i].totalItemSize
              /\ r.index[i].fileNameHash = m.index[i].fileNameHash
    PROVE  Sound(r)
<1>1. TablesAgree(m) /\ \A i \in InUse(m) : IsOnChain(m, i)
    BY DEF Sound
<1>2. \A i \in InUse(r) : OwnsRun(r, i)
    BY <1>1 DEF TablesAgree, OwnsRun
<1>3. FreePages(r) = FreePages(m) /\ UsedPages(r) = UsedPages(m)
    BY DEF FreePages, UsedPages
<1>4. TablesAgree(r)
    BY <1>1, <1>2, <1>3 DEF TablesAgree
<1>5. \A i \in InUse(r) : IsOnChain(r, i)
    BY <1>1 DEF IsOnChain
<1> QED BY <1>4, <1>5 DEF Sound

(* The header words and the pages are not part of the tables. *)
LEMMA HeaderSound ==
    ASSUME NEW m, Sound(m), NEW r \in Segments,
           r.index = m.index, r.pageTable = m.pageTable, r.cacheAvail = m.cacheAvail
    PROVE  Sound(r)
<1>1. InUse(r) = InUse(m)
    BY DEF InUse
<1> QED BY <1>1, TouchedSound DEF InUse

-----------------------------------------------------------------------------
(* Making room. *)

(* removeUsedPages(n) keeps a segment sound and leaves n pages free, in    *)
(* one run, whichever victims the policy picks.                            *)
LEMMA EvictionSound ==
    ASSUME NEW m, Sound(m), NEW n \in Nat, NEW r \in removeUsedPages(m, n)
    PROVE  /\ Sound(r) /\ Shrinks(m, r)
           /\ r.cacheAvail >= m.cacheAvail
           /\ r.cacheAvail >= n
           /\ \A k \in 1 .. r.cacheAvail : findEmptyPages(r, k) < NumPages
<1>1. m.cacheAvail \in 0 .. NumPages
    BY SegmentsHaveShape DEF Sound
<1>2. CASE m.cacheAvail > 3 * n /\ findEmptyPages(defragment(m), n) < NumPages
    <2>1. r = defragment(m)
        BY <1>2 DEF removeUsedPages
    <2> QED BY <1>1, <1>2, <2>1, DefragmentKeepsSound, PageFacts
<1>3. CASE ~(m.cacheAvail > 3 * n /\ findEmptyPages(defragment(m), n) < NumPages)
    <2>1. PICK V \in VictimSets(m, n) : r = defragment(removeEntries(m, V))
        BY <1>3 DEF removeUsedPages
    <2>2. V \in SUBSET InUse(m) /\ m.cacheAvail + Freed(m, V) >= n
        BY DEF VictimSets
    <2> DEFINE e == removeEntries(m, V)
    <2>3. /\ Sound(e) /\ Shrinks(m, e) /\ InUse(e) = InUse(m) \ V
          /\ e.cacheAvail = m.cacheAvail + Freed(m, V)
        BY <2>2, RemovalSound
    <2>4. /\ Sound(r) /\ Shrinks(e, r) /\ InUse(r) = InUse(e)
          /\ r.cacheAvail = e.cacheAvail
          /\ \A k \in 1 .. e.cacheAvail : findEmptyPages(r, k) < NumPages
        BY <2>1, <2>3, DefragmentKeepsSound
    <2>5. Freed(m, V) \in Nat
        <3>1. IsFiniteSet(RunsOf(m, V))
            BY <2>2, RunsOfEntries, SegmentsHaveShape DEF Sound
        <3> QED BY <3>1, FS_CardinalityType DEF Freed, RunsOf
    <2> HIDE DEF e
    <2>6. Shrinks(m, r)
        <3>1. \A i \in InUse(m) : m.index[i] \in Entries
            BY SegmentsHaveShape DEF Sound, InUse
        <3>2. ASSUME NEW i \in InUse(r)
              PROVE  r.index[i] = [m.index[i] EXCEPT !.firstPage = r.index[i].firstPage]
            <4>1. i \in InUse(m)
                BY <2>3, <2>4
            <4>2. e.index[i] = [m.index[i] EXCEPT !.firstPage = e.index[i].firstPage]
                BY <2>3, <2>4 DEF Shrinks
            <4>3. r.index[i] = [e.index[i] EXCEPT !.firstPage = r.index[i].firstPage]
                BY <2>4 DEF Shrinks
            <4> QED BY <3>1, <4>1, <4>2, <4>3 DEF Entries
        <3> QED BY <2>3, <2>4, <3>2 DEF Shrinks
    <2> QED BY <1>1, <2>2, <2>3, <2>4, <2>5, <2>6
<1> QED BY <1>2, <1>3

(* insert() asks for at least as many pages as the item needs. *)
LEMMA FreePagesDesiredFacts ==
    ASSUME NEW n \in Nat
    PROVE  FreePagesDesired(n) \in Nat /\ FreePagesDesired(n) >= 3 /\ FreePagesDesired(n) >= n
BY DEF FreePagesDesired

(* In an empty cache there is a run for every item that fits. *)
LEMMA RunInEmptyCache ==
    ASSUME NEW m, Sound(m), m.cacheAvail = NumPages, NEW n \in Nat, n < NumPages
    PROVE  HasRoom(m, n)
<1>1. Cardinality(FreePages(m)) = Cardinality(Pages)
    BY PageFacts DEF Sound, TablesAgree
<1>2. FreePages(m) = Pages
    <2>1. FreePages(m) \in SUBSET Pages /\ IsFiniteSet(Pages)
        BY PageFacts DEF FreePages
    <2> QED BY ONLY <1>1, <2>1, FS_Subset
<1>3. 0 \in Pages /\ IsFreeRun(m, 0, n)
    <2>1. 0 \in Pages /\ 0 .. 0 + n - 1 \subseteq Pages /\ 0 + n <= NumPages
        BY PageFacts DEF Pages
    <2> QED BY <1>2, <2>1 DEF IsFreeRun, FreePages
<1>4. findEmptyPages(m, n) < NumPages
    BY <1>3, FindEmptyPages
<1> QED BY <1>4, PageFacts DEF HasRoom

(* insert() never asks removeUsedPages() for no page or for more pages     *)
(* than there are, for which it would throw.                               *)
LEMMA PagesToFreeFacts ==
    ASSUME NEW m, Sound(m), NEW n \in Nat, n < NumPages, ~HasRoom(m, n),
           ~(m.cacheAvail > FreePagesDesired(n))
    PROVE  PagesToFree(m, n) \in 1 .. NumPages
<1>1. m.cacheAvail \in 0 .. NumPages
    BY SegmentsHaveShape DEF Sound
<1>2. m.cacheAvail # NumPages
    BY RunInEmptyCache
<1> QED BY <1>1, <1>2, FreePagesDesiredFacts, PageFacts DEF PagesToFree, Least

(* Whatever insert() does to make room keeps the segment sound. *)
LEMMA RoomSound ==
    ASSUME NEW m, Sound(m), NEW n \in Nat, n < NumPages, NEW r \in MakeRoom(m, n)
    PROVE  Sound(r) /\ Shrinks(m, r)
<1>1. CASE HasRoom(m, n)
    <2>1. r = m
        BY <1>1 DEF MakeRoom
    <2>2. \A i \in InUse(m) : m.index[i] \in Entries
        BY SegmentsHaveShape DEF Sound, InUse
    <2> QED BY <2>1, <2>2 DEF Shrinks, Entries
<1>2. CASE ~HasRoom(m, n) /\ m.cacheAvail > FreePagesDesired(n)
    <2>1. r = defragment(m)
        BY <1>2 DEF MakeRoom
    <2> QED BY <2>1, DefragmentKeepsSound
<1>3. CASE ~HasRoom(m, n) /\ ~(m.cacheAvail > FreePagesDesired(n))
    <2>1. r \in removeUsedPages(m, PagesToFree(m, n))
        BY <1>3 DEF MakeRoom
    <2>2. PagesToFree(m, n) \in Nat
        BY <1>3, PagesToFreeFacts, PageFacts
    <2> QED BY <2>1, <2>2, EvictionSound
<1> QED BY <1>1, <1>2, <1>3

(* ... and never throws. *)
LEMMA MakeRoomNeverThrows ==
    ASSUME NEW m, Sound(m), NEW n \in Nat, n < NumPages
    PROVE  ~MakeRoomThrows(m, n)
<1>1. HasShape(m) /\ TablesAgree(m) /\ ~DefragmentThrows(m)
    BY SegmentsHaveShape, DefragmentNeverThrows DEF Sound
<1>2. ASSUME ~HasRoom(m, n), ~(m.cacheAvail > FreePagesDesired(n))
      PROVE  ~RemoveUsedPagesThrows(m, PagesToFree(m, n))
    <2> DEFINE k == PagesToFree(m, n)
    <2>1. k \in 1 .. NumPages
        BY <1>2, PagesToFreeFacts
    <2>2. m.cacheAvail + Freed(m, InUse(m)) = NumPages
        BY <1>1, FreedByAll
    <2> HIDE DEF k
    <2>3. ASSUME NEW V \in VictimSets(m, k)
          PROVE  /\ \A i \in V : ~RemoveEntryThrows(m, i)
                 /\ ~DefragmentThrows(removeEntries(m, V))
        <3>1. V \in SUBSET InUse(m)
            BY DEF VictimSets
        <3>2. \A i \in V : ~RemoveEntryThrows(m, i)
            BY <1>1, <3>1, EntryNeverThrows
        <3>3. Sound(removeEntries(m, V))
            BY <3>1, RemovalSound
        <3>4. HasShape(removeEntries(m, V)) /\ TablesAgree(removeEntries(m, V))
            BY <3>3, SegmentsHaveShape DEF Sound
        <3> QED BY <3>2, <3>4, DefragmentNeverThrows
    <2>4. ~(k = 0) /\ ~(k > NumPages) /\ ~(m.cacheAvail + Freed(m, InUse(m)) < k)
        BY <2>1, <2>2, PageFacts
    <2> QED BY <2>3, <2>4 DEF RemoveUsedPagesThrows, k
<1> QED BY <1>1, <1>2 DEF MakeRoomThrows

-----------------------------------------------------------------------------
(* The probe chain of insert(). *)

(* insert() and findNamedEntry() walk the same chain of slots. *)
LEMMA ProbeFacts ==
    ASSUME NEW h \in Nat, NEW n \in 0 .. MaxProbe - 1
    PROVE  Position(h, n) \in Slots /\ Position(h, n) = Probe(h, n)
<1>1. n \in Nat /\ NumSlots \in Nat /\ NumSlots >= 1
    BY PageFacts, SizesAssumption
<1>2. (n + n * n) \div 2 \in Nat
    BY <1>1
<1> QED BY <1>1, <1>2 DEF Position, Probe, Offset, Slots

(* The probe of insert() stops, and only there. *)
LEMMA InsertProbeFacts ==
    ASSUME NEW m, NEW h \in Nat, NEW cull \in BOOLEAN
    PROVE  /\ InsertProbe(m, h, cull) \in 0 .. MaxProbe - 1
           /\ StopsAt(m, h, cull, InsertProbe(m, h, cull))
           /\ \A j \in 0 .. InsertProbe(m, h, cull) - 1 : ~StopsAt(m, h, cull, j)
<1> DEFINE S == {n \in 0 .. MaxProbe - 1 : StopsAt(m, h, cull, n)}
<1>1. MaxProbe \in Nat /\ MaxProbe >= 1
    BY SizesAssumption
<1>2. MaxProbe - 1 \in S
    BY <1>1 DEF StopsAt
<1>3. S \subseteq Nat
    BY <1>1
<1>4. PICK n \in S : \A x \in S : n <= x
    <2> HIDE DEF S
    <2> QED BY <1>2, <1>3, LeastNatural
<1>5. n \in 0 .. MaxProbe - 1 /\ StopsAt(m, h, cull, n)
      /\ \A j \in 0 .. n - 1 : ~StopsAt(m, h, cull, j)
    <2>1. ASSUME NEW j \in 0 .. n - 1, StopsAt(m, h, cull, j)
          PROVE  FALSE
        <3>1. j \in S
            BY <1>1, <1>4, <2>1
        <3> QED BY <1>1, <1>4, <2>1, <3>1
    <2> QED BY <1>4, <2>1
<1> QED BY <1>5 DEF InsertProbe

(* Halving the use counts of the old entries that insert() probed past     *)
(* keeps them in use: one that would reach zero is where the probe stops.  *)
LEMMA AgedSound ==
    ASSUME NEW m, Sound(m), NEW h \in Nat, NEW cull \in BOOLEAN
    PROVE  LET a == Aged(m, h, cull, InsertProbe(m, h, cull)) IN
           /\ Sound(a) /\ InUse(a) = InUse(m)
           /\ a.page = m.page /\ a.pageTable = m.pageTable /\ a.failed = m.failed
           /\ \A i \in Slots : /\ a.index[i].fileNameHash = m.index[i].fileNameHash
                               /\ a.index[i].totalItemSize = m.index[i].totalItemSize
                               /\ a.index[i].firstPage = m.index[i].firstPage
<1> DEFINE n == InsertProbe(m, h, cull)
           passed == {Position(h, j) : j \in 0 .. n - 1}
           a == Aged(m, h, cull, n)
<1>1. m \in Segments /\ HasShape(m) /\ \A i \in Slots : m.index[i] \in Entries
    BY SegmentsHaveShape DEF Sound
<1>2. n \in 0 .. MaxProbe - 1 /\ \A j \in 0 .. n - 1 : ~StopsAt(m, h, cull, j)
    BY InsertProbeFacts
<1>3. ASSUME NEW i \in passed, cull, IsOld(m, i)
      PROVE  m.index[i].useCount \div 2 # 0
    <2>1. PICK j \in 0 .. n - 1 : i = Position(h, j)
        BY <1>3
    <2>2. ~IsCulled(m, i, cull)
        BY <1>2, <2>1 DEF StopsAt
    <2> QED BY <1>3, <2>2 DEF IsCulled
<1>4. a = [m EXCEPT !.index = [i \in Slots |->
                IF cull /\ i \in passed /\ IsOld(m, i)
                THEN [m.index[i] EXCEPT !.useCount = m.index[i].useCount \div 2]
                ELSE m.index[i]]]
    BY DEF Aged
<1> HIDE DEF a, n, passed
<1>5. /\ a.index = [i \in Slots |->
                IF cull /\ i \in passed /\ IsOld(m, i)
                THEN [m.index[i] EXCEPT !.useCount = m.index[i].useCount \div 2]
                ELSE m.index[i]]
      /\ a.pageTable = m.pageTable /\ a.page = m.page /\ a.cacheAvail = m.cacheAvail
      /\ a.failed = m.failed
      /\ a.cacheTimestamp = m.cacheTimestamp /\ a.evictionPolicy = m.evictionPolicy
      /\ IsRecord(a)
    BY <1>1, <1>4 DEF HasShape, IsRecord
<1>6. ASSUME NEW i \in Slots
      PROVE  /\ a.index[i] \in Entries
             /\ a.index[i].fileNameHash = m.index[i].fileNameHash
             /\ a.index[i].totalItemSize = m.index[i].totalItemSize
             /\ a.index[i].firstPage = m.index[i].firstPage
             /\ a.index[i].useCount > 0 <=> m.index[i].useCount > 0
             /\ m.index[i].useCount = 0 => a.index[i] = m.index[i]
    <2>1. m.index[i] \in Entries /\ m.index[i].useCount \in 0 .. MaxUseCount
        BY <1>1 DEF Entries
    <2>2. CASE cull /\ i \in passed /\ IsOld(m, i)
        <3>1. a.index[i] = [m.index[i] EXCEPT !.useCount = m.index[i].useCount \div 2]
            BY <1>5, <2>2
        <3>2. m.index[i].useCount \div 2 # 0
            BY <1>3, <2>2
        <3>3. /\ m.index[i].useCount \div 2 \in 0 .. MaxUseCount
              /\ m.index[i].useCount \div 2 > 0 /\ m.index[i].useCount > 0
            BY <2>1, <3>2, ClientsAssumption
        <3> QED BY <2>1, <3>1, <3>3 DEF Entries
    <2>3. CASE ~(cull /\ i \in passed /\ IsOld(m, i))
        BY <1>5, <2>1, <2>3
    <2> QED BY <2>2, <2>3
<1>7. InUse(a) = InUse(m)
    BY <1>6 DEF InUse
<1>8. a \in Segments
    <2>1. a.index \in [Slots -> Entries]
        BY <1>5, <1>6
    <2> QED BY <1>1, <1>5, <2>1, SegmentsByFields, SegmentsHaveShape
<1>9. \A i \in Slots \ InUse(m) : a.index[i] = m.index[i]
    <2> TAKE i \in Slots \ InUse(m)
    <2>1. ~(m.index[i].useCount > 0) /\ m.index[i].useCount \in Nat
        BY <1>1 DEF InUse, HasShape
    <2> QED BY <1>6, <2>1
<1>10. InUse(m) \subseteq Slots
    BY DEF InUse
<1>11. Sound(a)
    BY <1>5, <1>6, <1>7, <1>8, <1>9, <1>10, TouchedSound
<1> QED BY <1>5, <1>6, <1>7, <1>11 DEF a, n

(* Removing the entry in the way of a new one never throws. *)
LEMMA VacatedSound ==
    ASSUME NEW m, Sound(m), NEW i \in Slots
    PROVE  /\ ~VacateThrows(m, i)
           /\ Sound(Vacated(m, i)) /\ Shrinks(m, Vacated(m, i))
           /\ InUse(Vacated(m, i)) = InUse(m) \ {i}
<1>1. HasShape(m) /\ TablesAgree(m)
      /\ \A j \in Slots : m.index[j] \in Entries
    BY SegmentsHaveShape DEF Sound
<1>2. CASE Occupied(m, i)
    <2>1. i \in InUse(m)
        BY <1>2 DEF Occupied, InUse
    <2>2. Vacated(m, i) = removeEntries(m, {i})
        BY <1>2 DEF Vacated, removeEntry
    <2>3. ~RemoveEntryThrows(m, i)
        BY <1>1, <2>1, EntryNeverThrows
    <2>4. {i} \in SUBSET InUse(m)
        BY <2>1
    <2> QED BY <2>2, <2>3, <2>4, RemovalSound DEF VacateThrows
<1>3. CASE ~Occupied(m, i)
    <2>1. Vacated(m, i) = m /\ ~VacateThrows(m, i)
        BY <1>3 DEF Vacated, VacateThrows
    <2>2. i \notin InUse(m)
        <3>1. ASSUME i \in InUse(m) PROVE m.index[i].firstPage >= 0
            <4>1. m.index[i].firstPage \in Pages
                BY <1>1, <3>1 DEF TablesAgree, OwnsRun
            <4> QED BY <4>1 DEF Pages
        <3> QED BY <1>3, <3>1 DEF Occupied, InUse
    <2>3. Shrinks(m, m)
        BY <1>1 DEF Shrinks, Entries, InUse
    <2> QED BY <2>1, <2>2, <2>3
<1> QED BY <1>2, <1>3

(* The sizes of an item. *)
LEMMA ItemFacts ==
    ASSUME NEW item \in Item
    PROVE  /\ item.key \in Keys /\ item.value \in Values
           /\ RequiredSize(item) \in Nat \ {0}
           /\ PagesNeeded(item) \in Nat \ {0}
           /\ PagesNeeded(item) * PageSize >= RequiredSize(item)
           /\ Hash[item.key] \in Nat
<1>1. item.key \in Keys /\ item.value \in Values
    BY DEF Item
<1>2. RequiredSize(item) \in Nat \ {0} /\ Hash[item.key] \in Nat
    BY <1>1, ItemsAssumption DEF RequiredSize
<1>3. /\ PagesNeeded(item) \in Nat /\ PagesNeeded(item) >= 1
      /\ PagesNeeded(item) * PageSize >= RequiredSize(item)
    BY <1>2, CeilFacts DEF PagesNeeded
<1> QED BY <1>1, <1>2, <1>3

(* Storing an item in a free run of pages and a free slot of its chain     *)
(* keeps the segment sound and touches no other entry.                     *)
LEMMA StoredSound ==
    ASSUME NEW m, Sound(m), NEW i \in Slots \ InUse(m), NEW item \in Item,
           NEW first \in Pages, IsFreeRun(m, first, PagesNeeded(item)),
           NEW t \in 0 .. MaxTime,
           \E n \in 0 .. MaxProbe - 1 : i = Probe(Hash[item.key], n)
    PROVE  /\ Sound(Stored(m, i, item, first, t))
           /\ InUse(Stored(m, i, item, first, t)) = InUse(m) \cup {i}
           /\ \A j \in Slots \ {i} : Stored(m, i, item, first, t).index[j] = m.index[j]
           /\ Stored(m, i, item, first, t).index[i] =
                 [fileNameHash |-> Hash[item.key], totalItemSize |-> RequiredSize(item),
                  useCount |-> 1, addTime |-> t, lastUsedTime |-> t, firstPage |-> first]
           /\ Stored(m, i, item, first, t).page = [p \in Pages |->
                  IF p \in first .. first + PagesNeeded(item) - 1
                  THEN Piece(item, p - first) ELSE m.page[p]]
           /\ \A j \in Slots : j \in Stored(m, i, item, first, t).failed
                            <=> j \in m.failed /\ j # i
           /\ first .. first + PagesNeeded(item) - 1 \subseteq FreePages(m)
<1> DEFINE n == PagesNeeded(item)
           run == first .. first + n - 1
           r == Stored(m, i, item, first, t)
           e == [fileNameHash |-> Hash[item.key], totalItemSize |-> RequiredSize(item),
                 useCount |-> 1, addTime |-> t, lastUsedTime |-> t, firstPage |-> first]
<1>1. m \in Segments /\ HasShape(m) /\ TablesAgree(m)
      /\ \A j \in Slots : m.index[j] \in Entries
    BY SegmentsHaveShape DEF Sound
<1>2. n \in Nat \ {0} /\ RequiredSize(item) \in Nat \ {0} /\ Hash[item.key] \in Nat
      /\ n = intCeil(RequiredSize(item), PageSize)
    BY ItemFacts DEF PagesNeeded
<1>3. e \in Entries
    BY <1>2, ClientsAssumption DEF Entries
<1>4. first \in Nat /\ first + n <= NumPages /\ NumPages \in Nat
      /\ \A p \in run : m.pageTable[p] < 0
    BY PageFacts DEF IsFreeRun
<1>5. /\ r.index = [m.index EXCEPT ![i] = e]
      /\ r.pageTable = [p \in Pages |-> IF p \in run THEN i ELSE m.pageTable[p]]
      /\ r.page = [p \in Pages |-> IF p \in run THEN Piece(item, p - first) ELSE m.page[p]]
      /\ r.cacheAvail = m.cacheAvail - n /\ r.failed = m.failed \ {i}
      /\ r.cacheTimestamp = m.cacheTimestamp /\ r.evictionPolicy = m.evictionPolicy
      /\ IsRecord(r)
    <2> DEFINE index == [m.index EXCEPT ![i] = e]
               table == [p \in Pages |-> IF p \in run THEN i ELSE m.pageTable[p]]
               page == [p \in Pages |->
                            IF p \in run THEN Piece(item, p - first) ELSE m.page[p]]
    <2>1. r = [m EXCEPT !.index = index, !.pageTable = table, !.page = page,
                        !.cacheAvail = m.cacheAvail - n,
                        !.failed = m.failed \ {i}]
        BY DEF Stored
    <2>2. IsRecord(m)
        BY <1>1 DEF HasShape
    <2> HIDE DEF r, index, table, page, n
    <2>3. /\ r.index = index /\ r.pageTable = table /\ r.page = page
          /\ r.cacheAvail = m.cacheAvail - n /\ r.failed = m.failed \ {i}
          /\ r.cacheTimestamp = m.cacheTimestamp /\ r.evictionPolicy = m.evictionPolicy
          /\ IsRecord(r)
        BY <2>1, <2>2 DEF IsRecord
    <2> QED BY <2>3 DEF index, table, page
<1> HIDE DEF e, r, n
<1>6. run \subseteq Pages /\ run \subseteq FreePages(m)
    <2>1. run \subseteq Pages
        BY <1>2, <1>4 DEF Pages
    <2> QED BY <1>4, <2>1 DEF FreePages
<1>7. i \in Slots /\ i \in Nat /\ i \notin InUse(m)
    BY PageFacts
<1>8. /\ r.index[i] = e
      /\ \A j \in Slots \ {i} : r.index[j] = m.index[j]
      /\ r.index \in [Slots -> Entries]
    <2>1. m.index \in [Slots -> Entries]
        BY <1>1, SegmentsHaveShape
    <2> QED BY <1>3, <1>5, <1>7, <2>1
<1>9. e.useCount = 1 /\ e.firstPage = first /\ e.totalItemSize = RequiredSize(item)
      /\ e.fileNameHash = Hash[item.key]
    BY DEF e
<1>10. InUse(r) = InUse(m) \cup {i}
    <2>1. \A j \in Slots : r.index[j].useCount > 0 <=> j = i \/ m.index[j].useCount > 0
        BY <1>7, <1>8, <1>9
    <2> QED BY <1>7, <2>1 DEF InUse
<1>11. FreePages(r) = FreePages(m) \ run
    <2>1. \A p \in Pages : r.pageTable[p] < 0 <=> m.pageTable[p] < 0 /\ p \notin run
        BY <1>5, <1>7
    <2> QED BY <1>6, <2>1 DEF FreePages
<1>12. r.cacheAvail = Cardinality(FreePages(r)) /\ r.cacheAvail \in 0 .. NumPages
    <2>1. IsFiniteSet(FreePages(m)) /\ m.cacheAvail = Cardinality(FreePages(m))
          /\ Cardinality(FreePages(m)) \in 0 .. NumPages
        BY <1>1, FreeAndUsed DEF HasShape, TablesAgree
    <2>2. /\ IsFiniteSet(FreePages(m) \ run)
          /\ Cardinality(FreePages(m) \ run)
               = Cardinality(FreePages(m)) - Cardinality(FreePages(m) \cap run)
        BY ONLY <2>1, FS_Difference
    <2>3. Cardinality(run) = n
        BY <1>2, <1>4, IntervalSize
    <2>4. FreePages(m) \cap run = run
        BY <1>6
    <2>5. Cardinality(FreePages(m) \ run) \in Nat
        BY <2>2, FS_CardinalityType
    <2>6. Cardinality(FreePages(r)) = Cardinality(FreePages(m)) - n
        BY <1>11, <2>2, <2>3, <2>4
    <2>7. Cardinality(FreePages(r)) \in Nat
        BY <1>11, <2>5
    <2> HIDE DEF run
    <2> QED BY <1>2, <1>4, <1>5, <2>1, <2>6, <2>7
<1>13. r \in Segments
    <2>1. r.pageTable \in [Pages -> Slots \cup {-1}]
        BY <1>1, <1>5, <1>7, SegmentsHaveShape
    <2>2. r.page \in [Pages -> Contents]
        <3>1. \A p \in run : Piece(item, p - first) \in Contents
            BY <1>2, <1>4 DEF Piece, Contents
        <3> QED BY <1>1, <1>5, <3>1, SegmentsHaveShape
    <2> QED BY <1>1, <1>5, <1>8, <1>12, <2>1, <2>2, SegmentsByFields, SegmentsHaveShape
<1>14. \A j \in InUse(r) : OwnsRun(r, j)
    <2> TAKE j \in InUse(r)
    <2>1. CASE j = i
        <3>1. \A p \in Pages : r.pageTable[p] = i <=> p \in run
            <4> TAKE p \in Pages
            <4>1. m.pageTable[p] # i
                <5>1. m.pageTable[p] >= 0 => m.pageTable[p] \in InUse(m)
                    BY <1>1 DEF TablesAgree, UsedPages
                <5> QED BY <1>7, <5>1
            <4> QED BY <1>5, <4>1
        <3> QED BY <1>2, <1>4, <1>8, <1>9, <2>1, <3>1 DEF OwnsRun
    <2>2. CASE j # i
        <3>1. j \in InUse(m) /\ j \in Slots /\ r.index[j] = m.index[j]
            BY <1>8, <1>10, <2>2 DEF InUse
        <3>2. OwnsRun(m, j)
            BY <1>1, <3>1 DEF TablesAgree
        <3>3. \A p \in Pages : r.pageTable[p] = j <=> m.pageTable[p] = j
            <4>1. j \in Nat
                BY <3>1, PageFacts
            <4>2. ASSUME NEW p \in run PROVE m.pageTable[p] # j
                <5>1. m.pageTable[p] < 0 /\ m.pageTable[p] \in Int
                    BY <1>1, <1>4, <1>6, TableFacts DEF HasShape
                <5> QED BY <4>1, <5>1
            <4> QED BY <1>5, <2>2, <4>2
        <3> QED BY <3>1, <3>2, <3>3 DEF OwnsRun
    <2> QED BY <2>1, <2>2
<1>15. \A j \in Slots \ InUse(r) : r.index[j] = FreeEntry
    BY <1>1, <1>8, <1>10 DEF TablesAgree
<1>16. \A p \in UsedPages(r) : r.pageTable[p] \in InUse(r)
    <2> TAKE p \in UsedPages(r)
    <2>1. p \in Pages /\ r.pageTable[p] >= 0
        BY DEF UsedPages
    <2>2. CASE p \in run
        BY <1>5, <1>10, <2>1, <2>2
    <2>3. CASE p \notin run
        <3>1. r.pageTable[p] = m.pageTable[p]
            BY <1>5, <2>1, <2>3
        <3>2. p \in UsedPages(m)
            BY <2>1, <3>1 DEF UsedPages
        <3> QED BY <1>1, <1>10, <3>1, <3>2 DEF TablesAgree
    <2> QED BY <2>2, <2>3
<1>17. TablesAgree(r)
    BY <1>12, <1>14, <1>15, <1>16 DEF TablesAgree
<1>18. \A j \in InUse(r) : IsOnChain(r, j)
    <2> TAKE j \in InUse(r)
    <2>1. CASE j = i
        BY <1>8, <1>9, <2>1 DEF IsOnChain
    <2>2. CASE j # i
        <3>1. j \in InUse(m) /\ r.index[j] = m.index[j]
            BY <1>8, <1>10, <2>2 DEF InUse
        <3> QED BY <3>1 DEF Sound, IsOnChain
    <2> QED BY <2>1, <2>2
<1>19. \A j \in Slots : j \in r.failed <=> j \in m.failed /\ j # i
    BY <1>5
<1> QED BY <1>5, <1>6, <1>8, <1>10, <1>13, <1>17, <1>18, <1>19 DEF Sound, r, e, n

-----------------------------------------------------------------------------
(* The outcomes of insert(). *)

(* A fresh segment is sound and empty. *)
LEMMA InitialSound ==
    ASSUME NEW t \in Nat
    PROVE  Sound(InitialSegment(t)) /\ InUse(InitialSegment(t)) = {}
<1> DEFINE m == InitialSegment(t)
<1>1. /\ m.index = [i \in Slots |-> FreeEntry]
      /\ m.pageTable = [p \in Pages |-> -1]
      /\ m.page = [p \in Pages |-> Junk]
      /\ m.cacheAvail = NumPages /\ m.cacheTimestamp = t /\ m.failed = {}
      /\ m.evictionPolicy = "NoEvictionPreference"
      /\ IsRecord(m)
    BY DEF InitialSegment, IsRecord
<1> HIDE DEF m
<1>2. m \in Segments
    <2>1. m.index \in [Slots -> Entries]
        BY <1>1, FreeEntryIsEntry
    <2>2. m.page \in [Pages -> Contents]
        BY <1>1 DEF Contents
    <2> QED BY <1>1, <2>1, <2>2, SegmentsByFields, PageFacts DEF EvictionPolicies
<1>3. InUse(m) = {}
    BY <1>1 DEF InUse, FreeEntry
<1>4. FreePages(m) = Pages /\ UsedPages(m) = {}
    BY <1>1 DEF FreePages, UsedPages
<1>5. TablesAgree(m)
    BY <1>1, <1>3, <1>4, PageFacts DEF TablesAgree
<1> QED BY <1>2, <1>3, <1>5 DEF Sound, m

(* What a page that was not written starts with: nothing that is taken for *)
(* a key with hash h, or the first page of an item with such a key.        *)
LEMMA OldBytesFacts ==
    ASSUME NEW n \in Nat \ {0}, NEW h, NEW old \in OldBytes(n, h)
    PROVE  /\ \A c \in 0 .. n - 1 : old[c] \in Contents
           /\ \/ old[0] = Junk
              \/ \E x \in Item : Hash[x.key] = h /\ old[0] = Piece(x, 0)
<1> DEFINE alike == {item \in Item : Hash[item.key] = h}
<1>1. 0 \in 0 .. n - 1 /\ Junk \in Contents
    BY DEF Contents
<1>2. \A x \in Item : \A c \in 0 .. n - 1 : Piece(x, c) \in Contents
    BY DEF Piece, Contents
<1>3. CASE old = [c \in 0 .. n - 1 |-> Junk]
    BY <1>1, <1>3
<1>4. ASSUME NEW x \in alike, old = [c \in 0 .. n - 1 |-> IF c = 0 THEN Piece(x, 0) ELSE Junk]
      PROVE  (\A c \in 0 .. n - 1 : old[c] \in Contents) /\ old[0] = Piece(x, 0)
    BY <1>1, <1>2, <1>4
<1>5. ASSUME NEW x \in alike,
             old = [c \in 0 .. n - 1 |-> IF c < PagesNeeded(x) THEN Piece(x, c) ELSE Junk]
      PROVE  (\A c \in 0 .. n - 1 : old[c] \in Contents) /\ old[0] = Piece(x, 0)
    <2>1. 0 < PagesNeeded(x)
        BY ItemFacts
    <2> QED BY <1>1, <1>2, <1>5, <2>1
<1> QED BY <1>3, <1>4, <1>5 DEF OldBytes

(* An insert() that throws after it has updated the tables leaves them as  *)
(* one that succeeds does.                                                 *)
LEMMA HalfMadeSound ==
    ASSUME NEW m, Sound(m), NEW i \in Slots \ InUse(m), NEW item \in Item,
           NEW first \in Pages, IsFreeRun(m, first, PagesNeeded(item)),
           NEW t \in 0 .. MaxTime,
           \E n \in 0 .. MaxProbe - 1 : i = Probe(Hash[item.key], n),
           NEW old \in OldBytes(PagesNeeded(item), Hash[item.key])
    PROVE  LET s == Stored(m, i, item, first, t)
               r == HalfMade(m, i, item, first, t, old)
           IN /\ Sound(r) /\ InUse(r) = InUse(s) /\ r.index = s.index
              /\ r.page = [p \in Pages |->
                    IF p \in first .. first + PagesNeeded(item) - 1
                    THEN old[p - first] ELSE m.page[p]]
              /\ \A j \in Slots : j \in r.failed <=> j \in m.failed \/ j = i
<1>0. /\ Sound(Stored(m, i, item, first, t))
      /\ Stored(m, i, item, first, t).failed = m.failed \ {i}
    <2>1. Sound(Stored(m, i, item, first, t))
        BY StoredSound
    <2>2. IsRecord(m)
        BY SegmentsHaveShape DEF Sound, HasShape
    <2> QED BY <2>1, <2>2 DEF Stored, IsRecord
<1> DEFINE n == PagesNeeded(item)
           s == Stored(m, i, item, first, t)
           r == HalfMade(m, i, item, first, t, old)
           page == [p \in Pages |->
                      IF p \in first .. first + n - 1 THEN old[p - first] ELSE m.page[p]]
<1>1. Sound(s) /\ s.failed = m.failed \ {i} /\ i \in Slots
    BY <1>0
<1>2. s \in Segments /\ IsRecord(s)
    BY <1>1, SegmentsHaveShape DEF Sound, HasShape
<1>3. r = [s EXCEPT !.page = page, !.failed = s.failed \cup {i}]
    BY <1>2 DEF HalfMade, IsRecord
<1>4. page \in [Pages -> Contents]
    <2>1. ASSUME NEW p \in Pages PROVE page[p] \in Contents
        <3>1. CASE p \in first .. first + n - 1
            <4> DEFINE c == p - first
            <4>1. c \in 0 .. n - 1 /\ n \in Nat \ {0}
                <5>1. n \in Nat \ {0} /\ p \in Nat /\ first \in Nat
                    BY ItemFacts, PageFacts
                <5> HIDE DEF n
                <5> QED BY <3>1, <5>1
            <4>2. page[p] = old[c]
                BY <3>1
            <4> HIDE DEF c, n, page
            <4> QED BY <4>1, <4>2, OldBytesFacts DEF n
        <3>2. CASE p \notin first .. first + n - 1
            BY <3>2, SegmentsHaveShape DEF Sound
        <3> QED BY <3>1, <3>2
    <2> QED BY <2>1
<1> HIDE DEF s, r, page
<1>5. /\ r.index = s.index /\ r.pageTable = s.pageTable /\ r.cacheAvail = s.cacheAvail
      /\ r.cacheTimestamp = s.cacheTimestamp /\ r.evictionPolicy = s.evictionPolicy
      /\ r.page = page /\ r.failed = s.failed \cup {i} /\ IsRecord(r)
    BY <1>2, <1>3 DEF IsRecord
<1>6. r \in Segments
    BY <1>1, <1>2, <1>4, <1>5, SegmentsByFields, SegmentsHaveShape
<1>7. Sound(r)
    BY <1>1, <1>5, <1>6, HeaderSound
<1>8. InUse(r) = InUse(s)
    BY <1>5 DEF InUse
<1>9. \A j \in Slots : j \in r.failed <=> j \in m.failed \/ j = i
    BY <1>1, <1>5
<1> QED BY <1>5, <1>7, <1>8, <1>9 DEF s, r, page

(* o is what insert() comes to with its slot i vacated and the room made    *)
(* that segment r has: it gives up, stores the item, or throws when the     *)
(* item reaches beyond the mapping.                                        *)
PlacedIn(r, i, item, o) ==
    LET first == findEmptyPages(r, PagesNeeded(item)) IN
    \/ o = Outcome(r, "false")
    \/ /\ first \in Pages /\ IsFreeRun(r, first, PagesNeeded(item))
       /\ \/ o = Recovered
          \/ o = Outcome(Stored(r, i, item, first, now), "true")
          \/ \E old \in OldBytes(PagesNeeded(item), Hash[item.key]) :
                o = Outcome(HalfMade(r, i, item, first, now, old), "corrupt")

(* insert() with slot i vacated: it gives up, or finds a free run of pages *)
(* in a sound segment that has only lost entries.                          *)
LEMMA PlaceForms ==
    ASSUME NEW m, Sound(m), NEW i \in Slots \ InUse(m), NEW item \in Item,
           NEW o \in PlaceOutcomes(m, i, item)
    PROVE  \/ o = Outcome(m, "false")
           \/ \E r \in MakeRoom(m, PagesNeeded(item)) :
                 /\ PagesNeeded(item) < NumPages
                 /\ Sound(r) /\ Shrinks(m, r) /\ i \in Slots \ InUse(r)
                 /\ ~HasRoom(r, PagesNeeded(item)) \/ o.reply # "false"
                 /\ PlacedIn(r, i, item, o)
<1> DEFINE n == PagesNeeded(item)
<1>1. n \in Nat /\ n # 0
    BY ItemFacts
<1>2. CASE n >= NumPages
    BY <1>2 DEF PlaceOutcomes
<1>3. CASE ~(n >= NumPages)
    <2>1. n < NumPages
        BY <1>1, <1>3, PageFacts
    <2>2. ~MakeRoomThrows(m, n)
        BY <1>1, <2>1, MakeRoomNeverThrows
    <2>3. PICK r \in MakeRoom(m, n) :
            o \in IF HasRoom(r, n) THEN WriteOutcomes(r, i, item, findEmptyPages(r, n))
                  ELSE {Outcome(r, "false")}
        BY <1>3, <2>2 DEF PlaceOutcomes
    <2>4. Sound(r) /\ Shrinks(m, r) /\ i \in Slots \ InUse(r)
        BY <1>1, <2>1, RoomSound DEF Shrinks
    <2>5. HasRoom(r, n) => findEmptyPages(r, n) \in Pages
                           /\ IsFreeRun(r, findEmptyPages(r, n), n)
        BY <1>1, FindEmptyPages DEF HasRoom
    <2>6. CASE HasRoom(r, n)
        <3> DEFINE first == findEmptyPages(r, n)
        <3>1. o \in WriteOutcomes(r, i, item, first)
            BY <2>3, <2>6
        <3> HIDE DEF first
        <3>2. \/ o = Recovered
              \/ o = Outcome(Stored(r, i, item, first, now), "true")
              \/ \E old \in OldBytes(n, Hash[item.key]) :
                    o = Outcome(HalfMade(r, i, item, first, now, old), "corrupt")
            BY <3>1 DEF WriteOutcomes
        <3>3. o.reply # "false"
            BY <3>2 DEF Outcome, Recovered
        <3>4. PlacedIn(r, i, item, o)
            BY <2>5, <2>6, <3>2 DEF PlacedIn, first
        <3> QED BY <2>1, <2>4, <3>3, <3>4
    <2>7. CASE ~HasRoom(r, n)
        <3>1. PlacedIn(r, i, item, o)
            BY <2>3, <2>7 DEF PlacedIn
        <3> QED BY <2>1, <2>4, <2>7, <3>1
    <2> QED BY <2>6, <2>7
<1> QED BY <1>2, <1>3

(* The entry that an insert() goes on with, and the segment it does so on.  *)
LEMMA InsertForms ==
    ASSUME NEW m, Sound(m), NEW item \in Item, NEW o \in InsertOutcomes(m, item)
    PROVE  \E cull \in CullChoices(m) :
             LET h == Hash[item.key]
                 n == InsertProbe(m, h, cull)
                 i == Position(h, n)
                 v == Vacated(Aged(m, h, cull, n), i)
             IN /\ n \in 0 .. MaxProbe - 1
                /\ i = Probe(h, n) /\ i \in Slots \ InUse(v)
                /\ Sound(v)
                /\ o \in PlaceOutcomes(v, i, item)
<1> DEFINE h == Hash[item.key]
<1>1. PICK cull \in CullChoices(m) :
        o \in LET n == InsertProbe(m, h, cull)
                  i == Position(h, n)
                  aged == Aged(m, h, cull, n)
              IN IF VacateThrows(aged, i) THEN Thrown(aged)
                 ELSE PlaceOutcomes(Vacated(aged, i), i, item)
    BY DEF InsertOutcomes
<1> DEFINE n == InsertProbe(m, h, cull)
           i == Position(h, n)
           aged == Aged(m, h, cull, n)
<1>2. cull \in BOOLEAN /\ h \in Nat
    BY ItemFacts DEF CullChoices
<1>3. n \in 0 .. MaxProbe - 1
    BY <1>2, InsertProbeFacts
<1>4. i \in Slots /\ i = Probe(h, n)
    <2> HIDE DEF h, n
    <2> QED BY <1>2, <1>3, ProbeFacts
<1>5. Sound(aged)
    BY <1>2, AgedSound
<1>6. ~VacateThrows(aged, i) /\ Sound(Vacated(aged, i)) /\ i \notin InUse(Vacated(aged, i))
    <2> HIDE DEF aged, i
    <2> QED BY <1>4, <1>5, VacatedSound
<1> QED BY <1>1, <1>3, <1>4, <1>6

(* insert() leaves a sound segment. *)
LEMMA InsertSound ==
    ASSUME NEW m, Sound(m), now \in 0 .. MaxTime, NEW item \in Item,
           NEW o \in InsertOutcomes(m, item)
    PROVE  Sound(o.shm) /\ o.reply \in {"true", "false", "corrupt"}
<1>1. PICK v, i :
        /\ i \in Slots \ InUse(v)
        /\ Sound(v)
        /\ \E n \in 0 .. MaxProbe - 1 : i = Probe(Hash[item.key], n)
        /\ o \in PlaceOutcomes(v, i, item)
    BY InsertForms
<1>2. CASE o = Outcome(v, "false")
    BY <1>1, <1>2 DEF Outcome
<1>3. ASSUME NEW r, Sound(r), i \in Slots \ InUse(r), o = Outcome(r, "false")
      PROVE  Sound(o.shm) /\ o.reply \in {"true", "false", "corrupt"}
    BY <1>3 DEF Outcome
<1>4. CASE o = Recovered
    <2>1. now \in Nat
        BY ClientsAssumption
    <2> QED BY <1>4, <2>1, InitialSound DEF Recovered, Outcome
<1>5. ASSUME NEW r, Sound(r), i \in Slots \ InUse(r), NEW first \in Pages,
             IsFreeRun(r, first, PagesNeeded(item)),
             \/ o = Outcome(Stored(r, i, item, first, now), "true")
             \/ \E old \in OldBytes(PagesNeeded(item), Hash[item.key]) :
                   o = Outcome(HalfMade(r, i, item, first, now, old), "corrupt")
      PROVE  Sound(o.shm) /\ o.reply \in {"true", "false", "corrupt"}
    <2>1. Sound(Stored(r, i, item, first, now))
        BY <1>1, <1>5, StoredSound
    <2>2. \A old \in OldBytes(PagesNeeded(item), Hash[item.key]) :
             Sound(HalfMade(r, i, item, first, now, old))
        BY <1>1, <1>5, HalfMadeSound
    <2> QED BY <1>5, <2>1, <2>2 DEF Outcome
<1>6. ASSUME NEW r, Sound(r), i \in Slots \ InUse(r), PlacedIn(r, i, item, o)
      PROVE  Sound(o.shm) /\ o.reply \in {"true", "false", "corrupt"}
    <2> DEFINE first == findEmptyPages(r, PagesNeeded(item))
    <2>1. CASE o = Outcome(r, "false")
        BY <1>3, <1>6, <2>1
    <2>2. CASE o = Recovered
        BY <1>4, <2>2
    <2>3. CASE o # Outcome(r, "false") /\ o # Recovered
        <3>1. /\ first \in Pages /\ IsFreeRun(r, first, PagesNeeded(item))
              /\ \/ o = Outcome(Stored(r, i, item, first, now), "true")
                 \/ \E old \in OldBytes(PagesNeeded(item), Hash[item.key]) :
                       o = Outcome(HalfMade(r, i, item, first, now, old), "corrupt")
            BY <1>6, <2>3 DEF PlacedIn
        <3> HIDE DEF first
        <3> QED BY <1>5, <1>6, <3>1
    <2> QED BY <2>1, <2>2, <2>3
<1> QED BY <1>1, <1>2, <1>6, PlaceForms

-----------------------------------------------------------------------------
(* The type invariant and the consistency of the tables. *)

(* The inductive invariant of the tables. *)
IInv == Sound(shm) /\ now \in 0 .. MaxTime /\ reply \in Replies

(* It is what the runs check. *)
LEMMA IInvFacts == IInv <=> TypeOK /\ TablesConsistent /\ OnProbeChain
BY DEF IInv, Sound, TypeOK, TablesConsistent, OnProbeChain

(* It holds of a cache that was just created ... *)
LEMMA InitIInv == Init => IInv
<1> SUFFICES ASSUME Init PROVE IInv
    OBVIOUS
<1>1. now \in Nat /\ now \in 0 .. MaxTime
    BY ClientsAssumption DEF Init
<1> QED BY <1>1, InitialSound DEF Init, IInv, Replies, Answers

(* findNamedEntry() returns an entry in use whose first page starts with   *)
(* the key.                                                                *)
LEMMA LookupFacts ==
    ASSUME NEW m, Sound(m), NEW k \in Keys, findNamedEntry(m, k) # -1
    PROVE  /\ findNamedEntry(m, k) \in InUse(m)
           /\ NameMatches(m, findNamedEntry(m, k), k)
           /\ m.index[findNamedEntry(m, k)].fileNameHash = Hash[k]
<1> DEFINE h == Hash[k]
           stops(n) == m.index[Probe(h, n)].fileNameHash = h \/ n = MaxProbe - 1
           S == {n \in 0 .. MaxProbe - 1 : stops(n)}
<1>1. h \in Nat /\ MaxProbe \in Nat /\ MaxProbe >= 1
    BY ItemsAssumption, SizesAssumption
<1>2. PICK n \in S : \A x \in S : n <= x
    <2>1. MaxProbe - 1 \in S /\ S \subseteq Nat
        BY <1>1
    <2> HIDE DEF S
    <2> QED BY <2>1, LeastNatural
<1>3. n \in 0 .. MaxProbe - 1 /\ stops(n) /\ \A j \in 0 .. n - 1 : ~stops(j)
    <2>1. ASSUME NEW j \in 0 .. n - 1, stops(j)
          PROVE  FALSE
        <3>1. j \in S
            BY <1>1, <1>2, <2>1
        <3> QED BY <1>1, <1>2, <2>1, <3>1
    <2> QED BY <1>2, <2>1
<1>4. PICK n1 \in 0 .. MaxProbe - 1 : LookupSlot(m, h) = Probe(h, n1)
    BY <1>3 DEF LookupSlot
<1>5. LookupSlot(m, h) \in Slots
    <2> HIDE DEF h
    <2> QED BY <1>1, <1>4, ProbeFacts
<1> DEFINE i == findNamedEntry(m, k)
<1>6. i = LookupSlot(m, h) /\ m.index[i].fileNameHash = h
      /\ m.index[i].firstPage \in Pages /\ NameMatches(m, i, k)
    BY DEF findNamedEntry
<1>7. i \in InUse(m)
    <2>1. m.index[i].firstPage # -1
        BY <1>6, PageFacts
    <2> QED BY <1>5, <1>6, <2>1 DEF Sound, TablesAgree, FreeEntry
<1> QED BY <1>6, <1>7

(* find() counts a use, and changes nothing else of the tables. *)
LEMMA FindSound ==
    ASSUME NEW m, Sound(m), now \in 0 .. MaxTime, NEW i \in InUse(m),
           m.index[i].useCount < MaxUseCount
    PROVE  LET r == [m EXCEPT !.index[i].useCount = @ + 1,
                              !.index[i].lastUsedTime = now]
           IN /\ Sound(r) /\ InUse(r) = InUse(m) /\ r.page = m.page
              /\ r.failed = m.failed
              /\ \A j \in Slots :
                    /\ r.index[j].firstPage = m.index[j].firstPage
                    /\ r.index[j].fileNameHash = m.index[j].fileNameHash
                    /\ r.index[j].totalItemSize = m.index[j].totalItemSize
<1> DEFINE r == [m EXCEPT !.index[i].useCount = @ + 1, !.index[i].lastUsedTime = now]
           e == [m.index[i] EXCEPT !.useCount = @ + 1, !.lastUsedTime = now]
<1>1. m \in Segments /\ HasShape(m) /\ i \in Slots
      /\ \A j \in Slots : m.index[j] \in Entries
    BY SegmentsHaveShape DEF Sound, InUse
<1>2. m.index[i] \in Entries /\ m.index[i].useCount \in Nat
    BY <1>1 DEF HasShape
<1>3. /\ e \in Entries /\ e.useCount > 0 /\ e.firstPage = m.index[i].firstPage
      /\ e.fileNameHash = m.index[i].fileNameHash
      /\ e.totalItemSize = m.index[i].totalItemSize
    <2>1. m.index[i].useCount + 1 \in 0 .. MaxUseCount
        BY <1>2, ClientsAssumption
    <2>2. PICK u \in 0 .. MaxUseCount : u = m.index[i].useCount + 1
        BY <2>1
    <2>3. u > 0
        BY <1>2, <2>2
    <2>4. e = [m.index[i] EXCEPT !.useCount = u, !.lastUsedTime = now]
        BY <2>2
    <2> HIDE DEF e
    <2> QED BY <1>2, <2>3, <2>4 DEF Entries
<1>4. /\ r.index = [m.index EXCEPT ![i] = e]
      /\ r.page = m.page /\ r.pageTable = m.pageTable /\ r.cacheAvail = m.cacheAvail
      /\ r.failed = m.failed
      /\ r.cacheTimestamp = m.cacheTimestamp /\ r.evictionPolicy = m.evictionPolicy
      /\ IsRecord(r)
    <2> DEFINE f == [m.index EXCEPT ![i].useCount = @ + 1, ![i].lastUsedTime = now]
    <2>1. IsRecord(m) /\ m.index = [j \in Slots |-> m.index[j]]
        BY <1>1 DEF HasShape
    <2>2. r = [m EXCEPT !.index = f]
        BY <1>1, <2>1 DEF IsRecord
    <2>3. f = [m.index EXCEPT ![i] = e]
        BY <1>1, <2>1
    <2> HIDE DEF r, e, f
    <2> QED BY <2>1, <2>2, <2>3 DEF IsRecord
<1> HIDE DEF r, e
<1>5. /\ r.index[i] = e /\ r.index \in [Slots -> Entries]
      /\ \A j \in Slots \ {i} : r.index[j] = m.index[j]
    <2>1. m.index \in [Slots -> Entries]
        BY <1>1, SegmentsHaveShape
    <2> QED BY <1>1, <1>3, <1>4, <2>1
<1>6. \A j \in Slots :
                    /\ r.index[j].firstPage = m.index[j].firstPage
                    /\ r.index[j].fileNameHash = m.index[j].fileNameHash
                    /\ r.index[j].totalItemSize = m.index[j].totalItemSize
                    /\ r.index[j].useCount > 0 <=> m.index[j].useCount > 0
    <2> TAKE j \in Slots
    <2>1. CASE j = i
        BY <1>3, <1>5, <2>1 DEF InUse
    <2>2. CASE j # i
        BY <1>5, <2>2
    <2> QED BY <2>1, <2>2
<1>7. InUse(r) = InUse(m)
    BY <1>6 DEF InUse
<1>8. r \in Segments
    BY <1>1, <1>4, <1>5, SegmentsByFields, SegmentsHaveShape
<1>9. \A j \in Slots \ InUse(m) : r.index[j] = m.index[j]
    BY <1>5
<1>10. Sound(r)
    BY <1>4, <1>6, <1>7, <1>8, <1>9, TouchedSound DEF InUse
<1> QED BY <1>4, <1>6, <1>7, <1>10 DEF r

(* find() reads the value of some item, or torn data. *)
LEMMA ReadFacts ==
    ASSUME NEW m, Sound(m), NEW i \in InUse(m), NEW k, NameMatches(m, i, k)
    PROVE  /\ m.page[m.index[i].firstPage] \in [item : Item, chunk : Nat]
           /\ ReadData(m, i) \in Values \cup {"torn"}
<1>1. m.index[i].firstPage \in Pages
    BY DEF Sound, TablesAgree, OwnsRun
<1>2. m.page[m.index[i].firstPage] \in Contents
    BY <1>1, SegmentsHaveShape DEF Sound
<1>3. m.page[m.index[i].firstPage] \in [item : Item, chunk : Nat]
    BY <1>2 DEF NameMatches, Contents
<1> QED BY <1>3 DEF ReadData, Item

(* ... and of every segment that one of the operations leaves. *)
LEMMA insertIInv ==
    ASSUME IInv, NEW k \in Keys, NEW v \in Values, insert(k, v)
    PROVE  IInv'
<1> DEFINE item == [key |-> k, value |-> v]
<1>1. item \in Item
    BY DEF Item
<1>2. PICK o \in InsertOutcomes(shm, item) : shm' = o.shm /\ reply' = o.reply
    BY DEF insert
<1>3. Sound(o.shm) /\ o.reply \in {"true", "false", "corrupt"}
    <2> HIDE DEF item
    <2> QED BY <1>1, InsertSound DEF IInv
<1> QED BY <1>2, <1>3 DEF insert, IInv, Replies, Answers

(* recoverCorruptedCache() starts over with a fresh segment, and the others *)
(* keep the old one.                                                       *)
LEMMA ThrownIInv ==
    ASSUME IInv, NEW o \in Thrown(shm), shm' = o.shm, reply' = o.reply, UNCHANGED now
    PROVE  IInv'
<1>1. shm' \in {shm, InitialSegment(now)} /\ reply' = "corrupt"
    BY DEF Thrown, Recovered, Outcome
<1>2. now \in Nat
    BY ClientsAssumption DEF IInv
<1> QED BY <1>1, <1>2, InitialSound DEF IInv, Replies, Answers

(* remove() takes one entry out, or none. *)
LEMMA removeIInv ==
    ASSUME IInv, NEW k \in Keys, remove(k)
    PROVE  IInv'
<1> DEFINE i == findNamedEntry(shm, k)
<1>1. CASE i = -1
    BY <1>1 DEF remove, IInv, Replies, Answers
<1>2. CASE i # -1
    <2>1. i \in InUse(shm)
        BY <1>2, LookupFacts DEF IInv
    <2>2. ~RemoveEntryThrows(shm, i)
        BY <2>1, EntryNeverThrows, SegmentsHaveShape DEF IInv, Sound
    <2>3. shm' = removeEntries(shm, {i}) /\ reply' = "true" /\ now' = now
        BY <1>2, <2>2 DEF remove, removeEntry
    <2>4. Sound(removeEntries(shm, {i}))
        <3> HIDE DEF i
        <3>1. {i} \in SUBSET InUse(shm)
            BY <2>1
        <3> QED BY <3>1, RemovalSound DEF IInv
    <2> QED BY <2>3, <2>4 DEF IInv, Replies, Answers
<1> QED BY <1>1, <1>2

(* find() counts a use, or recovers. *)
LEMMA findIInv ==
    ASSUME IInv, NEW k \in Keys, find(k)
    PROVE  IInv'
<1> DEFINE i == findNamedEntry(shm, k)
<1>1. CASE i = -1
    BY <1>1 DEF find, IInv, Replies, Answers
<1>2. CASE i # -1 /\ ~AccessIsMapped(shm.index[i].firstPage, shm.index[i].totalItemSize)
    BY <1>2, ThrownIInv DEF find
<1>3. CASE i # -1 /\ AccessIsMapped(shm.index[i].firstPage, shm.index[i].totalItemSize)
    <2>1. i \in InUse(shm) /\ NameMatches(shm, i, k)
        BY <1>3, LookupFacts DEF IInv
    <2>2. /\ shm.index[i].useCount < MaxUseCount
          /\ shm' = [shm EXCEPT !.index[i].useCount = @ + 1,
                                !.index[i].lastUsedTime = now]
          /\ reply' = ReadData(shm, i) /\ now' = now
        BY <1>3 DEF find
    <2> HIDE DEF i
    <2>3. Sound(shm')
        BY <2>1, <2>2, FindSound DEF IInv
    <2>4. reply' \in Replies
        BY <2>1, <2>2, ReadFacts DEF IInv, Replies, Answers
    <2> QED BY <2>2, <2>3, <2>4 DEF IInv
<1> QED BY <1>1, <1>2, <1>3

(* clear() empties the tables. *)
LEMMA clearIInv ==
    ASSUME IInv, clear
    PROVE  IInv' /\ InUse(shm') = {}
<1> DEFINE r == Emptied(shm)
<1>1. shm \in Segments /\ IsRecord(shm) /\ shm.evictionPolicy \in EvictionPolicies
      /\ shm.cacheTimestamp \in Nat
    BY SegmentsHaveShape DEF IInv, Sound, HasShape
<1>2. /\ r.index = [i \in Slots |-> FreeEntry]
      /\ r.pageTable = [p \in Pages |-> -1]
      /\ r.page = [p \in Pages |-> Junk]
      /\ r.cacheAvail = NumPages /\ r.cacheTimestamp = shm.cacheTimestamp
      /\ r.failed = {}
      /\ r.evictionPolicy = shm.evictionPolicy
      /\ IsRecord(r)
    <2> DEFINE index == [i \in Slots |-> FreeEntry]
               table == [p \in Pages |-> -1]
               page == [p \in Pages |-> Junk]
    <2>1. r = [shm EXCEPT !.index = index, !.pageTable = table, !.page = page,
                          !.cacheAvail = NumPages, !.failed = {}]
        BY DEF Emptied
    <2> HIDE DEF r, index, table, page
    <2>2. /\ r.index = index /\ r.pageTable = table /\ r.page = page
          /\ r.cacheAvail = NumPages /\ r.cacheTimestamp = shm.cacheTimestamp
          /\ r.failed = {}
          /\ r.evictionPolicy = shm.evictionPolicy /\ IsRecord(r)
        BY <1>1, <2>1 DEF IsRecord
    <2> QED BY <2>2 DEF index, table, page
<1> HIDE DEF r
<1>3. r \in Segments
    <2>1. r.index \in [Slots -> Entries]
        BY <1>2, FreeEntryIsEntry
    <2>2. r.page \in [Pages -> Contents]
        BY <1>2 DEF Contents
    <2> QED BY <1>1, <1>2, <2>1, <2>2, SegmentsByFields, PageFacts
<1>4. InUse(r) = {}
    BY <1>2 DEF InUse, FreeEntry
<1>5. FreePages(r) = Pages /\ UsedPages(r) = {}
    BY <1>2 DEF FreePages, UsedPages
<1>6. TablesAgree(r)
    BY <1>2, <1>4, <1>5, PageFacts DEF TablesAgree
<1>7. shm' = r /\ reply' = "none" /\ now' = now
    BY DEF clear, r
<1> QED BY <1>3, <1>4, <1>6, <1>7 DEF Sound, IInv, Replies, Answers

(* setTimestamp() and setEvictionPolicy() leave the tables alone. *)
LEMMA headerIInv ==
    ASSUME IInv,
           \/ \E t \in Timestamps : setTimestamp(t)
           \/ \E policy \in Policies : setEvictionPolicy(policy)
    PROVE  /\ IInv' /\ reply' = "none" /\ InUse(shm') = InUse(shm)
           /\ shm'.index = shm.index /\ shm'.page = shm.page
           /\ shm'.failed = shm.failed
<1>1. /\ shm'.index = shm.index /\ shm'.pageTable = shm.pageTable
      /\ shm'.page = shm.page /\ shm'.cacheAvail = shm.cacheAvail
      /\ shm'.failed = shm.failed
      /\ shm' \in Segments
    <2>1. shm \in Segments
        BY DEF IInv, Sound
    <2>2. CASE \E t \in Timestamps : setTimestamp(t)
        BY <2>1, <2>2, ClientsAssumption DEF setTimestamp, Segments
    <2>3. CASE \E policy \in Policies : setEvictionPolicy(policy)
        BY <2>1, <2>3, ClientsAssumption DEF setEvictionPolicy, Segments
    <2> QED BY <2>2, <2>3
<1>2. Sound(shm')
    BY <1>1, HeaderSound DEF IInv
<1>3. reply' = "none" /\ now' = now
    BY DEF setTimestamp, setEvictionPolicy
<1> QED BY <1>1, <1>2, <1>3 DEF IInv, Replies, Answers, InUse

(* Every step keeps the invariant. *)
LEMMA NextIInv == IInv /\ [Next]_vars => IInv'
<1> SUFFICES ASSUME IInv, [Next]_vars PROVE IInv'
    OBVIOUS
<1>1. ASSUME NEW k \in Keys, NEW v \in Values, insert(k, v) PROVE IInv'
    BY <1>1, insertIInv
<1>2. ASSUME NEW k \in Keys, remove(k) PROVE IInv'
    BY <1>2, removeIInv
<1>3. ASSUME NEW k \in Keys, find(k) PROVE IInv'
    BY <1>3, findIInv
<1>4. ASSUME NEW k \in Keys, contains(k) PROVE IInv'
    BY <1>4 DEF contains, IInv, Replies, Answers
<1>5. CASE clear
    BY <1>5, clearIInv
<1>6. CASE \/ \E t \in Timestamps : setTimestamp(t)
           \/ \E policy \in Policies : setEvictionPolicy(policy)
    BY <1>6, headerIInv
<1>7. CASE Tick
    BY <1>7, ClientsAssumption DEF Tick, IInv
<1>8. CASE UNCHANGED vars
    BY <1>8 DEF vars, IInv
<1> QED BY <1>1, <1>2, <1>3, <1>4, <1>5, <1>6, <1>7, <1>8 DEF Next

(* So it holds in every state. *)
LEMMA Inductive == Spec => []IInv
BY InitIInv, NextIInv, PTL DEF Spec

(* Whatever sequence of calls clients make, on a cache of any size with    *)
(* any keys and hashes: every entry in use owns the contiguous run of      *)
(* pages its size calls for, every used page belongs to such a run,        *)
(* cacheAvail counts the others, and every entry lies on the probe chain   *)
(* of its hash.                                                            *)
THEOREM SegmentIsSound == Spec => []SegmentSound
<1>1. IInv => SegmentSound
    BY IInvFacts DEF SegmentSound
<1> QED BY <1>1, Inductive, PTL

-----------------------------------------------------------------------------
(* The checks that throw KSDCCorrupted. *)

(* An item in a run of pages that ends before the last page ends within    *)
(* the mapping, however much of the last page is left out.                 *)
LEMMA RunsAreMapped ==
    ASSUME NEW p \in Nat, NEW size \in Nat, p + intCeil(size, PageSize) < NumPages
    PROVE  AccessIsMapped(p, size)
<1> DEFINE n == intCeil(size, PageSize)
<1>1. /\ n \in Nat /\ n * PageSize >= size /\ PageSize \in Nat /\ NumPages \in Nat
      /\ UnmappedBytes \in Nat /\ UnmappedBytes < PageSize
    BY CeilFacts, SizesAssumption
<1> HIDE DEF n
<1>2. p + n <= NumPages - 1
    BY <1>1 DEF n
<1>3. (p + n) * PageSize <= (NumPages - 1) * PageSize
    BY <1>1, <1>2
<1>4. /\ (p + n) * PageSize = p * PageSize + n * PageSize
      /\ (NumPages - 1) * PageSize = NumPages * PageSize - PageSize
    BY <1>1
<1>5. p * PageSize \in Nat /\ n * PageSize \in Nat /\ NumPages * PageSize \in Nat
    BY <1>1
<1>6. p * PageSize + size <= NumPages * PageSize - PageSize
    BY <1>1, <1>3, <1>4, <1>5
<1>7. p * PageSize + size <= NumPages * PageSize - UnmappedBytes
    BY <1>1, <1>5, <1>6
<1> QED BY <1>7 DEF AccessIsMapped

(* None of them fires on a sound segment. *)
LEMMA ChecksHold == IInv => TablesNeverThrow /\ ReadableButAtEnd
<1> SUFFICES ASSUME IInv PROVE TablesNeverThrow /\ ReadableButAtEnd
    OBVIOUS
<1>1. Sound(shm) /\ HasShape(shm) /\ TablesAgree(shm) /\ InUse(shm) \subseteq Slots
    BY SegmentsHaveShape DEF IInv, Sound, InUse
<1>2. \A i \in InUse(shm) : ~RemoveEntryThrows(shm, i)
    BY <1>1, EntryNeverThrows
<1>3. \A n \in 1 .. NumPages - 1 : ~MakeRoomThrows(shm, n)
    <2> TAKE n \in 1 .. NumPages - 1
    <2>1. n \in Nat /\ n < NumPages
        BY PageFacts
    <2> QED BY <1>1, <2>1, MakeRoomNeverThrows
<1>4. ReadableButAtEnd
    <2>1. ASSUME NEW i \in InUse(shm)
          PROVE  shm.index[i].firstPage \in Nat /\ shm.index[i].totalItemSize \in Nat
        <3>1. OwnsRun(shm, i) /\ shm.index[i].totalItemSize \in Nat
            BY <1>1, <2>1 DEF TablesAgree, HasShape
        <3> QED BY <3>1, PageFacts DEF OwnsRun
    <2> QED BY <2>1, RunsAreMapped DEF ReadableButAtEnd
<1> QED BY <1>2, <1>3, <1>4 DEF TablesNeverThrow

(* In no state that calls can lead to, also after insert()s that failed    *)
(* half-way in another process, does a check of the tables fire, and every *)
(* item that ends before the last page can be read. So the cache throws    *)
(* its contents away for an item at the end of the last page, or never.    *)
THEOREM ChecksNeverFire == Spec => [](TablesNeverThrow /\ ReadableButAtEnd)
BY ChecksHold, Inductive, PTL

-----------------------------------------------------------------------------
(* The contents of the pages. *)

(* The label and the key that an NDEBUG build writes over a removed entry   *)
(* stay in the pages of that entry. An entry whose data was never written  *)
(* may start with another key of the same hash.                            *)
LabelsFit ==
    \/ LabelLength = 0
    \/ \A item \in Item, k \in Keys :
          Hash[k] = Hash[item.key] =>
              LabelLength + KeyLength[k] + 1 <= PagesNeeded(item) * PageSize

(* Entry i has the hash and the size of some item, and starts with a key    *)
(* of that hash if with any.                                               *)
IsNamed(m, i) ==
    \E item \in Item :
        LET e == m.index[i]
            first == m.page[e.firstPage]
        IN /\ e.fileNameHash = Hash[item.key]
           /\ e.totalItemSize = RequiredSize(item)
           /\ first # Junk => first.item \in Item /\ Hash[first.item.key] = e.fileNameHash

(* The pages of every entry in use hold one whole item, unless their data   *)
(* was never written.                                                      *)
AllWhole(m) == \A i \in InUse(m) : IsNamed(m, i) /\ (i \notin m.failed => IsWhole(m, i))

(* Entry i of r shows what it shows in m, and is as good. *)
KeepsItem(m, r, i) ==
    /\ r.page[r.index[i].firstPage] = m.page[m.index[i].firstPage]
    /\ i \in r.failed <=> i \in m.failed

(* All entries of r do. *)
KeepsItems(m, r) == \A i \in InUse(r) : KeepsItem(m, r, i)

(* The item an entry holds. *)
LEMMA WholeFacts ==
    ASSUME NEW m, Sound(m), NEW i \in InUse(m), IsWhole(m, i)
    PROVE  LET e == m.index[i]
               item == m.page[e.firstPage].item
           IN /\ item \in Item
              /\ PageCount(e) = PagesNeeded(item)
              /\ PageCount(e) \in Nat \ {0}
              /\ e.firstPage \in Pages
              /\ m.page[e.firstPage] = Piece(item, 0)
<1> DEFINE e == m.index[i]
           item == m.page[e.firstPage].item
<1>1. e.firstPage \in Pages /\ m.page[e.firstPage] # Junk
      /\ e.totalItemSize = RequiredSize(item)
      /\ \A n \in 0 .. PagesNeeded(item) - 1 : m.page[e.firstPage + n] = Piece(item, n)
    BY DEF IsWhole
<1>2. m.page[e.firstPage] \in Contents
    BY <1>1, SegmentsHaveShape DEF Sound
<1>3. item \in Item
    BY <1>1, <1>2 DEF Contents
<1>4. PageCount(e) = PagesNeeded(item)
    BY <1>1 DEF PageCount, PagesNeeded
<1>5. PagesNeeded(item) \in Nat \ {0}
    <2> HIDE DEF item
    <2> QED BY <1>3, ItemFacts
<1>6. m.page[e.firstPage] = Piece(item, 0)
    <2> HIDE DEF e, item
    <2>1. 0 \in 0 .. PagesNeeded(item) - 1
        BY <1>5
    <2>2. e.firstPage + 0 = e.firstPage
        BY <1>1, PageFacts
    <2> QED BY <1>1, <2>1, <2>2
<1> QED BY <1>1, <1>3, <1>4, <1>5, <1>6

(* A whole entry is named after its item. *)
LEMMA WholeIsNamed ==
    ASSUME NEW m, Sound(m), NEW i \in InUse(m), IsWhole(m, i)
    PROVE  IsNamed(m, i)
<1> DEFINE item == m.page[m.index[i].firstPage].item
<1>1. item \in Item
    BY WholeFacts
<1> QED BY <1>1 DEF IsWhole, IsNamed

(* An entry has a page. *)
LEMMA NamedFacts ==
    ASSUME NEW m, Sound(m), NEW i \in InUse(m), IsNamed(m, i)
    PROVE  PageCount(m.index[i]) \in Nat \ {0} /\ m.index[i].firstPage \in Pages
<1>1. PICK item \in Item : m.index[i].totalItemSize = RequiredSize(item)
    BY DEF IsNamed
<1>2. PageCount(m.index[i]) = PagesNeeded(item)
    BY <1>1 DEF PageCount, PagesNeeded
<1> QED BY <1>2, ItemFacts DEF Sound, TablesAgree, OwnsRun

(* An entry whose pages were moved together is as good as before. *)
LEMMA EntryMoved ==
    ASSUME NEW m, Sound(m), NEW r, Sound(r), NEW i \in InUse(r), i \in InUse(m),
           IsNamed(m, i),
           r.index[i] = [m.index[i] EXCEPT !.firstPage = r.index[i].firstPage],
           \A k \in 0 .. PageCount(m.index[i]) - 1 :
              r.page[r.index[i].firstPage + k] = m.page[m.index[i].firstPage + k]
    PROVE  /\ IsNamed(r, i)
           /\ IsWhole(m, i) => IsWhole(r, i)
           /\ r.page[r.index[i].firstPage] = m.page[m.index[i].firstPage]
<1> DEFINE e == m.index[i]
           f == r.index[i]
           item == m.page[e.firstPage].item
<1>1. PageCount(e) \in Nat \ {0} /\ e.firstPage \in Pages
    BY NamedFacts
<1>2. f.firstPage \in Pages
    BY DEF Sound, TablesAgree, OwnsRun
<1>3. f.fileNameHash = e.fileNameHash /\ f.totalItemSize = e.totalItemSize
    <2>1. e \in Entries
        BY SegmentsHaveShape DEF Sound, InUse
    <2> HIDE DEF e, f
    <2>2. f = [e EXCEPT !.firstPage = f.firstPage]
        BY DEF e, f
    <2> QED BY <2>1, <2>2 DEF Entries
<1>4. \A k \in 0 .. PageCount(e) - 1 :
            r.page[f.firstPage + k] = m.page[e.firstPage + k]
    OBVIOUS
<1> HIDE DEF e, f, item
<1>5. r.page[f.firstPage] = m.page[e.firstPage]
    <2>1. 0 \in 0 .. PageCount(e) - 1
        BY <1>1
    <2>2. e.firstPage + 0 = e.firstPage /\ f.firstPage + 0 = f.firstPage
        BY <1>1, <1>2, PageFacts
    <2> QED BY <1>4, <2>1, <2>2
<1>6. IsNamed(r, i)
    <2>1. PICK x \in Item :
            /\ e.fileNameHash = Hash[x.key] /\ e.totalItemSize = RequiredSize(x)
            /\ m.page[e.firstPage] # Junk =>
                 /\ m.page[e.firstPage].item \in Item
                 /\ Hash[m.page[e.firstPage].item.key] = e.fileNameHash
        BY DEF IsNamed, e
    <2> QED BY <1>3, <1>5, <2>1 DEF IsNamed, f
<1>7. ASSUME IsWhole(m, i) PROVE IsWhole(r, i)
    <2>1. /\ m.page[e.firstPage] # Junk /\ e.fileNameHash = Hash[item.key]
          /\ e.totalItemSize = RequiredSize(item)
          /\ \A n \in 0 .. PagesNeeded(item) - 1 : m.page[e.firstPage + n] = Piece(item, n)
        BY <1>7 DEF IsWhole, e, item
    <2>2. PageCount(e) = PagesNeeded(item)
        BY <2>1 DEF PageCount, PagesNeeded
    <2>3. r.page[f.firstPage].item = item
        BY <1>5 DEF item
    <2>4. \A n \in 0 .. PagesNeeded(item) - 1 : r.page[f.firstPage + n] = Piece(item, n)
        BY <1>4, <2>1, <2>2
    <2>5. r.page[f.firstPage] # Junk /\ f.fileNameHash = Hash[item.key]
          /\ f.totalItemSize = RequiredSize(item)
        BY <1>3, <1>5, <2>1
    <2> QED BY <1>2, <2>3, <2>4, <2>5 DEF IsWhole, f
<1> QED BY <1>5, <1>6, <1>7 DEF e, f

(* defragment() tears no item, although it moves pages one by one. *)
LEMMA DefragmentWhole ==
    ASSUME NEW m, Sound(m), AllWhole(m)
    PROVE  AllWhole(defragment(m)) /\ KeepsItems(m, defragment(m))
<1> DEFINE d == defragment(m)
<1>1. Sound(d) /\ Shrinks(m, d) /\ InUse(d) = InUse(m) /\ d.failed = m.failed
    BY DefragmentKeepsSound
<1>2. HasShape(m) /\ m.cacheAvail = Cardinality(FreePages(m))
    BY SegmentsHaveShape DEF Sound, TablesAgree
<1>3. ASSUME NEW i \in InUse(d)
      PROVE  /\ IsNamed(d, i) /\ (IsWhole(m, i) => IsWhole(d, i))
             /\ d.page[d.index[i].firstPage] = m.page[m.index[i].firstPage]
    <2>1. i \in InUse(m) /\ i \in Slots /\ OwnsRun(m, i) /\ IsNamed(m, i)
        BY <1>1, <1>3 DEF Sound, TablesAgree, AllWhole, InUse
    <2>2. /\ d.index[i] = [m.index[i] EXCEPT !.firstPage = NewPosition(m, m.index[i].firstPage)]
          /\ \A k \in 0 .. PageCount(m.index[i]) - 1 :
                d.page[NewPosition(m, m.index[i].firstPage) + k]
                    = m.page[m.index[i].firstPage + k]
        BY <1>2, <2>1, DefragmentKeepsRun
    <2>3. d.index[i] = [m.index[i] EXCEPT !.firstPage = d.index[i].firstPage]
        BY <1>1, <1>3 DEF Shrinks
    <2> HIDE DEF d
    <2>4. d.index[i].firstPage = NewPosition(m, m.index[i].firstPage)
        <3>1. IsEntry(m.index[i])
            BY <1>2, <2>1 DEF HasShape
        <3> QED BY <2>2, <3>1 DEF IsEntry
    <2>5. \A k \in 0 .. PageCount(m.index[i]) - 1 :
              d.page[d.index[i].firstPage + k] = m.page[m.index[i].firstPage + k]
        BY <2>2, <2>4
    <2> QED BY <1>1, <1>3, <2>1, <2>3, <2>5, EntryMoved
<1> QED BY <1>1, <1>3 DEF AllWhole, KeepsItems, KeepsItem

(* What removeEntry() writes over the data of the entry it removes stays   *)
(* in the pages of that entry ...                                          *)
LEMMA LabelInRun ==
    ASSUME LabelsFit, NEW m, Sound(m), NEW i \in InUse(m), IsNamed(m, i)
    PROVE  Labelled(m, i) \subseteq Run(m, i)
<1> DEFINE first == m.index[i].firstPage
           start == m.page[first]
           n == PageCount(m.index[i])
<1>1. PICK item \in Item :
        /\ m.index[i].fileNameHash = Hash[item.key]
        /\ m.index[i].totalItemSize = RequiredSize(item)
        /\ start # Junk => start.item \in Item
                           /\ Hash[start.item.key] = m.index[i].fileNameHash
    BY DEF IsNamed
<1>0. n = PagesNeeded(item) /\ n \in Nat \ {0} /\ first \in Pages
    BY <1>1, NamedFacts DEF PageCount, PagesNeeded
<1>2. Run(m, i) = first .. first + n - 1 /\ first + n <= NumPages
    <2>1. i \in Slots /\ OwnsRun(m, i) /\ HasShape(m)
        BY SegmentsHaveShape DEF Sound, TablesAgree, InUse
    <2> QED BY <2>1, OwnedRun
<1>a. start = m.page[m.index[i].firstPage] /\ first = m.index[i].firstPage
    OBVIOUS
<1> HIDE DEF first, start, n
<1>3. ASSUME NEW p \in Labelled(m, i)
      PROVE  p \in first .. first + n - 1
    <2> DEFINE k == start.item.key
    <2>1. /\ LabelLength # 0 /\ start # Junk /\ p \in Pages /\ p > first
          /\ (p - first) * PageSize < LabelLength + KeyLength[k] + 1
        BY <1>a DEF Labelled
    <2>b. k \in Keys /\ Hash[k] = Hash[item.key]
        BY <1>1, <2>1 DEF Item
    <2> HIDE DEF k
    <2>2. LabelLength + KeyLength[k] + 1 <= n * PageSize
        BY <1>0, <2>1, <2>b DEF LabelsFit
    <2>3. /\ p \in Nat /\ first \in Nat /\ PageSize \in Nat /\ PageSize >= 1
          /\ LabelLength \in Nat /\ KeyLength[k] \in Nat
        BY <1>0, <2>1, <2>b, PageFacts, SizesAssumption, ItemsAssumption
    <2>4. p - first \in Nat
        BY <2>1, <2>3
    <2>5. (p - first) * PageSize \in Nat /\ n * PageSize \in Nat
        BY <1>0, <2>3, <2>4
    <2>6. (p - first) * PageSize < n * PageSize
        BY <2>1, <2>2, <2>3, <2>5
    <2>7. ASSUME p - first >= n PROVE FALSE
        <3>1. (p - first) * PageSize >= n * PageSize
            BY <1>0, <2>3, <2>4, <2>7
        <3> QED BY <2>5, <2>6, <3>1
    <2> QED BY <1>0, <2>1, <2>3, <2>7
<1> QED BY <1>2, <1>3

(* ... so removing entries tears no other. *)
LEMMA RemovalWhole ==
    ASSUME LabelsFit, NEW m, Sound(m), AllWhole(m), NEW V \in SUBSET InUse(m)
    PROVE  AllWhole(removeEntries(m, V)) /\ KeepsItems(m, removeEntries(m, V))
<1> DEFINE r == removeEntries(m, V)
           freed == RunsOf(m, V)
<1>1. /\ Sound(r) /\ Shrinks(m, r) /\ InUse(r) = InUse(m) \ V
      /\ \A i \in InUse(r) : i \in r.failed <=> i \in m.failed
    <2>1. Sound(r) /\ Shrinks(m, r) /\ InUse(r) = InUse(m) \ V /\ r.failed = m.failed \ V
        BY RemovalSound
    <2> HIDE DEF r
    <2> QED BY <2>1
<1>2. HasShape(m) /\ TablesAgree(m)
    BY SegmentsHaveShape DEF Sound
<1>3. freed = {p \in Pages : m.pageTable[p] \in V}
    BY <1>2, RunsOfEntries
<1>4. UNION {Labelled(m, i) : i \in V} \subseteq freed
    BY LabelInRun DEF AllWhole, RunsOf
<1>5. r.page = [p \in Pages |->
                  IF p \in freed \cup UNION {Labelled(m, i) : i \in V}
                  THEN Junk ELSE m.page[p]]
    BY <1>2 DEF removeEntries, RunsOf, HasShape, IsRecord
<1> HIDE DEF r, freed
<1>6. \A p \in Pages : m.pageTable[p] \notin V => r.page[p] = m.page[p]
    BY <1>3, <1>4, <1>5
<1>7. ASSUME NEW i \in InUse(r)
      PROVE  /\ IsNamed(r, i) /\ (IsWhole(m, i) => IsWhole(r, i))
             /\ r.page[r.index[i].firstPage] = m.page[m.index[i].firstPage]
    <2> DEFINE first == m.index[i].firstPage
               n == PageCount(m.index[i])
    <2>1. i \in InUse(m) /\ i \in Slots /\ i \notin V /\ OwnsRun(m, i) /\ IsNamed(m, i)
        BY <1>1, <1>2, <1>7 DEF TablesAgree, AllWhole, InUse
    <2>2. /\ first \in Pages /\ n \in Nat
          /\ first .. first + n - 1 = {p \in Pages : m.pageTable[p] = i}
        BY <1>2, <2>1, OwnedRun
    <2>3. r.index[i] = m.index[i]
        BY <1>2, <2>1, RemovalAgrees DEF r
    <2>4. \A k \in 0 .. n - 1 : r.page[first + k] = m.page[first + k]
        <3> HIDE DEF first, n
        <3> TAKE k \in 0 .. n - 1
        <3>1. first \in Nat
            BY <2>2, PageFacts
        <3>2. first + k \in first .. first + n - 1
            BY <2>2, <3>1
        <3>3. first + k \in Pages /\ m.pageTable[first + k] = i
            BY <2>2, <3>2
        <3> QED BY <1>6, <2>1, <3>3
    <2>5. r.index[i] = [m.index[i] EXCEPT !.firstPage = r.index[i].firstPage]
        BY <1>1, <1>7 DEF Shrinks
    <2>6. \A k \in 0 .. PageCount(m.index[i]) - 1 :
              r.page[r.index[i].firstPage + k] = m.page[m.index[i].firstPage + k]
        BY <2>3, <2>4
    <2> QED BY ONLY Sound(m), <1>1, <1>7, <2>1, <2>5, <2>6, EntryMoved
<1> QED BY <1>1, <1>7 DEF AllWhole, KeepsItems, KeepsItem, r

(* Making room loses items and tears none. *)
LEMMA RoomWhole ==
    ASSUME LabelsFit, NEW m, Sound(m), AllWhole(m), NEW n \in Nat, n < NumPages,
           NEW r \in MakeRoom(m, n)
    PROVE  AllWhole(r) /\ KeepsItems(m, r)
<1>1. KeepsItems(m, m)
    BY DEF KeepsItems, KeepsItem
<1>2. AllWhole(defragment(m)) /\ KeepsItems(m, defragment(m))
    BY DefragmentWhole
<1>3. ASSUME NEW k, NEW V \in VictimSets(m, k), r = defragment(removeEntries(m, V))
      PROVE  AllWhole(r) /\ KeepsItems(m, r)
    <2> DEFINE e == removeEntries(m, V)
    <2>1. V \in SUBSET InUse(m)
        BY DEF VictimSets
    <2>2. Sound(e) /\ AllWhole(e) /\ KeepsItems(m, e)
        BY <2>1, RemovalSound, RemovalWhole
    <2>3. AllWhole(r) /\ KeepsItems(e, r) /\ InUse(r) = InUse(e)
        BY <1>3, <2>2, DefragmentWhole, DefragmentKeepsSound
    <2> HIDE DEF e
    <2> QED BY <2>2, <2>3 DEF KeepsItems, KeepsItem
<1>4. r = m \/ r = defragment(m)
      \/ \E k : \E V \in VictimSets(m, k) : r = defragment(removeEntries(m, V))
    BY DEF MakeRoom, removeUsedPages
<1> QED BY <1>1, <1>2, <1>3, <1>4

(* r shows nothing but what m shows, in entries that m has. *)
Loses(m, r) == InUse(r) \subseteq InUse(m) /\ KeepsItems(m, r)

(* Losing twice is losing. *)
LEMMA LosesTransitive ==
    ASSUME NEW m, NEW r, NEW s, Loses(m, r), Loses(r, s)
    PROVE  Loses(m, s)
BY SMTT(30) DEF Loses, KeepsItems, KeepsItem

(* Nothing but the pages, sizes, hashes and first pages matters. *)
LEMMA SameWhole ==
    ASSUME NEW m, AllWhole(m), NEW r, r.page = m.page, InUse(r) = InUse(m),
           r.failed = m.failed,
           \A i \in InUse(m) :
              /\ r.index[i].fileNameHash = m.index[i].fileNameHash
              /\ r.index[i].totalItemSize = m.index[i].totalItemSize
              /\ r.index[i].firstPage = m.index[i].firstPage
    PROVE  AllWhole(r) /\ Loses(m, r)
<1>1. ASSUME NEW i \in InUse(r)
      PROVE  IsNamed(r, i) /\ (IsWhole(m, i) => IsWhole(r, i))
    <2>1. IsNamed(m, i)
        BY DEF AllWhole
    <2>2. /\ r.index[i].fileNameHash = m.index[i].fileNameHash
          /\ r.index[i].totalItemSize = m.index[i].totalItemSize
          /\ r.index[i].firstPage = m.index[i].firstPage
        OBVIOUS
    <2>3. IsNamed(r, i)
        BY <2>1, <2>2 DEF IsNamed
    <2>4. IsWhole(m, i) => IsWhole(r, i)
        BY <2>2 DEF IsWhole
    <2> QED BY <2>3, <2>4
<1>2. Loses(m, r)
    BY DEF Loses, KeepsItems, KeepsItem
<1> QED BY <1>1, <1>2 DEF AllWhole

(* insert() vacates its slot without tearing an item. *)
LEMMA VacatedWhole ==
    ASSUME LabelsFit, NEW m, Sound(m), AllWhole(m), NEW h \in Nat, NEW cull \in BOOLEAN,
           NEW i \in Slots
    PROVE  LET a == Aged(m, h, cull, InsertProbe(m, h, cull)) IN
           AllWhole(Vacated(a, i)) /\ Loses(m, Vacated(a, i))
<1> DEFINE a == Aged(m, h, cull, InsertProbe(m, h, cull))
<1>1. /\ Sound(a) /\ InUse(a) = InUse(m) /\ a.page = m.page /\ a.failed = m.failed
      /\ \A j \in Slots : /\ a.index[j].fileNameHash = m.index[j].fileNameHash
                          /\ a.index[j].totalItemSize = m.index[j].totalItemSize
                          /\ a.index[j].firstPage = m.index[j].firstPage
    BY AgedSound
<1> HIDE DEF a
<1>2. InUse(m) \subseteq Slots
    BY DEF InUse
<1>3. AllWhole(a) /\ Loses(m, a)
    BY <1>1, <1>2, SameWhole
<1>4. CASE Occupied(a, i)
    <2>1. {i} \in SUBSET InUse(a)
        BY <1>4 DEF Occupied, InUse
    <2>2. Vacated(a, i) = removeEntries(a, {i})
        BY <1>4 DEF Vacated, removeEntry
    <2>3. AllWhole(Vacated(a, i)) /\ Loses(a, Vacated(a, i))
        BY <1>1, <1>3, <2>1, <2>2, RemovalWhole, RemovalSound DEF Loses
    <2> QED BY <1>3, <2>3, LosesTransitive DEF a
<1>5. CASE ~Occupied(a, i)
    BY <1>3, <1>5 DEF Vacated, a
<1> QED BY <1>4, <1>5

(* Writing to a free run of pages and a free slot touches no other entry. *)
LEMMA OthersKept ==
    ASSUME NEW m, Sound(m), AllWhole(m), NEW i \in Slots \ InUse(m), NEW r, Sound(r),
           NEW run, run \subseteq FreePages(m),
           InUse(r) = InUse(m) \cup {i},
           \A j \in Slots \ {i} : /\ r.index[j] = m.index[j]
                                  /\ j \in r.failed <=> j \in m.failed,
           \A p \in Pages \ run : r.page[p] = m.page[p],
           NEW j \in InUse(m)
    PROVE  /\ IsNamed(r, j) /\ (j \notin r.failed => IsWhole(r, j))
           /\ KeepsItem(m, r, j)
<1> DEFINE f == m.index[j].firstPage
           c == PageCount(m.index[j])
<1>1. j \in Slots /\ j # i /\ OwnsRun(m, j) /\ IsNamed(m, j) /\ HasShape(m)
      /\ (j \notin m.failed => IsWhole(m, j)) /\ j \in InUse(r)
    BY SegmentsHaveShape DEF Sound, TablesAgree, AllWhole, InUse
<1>2. f \in Pages /\ c \in Nat
      /\ f .. f + c - 1 = {p \in Pages : m.pageTable[p] = j}
      /\ f .. f + c - 1 \subseteq UsedPages(m)
    BY <1>1, OwnedRun
<1>3. FreePages(m) \cap UsedPages(m) = {}
    BY <1>1, FreeAndUsed DEF HasShape
<1>4. r.index[j] = m.index[j] /\ (j \in r.failed <=> j \in m.failed)
    BY <1>1
<1>5. \A k \in 0 .. c - 1 : r.page[f + k] = m.page[f + k]
    <2> HIDE DEF f, c
    <2> TAKE k \in 0 .. c - 1
    <2>1. f \in Nat
        BY <1>2, PageFacts
    <2>2. f + k \in f .. f + c - 1
        BY <1>2, <2>1
    <2>3. f + k \in Pages /\ f + k \notin run
        BY <1>2, <1>3, <2>2
    <2> QED BY <2>3
<1>6. m.index[j] = [m.index[j] EXCEPT !.firstPage = r.index[j].firstPage]
    <2>1. m.index[j] \in Entries
        BY <1>1, SegmentsHaveShape DEF Sound
    <2> QED BY <1>4, <2>1 DEF Entries
<1>7. /\ r.index[j] = [m.index[j] EXCEPT !.firstPage = r.index[j].firstPage]
      /\ \A k \in 0 .. PageCount(m.index[j]) - 1 :
            r.page[r.index[j].firstPage + k] = m.page[m.index[j].firstPage + k]
    BY <1>4, <1>5, <1>6
<1>8. /\ IsNamed(r, j) /\ (IsWhole(m, j) => IsWhole(r, j))
      /\ r.page[r.index[j].firstPage] = m.page[m.index[j].firstPage]
    BY ONLY Sound(m), Sound(r), <1>1, <1>7, EntryMoved
<1> QED BY <1>1, <1>4, <1>8 DEF KeepsItem

(* A stored item is whole, and no other item is overwritten. *)
LEMMA StoredWhole ==
    ASSUME NEW m, Sound(m), AllWhole(m), NEW i \in Slots \ InUse(m), NEW item \in Item,
           NEW first \in Pages, IsFreeRun(m, first, PagesNeeded(item)),
           NEW t \in 0 .. MaxTime,
           \E n \in 0 .. MaxProbe - 1 : i = Probe(Hash[item.key], n)
    PROVE  LET r == Stored(m, i, item, first, t) IN
           /\ AllWhole(r) /\ InUse(r) = InUse(m) \cup {i} /\ i \notin r.failed
           /\ r.index[i].firstPage = first /\ r.page[first] = Piece(item, 0)
           /\ \A j \in InUse(m) : KeepsItem(m, r, j)
<1> DEFINE n == PagesNeeded(item)
           run == first .. first + n - 1
           r == Stored(m, i, item, first, t)
<1>1. /\ Sound(r)
      /\ InUse(r) = InUse(m) \cup {i}
      /\ \A j \in Slots \ {i} : r.index[j] = m.index[j]
      /\ r.index[i] = [fileNameHash |-> Hash[item.key], totalItemSize |-> RequiredSize(item),
                       useCount |-> 1, addTime |-> t, lastUsedTime |-> t,
                       firstPage |-> first]
      /\ r.page = [p \in Pages |->
                      IF p \in run THEN Piece(item, p - first) ELSE m.page[p]]
      /\ \A j \in Slots : j \in r.failed <=> j \in m.failed /\ j # i
      /\ run \subseteq FreePages(m)
    BY StoredSound
<1>2. n \in Nat \ {0} /\ first \in Nat
    BY ItemFacts, PageFacts
<1>3. run \subseteq Pages
    BY <1>1 DEF FreePages
<1> HIDE DEF r
<1>4. \A k \in 0 .. n - 1 : first + k \in run /\ r.page[first + k] = Piece(item, k)
    <2> HIDE DEF n
    <2> TAKE k \in 0 .. n - 1
    <2>1. first + k \in run
        BY <1>2
    <2>2. (first + k) - first = k
        BY <1>2
    <2> QED BY <1>1, <1>3, <2>1, <2>2
<1>5. r.page[first] = Piece(item, 0)
    <2> HIDE DEF n
    <2>1. 0 \in 0 .. n - 1 /\ first + 0 = first
        BY <1>2
    <2> QED BY <1>4, <2>1
<1>6. IsWhole(r, i)
    <2>1. r.page[r.index[i].firstPage].item = item /\ r.index[i].firstPage = first
        BY <1>1, <1>5 DEF Piece
    <2>2. Piece(item, 0) # Junk
        BY JunkAssumption DEF Piece
    <2> QED BY <1>1, <1>4, <1>5, <2>1, <2>2 DEF IsWhole
<1>7. ASSUME NEW j \in InUse(m)
      PROVE  IsNamed(r, j) /\ (j \notin r.failed => IsWhole(r, j)) /\ KeepsItem(m, r, j)
    <2> HIDE DEF run
    <2>1. /\ \A p \in Pages \ run : r.page[p] = m.page[p]
          /\ \A x \in Slots \ {i} : /\ r.index[x] = m.index[x]
                                    /\ x \in r.failed <=> x \in m.failed
        BY <1>1
    <2> QED BY <1>1, <2>1, OthersKept
<1>8. r.index[i].firstPage = first /\ i \notin r.failed /\ IsNamed(r, i)
    BY <1>1, <1>6, WholeIsNamed
<1>9. AllWhole(r)
    BY <1>1, <1>6, <1>7, <1>8 DEF AllWhole
<1> QED BY <1>1, <1>5, <1>7, <1>8, <1>9 DEF r

(* The first page of an entry holds nothing that is taken for a key, or    *)
(* starts an item with the hash h.                                         *)
StartsAlike(page, h) == page = Junk \/ \E x \in Item : Hash[x.key] = h /\ page = Piece(x, 0)

(* An entry whose data was never written is known as such, and no other    *)
(* item is overwritten.                                                    *)
LEMMA HalfMadeKeeps ==
    ASSUME NEW m, Sound(m), AllWhole(m), NEW i \in Slots \ InUse(m), NEW item \in Item,
           NEW first \in Pages, IsFreeRun(m, first, PagesNeeded(item)),
           NEW t \in 0 .. MaxTime,
           \E n \in 0 .. MaxProbe - 1 : i = Probe(Hash[item.key], n),
           NEW old \in OldBytes(PagesNeeded(item), Hash[item.key])
    PROVE  LET r == HalfMade(m, i, item, first, t, old) IN
           /\ AllWhole(r) /\ InUse(r) = InUse(m) \cup {i} /\ i \in r.failed
           /\ StartsAlike(r.page[r.index[i].firstPage], Hash[item.key])
           /\ \A j \in InUse(m) : KeepsItem(m, r, j)
<1> DEFINE n == PagesNeeded(item)
           run == first .. first + n - 1
           s == Stored(m, i, item, first, t)
           r == HalfMade(m, i, item, first, t, old)
<1>1. /\ Sound(s)
      /\ InUse(s) = InUse(m) \cup {i}
      /\ \A j \in Slots \ {i} : s.index[j] = m.index[j]
      /\ s.index[i] = [fileNameHash |-> Hash[item.key], totalItemSize |-> RequiredSize(item),
                       useCount |-> 1, addTime |-> t, lastUsedTime |-> t,
                       firstPage |-> first]
      /\ s.page = [p \in Pages |->
                      IF p \in run THEN Piece(item, p - first) ELSE m.page[p]]
      /\ \A j \in Slots : j \in s.failed <=> j \in m.failed /\ j # i
      /\ run \subseteq FreePages(m)
    BY StoredSound
<1>2. /\ Sound(r) /\ InUse(r) = InUse(s) /\ r.index = s.index
      /\ r.page = [p \in Pages |-> IF p \in run THEN old[p - first] ELSE m.page[p]]
      /\ \A j \in Slots : j \in r.failed <=> j \in m.failed \/ j = i
    BY HalfMadeSound
<1> HIDE DEF r, s
<1>3. n \in Nat \ {0} /\ first \in Nat
    BY ItemFacts, PageFacts
<1>4. r.page[first] = old[0]
    <2> HIDE DEF n
    <2>1. first \in run /\ first - first = 0
        BY <1>3
    <2> QED BY <1>2, <2>1
<1>5. StartsAlike(r.page[first], Hash[item.key])
    <2> HIDE DEF n
    <2>1. old \in OldBytes(n, Hash[item.key])
        BY DEF n
    <2> QED BY <1>3, <1>4, <2>1, OldBytesFacts DEF StartsAlike
<1>6. r.index[i].firstPage = first /\ i \in r.failed
    BY <1>1, <1>2
<1>7. IsNamed(r, i)
    <2>1. ASSUME r.page[first] # Junk
          PROVE  /\ r.page[first].item \in Item
                 /\ Hash[r.page[first].item.key] = Hash[item.key]
        <3>1. PICK x \in Item : Hash[x.key] = Hash[item.key] /\ r.page[first] = Piece(x, 0)
            BY <1>5, <2>1 DEF StartsAlike
        <3>2. r.page[first].item = x
            BY <3>1 DEF Piece
        <3> QED BY <3>1, <3>2
    <2>2. /\ r.index[i].fileNameHash = Hash[item.key]
          /\ r.index[i].totalItemSize = RequiredSize(item)
        BY <1>1, <1>2
    <2> QED BY <1>6, <2>1, <2>2 DEF IsNamed
<1>8. ASSUME NEW j \in InUse(m)
      PROVE  IsNamed(r, j) /\ (j \notin r.failed => IsWhole(r, j)) /\ KeepsItem(m, r, j)
    <2> HIDE DEF run
    <2>1. /\ \A p \in Pages \ run : r.page[p] = m.page[p]
          /\ \A x \in Slots \ {i} : /\ r.index[x] = m.index[x]
                                    /\ x \in r.failed <=> x \in m.failed
        BY <1>1, <1>2
    <2>2. InUse(r) = InUse(m) \cup {i}
        BY <1>1, <1>2
    <2> QED BY <1>1, <1>2, <2>1, <2>2, OthersKept
<1>9. AllWhole(r)
    BY <1>1, <1>2, <1>6, <1>7, <1>8 DEF AllWhole
<1>10. InUse(r) = InUse(m) \cup {i}
    BY <1>1, <1>2
<1> QED BY <1>5, <1>6, <1>8, <1>9, <1>10 DEF r

(* Entry i of r is new, and the others show what they show in m. *)
OthersFrom(m, r, i) == \A j \in InUse(r) \ {i} : j \in InUse(m) /\ KeepsItem(m, r, j)

(* Segment r holds a new entry that shows the item, and otherwise no more   *)
(* than m ...                                                              *)
Gains(m, r, item) ==
    \E i \in InUse(r) \ r.failed :
        /\ r.page[r.index[i].firstPage] = Piece(item, 0)
        /\ OthersFrom(m, r, i)

(* ... or one that may be taken for a key with hash h. *)
Harms(m, r, h) ==
    \E i \in InUse(r) \cap r.failed :
        /\ StartsAlike(r.page[r.index[i].firstPage], h)
        /\ OthersFrom(m, r, i)

(* insert() ends with a fresh cache, or fails and has only lost items, or  *)
(* holds the new item and otherwise no more than before, or fails half-way *)
(* in another process.                                                     *)
LEMMA InsertKeeps ==
    ASSUME LabelsFit, NEW m, Sound(m), AllWhole(m), now \in 0 .. MaxTime,
           NEW item \in Item, NEW o \in InsertOutcomes(m, item)
    PROVE  /\ AllWhole(o.shm)
           /\ \/ o = Recovered
              \/ o.reply = "false" /\ Loses(m, o.shm)
              \/ o.reply = "true" /\ Gains(m, o.shm, item)
              \/ o.reply = "corrupt" /\ Harms(m, o.shm, Hash[item.key])
<1> DEFINE h == Hash[item.key]
           Kept == /\ AllWhole(o.shm)
                   /\ \/ o = Recovered
                      \/ o.reply = "false" /\ Loses(m, o.shm)
                      \/ o.reply = "true" /\ Gains(m, o.shm, item)
                      \/ o.reply = "corrupt" /\ Harms(m, o.shm, h)
<1>1. PICK cull \in CullChoices(m) :
             LET n == InsertProbe(m, h, cull)
                 i == Position(h, n)
                 v == Vacated(Aged(m, h, cull, n), i)
             IN /\ n \in 0 .. MaxProbe - 1
                /\ i = Probe(h, n) /\ i \in Slots \ InUse(v)
                /\ Sound(v)
                /\ o \in PlaceOutcomes(v, i, item)
    BY InsertForms
<1> DEFINE n == InsertProbe(m, h, cull)
           i == Position(h, n)
           v == Vacated(Aged(m, h, cull, n), i)
<1>2. cull \in BOOLEAN /\ h \in Nat
    BY ItemFacts DEF CullChoices
<1>3. /\ n \in 0 .. MaxProbe - 1 /\ i = Probe(h, n) /\ i \in Slots \ InUse(v)
      /\ Sound(v) /\ o \in PlaceOutcomes(v, i, item)
    BY <1>1
<1>4. AllWhole(v) /\ Loses(m, v)
    BY <1>2, <1>3, VacatedWhole
<1>5. \E x \in 0 .. MaxProbe - 1 : i = Probe(Hash[item.key], x)
    BY <1>3
<1> HIDE DEF n, i, v
<1>6. CASE o = Outcome(v, "false")
    BY <1>4, <1>6 DEF Outcome
<1>7. CASE o = Recovered
    <2>1. now \in Nat
        BY ClientsAssumption
    <2> QED BY <1>7, <2>1, InitialSound DEF Recovered, Outcome, AllWhole
<1>8. ASSUME NEW r \in MakeRoom(v, PagesNeeded(item)), PagesNeeded(item) < NumPages,
             Sound(r), Shrinks(v, r)
      PROVE  AllWhole(r) /\ Loses(m, r)
    <2>1. PagesNeeded(item) \in Nat
        BY ItemFacts
    <2>2. AllWhole(r) /\ KeepsItems(v, r)
        BY <1>3, <1>4, <1>8, <2>1, RoomWhole
    <2>3. Loses(v, r)
        BY <1>8, <2>2 DEF Loses, Shrinks
    <2> QED BY <1>4, <2>2, <2>3, LosesTransitive
<1>9. ASSUME NEW r, AllWhole(r), Loses(m, r), Sound(r), i \in Slots \ InUse(r),
             NEW s, AllWhole(s), InUse(s) = InUse(r) \cup {i},
             \A j \in InUse(r) : KeepsItem(r, s, j)
      PROVE  OthersFrom(m, s, i) /\ i \in InUse(s)
    BY <1>9 DEF OthersFrom, Loses, KeepsItems, KeepsItem
<1>10. ASSUME NEW r, AllWhole(r), Loses(m, r), Sound(r), i \in Slots \ InUse(r),
              NEW first \in Pages, IsFreeRun(r, first, PagesNeeded(item)),
              o = Outcome(Stored(r, i, item, first, now), "true")
       PROVE  Kept
    <2> DEFINE s == Stored(r, i, item, first, now)
    <2>1. o.shm = s /\ o.reply = "true"
        BY <1>10 DEF Outcome
    <2>2. /\ AllWhole(s) /\ InUse(s) = InUse(r) \cup {i} /\ i \notin s.failed
          /\ s.index[i].firstPage = first /\ s.page[first] = Piece(item, 0)
          /\ \A j \in InUse(r) : KeepsItem(r, s, j)
        BY <1>5, <1>10, StoredWhole
    <2> HIDE DEF s
    <2>3. OthersFrom(m, s, i) /\ i \in InUse(s)
        BY <1>9, <1>10, <2>2
    <2>4. Gains(m, s, item)
        BY <2>2, <2>3 DEF Gains
    <2> QED BY <2>1, <2>2, <2>4
<1>11. ASSUME NEW r, AllWhole(r), Loses(m, r), Sound(r), i \in Slots \ InUse(r),
              NEW first \in Pages, IsFreeRun(r, first, PagesNeeded(item)),
              NEW old \in OldBytes(PagesNeeded(item), Hash[item.key]),
              o = Outcome(HalfMade(r, i, item, first, now, old), "corrupt")
       PROVE  Kept
    <2> DEFINE s == HalfMade(r, i, item, first, now, old)
    <2>1. o.shm = s /\ o.reply = "corrupt"
        BY <1>11 DEF Outcome
    <2>2. /\ AllWhole(s) /\ InUse(s) = InUse(r) \cup {i} /\ i \in s.failed
          /\ StartsAlike(s.page[s.index[i].firstPage], h)
          /\ \A j \in InUse(r) : KeepsItem(r, s, j)
        BY <1>5, <1>11, HalfMadeKeeps
    <2> HIDE DEF s
    <2>3. OthersFrom(m, s, i) /\ i \in InUse(s)
        BY <1>9, <1>11, <2>2
    <2>4. Harms(m, s, h)
        BY <2>2, <2>3 DEF Harms
    <2> QED BY <2>1, <2>2, <2>4
<1>12. ASSUME NEW r \in MakeRoom(v, PagesNeeded(item)), PagesNeeded(item) < NumPages,
              Sound(r), Shrinks(v, r), i \in Slots \ InUse(r), PlacedIn(r, i, item, o)
       PROVE  Kept
    <2>1. AllWhole(r) /\ Loses(m, r)
        BY <1>8, <1>12
    <2> DEFINE first == findEmptyPages(r, PagesNeeded(item))
    <2>2. CASE o = Outcome(r, "false")
        BY <2>1, <2>2 DEF Outcome
    <2>3. CASE o # Outcome(r, "false") /\ o # Recovered
        <3>1. /\ first \in Pages /\ IsFreeRun(r, first, PagesNeeded(item))
              /\ \/ o = Outcome(Stored(r, i, item, first, now), "true")
                 \/ \E old \in OldBytes(PagesNeeded(item), Hash[item.key]) :
                       o = Outcome(HalfMade(r, i, item, first, now, old), "corrupt")
            BY <1>12, <2>3 DEF PlacedIn
        <3> HIDE DEF first, Kept
        <3> QED BY <1>10, <1>11, <1>12, <2>1, <3>1
    <2> HIDE DEF Kept
    <2> QED BY <1>7, <2>2, <2>3 DEF Kept
<1>13. \/ o = Outcome(v, "false")
       \/ \E r \in MakeRoom(v, PagesNeeded(item)) :
             /\ PagesNeeded(item) < NumPages
             /\ Sound(r) /\ Shrinks(v, r) /\ i \in Slots \ InUse(r)
             /\ PlacedIn(r, i, item, o)
    BY <1>3, PlaceForms
<1>14. Kept
    <2> HIDE DEF Kept
    <2>1. CASE o = Outcome(v, "false")
        BY <1>6, <2>1 DEF Kept
    <2> QED BY <1>12, <1>13, <2>1
<1> QED BY <1>14

-----------------------------------------------------------------------------
(* The type, the tables and the pages. *)

(* The inductive invariant of the contents: the tables agree and every     *)
(* item is whole.                                                          *)
Whole == IInv /\ AllWhole(shm)

(* It holds of an empty cache. *)
LEMMA InitWhole == Init => Whole
<1> SUFFICES ASSUME Init PROVE AllWhole(shm)
    BY InitIInv DEF Whole
<1>1. now \in Nat /\ shm = InitialSegment(now)
    BY DEF Init
<1> QED BY <1>1, InitialSound DEF AllWhole

(* A find() that hits reads the value of the item whole, if its data was   *)
(* written at all.                                                         *)
LEMMA FoundWhole ==
    ASSUME Whole, NEW k \in Keys, find(k), findNamedEntry(shm, k) # -1,
           AccessIsMapped(shm.index[findNamedEntry(shm, k)].firstPage,
                          shm.index[findNamedEntry(shm, k)].totalItemSize)
    PROVE  /\ AllWhole(shm') /\ InUse(shm') = InUse(shm)
           /\ Loses(shm, shm')
           /\ reply' \in Values \cup {"torn"}
           /\ findNamedEntry(shm, k) \notin shm.failed =>
                 reply' = shm.page[shm.index[findNamedEntry(shm, k)].firstPage].item.value
<1> DEFINE i == findNamedEntry(shm, k)
           item == shm.page[shm.index[i].firstPage].item
<1>1. i \in InUse(shm) /\ Sound(shm) /\ NameMatches(shm, i, k)
      /\ (i \notin shm.failed => IsWhole(shm, i))
    BY LookupFacts DEF Whole, IInv, AllWhole
<1>2. /\ shm.index[i].useCount < MaxUseCount
      /\ shm' = [shm EXCEPT !.index[i].useCount = @ + 1,
                            !.index[i].lastUsedTime = now]
      /\ reply' = ReadData(shm, i)
    BY DEF find
<1> HIDE DEF i
<1>3. /\ InUse(shm') = InUse(shm) /\ shm'.page = shm.page /\ shm'.failed = shm.failed
      /\ \A j \in Slots :
            /\ shm'.index[j].firstPage = shm.index[j].firstPage
            /\ shm'.index[j].fileNameHash = shm.index[j].fileNameHash
            /\ shm'.index[j].totalItemSize = shm.index[j].totalItemSize
    BY <1>1, <1>2, FindSound DEF Whole, IInv
<1>4. InUse(shm) \subseteq Slots
    BY DEF InUse
<1>5. AllWhole(shm') /\ Loses(shm, shm')
    BY <1>3, <1>4, SameWhole DEF Whole
<1>6. ReadData(shm, i) \in Values \cup {"torn"}
    BY <1>1, ReadFacts
<1>7. ASSUME i \notin shm.failed PROVE ReadData(shm, i) = item.value
    <2> DEFINE first == shm.index[i].firstPage
    <2>1. /\ first \in Pages /\ PagesNeeded(item) \in Nat \ {0}
          /\ OwnsRun(shm, i)
          /\ intCeil(shm.index[i].totalItemSize, PageSize) = PagesNeeded(item)
        BY <1>1, <1>7, WholeFacts DEF Sound, TablesAgree, PageCount
    <2>2. /\ shm.index[i].totalItemSize = RequiredSize(item)
          /\ \A n \in 0 .. PagesNeeded(item) - 1 : shm.page[first + n] = Piece(item, n)
        BY <1>1, <1>7 DEF IsWhole
    <2>3. first + PagesNeeded(item) <= NumPages
        BY <2>1 DEF OwnsRun
    <2>4. \A n \in 0 .. PagesNeeded(item) - 1 : first + n \in Pages
        <3> HIDE DEF first, item
        <3> QED BY <2>1, <2>3, PageFacts DEF Pages
    <2> QED BY <2>2, <2>4 DEF ReadData
<1> QED BY <1>2, <1>3, <1>5, <1>6, <1>7 DEF i

(* A remove() that finds an entry takes out that one and no other. *)
LEMMA RemovedWhole ==
    ASSUME LabelsFit, Whole, NEW k \in Keys, remove(k), findNamedEntry(shm, k) # -1
    PROVE  /\ reply' = "true" /\ shm' = removeEntries(shm, {findNamedEntry(shm, k)})
           /\ AllWhole(shm') /\ KeepsItems(shm, shm')
           /\ InUse(shm') = InUse(shm) \ {findNamedEntry(shm, k)}
<1> DEFINE i == findNamedEntry(shm, k)
<1>1. i \in InUse(shm) /\ Sound(shm)
    BY LookupFacts DEF Whole, IInv
<1>2. ~RemoveEntryThrows(shm, i)
    BY <1>1, EntryNeverThrows, SegmentsHaveShape DEF Sound
<1>3. shm' = removeEntries(shm, {i}) /\ reply' = "true"
    BY <1>2 DEF remove, removeEntry
<1> HIDE DEF i
<1>4. {i} \in SUBSET InUse(shm)
    BY <1>1
<1>5. /\ AllWhole(removeEntries(shm, {i})) /\ KeepsItems(shm, removeEntries(shm, {i}))
      /\ InUse(removeEntries(shm, {i})) = InUse(shm) \ {i}
    BY <1>1, <1>4, RemovalWhole, RemovalSound DEF Whole
<1> QED BY <1>3, <1>5 DEF i

(* Who recovers starts with an empty cache; the others keep theirs. *)
LEMMA ThrownWhole ==
    ASSUME Whole, NEW o \in Thrown(shm), shm' = o.shm, reply' = o.reply
    PROVE  /\ AllWhole(shm') /\ reply' = "corrupt"
           /\ shm' = shm \/ InUse(shm') = {}
<1>1. shm' \in {shm, InitialSegment(now)} /\ reply' = "corrupt"
    BY DEF Thrown, Recovered, Outcome
<1>2. now \in Nat
    BY ClientsAssumption DEF Whole, IInv
<1> QED BY <1>1, <1>2, InitialSound DEF Whole, AllWhole

(* Every step keeps the items whole. *)
LEMMA NextWhole ==
    ASSUME LabelsFit
    PROVE  Whole /\ [Next]_vars => Whole'
<1> SUFFICES ASSUME Whole, [Next]_vars PROVE AllWhole(shm')
    BY NextIInv DEF Whole
<1>1. IInv /\ AllWhole(shm)
    BY DEF Whole
<1>2. ASSUME NEW k \in Keys, NEW v \in Values, insert(k, v) PROVE AllWhole(shm')
    <2> DEFINE item == [key |-> k, value |-> v]
    <2>1. item \in Item
        BY DEF Item
    <2>2. PICK o \in InsertOutcomes(shm, item) : shm' = o.shm
        BY <1>2 DEF insert
    <2> HIDE DEF item
    <2> QED BY <1>1, <2>1, <2>2, InsertKeeps DEF IInv
<1>3. ASSUME NEW k \in Keys, remove(k) PROVE AllWhole(shm')
    <2>1. CASE findNamedEntry(shm, k) = -1
        BY <1>1, <1>3, <2>1 DEF remove
    <2>2. CASE findNamedEntry(shm, k) # -1
        BY <1>3, <2>2, RemovedWhole
    <2> QED BY <2>1, <2>2
<1>4. ASSUME NEW k \in Keys, find(k) PROVE AllWhole(shm')
    <2> DEFINE i == findNamedEntry(shm, k)
    <2>1. CASE i = -1
        BY <1>1, <1>4, <2>1 DEF find
    <2>2. CASE i # -1 /\ AccessIsMapped(shm.index[i].firstPage, shm.index[i].totalItemSize)
        BY <1>4, <2>2, FoundWhole
    <2>3. CASE i # -1 /\ ~AccessIsMapped(shm.index[i].firstPage, shm.index[i].totalItemSize)
        BY <1>4, <2>3, ThrownWhole DEF find
    <2> QED BY <2>1, <2>2, <2>3
<1>5. ASSUME NEW k \in Keys, contains(k) PROVE AllWhole(shm')
    BY <1>1, <1>5 DEF contains
<1>6. CASE clear
    BY <1>1, <1>6, clearIInv DEF AllWhole
<1>7. CASE \/ \E t \in Timestamps : setTimestamp(t)
           \/ \E policy \in Policies : setEvictionPolicy(policy)
    <2>1. /\ shm'.page = shm.page /\ shm'.index = shm.index /\ InUse(shm') = InUse(shm)
          /\ shm'.failed = shm.failed
        BY <1>7, headerIInv DEF Whole
    <2> QED BY <1>1, <2>1, SameWhole
<1>8. CASE Tick \/ UNCHANGED vars
    BY <1>1, <1>8 DEF Tick, vars
<1> QED BY <1>2, <1>3, <1>4, <1>5, <1>6, <1>7, <1>8 DEF Next

(* The pages of an entry whose data was written always hold the whole of   *)
(* one item, stored under the hash of its key, in order: no insert(),      *)
(* eviction, removal or move overwrites or tears data of another entry.    *)
(* LabelsFit holds of every build in which removeEntry() writes no label.  *)
THEOREM ContentsAreIntact ==
    ASSUME LabelsFit
    PROVE  Spec => []ContentsIntact
<1>1. Whole => ContentsIntact
    BY DEF Whole, AllWhole, ContentsIntact
<1>2. Whole /\ [Next]_vars => Whole'
    BY NextWhole
<1> QED BY <1>1, <1>2, InitWhole, PTL DEF Spec

(* ... no check of the tables takes it for corrupt, and what ends before   *)
(* the last page can be read, however much of that page is not mapped.     *)
THEOREM ItemsAreKept ==
    ASSUME LabelsFit
    PROVE  Spec => []ItemsKept
<1>1. Whole /\ [Next]_vars => Whole'
    BY NextWhole
<1>2. Whole => ItemsKept
    BY ChecksHold DEF Whole, AllWhole, ContentsIntact, ItemsKept
<1> QED BY <1>1, <1>2, InitWhole, PTL DEF Spec

-----------------------------------------------------------------------------
(* The cache implements the lossy cache. *)

(* The values that segment m shows under key k ... *)
Shown(m, k) ==
    {v \in Values : \E i \in InUse(m) \ m.failed :
        /\ NameMatches(m, i, k)
        /\ m.page[m.index[i].firstPage].item.value = v}

(* ... and whether it may show what was never stored. *)
Spoils(m, k) == \E i \in InUse(m) \cap m.failed : NameMatches(m, i, k)

(* It is what the refinement mapping calls held and spoiled. *)
LEMMA HeldIsShown ==
    /\ Held = [k \in Keys |-> Shown(shm, k)]
    /\ Held' = [k \in Keys |-> Shown(shm', k)]
    /\ Held' \in [Keys -> SUBSET Values]
    /\ Spoiled = {k \in Keys : Spoils(shm, k)}
    /\ Spoiled' = {k \in Keys : Spoils(shm', k)}
<1>1. Held = [k \in Keys |-> Shown(shm, k)]
    BY DEF Held, Shown
<1>2. Held' = [k \in Keys |-> Shown(shm', k)]
    BY DEF Held, Shown, InUse, NameMatches
<1>3. \A k \in Keys : Shown(shm', k) \in SUBSET Values
    BY DEF Shown
<1>4. Spoiled = {k \in Keys : Spoils(shm, k)}
    BY DEF Spoiled, Spoils
<1>5. Spoiled' = {k \in Keys : Spoils(shm', k)}
    BY DEF Spoiled, Spoils, InUse, NameMatches
<1> QED BY <1>1, <1>2, <1>3, <1>4, <1>5

(* An entry shows the value in its first page. *)
LEMMA ShownBy ==
    ASSUME NEW m, NEW k, NEW i \in InUse(m) \ m.failed, NameMatches(m, i, k),
           m.page[m.index[i].firstPage].item.value \in Values
    PROVE  m.page[m.index[i].firstPage].item.value \in Shown(m, k)
BY DEF Shown

(* Who loses entries shows less ... *)
LEMMA ShownShrinks ==
    ASSUME NEW m, NEW r, Loses(m, r), NEW k
    PROVE  Shown(r, k) \subseteq Shown(m, k) /\ (Spoils(r, k) => Spoils(m, k))
<1>1. \A i \in InUse(r) : /\ i \in InUse(m)
                          /\ i \in r.failed <=> i \in m.failed
                          /\ r.page[r.index[i].firstPage] = m.page[m.index[i].firstPage]
    BY DEF Loses, KeepsItems, KeepsItem
<1> QED BY <1>1 DEF Shown, Spoils, NameMatches

(* ... who has the same entries shows the same ... *)
LEMMA ShownSame ==
    ASSUME NEW m, NEW r, InUse(r) = InUse(m), Loses(m, r), NEW k
    PROVE  Shown(r, k) = Shown(m, k) /\ (Spoils(r, k) <=> Spoils(m, k))
<1>1. \A i \in InUse(m) : /\ i \in r.failed <=> i \in m.failed
                          /\ r.page[r.index[i].firstPage] = m.page[m.index[i].firstPage]
    BY DEF Loses, KeepsItems, KeepsItem
<1> QED BY <1>1 DEF Shown, Spoils, NameMatches

(* ... and an empty cache shows nothing. *)
LEMMA ShownNothing ==
    ASSUME NEW r, InUse(r) = {}, NEW k
    PROVE  Shown(r, k) = {} /\ ~Spoils(r, k)
BY DEF Shown, Spoils

(* A successful insert() shows the new value under its own key, and        *)
(* nothing else new.                                                       *)
LEMMA ShownGains ==
    ASSUME NEW m, NEW r, NEW item \in Item, Gains(m, r, item), NEW k \in Keys
    PROVE  /\ item.value \in Shown(r, item.key)
           /\ k = item.key => Shown(r, k) \subseteq Shown(m, k) \cup {item.value}
           /\ k # item.key => Shown(r, k) \subseteq Shown(m, k)
           /\ Spoils(r, k) => Spoils(m, k)
<1>1. PICK i \in InUse(r) \ r.failed :
        /\ r.page[r.index[i].firstPage] = Piece(item, 0)
        /\ \A j \in InUse(r) \ {i} :
              /\ j \in InUse(m) /\ (j \in r.failed <=> j \in m.failed)
              /\ r.page[r.index[j].firstPage] = m.page[m.index[j].firstPage]
    BY DEF Gains, OthersFrom, KeepsItem
<1>2. Piece(item, 0) # Junk /\ Piece(item, 0).item = item /\ Piece(item, 0).chunk = 0
    BY JunkAssumption DEF Piece
<1>3. item.value \in Values
    BY DEF Item
<1>4. item.value \in Shown(r, item.key)
    BY <1>1, <1>2, <1>3 DEF Shown, NameMatches
<1>5. ASSUME NEW x \in Shown(r, k)
      PROVE  x \in Shown(m, k) \/ (k = item.key /\ x = item.value)
    <2>1. PICK j \in InUse(r) \ r.failed :
            NameMatches(r, j, k) /\ r.page[r.index[j].firstPage].item.value = x
        BY DEF Shown
    <2>2. CASE j = i
        BY <1>1, <1>2, <2>1, <2>2 DEF NameMatches
    <2>3. CASE j # i
        <3>1. j \in InUse(m) \ m.failed
              /\ r.page[r.index[j].firstPage] = m.page[m.index[j].firstPage]
            BY <1>1, <2>1, <2>3
        <3>2. NameMatches(m, j, k) /\ m.page[m.index[j].firstPage].item.value = x
            BY <2>1, <3>1 DEF NameMatches
        <3>3. x \in Values
            BY DEF Shown
        <3> QED BY <3>1, <3>2, <3>3, ShownBy
    <2> QED BY <2>2, <2>3
<1>6. Spoils(r, k) => Spoils(m, k)
    BY <1>1 DEF Spoils, NameMatches
<1> QED BY <1>4, <1>5, <1>6

(* One that fails half-way shows nothing new, but may spoil one key.       *)
LEMMA HarmsShows ==
    ASSUME NEW m, NEW r, NEW k \in Keys, Harms(m, r, Hash[k])
    PROVE  /\ \A j \in Keys : Shown(r, j) \subseteq Shown(m, j)
           /\ \E other \in Keys :
                 /\ Hash[other] = Hash[k]
                 /\ \A j \in Keys : Spoils(r, j) => Spoils(m, j) \/ j = other
<1>1. PICK i \in InUse(r) \cap r.failed :
        /\ StartsAlike(r.page[r.index[i].firstPage], Hash[k])
        /\ \A j \in InUse(r) \ {i} :
              /\ j \in InUse(m) /\ (j \in r.failed <=> j \in m.failed)
              /\ r.page[r.index[j].firstPage] = m.page[m.index[j].firstPage]
    BY DEF Harms, OthersFrom, KeepsItem
<1>2. \A j \in Keys : Shown(r, j) \subseteq Shown(m, j)
    BY <1>1 DEF Shown, NameMatches
<1>3. \A j \in Keys : Spoils(r, j) => Spoils(m, j) \/ NameMatches(r, i, j)
    BY <1>1 DEF Spoils, NameMatches
<1>4. CASE r.page[r.index[i].firstPage] = Junk
    <2>1. \A j \in Keys : ~NameMatches(r, i, j)
        BY <1>4 DEF NameMatches
    <2> QED BY <1>2, <1>3, <2>1
<1>5. CASE \E x \in Item : Hash[x.key] = Hash[k] /\ r.page[r.index[i].firstPage] = Piece(x, 0)
    <2>1. PICK x \in Item : /\ Hash[x.key] = Hash[k]
                            /\ r.page[r.index[i].firstPage] = Piece(x, 0)
        BY <1>5
    <2>2. x.key \in Keys /\ Piece(x, 0).item = x
        BY DEF Item, Piece
    <2>3. \A j \in Keys : NameMatches(r, i, j) => j = x.key
        BY <2>1, <2>2 DEF NameMatches
    <2> QED BY <1>2, <1>3, <2>1, <2>2, <2>3
<1> QED BY <1>1, <1>4, <1>5 DEF StartsAlike

(* The entry that findNamedEntry() returns shows a value under the key, or *)
(* spoils it.                                                              *)
LEMMA ShownAtEntry ==
    ASSUME NEW m, Sound(m), AllWhole(m), NEW k \in Keys, findNamedEntry(m, k) # -1
    PROVE  LET i == findNamedEntry(m, k) IN
           /\ i \in InUse(m) /\ i >= 0 /\ NameMatches(m, i, k)
           /\ i \notin m.failed => m.page[m.index[i].firstPage].item.value \in Shown(m, k)
           /\ i \in m.failed => Spoils(m, k)
<1> DEFINE i == findNamedEntry(m, k)
<1>1. i \in InUse(m) /\ NameMatches(m, i, k)
    BY LookupFacts
<1> HIDE DEF i
<1>2. i \notin m.failed => m.page[m.index[i].firstPage].item \in Item
    BY <1>1, WholeFacts DEF AllWhole
<1>3. i >= 0
    <2>1. i \in Slots
        BY <1>1 DEF InUse
    <2> QED BY <2>1, PageFacts
<1>4. i \notin m.failed => m.page[m.index[i].firstPage].item.value \in Shown(m, k)
    BY <1>1, <1>2 DEF Shown, Item
<1>5. i \in m.failed => Spoils(m, k)
    BY <1>1 DEF Spoils
<1> QED BY <1>1, <1>3, <1>4, <1>5 DEF i

(* Nobody sees anything of what goes on within. *)
LEMMA SameSteps ==
    ASSUME InUse(shm') = InUse(shm), Loses(shm, shm')
    PROVE  UNCHANGED <<Held, Spoiled>>
BY ShownSame, HeldIsShown

(* A cache that is empty holds nothing. *)
LEMMA EmptySteps ==
    ASSUME InUse(shm') = {}
    PROVE  Held' = [k \in Keys |-> {}] /\ Spoiled' = {}
BY ShownNothing, HeldIsShown

(* recoverCorruptedCache() is a Recover of the lossy cache. *)
LEMMA RecoverSteps ==
    ASSUME InUse(shm') = {}, reply' = "corrupt"
    PROVE  Abstract!Recover
BY EmptySteps DEF Abstract!Recover, Abstract!Nothing

(* insert() is an Insert that may evict, a Fail or a Recover. *)
LEMMA InsertSteps ==
    ASSUME LabelsFit, Whole, NEW k \in Keys, NEW v \in Values, insert(k, v)
    PROVE  Abstract!Insert(k, v) \/ Abstract!Fail(k) \/ Abstract!Recover
<1> DEFINE item == [key |-> k, value |-> v]
<1>1. item \in Item /\ item.key = k /\ item.value = v
    BY DEF Item
<1>2. PICK o \in InsertOutcomes(shm, item) : shm' = o.shm /\ reply' = o.reply
    BY DEF insert
<1> HIDE DEF item
<1>3. \/ o = Recovered
      \/ o.reply = "false" /\ Loses(shm, o.shm)
      \/ o.reply = "true" /\ Gains(shm, o.shm, item)
      \/ o.reply = "corrupt" /\ Harms(shm, o.shm, Hash[k])
    BY <1>1, <1>2, InsertKeeps DEF Whole, IInv
<1>4. CASE o = Recovered
    <2>1. now \in Nat
        BY ClientsAssumption DEF Whole, IInv
    <2>2. InUse(shm') = {} /\ reply' = "corrupt"
        BY <1>2, <1>4, <2>1, InitialSound DEF Recovered, Outcome
    <2> QED BY <2>2, RecoverSteps
<1>5. CASE o.reply = "false" /\ Loses(shm, o.shm)
    <2>1. \A j \in Keys : Held'[j] \subseteq Held[j]
        BY <1>2, <1>5, ShownShrinks, HeldIsShown
    <2>2. Spoiled' \subseteq Spoiled
        BY <1>2, <1>5, ShownShrinks, HeldIsShown
    <2> QED BY <1>2, <1>5, <2>1, <2>2, HeldIsShown DEF Abstract!Insert, Abstract!Forgets
<1>6. CASE o.reply = "true" /\ Gains(shm, o.shm, item)
    <2>1. \A j \in Keys :
            /\ v \in Shown(shm', k)
            /\ j = k => Shown(shm', j) \subseteq Shown(shm, j) \cup {v}
            /\ j # k => Shown(shm', j) \subseteq Shown(shm, j)
            /\ Spoils(shm', j) => Spoils(shm, j)
        BY <1>1, <1>2, <1>6, ShownGains
    <2>2. v \in Held'[k]
        BY <2>1, HeldIsShown
    <2>3. \A j \in Keys : Held'[j] \subseteq [Held EXCEPT ![k] = @ \cup {v}][j]
        BY <2>1, HeldIsShown
    <2>4. Spoiled' \subseteq Spoiled
        BY <2>1, HeldIsShown
    <2> QED BY <1>2, <1>6, <2>2, <2>3, <2>4, HeldIsShown DEF Abstract!Insert, Abstract!Forgets
<1>7. CASE o.reply = "corrupt" /\ Harms(shm, o.shm, Hash[k])
    <2>1. PICK other \in Keys :
            /\ Hash[other] = Hash[k]
            /\ \A j \in Keys : Spoils(shm', j) => Spoils(shm, j) \/ j = other
        BY <1>2, <1>7, HarmsShows
    <2>2. other \in Alike[k]
        BY <2>1 DEF Alike
    <2>3. Spoiled' \subseteq Spoiled \cup {other}
        BY <2>1, HeldIsShown
    <2>4. \A j \in Keys : Held'[j] \subseteq Held[j]
        <3>1. \A j \in Keys : Shown(shm', j) \subseteq Shown(shm, j)
            BY <1>2, <1>7, HarmsShows
        <3> QED BY <3>1, HeldIsShown
    <2> QED BY <1>2, <1>7, <2>2, <2>3, <2>4, HeldIsShown DEF Abstract!Fail, Abstract!Forgets
<1> QED BY <1>3, <1>4, <1>5, <1>6, <1>7

(* What a remove() that finds entry i takes from what is shown.            *)
LEMMA RemovedShows ==
    ASSUME NEW m, NEW r, KeepsItems(m, r), NEW i \in InUse(m), InUse(r) = InUse(m) \ {i},
           NEW k, NameMatches(m, i, k), NEW j
    PROVE  /\ Shown(r, j) \subseteq Shown(m, j)
           /\ Spoils(r, j) => Spoils(m, j)
           /\ \A x \in Shown(m, j) :
                 \/ x \in Shown(r, j)
                 \/ i \notin m.failed /\ j = k /\ x = m.page[m.index[i].firstPage].item.value
           /\ Spoils(m, j) => Spoils(r, j) \/ (i \in m.failed /\ j = k)
<1>1. \A a \in InUse(m) \ {i} :
         /\ a \in InUse(r) /\ (a \in r.failed <=> a \in m.failed)
         /\ r.page[r.index[a].firstPage] = m.page[m.index[a].firstPage]
    BY DEF KeepsItems, KeepsItem
<1>2. Loses(m, r)
    BY DEF Loses
<1>3. ASSUME NEW x \in Shown(m, j)
      PROVE  \/ x \in Shown(r, j)
             \/ i \notin m.failed /\ j = k /\ x = m.page[m.index[i].firstPage].item.value
    <2>1. PICK a \in InUse(m) \ m.failed :
            NameMatches(m, a, j) /\ m.page[m.index[a].firstPage].item.value = x
        BY DEF Shown
    <2>2. CASE a = i
        BY <2>1, <2>2 DEF NameMatches
    <2>3. CASE a # i
        <3>1. a \in InUse(r) \ r.failed
              /\ r.page[r.index[a].firstPage] = m.page[m.index[a].firstPage]
            BY <1>1, <2>1, <2>3
        <3>2. NameMatches(r, a, j) /\ r.page[r.index[a].firstPage].item.value = x
            BY <2>1, <3>1 DEF NameMatches
        <3>3. x \in Values
            BY DEF Shown
        <3> QED BY <3>1, <3>2, <3>3, ShownBy
    <2> QED BY <2>2, <2>3
<1>4. ASSUME Spoils(m, j)
      PROVE  Spoils(r, j) \/ (i \in m.failed /\ j = k)
    <2>1. PICK a \in InUse(m) \cap m.failed : NameMatches(m, a, j)
        BY <1>4 DEF Spoils
    <2>2. CASE a = i
        BY <2>1, <2>2 DEF NameMatches
    <2>3. CASE a # i
        BY <1>1, <2>1, <2>3 DEF Spoils, NameMatches
    <2> QED BY <2>2, <2>3
<1> QED BY <1>2, <1>3, <1>4, ShownShrinks

(* remove() is a Remove: it takes at most one value, of its own key. *)
LEMMA RemoveSteps ==
    ASSUME LabelsFit, Whole, NEW k \in Keys, remove(k)
    PROVE  Abstract!Remove(k)
<1> DEFINE i == findNamedEntry(shm, k)
           v == shm.page[shm.index[i].firstPage].item.value
<1>1. CASE i = -1
    <2>1. shm' = shm /\ reply' = "false"
        BY <1>1 DEF remove
    <2>2. UNCHANGED <<Held, Spoiled>>
        BY <2>1, HeldIsShown
    <2> QED BY <2>1, <2>2 DEF Abstract!Remove
<1>2. CASE i # -1
    <2>1. /\ reply' = "true" /\ KeepsItems(shm, shm') /\ InUse(shm') = InUse(shm) \ {i}
        BY <1>2, RemovedWhole
    <2>2. /\ i \in InUse(shm) /\ NameMatches(shm, i, k)
          /\ i \notin shm.failed => v \in Shown(shm, k)
          /\ i \in shm.failed => Spoils(shm, k)
        BY <1>2, ShownAtEntry DEF Whole, IInv
    <2> HIDE DEF i
    <2>3. \A j \in Keys :
            /\ Shown(shm', j) \subseteq Shown(shm, j)
            /\ Spoils(shm', j) => Spoils(shm, j)
            /\ \A x \in Shown(shm, j) :
                  x \in Shown(shm', j) \/ (i \notin shm.failed /\ j = k /\ x = v)
            /\ Spoils(shm, j) => Spoils(shm', j) \/ (i \in shm.failed /\ j = k)
        BY <2>1, <2>2, RemovedShows
    <2> HIDE DEF v
    <2>4. CASE i \in shm.failed
        <3>1. \A j \in Keys : Shown(shm', j) = Shown(shm, j)
            BY <2>3, <2>4
        <3>2. Held' = Held
            BY <3>1, HeldIsShown
        <3>3. k \in Spoiled
            BY <2>2, <2>4, HeldIsShown
        <3>4. Spoiled' \in {Spoiled, Spoiled \ {k}}
            BY <2>3, HeldIsShown
        <3> QED BY <2>1, <3>2, <3>3, <3>4 DEF Abstract!Remove
    <2>5. CASE i \notin shm.failed
        <3>1. Spoiled' = Spoiled
            BY <2>3, <2>5, HeldIsShown
        <3>2. \A j \in Keys \ {k} : Shown(shm', j) = Shown(shm, j)
            BY <2>3
        <3>3. Shown(shm', k) = Shown(shm, k) \/ Shown(shm', k) = Shown(shm, k) \ {v}
            BY <2>3
        <3>4. v \in Held[k]
            BY <2>2, <2>5, HeldIsShown
        <3>5. CASE Shown(shm', k) = Shown(shm, k)
            <4>1. Held' = Held
                BY <3>2, <3>5, HeldIsShown
            <4> QED BY <2>1, <3>1, <3>4, <4>1 DEF Abstract!Remove
        <3>6. CASE Shown(shm', k) = Shown(shm, k) \ {v}
            <4>1. Held' = [Held EXCEPT ![k] = @ \ {v}]
                BY <3>2, <3>6, HeldIsShown
            <4> QED BY <2>1, <3>1, <3>4, <4>1 DEF Abstract!Remove
        <3> QED BY <3>3, <3>5, <3>6
    <2> QED BY <2>4, <2>5
<1> QED BY <1>1, <1>2

(* find() is a Find: a hit returns a value stored under that key, unless an *)
(* insert() of such a key failed. Who finds that it may not read the entry  *)
(* recovers, for the others nothing changes.                               *)
LEMMA FindSteps ==
    ASSUME Whole, NEW k \in Keys, find(k)
    PROVE  Abstract!Find(k) \/ Abstract!Recover
<1> DEFINE i == findNamedEntry(shm, k)
<1>1. CASE i = -1
    <2>1. shm' = shm /\ reply' = "false"
        BY <1>1 DEF find
    <2>2. UNCHANGED <<Held, Spoiled>>
        BY <2>1, HeldIsShown
    <2> QED BY <2>1, <2>2 DEF Abstract!Find
<1>2. CASE i # -1 /\ ~AccessIsMapped(shm.index[i].firstPage, shm.index[i].totalItemSize)
    <2>1. reply' = "corrupt" /\ (shm' = shm \/ InUse(shm') = {})
        BY <1>2, ThrownWhole DEF find
    <2>2. CASE shm' = shm
        <3>1. UNCHANGED <<Held, Spoiled>>
            BY <2>2, HeldIsShown
        <3> QED BY <2>1, <3>1 DEF Abstract!Find
    <2>3. CASE InUse(shm') = {}
        BY <2>1, <2>3, RecoverSteps
    <2> QED BY <2>1, <2>2, <2>3
<1>3. CASE i # -1 /\ AccessIsMapped(shm.index[i].firstPage, shm.index[i].totalItemSize)
    <2>1. /\ InUse(shm') = InUse(shm) /\ Loses(shm, shm')
          /\ reply' \in Values \cup {"torn"}
          /\ i \notin shm.failed => reply' = shm.page[shm.index[i].firstPage].item.value
        BY <1>3, FoundWhole
    <2>2. /\ i \notin shm.failed =>
                shm.page[shm.index[i].firstPage].item.value \in Shown(shm, k)
          /\ i \in shm.failed => Spoils(shm, k)
        BY <1>3, ShownAtEntry DEF Whole, IInv
    <2> HIDE DEF i
    <2>3. UNCHANGED <<Held, Spoiled>>
        BY <2>1, SameSteps
    <2>4. reply' \in Held[k] \/ (k \in Spoiled /\ reply' \in Values \cup {"torn"})
        BY <2>1, <2>2, HeldIsShown
    <2> QED BY <2>3, <2>4 DEF Abstract!Find
<1> QED BY <1>1, <1>2, <1>3

(* contains() is a Contains. *)
LEMMA ContainsSteps ==
    ASSUME Whole, NEW k \in Keys, contains(k)
    PROVE  Abstract!Contains(k)
<1>1. UNCHANGED <<Held, Spoiled>>
    BY HeldIsShown DEF contains
<1>2. CASE findNamedEntry(shm, k) # -1
    <2>1. Held[k] # {} \/ k \in Spoiled
        BY <1>2, ShownAtEntry, HeldIsShown DEF Whole, IInv
    <2>2. reply' \in {"true", "false"}
        BY DEF contains
    <2> QED BY <1>1, <2>1, <2>2 DEF Abstract!Contains
<1>3. CASE findNamedEntry(shm, k) = -1
    BY <1>1, <1>3 DEF contains, Abstract!Contains
<1> QED BY <1>2, <1>3

(* The cache implements the lossy cache: for any sizes, keys, values and   *)
(* hashes, and however much of the last page is not mapped, a lookup       *)
(* returns a whole value that was inserted under the same key and neither  *)
(* removed nor evicted since, whatever collisions, moves, evictions and    *)
(* recoveries happened in between, or it is a key of the same hash as one  *)
(* whose insert() failed in another process.                               *)
THEOREM ImplementsLossyCache ==
    ASSUME LabelsFit
    PROVE  Spec => RefinesLossyCache
<1>1. Init => Abstract!Init
    <2> SUFFICES ASSUME Init PROVE Abstract!Init
        OBVIOUS
    <2>1. now \in Nat /\ shm = InitialSegment(now) /\ reply = "none"
        BY DEF Init
    <2>2. InUse(shm) = {}
        BY <2>1, InitialSound
    <2>3. Held = [k \in Keys |-> {}] /\ Spoiled = {}
        BY <2>2, ShownNothing, HeldIsShown
    <2> QED BY <2>1, <2>3 DEF Abstract!Init, Abstract!Nothing
<1>2. Whole /\ [Next]_vars => [Abstract!Next]_<<Held, Spoiled, reply>>
    <2> SUFFICES ASSUME Whole, [Next]_vars
                 PROVE  Abstract!Next \/ UNCHANGED <<Held, Spoiled, reply>>
        OBVIOUS
    <2>1. ASSUME NEW k \in Keys, NEW v \in Values, insert(k, v) PROVE Abstract!Next
        BY <2>1, InsertSteps DEF Abstract!Next
    <2>2. ASSUME NEW k \in Keys, remove(k) PROVE Abstract!Next
        BY <2>2, RemoveSteps DEF Abstract!Next
    <2>3. ASSUME NEW k \in Keys, find(k) PROVE Abstract!Next
        BY <2>3, FindSteps DEF Abstract!Next
    <2>4. ASSUME NEW k \in Keys, contains(k) PROVE Abstract!Next
        BY <2>4, ContainsSteps DEF Abstract!Next
    <2>5. CASE clear
        <3>1. InUse(shm') = {} /\ reply' = "none"
            BY <2>5, clearIInv DEF Whole, clear
        <3>2. Held' = [k \in Keys |-> {}] /\ Spoiled' = {}
            BY <3>1, EmptySteps
        <3> QED BY <3>1, <3>2 DEF Abstract!Next, Abstract!Clear, Abstract!Nothing
    <2>6. CASE \/ \E t \in Timestamps : setTimestamp(t)
               \/ \E policy \in Policies : setEvictionPolicy(policy)
        <3>1. /\ InUse(shm') = InUse(shm) /\ reply' = "none"
              /\ shm'.index = shm.index /\ shm'.page = shm.page
              /\ shm'.failed = shm.failed
            BY <2>6, headerIInv DEF Whole
        <3>2. Loses(shm, shm')
            BY <3>1 DEF Loses, KeepsItems, KeepsItem
        <3>3. UNCHANGED <<Held, Spoiled>>
            BY <3>1, <3>2, SameSteps
        <3> QED BY <3>1, <3>3 DEF Abstract!Next, Abstract!SetHeader
    <2>7. CASE Tick \/ UNCHANGED vars
        <3>1. shm' = shm /\ reply' = reply
            BY <2>7 DEF Tick, vars
        <3> QED BY <3>1, HeldIsShown
    <2> QED BY <2>1, <2>2, <2>3, <2>4, <2>5, <2>6, <2>7 DEF Next
<1>3. Whole /\ [Next]_vars => Whole'
    BY NextWhole
<1> QED BY <1>1, <1>2, <1>3, InitWhole, PTL DEF Spec, RefinesLossyCache, Abstract!Spec

-----------------------------------------------------------------------------
(* Room for an item. *)

(* Free pages in one run are room. *)
LEMMA PackedHasRoom ==
    ASSUME NEW r, NEW n \in Nat \ {0}, r.cacheAvail \in Nat, n <= r.cacheAvail,
           \A k \in 1 .. r.cacheAvail : findEmptyPages(r, k) < NumPages
    PROVE  HasRoom(r, n)
<1>1. n \in 1 .. r.cacheAvail
    OBVIOUS
<1> QED BY <1>1 DEF HasRoom

(* insert() makes room for an item of at most half of the pages: it asks   *)
(* for twice the pages it wants to be free, less those that are free, and  *)
(* what removeUsedPages() takes away from that number it leaves free       *)
(* already.                                                                *)
LEMMA RoomIsMade ==
    ASSUME NEW m, Sound(m), NEW n \in Nat \ {0}, 2 * n <= NumPages + 1,
           NEW r \in MakeRoom(m, n)
    PROVE  HasRoom(r, n)
<1>1. m.cacheAvail \in 0 .. NumPages /\ NumPages \in Nat /\ NumPages >= 2
    BY SegmentsHaveShape, PageFacts DEF Sound
<1>2. FreePagesDesired(n) \in Nat /\ FreePagesDesired(n) >= n
    BY FreePagesDesiredFacts
<1>3. CASE HasRoom(m, n)
    BY <1>3 DEF MakeRoom
<1>4. CASE ~HasRoom(m, n) /\ m.cacheAvail > FreePagesDesired(n)
    <2>1. r = defragment(m)
        BY <1>4 DEF MakeRoom
    <2>2. r.cacheAvail = m.cacheAvail
          /\ \A k \in 1 .. m.cacheAvail : findEmptyPages(r, k) < NumPages
        BY <2>1, DefragmentKeepsSound
    <2>3. n <= r.cacheAvail /\ r.cacheAvail \in Nat
        BY <1>1, <1>2, <1>4, <2>2
    <2> QED BY <2>2, <2>3, PackedHasRoom
<1>5. CASE ~HasRoom(m, n) /\ ~(m.cacheAvail > FreePagesDesired(n))
    <2> DEFINE q == PagesToFree(m, n)
    <2>1. r \in removeUsedPages(m, q)
        BY <1>5 DEF MakeRoom
    <2>2. n < NumPages
        BY <1>1
    <2>3. q \in Nat
        BY <1>5, <2>2, PagesToFreeFacts, PageFacts
    <2>4. /\ Sound(r) /\ r.cacheAvail >= m.cacheAvail /\ r.cacheAvail >= q
          /\ \A k \in 1 .. r.cacheAvail : findEmptyPages(r, k) < NumPages
        BY <2>1, <2>3, EvictionSound
    <2>5. r.cacheAvail \in Nat
        BY <2>4, SegmentsHaveShape, PageFacts DEF Sound
    <2>6. q + m.cacheAvail >= 2 * n \/ q + m.cacheAvail = NumPages
        BY <1>1, <1>2 DEF PagesToFree, Least
    <2> HIDE DEF q
    <2>7. n <= r.cacheAvail
        BY <1>1, <2>3, <2>4, <2>5, <2>6
    <2> QED BY <2>4, <2>5, <2>7, PackedHasRoom
<1> QED BY <1>3, <1>4, <1>5

(* insert() does not fail for such an item. *)
LEMMA InsertFinds ==
    ASSUME NEW m, Sound(m), NEW item \in Item, 2 * PagesNeeded(item) <= NumPages + 1,
           NEW o \in InsertOutcomes(m, item)
    PROVE  o.reply # "false"
<1> DEFINE n == PagesNeeded(item)
<1>1. PICK v, i :
        /\ Sound(v) /\ i \in Slots \ InUse(v) /\ o \in PlaceOutcomes(v, i, item)
    BY InsertForms
<1>2. n \in Nat \ {0} /\ n < NumPages /\ ~(n >= NumPages)
    BY ItemFacts, PageFacts
<1>3. ~MakeRoomThrows(v, n)
    BY <1>1, <1>2, MakeRoomNeverThrows
<1>4. PICK r \in MakeRoom(v, n) :
            o \in IF HasRoom(r, n) THEN WriteOutcomes(r, i, item, findEmptyPages(r, n))
                  ELSE {Outcome(r, "false")}
    BY <1>1, <1>2, <1>3 DEF PlaceOutcomes
<1>5. HasRoom(r, n)
    <2> HIDE DEF n
    <2>1. 2 * n <= NumPages + 1
        BY DEF n
    <2> QED BY <1>1, <1>2, <1>4, <2>1, RoomIsMade
<1> DEFINE first == findEmptyPages(r, n)
<1>6. o \in WriteOutcomes(r, i, item, first)
    BY <1>4, <1>5
<1> HIDE DEF first, n
<1> QED BY <1>6 DEF WriteOutcomes, Outcome, Recovered

(* In every state that calls can lead to, a defragment() leaves the free   *)
(* pages in one run, and insert() finds room for every item of at most     *)
(* half of the pages, however full and fragmented the cache is.            *)
THEOREM RoomIsFound == Spec => []RoomFound
<1>1. IInv => RoomFound
    <2> SUFFICES ASSUME IInv PROVE RoomFound
        OBVIOUS
    <2>1. RoomIsContiguous
        BY DefragmentKeepsSound DEF IInv, RoomIsContiguous
    <2>2. InsertFits
        BY InsertFinds DEF IInv, InsertFits
    <2> QED BY <2>1, <2>2 DEF RoomFound
<1> QED BY <1>1, Inductive, PTL

-----------------------------------------------------------------------------
(* The item that was stored is found. *)

(* A slot keeps its hash or becomes free. *)
LEMMA HashesShrink ==
    ASSUME NEW m, Sound(m), NEW r, Sound(r), Shrinks(m, r), NEW i \in Slots
    PROVE  r.index[i].fileNameHash \in {0, m.index[i].fileNameHash}
<1>1. CASE i \in InUse(r)
    <2>1. m.index[i] \in Entries
        BY SegmentsHaveShape DEF Sound
    <2>2. r.index[i] = [m.index[i] EXCEPT !.firstPage = r.index[i].firstPage]
        BY <1>1 DEF Shrinks
    <2> DEFINE e == m.index[i]
               f == r.index[i]
    <2> HIDE DEF e, f
    <2>3. e \in Entries /\ f = [e EXCEPT !.firstPage = f.firstPage]
        BY <2>1, <2>2 DEF e, f
    <2>4. f.fileNameHash = e.fileNameHash
        BY <2>3 DEF Entries
    <2> QED BY <2>4 DEF e, f
<1>2. CASE i \notin InUse(r)
    BY <1>2 DEF Sound, TablesAgree, FreeEntry
<1> QED BY <1>1, <1>2

(* A lookup reaches slot n of the chain when no other slot before it has   *)
(* the hash.                                                               *)
LEMMA LookupReaches ==
    ASSUME NEW s, NEW h, NEW n \in 0 .. MaxProbe - 1,
           s.index[Probe(h, n)].fileNameHash = h,
           \A j \in 0 .. n - 1 :
              Probe(h, j) # Probe(h, n) => s.index[Probe(h, j)].fileNameHash # h
    PROVE  LookupSlot(s, h) = Probe(h, n)
<1> DEFINE stops(x) == s.index[Probe(h, x)].fileNameHash = h \/ x = MaxProbe - 1
           S == {x \in 0 .. MaxProbe - 1 : stops(x)}
           x == CHOOSE x \in 0 .. MaxProbe - 1 :
                    stops(x) /\ \A j \in 0 .. x - 1 : ~stops(j)
<1>1. MaxProbe \in Nat /\ MaxProbe >= 1
    BY SizesAssumption
<1>2. PICK y \in S : \A z \in S : y <= z
    <2>1. n \in S /\ S \subseteq Nat
        BY <1>1
    <2> HIDE DEF S
    <2> QED BY <2>1, LeastNatural
<1>3. y \in 0 .. MaxProbe - 1 /\ stops(y) /\ \A j \in 0 .. y - 1 : ~stops(j)
    <2>1. ASSUME NEW j \in 0 .. y - 1, stops(j)
          PROVE  FALSE
        <3>1. j \in S
            BY <1>1, <1>2, <2>1
        <3> QED BY <1>1, <1>2, <2>1, <3>1
    <2> QED BY <1>2, <2>1
<1>4. x \in 0 .. MaxProbe - 1 /\ stops(x) /\ \A j \in 0 .. x - 1 : ~stops(j)
    BY <1>3
<1>5. LookupSlot(s, h) = Probe(h, x)
    BY DEF LookupSlot
<1> HIDE DEF x
<1>6. stops(n)
    OBVIOUS
<1>7. ~(n \in 0 .. x - 1)
    BY <1>4, <1>6
<1>8. x = n \/ x \in 0 .. n - 1
    BY <1>1, <1>4, <1>7
<1>9. CASE x \in 0 .. n - 1
    <2>1. x # MaxProbe - 1
        BY <1>1, <1>9
    <2>2. s.index[Probe(h, x)].fileNameHash = h
        BY <1>4, <2>1
    <2> QED BY <1>5, <1>9, <2>2
<1> QED BY <1>5, <1>8, <1>9

(* A stored item is found when the slots before its own on the chain have  *)
(* other hashes.                                                           *)
LEMMA StoredIsFound ==
    ASSUME NEW m, Sound(m), NEW item \in Item, NEW n \in 0 .. MaxProbe - 1,
           NEW i \in Slots \ InUse(m), i = Probe(Hash[item.key], n),
           \A j \in 0 .. n - 1 :
              m.index[Probe(Hash[item.key], j)].fileNameHash # Hash[item.key],
           NEW first \in Pages, IsFreeRun(m, first, PagesNeeded(item)),
           NEW t \in 0 .. MaxTime
    PROVE  LET s == Stored(m, i, item, first, t) IN
           /\ findNamedEntry(s, item.key) = i
           /\ ReadData(s, i) = item.value
<1> DEFINE s == Stored(m, i, item, first, t)
           h == Hash[item.key]
           c == PagesNeeded(item)
<1>1. \E x \in 0 .. MaxProbe - 1 : i = Probe(Hash[item.key], x)
    OBVIOUS
<1>2. /\ \A j \in Slots \ {i} : s.index[j] = m.index[j]
      /\ s.index[i] =
                 [fileNameHash |-> Hash[item.key], totalItemSize |-> RequiredSize(item),
                  useCount |-> 1, addTime |-> t, lastUsedTime |-> t, firstPage |-> first]
      /\ s.page = [p \in Pages |->
                  IF p \in first .. first + c - 1
                  THEN Piece(item, p - first) ELSE m.page[p]]
      /\ first .. first + c - 1 \subseteq FreePages(m)
      /\ Sound(s) /\ InUse(s) = InUse(m) \cup {i}
      /\ \A j \in Slots : j \in s.failed <=> j \in m.failed /\ j # i
    BY <1>1, StoredSound
<1> HIDE DEF s
<1>3. s.index[i].fileNameHash = h /\ s.index[i].firstPage = first
      /\ s.index[i].totalItemSize = RequiredSize(item)
    BY <1>2
<1>4. h \in Nat /\ c \in Nat \ {0} /\ first \in Nat
    BY ItemFacts, PageFacts
<1>5. \A j \in 0 .. n - 1 :
          Probe(h, j) # Probe(h, n) => s.index[Probe(h, j)].fileNameHash # h
    <2> TAKE j \in 0 .. n - 1
    <2>1. j \in 0 .. MaxProbe - 1
        BY SizesAssumption
    <2>2. Probe(h, j) \in Slots
        BY <1>4, <2>1, ProbeFacts
    <2> QED BY <1>2, <2>2
<1>6. LookupSlot(s, h) = i
    BY <1>3, <1>5, LookupReaches
<1>7. \A k \in 0 .. c - 1 : first + k \in Pages /\ s.page[first + k] = Piece(item, k)
    <2> HIDE DEF c, h
    <2> TAKE k \in 0 .. c - 1
    <2>1. first + k \in first .. first + c - 1 /\ (first + k) - first = k
        BY <1>4
    <2>2. first + k \in Pages
        BY <1>2, <2>1 DEF FreePages
    <2> QED BY <1>2, <2>1, <2>2
<1>8. s.page[first] = Piece(item, 0)
    <2> HIDE DEF c
    <2>1. 0 \in 0 .. c - 1 /\ first + 0 = first
        BY <1>4
    <2> QED BY <1>7, <2>1
<1>9. Piece(item, 0) # Junk /\ Piece(item, 0).item = item /\ Piece(item, 0).chunk = 0
    BY JunkAssumption DEF Piece
<1>10. NameMatches(s, i, item.key)
    BY <1>3, <1>8, <1>9 DEF NameMatches
<1>11. findNamedEntry(s, item.key) = i
    BY <1>3, <1>6, <1>10 DEF findNamedEntry
<1>12. ReadData(s, i) = item.value
    BY <1>3, <1>7, <1>8, <1>9 DEF ReadData
<1> QED BY <1>11, <1>12 DEF s

(* They have: insert() probed past them, and what it evicted after that    *)
(* left the hash 0.                                                        *)
LEMMA InsertIsFound ==
    ASSUME \A k \in Keys : Hash[k] # 0,
           NEW m, Sound(m), now \in 0 .. MaxTime, NEW item \in Item,
           NEW o \in InsertOutcomes(m, item), o.reply = "true"
    PROVE  LET i == findNamedEntry(o.shm, item.key)
           IN i >= 0 /\ ReadData(o.shm, i) = item.value
<1> DEFINE h == Hash[item.key]
<1>1. PICK cull \in CullChoices(m) :
             LET n == InsertProbe(m, h, cull)
                 i == Position(h, n)
                 v == Vacated(Aged(m, h, cull, n), i)
             IN /\ n \in 0 .. MaxProbe - 1
                /\ i = Probe(h, n) /\ i \in Slots \ InUse(v)
                /\ Sound(v)
                /\ o \in PlaceOutcomes(v, i, item)
    BY InsertForms
<1> DEFINE n == InsertProbe(m, h, cull)
           i == Position(h, n)
           a == Aged(m, h, cull, n)
           v == Vacated(a, i)
<1>2. cull \in BOOLEAN /\ h \in Nat /\ h # 0
    BY ItemFacts DEF CullChoices
<1>3. /\ n \in 0 .. MaxProbe - 1 /\ i = Probe(h, n) /\ i \in Slots \ InUse(v)
      /\ Sound(v) /\ o \in PlaceOutcomes(v, i, item)
    BY <1>1
<1>4. \A j \in 0 .. n - 1 :
          Probe(h, j) \in Slots /\ m.index[Probe(h, j)].fileNameHash # h
    <2>1. \A j \in 0 .. n - 1 : ~StopsAt(m, h, cull, j)
        BY <1>2, InsertProbeFacts
    <2>2. \A j \in 0 .. n - 1 : j \in 0 .. MaxProbe - 1
        BY <1>3, SizesAssumption
    <2> HIDE DEF n, h
    <2>3. \A j \in 0 .. n - 1 : Position(h, j) = Probe(h, j) /\ Probe(h, j) \in Slots
        BY <1>2, <2>2, ProbeFacts
    <2> QED BY <2>1, <2>3 DEF StopsAt
<1>5. Sound(a) /\ \A j \in Slots : a.index[j].fileNameHash = m.index[j].fileNameHash
    BY <1>2, AgedSound
<1>6. Shrinks(a, v)
    <2> HIDE DEF a, i
    <2> QED BY <1>3, <1>5, VacatedSound
<1> HIDE DEF n, i, a, v
<1>7. \A j \in Slots : v.index[j].fileNameHash \in {0, m.index[j].fileNameHash}
    BY <1>3, <1>5, <1>6, HashesShrink
<1>8. PICK r \in MakeRoom(v, PagesNeeded(item)) :
        /\ Sound(r) /\ Shrinks(v, r) /\ i \in Slots \ InUse(r)
        /\ PlacedIn(r, i, item, o)
    <2>1. o # Outcome(v, "false")
        BY DEF Outcome
    <2> QED BY <1>3, <2>1, PlaceForms
<1>9. LET first == findEmptyPages(r, PagesNeeded(item)) IN
        /\ first \in Pages /\ IsFreeRun(r, first, PagesNeeded(item))
        /\ o = Outcome(Stored(r, i, item, first, now), "true")
    <2> DEFINE first == findEmptyPages(r, PagesNeeded(item))
    <2>1. o # Outcome(r, "false") /\ o # Recovered
          /\ \A s : o # Outcome(s, "corrupt")
        BY DEF Outcome, Recovered
    <2> HIDE DEF first
    <2> QED BY <1>8, <2>1 DEF PlacedIn, first
<1> DEFINE first == findEmptyPages(r, PagesNeeded(item))
<1>10. /\ Sound(r) /\ Shrinks(v, r) /\ i \in Slots \ InUse(r)
       /\ first \in Pages /\ IsFreeRun(r, first, PagesNeeded(item))
       /\ o = Outcome(Stored(r, i, item, first, now), "true")
    BY <1>8, <1>9
<1> HIDE DEF first
<1>11. \A j \in Slots : r.index[j].fileNameHash \in {0, m.index[j].fileNameHash}
    <2> TAKE j \in Slots
    <2>1. r.index[j].fileNameHash \in {0, v.index[j].fileNameHash}
        BY <1>3, <1>10, HashesShrink
    <2> QED BY <1>7, <2>1
<1>12. \A j \in 0 .. n - 1 : r.index[Probe(h, j)].fileNameHash # h
    BY <1>2, <1>4, <1>11
<1>13. o.shm = Stored(r, i, item, first, now)
    BY <1>10 DEF Outcome
<1>14. findNamedEntry(o.shm, item.key) = i /\ ReadData(o.shm, i) = item.value
    BY <1>3, <1>10, <1>12, <1>13, StoredIsFound
<1>15. i >= 0
    BY <1>10, PageFacts
<1> QED BY <1>14, <1>15

(* What insert() stored is what an immediate find() of the key returns. A  *)
(* key with the hash 0 is left out: the slots that an eviction frees have  *)
(* that hash, and a lookup of the key stops at the first of them.          *)
THEOREM StoredIsThere ==
    ASSUME \A k \in Keys : Hash[k] # 0
    PROVE  Spec => []FoundAfterInsert
<1>1. IInv => FoundAfterInsert
    BY InsertIsFound DEF IInv, FoundAfterInsert
<1> QED BY <1>1, Inductive, PTL
=============================================================================
