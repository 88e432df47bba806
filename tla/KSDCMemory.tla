----------------------------- MODULE KSDCMemory -----------------------------
(***************************************************************************)
(* The shared memory segment of a KSharedDataCache (ksdcmemory.cpp): the   *)
(* index table, the page table, the pages and the header words, and the    *)
(* helpers the public operations are built from.                           *)
(*                                                                         *)
(* A segment is a record with the fields of struct SharedMemory that       *)
(* change after initialisation.  Each helper is an operator from segments  *)
(* to segments; where the code throws KSDCCorrupted, a companion operator  *)
(* ...Throws says when.  Pages and slots are numbered from 0, as in C++.   *)
(*                                                                         *)
(* Page contents are abstracted to the item they hold a piece of: page     *)
(* number `chunk' of the item inserted as (key, value).  Nothing reads a   *)
(* free page, so every free page holds Junk; what is left on it of an older *)
(* item matters when an insert() fails after it has taken the page, and is  *)
(* chosen there (HalfMade in KSharedDataCache).  The field `failed' is a    *)
(* history of such failures, the slots whose data was never written.       *)
(***************************************************************************)
EXTENDS Integers, FiniteSets

CONSTANTS
    NumPages,       \* pageTableSize(): pages of the cache
    PageSize,       \* cachePageSize(): bytes in a page
    MaxProbe,       \* MAX_PROBE_COUNT: slots of a probe chain
    UnmappedBytes,  \* bytes of the last page that totalSize() leaves unmapped
    Keys,           \* the keys clients use
    Values,         \* the data clients store
    Hash,           \* generateHash(): the hash of every key
    KeyLength,      \* length in bytes of every encoded key
    DataSize,       \* length in bytes of every value
    LabelLength,    \* bytes removeEntry() writes before a removed key
                    \* ("ENTRY <n> REMOVED: ") in an NDEBUG build, else 0
    CullAge,        \* age above which a colliding entry is culled (60 s)
    Junk            \* the contents of a page that holds no item

Pages == 0 .. NumPages - 1
NumSlots == NumPages \div 2
Slots == 0 .. NumSlots - 1

ASSUME SizesAssumption ==
    /\ NumPages \in Nat /\ NumPages >= 2
    /\ PageSize \in Nat /\ PageSize >= 1
    /\ MaxProbe \in Nat /\ MaxProbe >= 1
    /\ UnmappedBytes \in 0 .. PageSize - 1
    /\ LabelLength \in Nat
    /\ CullAge \in Nat

ASSUME ItemsAssumption ==
    /\ Hash \in [Keys -> Nat]
    /\ KeyLength \in [Keys -> Nat]
    /\ DataSize \in [Values -> Nat]

(***************************************************************************)
(* A cache has at least 256 pages (kshareddatacache.cpp:50), so its index  *)
(* table has at least 128 slots and the six offsets of a probe chain are   *)
(* distinct.  Small instances keep that property.                          *)
(***************************************************************************)
Offset(n) == (n + n * n) \div 2

ASSUME ProbesDistinct ==
    \A a, b \in 0 .. MaxProbe - 1 :
        a # b => Offset(a) % NumSlots # Offset(b) % NumSlots

-----------------------------------------------------------------------------
(* Items and table entries. *)

intCeil(a, b) == (a + b - 1) \div b

Item == [key : Keys, value : Values]

RequiredSize(item) == 1 + KeyLength[item.key] + DataSize[item.value]

PagesNeeded(item) == intCeil(RequiredSize(item), PageSize)

FreeEntry ==
    [fileNameHash |-> 0, totalItemSize |-> 0, useCount |-> 0,
     addTime |-> 0, lastUsedTime |-> 0, firstPage |-> -1]

(* What a page holds: page number n of an item. *)
Piece(item, n) == [item |-> item, chunk |-> n]

ASSUME JunkAssumption == Junk \notin [item : Item, chunk : Nat]

(* The segment performInitialSetup() leaves at time t.  A new mapping is    *)
(* zero-filled, so the eviction policy is NoEvictionPreference.            *)
InitialSegment(t) ==
    [index |-> [i \in Slots |-> FreeEntry],
     pageTable |-> [p \in Pages |-> -1],
     page |-> [p \in Pages |-> Junk],
     cacheAvail |-> NumPages,
     failed |-> {},
     cacheTimestamp |-> t,
     evictionPolicy |-> "NoEvictionPreference"]

(* Mutant: clear() adds the pages to cacheAvail instead of setting it. *)
Emptied_AddsPages(m) ==
    [InitialSegment(m.cacheTimestamp) EXCEPT
        !.evictionPolicy = m.evictionPolicy,
        !.cacheAvail = m.cacheAvail + NumPages]

(* clearInternalTables(); the header words stay. *)
Emptied(m) ==
    [m EXCEPT !.index = [i \in Slots |-> FreeEntry],
              !.pageTable = [p \in Pages |-> -1],
              !.page = [p \in Pages |-> Junk],
              !.cacheAvail = NumPages,
              !.failed = {}]

InUse(m) == {i \in Slots : m.index[i].useCount > 0}

FreePages(m) == {p \in Pages : m.pageTable[p] < 0}

UsedPages(m) == {p \in Pages : m.pageTable[p] >= 0}

-----------------------------------------------------------------------------
(* Runs of free pages. *)

(* Mutant: a run never reaches the last page. *)
IsFreeRun_MissesLast(m, first, n) ==
    /\ first + n < NumPages
    /\ \A p \in first .. first + n - 1 : m.pageTable[p] < 0

IsFreeRun(m, first, n) ==
    /\ first + n <= NumPages
    /\ \A p \in first .. first + n - 1 : m.pageTable[p] < 0

(* The first run of n free pages, or NumPages. *)
findEmptyPages(m, n) ==
    IF \E p \in Pages : IsFreeRun(m, p, n)
    THEN CHOOSE p \in Pages :
            /\ IsFreeRun(m, p, n)
            /\ \A q \in Pages : IsFreeRun(m, q, n) => p <= q
    ELSE NumPages

-----------------------------------------------------------------------------
(* Removing entries. *)

(* The pages removeEntry(i) frees: those from firstPage on that link back   *)
(* to i without a gap.                                                     *)
Run(m, i) ==
    {p \in Pages : /\ m.index[i].firstPage >= 0
                   /\ p >= m.index[i].firstPage
                   /\ \A q \in m.index[i].firstPage .. p : m.pageTable[q] = i}

(* Mutant: page 0 is taken for an invalid first page. *)
RemoveEntryThrows_AtPageZero(m, i) ==
    \/ m.index[i].firstPage <= 0
    \/ m.pageTable[m.index[i].firstPage] # i

RemoveEntryThrows(m, i) ==
    \/ m.cacheAvail > NumPages
    \/ m.index[i].firstPage \notin Pages
    \/ m.pageTable[m.index[i].firstPage] # i
    \/ Cardinality(Run(m, i)) # intCeil(m.index[i].totalItemSize, PageSize)

(* Mutant: a longer label. *)
Labelled_Longer(m, i) ==
    LET first == m.index[i].firstPage IN
    {p \in Pages :
        /\ p > first
        /\ (p - first) * PageSize
             < 2 * LabelLength + KeyLength[m.page[first].item.key] + 1}

(* In an NDEBUG build removeEntry() writes LabelLength bytes, the removed   *)
(* key and a NUL over the start of the entry's data.  The pages of other    *)
(* entries those bytes reach are overwritten.                              *)
Labelled(m, i) ==
    LET first == m.index[i].firstPage IN
    IF LabelLength = 0 \/ m.page[first] = Junk
    THEN {}
    ELSE {p \in Pages :
            /\ p > first
            /\ (p - first) * PageSize
                 < LabelLength + KeyLength[m.page[first].item.key] + 1}

removeEntries(m, V) ==
    LET freed == UNION {Run(m, i) : i \in V}
        written == UNION {Labelled(m, i) : i \in V}
    IN [m EXCEPT
          !.index = [i \in Slots |-> IF i \in V THEN FreeEntry ELSE m.index[i]],
          !.pageTable = [p \in Pages |->
                            IF p \in freed THEN -1 ELSE m.pageTable[p]],
          !.page = [p \in Pages |->
                      IF p \in freed \cup written THEN Junk ELSE m.page[p]],
          !.cacheAvail = m.cacheAvail + Cardinality(freed),
          !.failed = @ \ V]

(* Mutant: cacheAvail is left as it was. *)
removeEntry_KeepsAvail(m, i) ==
    [removeEntries(m, {i}) EXCEPT !.cacheAvail = m.cacheAvail]

removeEntry(m, i) == removeEntries(m, {i})

-----------------------------------------------------------------------------
(* defragment(): every used page moves left over the free pages, in order.  *)
(* KSDCDefragment checks the loop of the code against these operators.     *)

NewPosition(m, p) == Cardinality({q \in 0 .. p - 1 : m.pageTable[q] >= 0})

(* The pages the main loop moves: the used ones right of a free one. *)
MovedPages(m) == {p \in UsedPages(m) : \E q \in FreePages(m) : q < p}

(* A moved page whose right neighbour is free makes the code write freeSpot *)
(* to indexTable()[-1].firstPage, the word that is cacheTimestamp: the      *)
(* index table follows the header (ksdcmemory.cpp:587-589).                *)
Overruns(m) == {p \in MovedPages(m) : p + 1 \in FreePages(m)}

LastOverrun(m) ==
    CHOOSE p \in Overruns(m) : \A q \in Overruns(m) : q <= p

DefragmentThrows(m) ==
    \E p \in MovedPages(m) :
        /\ p - 1 \in FreePages(m)
        /\ m.index[m.pageTable[p]].firstPage # p

defragment(m) ==
    IF m.cacheAvail = NumPages THEN m
    ELSE
    LET used == Cardinality(UsedPages(m))
        source == [q \in 0 .. used - 1 |->
                     CHOOSE p \in UsedPages(m) : NewPosition(m, p) = q]
    IN [m EXCEPT
          !.index = [i \in Slots |->
             IF m.index[i].firstPage \in UsedPages(m)
             THEN [m.index[i] EXCEPT
                     !.firstPage = NewPosition(m, m.index[i].firstPage)]
             ELSE m.index[i]],
          !.pageTable = [q \in Pages |->
             IF q < used THEN m.pageTable[source[q]] ELSE -1],
          !.page = [q \in Pages |->
             IF q < used THEN m.page[source[q]] ELSE Junk],
          !.cacheTimestamp =
             IF Overruns(m) = {} THEN m.cacheTimestamp
             ELSE NewPosition(m, LastOverrun(m)) + 1]

-----------------------------------------------------------------------------
(* removeUsedPages(n): evict in the order of the policy until n pages are   *)
(* free, then defragment.                                                  *)

(* The comparison functions, on entries that are in use. *)
EvictionRank(m, i) ==
    CASE m.evictionPolicy = "EvictLeastRecentlyUsed" -> m.index[i].lastUsedTime
      [] m.evictionPolicy = "EvictOldest" -> m.index[i].addTime
      [] OTHER -> m.index[i].useCount

Freed(m, V) == Cardinality(UNION {Run(m, i) : i \in V})

(* std::sort may order equal entries either way, so the entries killed are  *)
(* any V that is a shortest sufficient prefix of some sorted order.        *)
VictimSets(m, n) ==
    {V \in SUBSET InUse(m) :
        /\ \A v \in V, u \in InUse(m) \ V : EvictionRank(m, v) <= EvictionRank(m, u)
        /\ m.cacheAvail + Freed(m, V) >= n
        /\ V # {} =>
             \E last \in V :
                /\ \A v \in V : EvictionRank(m, v) <= EvictionRank(m, last)
                /\ m.cacheAvail + Freed(m, V \ {last}) < n}

RemoveUsedPagesThrows(m, n) ==
    \/ n = 0 \/ n > NumPages
    \/ m.cacheAvail + Freed(m, InUse(m)) < n
    \/ \E V \in VictimSets(m, n) :
          \/ \E i \in V : RemoveEntryThrows(m, i)
          \/ DefragmentThrows(removeEntries(m, V))

(* The second eviction loop of the code starts after a defragment that left *)
(* n pages free in one run, so it never runs (RoomIsContiguous).           *)
removeUsedPages(m, n) ==
    IF m.cacheAvail > 3 * n /\ findEmptyPages(defragment(m), n) < NumPages
    THEN {defragment(m)}
    ELSE {defragment(removeEntries(m, V)) : V \in VictimSets(m, n)}

-----------------------------------------------------------------------------
(* Probing. *)

Probe(h, n) == (h + Offset(n)) % NumSlots

(* Mutant: the hash alone decides. *)
NameMatches_HashOnly(m, i, k) ==
    LET first == m.page[m.index[i].firstPage] IN
    first # Junk /\ Hash[first.item.key] = Hash[k] /\ first.chunk = 0

(* qstrncmp() of the key with the first page of the entry. *)
NameMatches(m, i, k) ==
    LET first == m.page[m.index[i].firstPage] IN
    first # Junk /\ first.item.key = k /\ first.chunk = 0

(* The slot where findNamedEntry() stops: the first of the chain with the   *)
(* hash of the key, else the last.                                         *)
LookupSlot(m, h) ==
    LET stops(n) == \/ m.index[Probe(h, n)].fileNameHash = h
                    \/ n = MaxProbe - 1
    IN Probe(h, CHOOSE n \in 0 .. MaxProbe - 1 :
                    stops(n) /\ \A j \in 0 .. n - 1 : ~stops(j))

findNamedEntry(m, k) ==
    LET i == LookupSlot(m, Hash[k]) IN
    IF /\ m.index[i].fileNameHash = Hash[k]
       /\ m.index[i].firstPage \in Pages
       /\ NameMatches(m, i, k)
    THEN i
    ELSE -1

(* verifyProposedMemoryAccess(): the item at page p does not end beyond     *)
(* the bytes the process has mapped.                                       *)
AccessIsMapped(p, size) ==
    p * PageSize + size <= NumPages * PageSize - UnmappedBytes

-----------------------------------------------------------------------------
(* What the tables and pages of a segment have in common. *)

(* Entry i owns a contiguous run of as many pages as its size calls for, and *)
(* the page table links those pages and no other back to it.               *)
OwnsRun(m, i) ==
    LET e == m.index[i]
        n == intCeil(e.totalItemSize, PageSize)
    IN /\ e.firstPage \in Pages /\ e.totalItemSize > 0
       /\ e.firstPage + n <= NumPages
       /\ \A p \in Pages :
            m.pageTable[p] = i <=> p \in e.firstPage .. e.firstPage + n - 1

TablesAgree(m) ==
    /\ \A i \in InUse(m) : OwnsRun(m, i)
    /\ \A i \in Slots \ InUse(m) : m.index[i] = FreeEntry
    /\ \A p \in UsedPages(m) : m.pageTable[p] \in InUse(m)
    /\ m.cacheAvail = Cardinality(FreePages(m))

(* The pages of entry i hold the whole of one item, in order, and its size   *)
(* and hash are those of the item.                                         *)
IsWhole(m, i) ==
    LET e == m.index[i]
        item == m.page[e.firstPage].item
    IN /\ e.firstPage \in Pages /\ m.page[e.firstPage] # Junk
       /\ e.fileNameHash = Hash[item.key]
       /\ e.totalItemSize = RequiredSize(item)
       /\ \A n \in 0 .. PagesNeeded(item) - 1 :
            m.page[e.firstPage + n] = Piece(item, n)

(* Entry i lies on the probe chain of its hash. *)
IsOnChain(m, i) ==
    \E n \in 0 .. MaxProbe - 1 : i = Probe(m.index[i].fileNameHash, n)

=============================================================================
