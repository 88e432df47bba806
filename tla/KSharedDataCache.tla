-------------------------- MODULE KSharedDataCache --------------------------
(***************************************************************************)
(* The public operations of KSharedDataCache (kshareddatacache.cpp) on one *)
(* shared segment.  Every operation runs under the lock of the cache, so   *)
(* it is one action; KSDCMapping models how processes attach and lock.     *)
(*                                                                         *)
(* An operation that throws KSDCCorrupted ends in recoverCorruptedCache(): *)
(* the file is unlinked and the caller goes on with a fresh segment.  The   *)
(* others that map the old one go on with what the operation has left of    *)
(* it.  shm is the segment of one process, which may be either.            *)
(***************************************************************************)
EXTENDS KSDCMemory

CONSTANTS
    Timestamps,     \* what clients pass to setTimestamp()
    Policies,       \* what clients pass to setEvictionPolicy()
    MaxTime,        \* bound on the clock
    MaxUseCount     \* bound on the uses of an entry; the counter has 32 bits

VARIABLES
    shm,            \* the segment
    now,            \* time(nullptr), in seconds
    reply           \* what the last operation returned

vars == <<shm, now, reply>>

Answers == {"none", "true", "false", "corrupt", "torn"}

(* A lookup that succeeds replies with the value it read. *)
Replies == Answers \cup Values

EvictionPolicies == {"NoEvictionPreference", "EvictLeastRecentlyUsed",
                     "EvictLeastOftenUsed", "EvictOldest"}

ASSUME ClientsAssumption ==
    /\ Timestamps \subseteq Nat
    /\ Policies \subseteq EvictionPolicies
    /\ MaxTime \in Nat
    /\ MaxUseCount \in Nat \ {0}

ASSUME ValuesAssumption == Values \cap Answers = {}

Outcome(m, r) == [shm |-> m, reply |-> r]

(* recoverCorruptedCache() *)
Recovered == Outcome(InitialSegment(now), "corrupt")

(* An operation that throws, for its caller and for who maps the segment too, *)
(* which is m by then.                                                     *)
Thrown(m) == {Recovered, Outcome(m, "corrupt")}

-----------------------------------------------------------------------------
(* insert() *)

(* loadFactor: above one half colliding entries may be culled, from 0.96 on *)
(* they always are; in between a random number decides.                    *)
CullChoices(m) ==
    LET used == NumPages - m.cacheAvail IN
    IF 100 * used >= 96 * NumPages THEN {TRUE}
    ELSE IF 2 * used > NumPages THEN BOOLEAN
    ELSE {FALSE}

IsOld(m, i) == now - m.index[i].lastUsedTime > CullAge

(* Mutant: the chain without the division. *)
Position_NotHalved(h, n) == (h + n + n * n) % NumSlots

(* The slots of a probe chain, which insert() computes for itself; Probe is *)
(* what findNamedEntry() computes.                                         *)
Position(h, n) == (h + (n + n * n) \div 2) % NumSlots

(* Mutant: looks at the use count before it is halved. *)
IsCulled_TestsFirst(m, i, cull) ==
    cull /\ IsOld(m, i) /\ m.index[i].useCount = 0

(* Halving the use count of slot i makes it free for the new item. *)
IsCulled(m, i, cull) ==
    cull /\ IsOld(m, i) /\ m.index[i].useCount \div 2 = 0

(* Mutant: does not look for an old version of the key. *)
StopsAt_IgnoresHash(m, h, cull, n) ==
    LET i == Position(h, n) IN
    \/ n = MaxProbe - 1
    \/ m.index[i].useCount = 0
    \/ IsCulled(m, i, cull)

(* The probe at which insert() stops: a free slot, one with the same hash, *)
(* one that is culled, or the last of the chain.                           *)
StopsAt(m, h, cull, n) ==
    LET i == Position(h, n) IN
    \/ n = MaxProbe - 1
    \/ m.index[i].useCount = 0
    \/ m.index[i].fileNameHash = h
    \/ IsCulled(m, i, cull)

InsertProbe(m, h, cull) ==
    CHOOSE n \in 0 .. MaxProbe - 1 :
        /\ StopsAt(m, h, cull, n)
        /\ \A j \in 0 .. n - 1 : ~StopsAt(m, h, cull, j)

(* The old entries insert() probed past have their use count halved. *)
Aged(m, h, cull, n) ==
    LET passed == {Position(h, j) : j \in 0 .. n - 1} IN
    [m EXCEPT !.index = [i \in Slots |->
        IF cull /\ i \in passed /\ IsOld(m, i)
        THEN [m.index[i] EXCEPT !.useCount = m.index[i].useCount \div 2]
        ELSE m.index[i]]]

Occupied(m, i) == m.index[i].useCount > 0 /\ m.index[i].firstPage >= 0

(* The segment once the slot is free. *)
Vacated(m, i) == IF Occupied(m, i) THEN removeEntry(m, i) ELSE m

VacateThrows(m, i) == Occupied(m, i) /\ RemoveEntryThrows(m, i)

FreePagesDesired(n) == 3 * (IF n \div 2 > 1 THEN n \div 2 ELSE 1)

Least(a, b) == IF a < b THEN a ELSE b

HasRoom(m, n) == n <= m.cacheAvail /\ findEmptyPages(m, n) < NumPages

(* The number insert() passes to removeUsedPages(). *)
PagesToFree(m, n) == Least(2 * FreePagesDesired(n), NumPages) - m.cacheAvail

MakeRoomThrows(m, n) ==
    /\ ~HasRoom(m, n)
    /\ IF m.cacheAvail > FreePagesDesired(n)
       THEN DefragmentThrows(m)
       ELSE RemoveUsedPagesThrows(m, PagesToFree(m, n))

(* Mutant: enough free pages are taken for a run of them. *)
MakeRoom_NotPacked(m, n) ==
    IF HasRoom(m, n) \/ m.cacheAvail > FreePagesDesired(n) THEN {m}
    ELSE removeUsedPages(m, PagesToFree(m, n))

MakeRoom(m, n) ==
    IF HasRoom(m, n) THEN {m}
    ELSE IF m.cacheAvail > FreePagesDesired(n) THEN {defragment(m)}
    ELSE removeUsedPages(m, PagesToFree(m, n))

Stored(m, i, item, first, t) ==
    LET n == PagesNeeded(item) IN
    [m EXCEPT
       !.index[i] = [fileNameHash |-> Hash[item.key],
                     totalItemSize |-> RequiredSize(item),
                     useCount |-> 1, addTime |-> t, lastUsedTime |-> t,
                     firstPage |-> first],
       !.pageTable = [p \in Pages |->
            IF p \in first .. first + n - 1 THEN i ELSE m.pageTable[p]],
       !.page = [p \in Pages |->
            IF p \in first .. first + n - 1
            THEN Piece(item, p - first) ELSE m.page[p]],
       !.cacheAvail = m.cacheAvail - n,
       !.failed = @ \ {i}]

(* What is found on pages that were not written: nothing that is taken for a *)
(* key with that hash, the first page of an older item with it, or the whole *)
(* of one.                                                                 *)
OldBytes(n, h) ==
    LET Whole(item) == [c \in 0 .. n - 1 |-> IF c < PagesNeeded(item) THEN Piece(item, c) ELSE Junk]
        Start(item) == [c \in 0 .. n - 1 |-> IF c = 0 THEN Piece(item, 0) ELSE Junk]
        alike == {item \in Item : Hash[item.key] = h}
    IN {[c \in 0 .. n - 1 |-> Junk]} \cup {Whole(item) : item \in alike} \cup {Start(item) : item \in alike}

(* insert() has updated the tables when verifyProposedMemoryAccess() throws:  *)
(* the entry is there, and its pages hold what they held before.            *)
HalfMade(m, i, item, first, t, old) ==
    LET n == PagesNeeded(item) IN
    [Stored(m, i, item, first, t) EXCEPT
       !.page = [p \in Pages |-> IF p \in first .. first + n - 1 THEN old[p - first] ELSE m.page[p]],
       !.failed = @ \cup {i}]

(* insert() with its slot i vacated and the pages from first on found. *)
WriteOutcomes(m, i, item, first) ==
    IF AccessIsMapped(first, RequiredSize(item))
    THEN {Outcome(Stored(m, i, item, first, now), "true")}
    ELSE {Recovered} \cup {Outcome(HalfMade(m, i, item, first, now, old), "corrupt") :
                               old \in OldBytes(PagesNeeded(item), Hash[item.key])}

(* What insert() does once its slot i is vacated: segment m. *)
PlaceOutcomes(m, i, item) ==
    LET n == PagesNeeded(item) IN
    IF n >= NumPages THEN {Outcome(m, "false")}
    ELSE IF MakeRoomThrows(m, n) THEN Thrown(m)
    ELSE UNION {IF HasRoom(r, n) THEN WriteOutcomes(r, i, item, findEmptyPages(r, n))
                ELSE {Outcome(r, "false")} : r \in MakeRoom(m, n)}

InsertOutcomes(m, item) ==
    UNION {LET h == Hash[item.key]
               n == InsertProbe(m, h, cull)
               i == Position(h, n)
               aged == Aged(m, h, cull, n)
           IN IF VacateThrows(aged, i) THEN Thrown(aged)
              ELSE PlaceOutcomes(Vacated(aged, i), i, item) :
           cull \in CullChoices(m)}

insert(k, v) ==
    /\ \E o \in InsertOutcomes(shm, [key |-> k, value |-> v]) :
          shm' = o.shm /\ reply' = o.reply
    /\ UNCHANGED now

-----------------------------------------------------------------------------
(* The other operations. *)

remove(k) ==
    /\ LET i == findNamedEntry(shm, k) IN
       IF i = -1 THEN shm' = shm /\ reply' = "false"
       ELSE IF RemoveEntryThrows(shm, i)
       THEN \E o \in Thrown(shm) : shm' = o.shm /\ reply' = o.reply
       ELSE shm' = removeEntry(shm, i) /\ reply' = "true"
    /\ UNCHANGED now

(* The value a client reads: totalItemSize bytes from the first page on.    *)
(* "torn" stands for bytes that no insert() stored together.               *)
ReadData(m, i) ==
    LET first == m.index[i].firstPage
        item == m.page[first].item
    IN IF /\ m.index[i].totalItemSize = RequiredSize(item)
          /\ \A n \in 0 .. PagesNeeded(item) - 1 :
                first + n \in Pages /\ m.page[first + n] = Piece(item, n)
       THEN item.value
       ELSE "torn"

(* MaxUseCount bounds the lookups of one entry; the code counts them in a   *)
(* uint and does not look for its overflow (kshareddatacache.cpp:385).     *)
find(k) ==
    /\ LET i == findNamedEntry(shm, k) IN
       IF i = -1 THEN shm' = shm /\ reply' = "false"
       ELSE IF ~AccessIsMapped(shm.index[i].firstPage, shm.index[i].totalItemSize)
       THEN \E o \in Thrown(shm) : shm' = o.shm /\ reply' = o.reply
       ELSE /\ shm.index[i].useCount < MaxUseCount
            /\ shm' = [shm EXCEPT !.index[i].useCount = @ + 1,
                                  !.index[i].lastUsedTime = now]
            /\ reply' = ReadData(shm, i)
    /\ UNCHANGED now

contains(k) ==
    /\ reply' = IF findNamedEntry(shm, k) >= 0 THEN "true" ELSE "false"
    /\ UNCHANGED <<shm, now>>

clear ==
    /\ shm' = Emptied(shm)
    /\ reply' = "none"
    /\ UNCHANGED now

setTimestamp(t) ==
    /\ shm' = [shm EXCEPT !.cacheTimestamp = t]
    /\ reply' = "none"
    /\ UNCHANGED now

setEvictionPolicy(policy) ==
    /\ shm' = [shm EXCEPT !.evictionPolicy = policy]
    /\ reply' = "none"
    /\ UNCHANGED now

(* A second passes; MaxTime bounds the clock. *)
Tick ==
    /\ now < MaxTime
    /\ now' = now + 1
    /\ UNCHANGED <<shm, reply>>

Init ==
    /\ now = 0
    /\ shm = InitialSegment(now)
    /\ reply = "none"

Next ==
    \/ \E k \in Keys, v \in Values : insert(k, v)
    \/ \E k \in Keys : remove(k) \/ find(k) \/ contains(k)
    \/ clear
    \/ \E t \in Timestamps : setTimestamp(t)
    \/ \E policy \in Policies : setEvictionPolicy(policy)
    \/ Tick

Spec == Init /\ [][Next]_vars

-----------------------------------------------------------------------------
(* Refinement of the abstract cache: a key holds the items whose first page  *)
(* is the first page of an entry in use; it is spoiled if a lookup may take  *)
(* an entry for its own whose data was never written.                      *)

Held ==
    [k \in Keys |->
        {v \in Values : \E i \in InUse(shm) \ shm.failed :
            /\ NameMatches(shm, i, k)
            /\ shm.page[shm.index[i].firstPage].item.value = v}]

Spoiled == {k \in Keys : \E i \in InUse(shm) \cap shm.failed : NameMatches(shm, i, k)}

Alike == [k \in Keys |-> {other \in Keys : Hash[other] = Hash[k]}]

Abstract == INSTANCE LossyCache WITH held <- Held, spoiled <- Spoiled

(* The cache behaves as a LossyCache: a lookup returns a whole value that was *)
(* inserted under the same key and not evicted since, whatever the hash     *)
(* collisions, moves and recoveries in between.  Only a key whose insert()    *)
(* failed in another process, or one with the same hash, may return what     *)
(* nobody stored, until that entry is gone.                                *)
RefinesLossyCache == Abstract!Spec

-----------------------------------------------------------------------------
(* Properties. *)

Entries ==
    [fileNameHash : Nat, totalItemSize : Nat, useCount : 0 .. MaxUseCount,
     addTime : 0 .. MaxTime, lastUsedTime : 0 .. MaxTime,
     firstPage : Pages \cup {-1}]

Contents == [item : Item, chunk : Nat] \cup {Junk}

Segments ==
    [index : [Slots -> Entries],
     pageTable : [Pages -> Slots \cup {-1}],
     page : [Pages -> Contents],
     cacheAvail : 0 .. NumPages,
     failed : SUBSET Slots,
     cacheTimestamp : Nat,
     evictionPolicy : EvictionPolicies]

(* The segment and the reply have the shape the code gives them. *)
TypeOK == shm \in Segments /\ now \in 0 .. MaxTime /\ reply \in Replies

(* Every entry in use owns the contiguous run of pages its size calls for,  *)
(* every page in the page table belongs to such a run and cacheAvail counts *)
(* the others: what removeEntry() and defragment() check on the way and     *)
(* would take for corruption (ksdcmemory.cpp:554, 834-857).                *)
TablesConsistent == TablesAgree(shm)

(* The pages of an entry in use hold the whole of one item, stored under    *)
(* the hash of its key, in order, whatever was moved, removed or left       *)
(* half-made around it.                                                    *)
ContentsIntact == \A i \in InUse(shm) \ shm.failed : IsWhole(shm, i)

(* An entry lies on the probe chain of its hash, where insert() put it and   *)
(* where a lookup of its key can come across it.                           *)
OnProbeChain == \A i \in InUse(shm) : IsOnChain(shm, i)

(* No sequence of legal calls makes the cache take itself for corrupt and    *)
(* throw its contents away (recoverCorruptedCache).  totalSize() claims to   *)
(* be the size required for that (ksdcmemory.cpp:783).                     *)
NeverCorrupt == reply # "corrupt"

(* No check of the tables that throws KSDCCorrupted ever fires, for any entry *)
(* that is removed, any number of pages that is made room for and any move   *)
(* of a block, also on a segment that a failed insert() has left behind.     *)
TablesNeverThrow ==
    /\ \A i \in InUse(shm) : ~RemoveEntryThrows(shm, i)
    /\ \A n \in 1 .. NumPages - 1 : ~MakeRoomThrows(shm, n)

(* What was stored can be read where it lies, unless it reaches into what    *)
(* totalSize() leaves out: the end of the last page.                       *)
ReadableButAtEnd ==
    \A i \in InUse(shm) :
        shm.index[i].firstPage + intCeil(shm.index[i].totalItemSize, PageSize) < NumPages =>
            AccessIsMapped(shm.index[i].firstPage, shm.index[i].totalItemSize)

(* After a defragment all the free pages are one run, so that removeUsedPages *)
(* never reaches its second eviction loop (ksdcmemory.cpp:763-777).        *)
RoomIsContiguous ==
    \A n \in 1 .. shm.cacheAvail : findEmptyPages(defragment(shm), n) < NumPages

(* insert() finds room for an item of at most half of the pages, however     *)
(* full and fragmented the cache is: it never fails for such an item.      *)
InsertFits ==
    \A item \in Item : \A o \in InsertOutcomes(shm, item) :
        2 * PagesNeeded(item) <= NumPages + 1 => o.reply # "false"

(* What insert() stored is what an immediate find() of the key returns:      *)
(* eviction, culling and moving never displace the new item, and no other   *)
(* entry earlier on the chain hides it.                                    *)
FoundAfterInsert ==
    \A item \in Item : \A o \in InsertOutcomes(shm, item) :
        o.reply = "true" =>
            LET i == findNamedEntry(o.shm, item.key)
            IN i >= 0 /\ ReadData(o.shm, i) = item.value

(* A remove() that returns true leaves no entry of that name: the test       *)
(* kshareddatacachetest.cpp checks contains() after remove().              *)
RemovedIsGone ==
    [][\A k \in Keys :
          remove(k) /\ reply' = "true" => findNamedEntry(shm', k) = -1]_vars

(* The tables agree with each other and the entries with their chains.      *)
SegmentSound == TypeOK /\ TablesConsistent /\ OnProbeChain

(* Every item is whole, and no check takes the tables for corrupt, so that   *)
(* the contents are thrown away for an item at the end of the last page only. *)
ItemsKept == ContentsIntact /\ TablesNeverThrow /\ ReadableButAtEnd

(* There is room for what insert() is to find room for, in one run.         *)
RoomFound == RoomIsContiguous /\ InsertFits
=============================================================================
