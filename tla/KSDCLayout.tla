------------------------------ MODULE KSDCLayout ------------------------------
(***************************************************************************)
(* How large a cache is and where its parts lie: createMemoryMapping()     *)
(* (kshareddatacache.cpp:38-99) chooses the sizes, mapSharedMemory()       *)
(* (ksdcmapping_p.h:179-265) maps the file, and every process computes the *)
(* places of the tables and pages from the header it finds there.          *)
(*                                                                         *)
(* Offsets are in bytes from the start of the mapping.  mmap() places a    *)
(* mapping at any multiple of the page size of the system, and alignTo()   *)
(* of the code rounds addresses, not offsets.                              *)
(***************************************************************************)
EXTENDS Integers, SequencesExt

CONSTANTS
    Processes,      \* the processes that open the cache, one after another
    CacheSizes,     \* what they pass as defaultCacheSize
    ItemSizes,      \* what they pass as expectedItemSize
    HeaderSize,     \* sizeof(SharedMemory)
    EntrySize,      \* sizeof(IndexTableEntry)
    UintSize,       \* how many values an unsigned int has: 2^32 in the code
    Bases,          \* addresses where mmap() places a mapping
    WordAlign       \* alignment of IndexTableEntry and of a pointer

ASSUME LayoutAssumption ==
    /\ CacheSizes \subseteq Nat /\ ItemSizes \subseteq Nat
    /\ HeaderSize \in Nat \ {0} /\ EntrySize \in Nat \ {0}
    /\ WordAlign \in Nat \ {0} /\ UintSize \in Nat \ {0}
    /\ Bases \subseteq Nat /\ \A b \in Bases : b % WordAlign = 0

VARIABLES
    header,         \* cacheSize and pageSize in the shared header
    mapSize,        \* m_mapSize of every process; 0 before it attaches
    base            \* the address of the mapping of every process

layoutVars == <<header, mapSize, base>>

NoHeader == [cacheSize |-> 0, pageSize |-> 0]

MinimumCacheSize == 4096
MaxProbeCount == 6
PageEntrySize == 4  \* sizeof(PageTableEntry)

Larger(a, b) == IF a > b THEN a ELSE b

intCeil(a, b) == (a + b - 1) \div b

(* Where the sum does not fit an unsigned int intCeil() throws.  Nothing      *)
(* catches that of totalSize(), which createMemoryMapping() calls outside of *)
(* its try blocks: the constructor of the cache is left.                    *)
intCeilThrows(a, b) == a + b >= UintSize

alignTo(offset, size) == intCeil(offset, size) * size

(* cachePageSize(): every access throws at a size other than one of bits 9 to 18. *)
cachePageSizeThrows(h) == h.pageSize \notin {2^e : e \in 9 .. 18}

(* Mutant: the upper bound is one bit too high. *)
equivalentPageSize_19(itemSize) ==
    IF itemSize = 0 THEN 4096
    ELSE 2^(CHOOSE e \in 9 .. 19 : /\ e = 9 \/ 2^e <= itemSize
                                   /\ e = 19 \/ itemSize < 2^(e + 1))

(* The power of two below the item size, kept between 2^9 and 2^18. *)
equivalentPageSize(itemSize) ==
    IF itemSize = 0 THEN 4096
    ELSE 2^(CHOOSE e \in 9 .. 18 : /\ e = 9 \/ 2^e <= itemSize
                                   /\ e = 18 \/ itemSize < 2^(e + 1))

(* Mutant: eight pages are taken to be enough. *)
RequestedSize_EightPages(default, pageSize) ==
    Larger(8 * pageSize, Larger(default, MinimumCacheSize))

(* The cache size createMemoryMapping() asks for: 256 pages at least. *)
RequestedSize(default, pageSize) ==
    Larger(256 * pageSize, Larger(default, MinimumCacheSize))

(* Mutant: forgets the page table. *)
totalSize_NoPageTable(cacheSize, pageSize) ==
    LET pages == intCeil(cacheSize, pageSize)
        tables == alignTo(HeaderSize, WordAlign) + (pages \div 2) * EntrySize
    IN alignTo(tables + ((pages * pageSize) % UintSize), WordAlign) % UintSize

(* The bytes of the header and both tables of a cache with that many pages. *)
tablesSize(pages) ==
    alignTo(alignTo(HeaderSize, WordAlign) + (pages \div 2) * EntrySize, PageEntrySize)
      + pages * PageEntrySize

(* totalSize(): the bytes to allocate and map.  The product of two unsigned   *)
(* ints and the conversion of the result to one may wrap around.            *)
totalSize(cacheSize, pageSize) ==
    LET pages == intCeil(cacheSize, pageSize)
    IN alignTo(tablesSize(pages) + ((pages * pageSize) % UintSize), WordAlign) % UintSize

(* Whether neither of them does, and the size is at least that of the cache,   *)
(* which createMemoryMapping() asserts.                                     *)
SizeFits(cacheSize, pageSize) ==
    LET pages == intCeil(cacheSize, pageSize)
    IN alignTo(tablesSize(pages) + pages * pageSize, WordAlign) < UintSize

(* The places the accessors of SharedMemory compute from a header. *)
pageTableSize(h) == h.cacheSize \div h.pageSize
indexTableSize(h) == pageTableSize(h) \div 2
indexTable == alignTo(HeaderSize, WordAlign)
pageTable(h) == alignTo(indexTable + indexTableSize(h) * EntrySize, PageEntrySize)

(* Mutant: the pages are aligned to the largest page size. *)
cachePages_Coarse(h, b) ==
    alignTo(b + pageTable(h) + pageTableSize(h) * PageEntrySize, 2^18) - b

cachePages(h, b) ==
    alignTo(b + pageTable(h) + pageTableSize(h) * PageEntrySize, h.pageSize) - b
page(h, b, at) == cachePages(h, b) + at * h.pageSize

(* A process opens the cache.  The first one initialises the header; later  *)
(* ones keep it.  The size mapped is that of the request, whatever the     *)
(* header says: the second mmap() for a larger cache is given the          *)
(* requested sizes again (ksdcmapping_p.h:226).  A size that wraps around   *)
(* to 0 cannot be mapped, and nothing is attached.                          *)
Open(p, default, itemSize) ==
    LET pageSize == equivalentPageSize(itemSize)
        cacheSize == RequestedSize(default, pageSize)
        size == totalSize(cacheSize, pageSize)
    IN /\ mapSize[p] = 0 /\ ~intCeilThrows(cacheSize, pageSize)
       /\ mapSize' = [mapSize EXCEPT ![p] = size]
       /\ \E b \in Bases : base' = [base EXCEPT ![p] = b]
       /\ header' = IF header = NoHeader /\ size > 0
                    THEN [cacheSize |-> cacheSize, pageSize |-> pageSize]
                    ELSE header

Close(p) ==
    /\ mapSize[p] > 0
    /\ mapSize' = [mapSize EXCEPT ![p] = 0]
    /\ UNCHANGED <<header, base>>

LayoutInit ==
    /\ header = NoHeader
    /\ mapSize = [p \in Processes |-> 0]
    /\ base \in [Processes -> Bases]

LayoutNext ==
    \E p \in Processes :
        \/ \E c \in CacheSizes, i \in ItemSizes : Open(p, c, i)
        \/ Close(p)

LayoutSpec == LayoutInit /\ [][LayoutNext]_layoutVars

-----------------------------------------------------------------------------
Attached == {p \in Processes : mapSize[p] > 0}

(* The size in the header always passes the test of cachePageSize(), one of  *)
(* bits 9 to 18, which every access makes and which throws otherwise.      *)
PageSizeAccepted ==
    header # NoHeader => ~cachePageSizeThrows(header)

(* The slots of a probe chain are distinct, for every hash: the index table  *)
(* is never so small that insert() and findNamedEntry() visit a slot twice. *)
ChainsDistinct ==
    header # NoHeader =>
        \A a, b \in 0 .. MaxProbeCount - 1 :
            a # b => ((a + a * a) \div 2) % indexTableSize(header)
                       # ((b + b * b) \div 2) % indexTableSize(header)

(* The tables and every page but the last lie in the memory that a process   *)
(* maps, if it maps as much as the cache was created with or more and that  *)
(* size did not wrap around.  Three cases are left out, since the code does *)
(* not keep the pages mapped in them:                                      *)
(*   - a process that asks for less maps less than the header speaks of     *)
(*     (ksdcmapping_p.h:226);                                               *)
(*   - a size so near to UintSize that totalSize() wraps around, against     *)
(*     which there is only an assertion (kshareddatacache.cpp:72);           *)
(*   - the end of the last page, since totalSize() does not count the       *)
(*     padding that cachePages() puts before the pages (ksdcmemory.cpp:377, *)
(*     784): what becomes of it NeverCorrupt of KSharedDataCache shows.     *)
AllButLastPageMapped ==
    \A p \in Attached :
        /\ SizeFits(header.cacheSize, header.pageSize)
        /\ mapSize[p] >= totalSize(header.cacheSize, header.pageSize)
        => page(header, base[p], pageTableSize(header) - 1) <= mapSize[p]

(* All processes find the same bytes of the segment when they look for a    *)
(* page, at whatever address they have mapped it, as long as the pages are  *)
(* no larger than the pages mmap() aligns to: cachePages() rounds           *)
(* addresses up to the size of a page (ksdcmemory.cpp:377).                *)
SmallPagesAgree ==
    header # NoHeader /\ (\A b \in Bases : b % header.pageSize = 0) =>
        \A p, q \in Attached : cachePages(header, base[p]) = cachePages(header, base[q])

-----------------------------------------------------------------------------
(* The hash of a key of a KSharedDataCache (ksdcmemory.cpp), which says    *)
(* where in the table every process looks for it.  What is done with a     *)
(* word of the key is the same for all of them, so a hash is the sequence  *)
(* of the words it is made of; a word is its four bytes, the lowest first. *)

ShiftRight(word, bytes) == [i \in 0 .. 3 |-> IF i + bytes <= 3 THEN word[i + bytes] ELSE 0]
ShiftLeft(word, bytes) == [i \in 0 .. 3 |-> IF i >= bytes THEN word[i - bytes] ELSE 0]
Or(a, b) == [i \in 0 .. 3 |-> a[i] + b[i]]

(* The first n bytes after those that were read. *)
Load(data, read, n) == [i \in 0 .. 3 |-> IF i < n THEN data[read + i + 1] ELSE 0]

(* MurmurHashAligned(), for a key whose first byte is align bytes after a       *)
(* multiple of four: only words at such a multiple are read whole, and those  *)
(* of the key are made of two of them.                                     *)
MurmurHashAligned(data, align) ==
    LET len == Len(data)
        whole == align = 0 \/ len < 4
        before == IF whole THEN 0 ELSE 4 - align
        words == (len - before) \div 4
        d(k) == Load(data, before + 4 * (k - 1), 4)
        t(k) == IF k = 0 THEN ShiftLeft(Load(data, 0, before), align) ELSE d(k)
        Joined(k, next) == Or(ShiftRight(t(k), align), ShiftLeft(next, before))
        left == (len - before) % 4
        pack == IF whole THEN 0 ELSE IF left < align THEN left ELSE align
        tail == IF left = pack THEN <<>> ELSE <<Load(data, len - (left - pack), left - pack)>>
    IN IF whole THEN [k \in 1 .. words |-> d(k)] \o tail
       ELSE [k \in 1 .. words |-> Joined(k - 1, d(k))]
            \o <<Joined(words, Load(data, before + 4 * words, pack))>> \o tail

(* Two processes that have the same key at different addresses look for it in   *)
(* the same place, since every byte of it counts once and in order.         *)
SameAnywhere(data) ==
    /\ \A align \in 1 .. 3 : MurmurHashAligned(data, align) = MurmurHashAligned(data, 0)
    /\ \A i \in DOMAIN data :
          MurmurHashAligned(data, 0)[(i - 1) \div 4 + 1][(i - 1) % 4] = data[i]

-----------------------------------------------------------------------------
(* The kinds of lock a shared cache can have and the choice among them     *)
(* (ksdclock_p.h, ksdclock.cpp).  A platform says what was there when the  *)
(* code was built (built), and what the system it runs on supports: the    *)
(* timeouts, and mutexes and semaphores, shared by processes or at all.    *)

LockIds == {"LOCKTYPE_INVALID", "LOCKTYPE_MUTEX", "LOCKTYPE_SEMAPHORE", "LOCKTYPE_SPINLOCK"}

(* initialize() of each kind: whether there is a lock, and whether it is        *)
(* shared by processes.  One that cannot be shared is tried for the threads.  *)
initialize(pf, kind) ==
    CASE kind = "mutex" ->
            [ok |-> pf.mutexShared \/ pf.mutex, shared |-> pf.mutexShared]
      [] kind = "semaphore" ->
            [ok |-> pf.semaphores /\ (pf.semaphoreShared \/ pf.semaphore),
             shared |-> pf.semaphores /\ pf.semaphoreShared]
      [] kind = "spinlock" -> [ok |-> TRUE, shared |-> TRUE]
      [] OTHER -> [ok |-> FALSE, shared |-> FALSE]

(* findBestSharedLock(): a kind that is shared and has timeouts, or else one     *)
(* that is shared, mutexes before semaphores.                              *)
findBestSharedLock(pf) ==
    LET timeouts == "timeouts" \in pf.built /\ pf.timeouts
        mutexes == "mutex" \in pf.built /\ initialize(pf, "mutex").shared
        semaphores == "semaphore" \in pf.built /\ initialize(pf, "semaphore").shared
    IN CASE timeouts /\ mutexes -> "LOCKTYPE_MUTEX"
         [] ~(timeouts /\ mutexes) /\ timeouts /\ semaphores -> "LOCKTYPE_SEMAPHORE"
         [] ~timeouts /\ mutexes -> "LOCKTYPE_MUTEX"
         [] ~timeouts /\ ~mutexes /\ semaphores -> "LOCKTYPE_SEMAPHORE"
         [] OTHER -> "LOCKTYPE_SPINLOCK"

(* createLockFromId(): for a semaphore it is the support of semaphores that is   *)
(* asked about in place of that of timeouts.                               *)
createLockFromId(pf, id) ==
    LET timeouts == "timeouts" \in pf.built
    IN CASE id = "LOCKTYPE_MUTEX" /\ "mutex" \in pf.built ->
               [kind |-> "mutex", timed |-> timeouts /\ pf.timeouts]
         [] id = "LOCKTYPE_SEMAPHORE" /\ "semaphore" \in pf.built ->
               [kind |-> "semaphore", timed |-> timeouts /\ pf.semaphores]
         [] id = "LOCKTYPE_SPINLOCK" -> [kind |-> "spinlock", timed |-> TRUE]
         [] OTHER -> [kind |-> "shell", timed |-> TRUE]

-----------------------------------------------------------------------------
(* A lock that some take and release: how often it can be taken, who holds it,  *)
(* who goes on without it since its lock() timed out, and how many calls may  *)
(* have let in one more than one.                                          *)
Initialized == [free |-> 1, holders |-> {}, without |-> {}, harm |-> 0]

lock(lk, st, who) ==
    IF who \in st.holders \cup st.without THEN st
    ELSE IF st.free > 0 THEN [st EXCEPT !.free = @ - 1, !.holders = @ \cup {who}]
    ELSE IF lk.timed THEN [st EXCEPT !.without = @ \cup {who}]
    ELSE st

(* A semaphore is raised by every unlock(), the others are free or not. *)
unlock(lk, st, who) ==
    IF who \notin st.holders \cup st.without THEN st
    ELSE [free |-> IF lk.kind = "semaphore" THEN st.free + 1 ELSE 1,
          holders |-> st.holders \ {who}, without |-> st.without \ {who},
          harm |-> IF who \in st.without /\ (lk.kind = "semaphore" \/ st.holders # {})
                   THEN st.harm + 1 ELSE st.harm]

(* Whoever attaches to the cache initialises the lock, which is then free,      *)
(* also while another process holds it (ksdcmapping_p.h:307).               *)
attach(st) ==
    [st EXCEPT !.free = 1, !.harm = IF st.holders # {} THEN @ + 1 ELSE @]

(* The calls of the processes that attach, and of the CacheLockers they make. *)
LocksTaken(lk, history) ==
    FoldLeft(LAMBDA st, call :
                 CASE call.op = "lock" -> lock(lk, st, call.who)
                   [] call.op = "unlock" -> unlock(lk, st, call.who)
                   [] call.op = "attach" -> attach(st),
             Initialized, history)

-----------------------------------------------------------------------------
(* A process that attaches to a cache gets the same lock as the one that set it  *)
(* up, one that can be initialised there and that processes share; it has    *)
(* timeouts where they are to be had, and only there unless it is a          *)
(* semaphore.                                                              *)
LockChosen(pf) ==
    LET lk == createLockFromId(pf, findBestSharedLock(pf))
        timeouts == "timeouts" \in pf.built /\ pf.timeouts
    IN /\ lk.kind # "shell"
       /\ initialize(pf, lk.kind) = [ok |-> TRUE, shared |-> TRUE]
       /\ timeouts => lk.timed
       /\ lk.timed => timeouts \/ lk.kind \in {"semaphore", "spinlock"}
       /\ ~timeouts /\ lk.kind = "semaphore" => ~("mutex" \in pf.built /\ pf.mutexShared)

(* How many hold a lock at once.  It has one holder, or none and can be taken,  *)
(* as long as nobody does what lets in another: attaches to the cache while   *)
(* the lock is held, or releases it though its own lock() has timed out, when *)
(* another holds it or it is a semaphore.  Every such call lets in no more     *)
(* than one; and whatever was called, a lock that nobody holds can be taken.  *)
LockKept(lk, history) ==
    LET st == LocksTaken(lk, history)
    IN /\ Cardinality(st.holders) <= 1 + st.harm
       /\ st.harm = 0 => Cardinality(st.holders) + st.free = 1
       /\ st.holders = {} => st.free > 0
=============================================================================
