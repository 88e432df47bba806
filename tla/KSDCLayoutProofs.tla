-------------------------- MODULE KSDCLayoutProofs --------------------------
(***************************************************************************)
(* The sizes and places of a cache (KSDCLayout) for every size that          *)
(* applications ask for and every address at which they map it; every key    *)
(* has one hash; and the lock that is chosen for a cache, with how many may   *)
(* hold it at once.  (The lemmas about loops are those of KPartsProofs.)     *)
(*                                                                         *)
(* The header, once there, has a page size between 2^9 and 2^18 and at     *)
(* least 256 pages; everything else about the layout is arithmetic on it.    *)
(***************************************************************************)
EXTENDS KSDCLayout, KPartsProofs, FiniteSetTheorems, TLAPS

-----------------------------------------------------------------------------
(* Division and rounding. *)

(* Division by a positive number leaves a remainder below it. *)
LEMMA Division ==
    ASSUME NEW a \in Nat, NEW b \in Nat \ {0}
    PROVE  /\ a \div b \in Nat /\ a % b \in 0 .. b - 1
           /\ a = b * (a \div b) + (a % b)
<1>1. /\ a \div b \in Int /\ a % b \in 0 .. b - 1
      /\ a = b * (a \div b) + (a % b)
  OBVIOUS
<1>2. CASE a \div b < 0
  <2>1. b * (0 - a \div b) >= b * 1
    BY <1>1, <1>2
  <2>. QED BY <1>1, <2>1
<1>. QED BY <1>1, <1>2

(* The quotient is the only number with that property. *)
LEMMA Quotient ==
    ASSUME NEW a \in Nat, NEW b \in Nat \ {0}, NEW q \in Int, NEW r \in 0 .. b - 1,
           a = b * q + r
    PROVE  a \div b = q
<1> DEFINE d == a \div b
           m == a % b
<1>1. d \in Nat /\ m \in 0 .. b - 1 /\ a = b * d + m
  BY Division
<1>. HIDE DEF d, m
<1>2. CASE d < q
  <2>1. b * (q - d) >= b * 1
    BY <1>1, <1>2
  <2>. QED BY <1>1, <2>1
<1>3. CASE d > q
  <2>1. b * (d - q) >= b * 1
    BY <1>1, <1>3
  <2>. QED BY <1>1, <2>1
<1>. QED BY <1>1, <1>2, <1>3 DEF d

(* What wraps around is a number again, and the same one if it fits. *)
LEMMA Wrapped ==
    ASSUME NEW n \in Nat, NEW w \in Nat \ {0}
    PROVE  n % w \in Nat /\ (n < w => n % w = n)
<1> DEFINE q == n \div w
           m == n % w
<1>1. q \in Nat /\ m \in 0 .. w - 1 /\ n = w * q + m
  BY Division
<1>. HIDE DEF m
<1>2. ASSUME n < w PROVE m = n
  <2>1. n \in 0 .. w - 1 /\ n = w * 0 + n
    BY <1>2
  <2>2. q = 0
    BY ONLY <2>1, n \in Nat, w \in Nat \ {0}, Quotient
  <2>. HIDE DEF q
  <2>. QED BY <1>1, <2>2
<1>. QED BY <1>1, <1>2 DEF m

(* alignTo() goes up to a multiple of the size, by less than the size. *)
LEMMA Aligned ==
    ASSUME NEW x \in Nat, NEW size \in Nat \ {0}
    PROVE  /\ alignTo(x, size) \in Nat
           /\ x <= alignTo(x, size) /\ alignTo(x, size) <= x + size - 1
<1> DEFINE q == (x + size - 1) \div size
           r == (x + size - 1) % size
<1>1. q \in Nat /\ r \in 0 .. size - 1 /\ x + size - 1 = size * q + r
  <2>1. x + size - 1 \in Nat
    OBVIOUS
  <2>. QED BY ONLY <2>1, size \in Nat \ {0}, Division
<1>. HIDE DEF q, r
<1>2. alignTo(x, size) = q * size
  BY DEF alignTo, intCeil, q
<1>3. q * size \in Nat /\ q * size = size * q
  BY <1>1
<1>. QED BY <1>1, <1>2, <1>3

(* What begins at a multiple of the size is rounded as if it began at 0. *)
LEMMA AlignedFrom ==
    ASSUME NEW b \in Nat, NEW x \in Nat, NEW size \in Nat \ {0}, b % size = 0
    PROVE  alignTo(b + x, size) - b = alignTo(x, size)
<1> DEFINE n == b \div size
           q == (x + size - 1) \div size
           r == (x + size - 1) % size
<1>1. n \in Nat /\ b = size * n
  BY Division
<1>2. q \in Nat /\ r \in 0 .. size - 1 /\ x + size - 1 = size * q + r
  <2>1. x + size - 1 \in Nat
    OBVIOUS
  <2>. QED BY ONLY <2>1, size \in Nat \ {0}, Division
<1>. HIDE DEF n, q, r
<1>3. size * (n + q) = size * n + size * q
  BY <1>1, <1>2
<1>4. (b + x + size - 1) \div size = n + q
  BY <1>1, <1>2, <1>3, Quotient
<1>5. alignTo(b + x, size) = (n + q) * size
  BY <1>4 DEF alignTo, intCeil
<1>6. alignTo(x, size) = q * size
  BY DEF alignTo, intCeil, q
<1>. QED BY <1>1, <1>2, <1>3, <1>5, <1>6

(* A quotient grows with the dividend. *)
LEMMA QuotientGrows ==
    ASSUME NEW a \in Nat, NEW c \in Nat, NEW b \in Nat \ {0}, a <= c
    PROVE  a \div b <= c \div b
<1> DEFINE q == a \div b
           r == a % b
           s == c \div b
           m == c % b
<1>1. q \in Nat /\ r \in 0 .. b - 1 /\ a = b * q + r
  BY Division
<1>2. s \in Nat /\ m \in 0 .. b - 1 /\ c = b * s + m
  BY Division
<1>. HIDE DEF q, r, s, m
<1>3. CASE q > s
  <2>1. b * (q - s) >= b * 1
    BY <1>1, <1>2, <1>3
  <2>. QED BY <1>1, <1>2, <2>1
<1>. QED BY <1>1, <1>2, <1>3 DEF q, s

-----------------------------------------------------------------------------
(* The sizes that are chosen. *)

PageSizes == {2^e : e \in 9 .. 18}

(* A page has between 512 bytes and 256 KiB. *)
LEMMA PageSizesAre ==
    \A size \in PageSizes : size \in Nat /\ 512 <= size /\ size <= 262144
<1>1. /\ 2^9 = 512 /\ 2^10 = 1024 /\ 2^11 = 2048 /\ 2^12 = 4096 /\ 2^13 = 8192
      /\ 2^14 = 16384 /\ 2^15 = 32768 /\ 2^16 = 65536 /\ 2^17 = 131072 /\ 2^18 = 262144
  OBVIOUS
<1>2. TAKE size \in PageSizes
<1>3. PICK e \in 9 .. 18 : size = 2^e
  BY DEF PageSizes
<1>4. \/ e = 9 \/ e = 10 \/ e = 11 \/ e = 12 \/ e = 13
      \/ e = 14 \/ e = 15 \/ e = 16 \/ e = 17 \/ e = 18
  OBVIOUS
<1>5. size \in {2^9, 2^10, 2^11, 2^12, 2^13, 2^14, 2^15, 2^16, 2^17, 2^18}
  BY <1>3, <1>4
<1>6. size \in {512, 1024, 2048, 4096, 8192, 16384, 32768, 65536, 131072, 262144}
  BY <1>1, <1>5
<1>. QED BY <1>6

(* For every size of an item there is a power of two in that range. *)
LEMMA PageSizeChosen ==
    ASSUME NEW itemSize \in Nat
    PROVE  equivalentPageSize(itemSize) \in PageSizes
<1> DEFINE Fits(e) == /\ e = 9 \/ 2^e <= itemSize
                      /\ e = 18 \/ itemSize < 2^(e + 1)
<1>1. 2^12 = 4096
  OBVIOUS
<1>2. \E e \in 9 .. 18 : Fits(e)
  <2>1. /\ 2^10 \in Int /\ 2^11 \in Int /\ 2^12 \in Int /\ 2^13 \in Int /\ 2^14 \in Int
        /\ 2^15 \in Int /\ 2^16 \in Int /\ 2^17 \in Int /\ 2^18 \in Int
    OBVIOUS
  <2>2. CASE itemSize < 2^10
    BY <2>2
  <2>3. CASE 2^10 <= itemSize /\ itemSize < 2^11
    BY <2>3
  <2>4. CASE 2^11 <= itemSize /\ itemSize < 2^12
    BY <2>4
  <2>5. CASE 2^12 <= itemSize /\ itemSize < 2^13
    BY <2>5
  <2>6. CASE 2^13 <= itemSize /\ itemSize < 2^14
    BY <2>6
  <2>7. CASE 2^14 <= itemSize /\ itemSize < 2^15
    BY <2>7
  <2>8. CASE 2^15 <= itemSize /\ itemSize < 2^16
    BY <2>8
  <2>9. CASE 2^16 <= itemSize /\ itemSize < 2^17
    BY <2>9
  <2>10. CASE 2^17 <= itemSize /\ itemSize < 2^18
    BY <2>10
  <2>11. CASE 2^18 <= itemSize
    BY <2>11
  <2>. QED
    BY <2>1, <2>2, <2>3, <2>4, <2>5, <2>6, <2>7, <2>8, <2>9, <2>10, <2>11
<1>3. (CHOOSE e \in 9 .. 18 : Fits(e)) \in 9 .. 18
  BY <1>2
<1>4. CASE itemSize = 0
  BY <1>1, <1>4 DEF equivalentPageSize, PageSizes
<1>5. CASE itemSize # 0
  <2>. DEFINE e == CHOOSE x \in 9 .. 18 : Fits(x)
  <2>1. equivalentPageSize(itemSize) = 2^e
    BY <1>5 DEF equivalentPageSize
  <2>. HIDE DEF e
  <2>2. e \in 9 .. 18
    BY <1>3 DEF e
  <2>. QED BY <2>1, <2>2 DEF PageSizes
<1>. QED BY <1>4, <1>5

(* A larger offset is not rounded to a smaller one. *)
LEMMA AlignedGrows ==
    ASSUME NEW x \in Nat, NEW y \in Nat, NEW size \in Nat \ {0}, x <= y
    PROVE  alignTo(x, size) <= alignTo(y, size)
<1> DEFINE q == (x + size - 1) \div size
           s == (y + size - 1) \div size
<1>1. x + size - 1 \in Nat /\ y + size - 1 \in Nat /\ x + size - 1 <= y + size - 1
  OBVIOUS
<1>2. q \in Nat /\ s \in Nat /\ q <= s
  BY ONLY <1>1, size \in Nat \ {0}, Division, QuotientGrows
<1>3. alignTo(x, size) = q * size /\ alignTo(y, size) = s * size
  BY DEF alignTo, intCeil
<1>. HIDE DEF q, s
<1>4. q * size <= s * size
  BY <1>2
<1>. QED BY <1>3, <1>4

-----------------------------------------------------------------------------
(* What follows for the tables of a cache with at least 256 pages. *)

Proper(h) ==
    /\ h \in [cacheSize : Nat, pageSize : PageSizes]
    /\ h.cacheSize >= 256 * h.pageSize

(* There are that many pages, and half as many entries. *)
LEMMA TableSizes ==
    ASSUME NEW h, Proper(h)
    PROVE  /\ h.cacheSize \in Nat /\ h.pageSize \in Nat \ {0}
           /\ pageTableSize(h) \in Nat /\ pageTableSize(h) >= 256
           /\ indexTableSize(h) \in Nat /\ indexTableSize(h) >= 128
<1>1. h.cacheSize \in Nat /\ h.pageSize \in Nat \ {0}
  BY PageSizesAre DEF Proper
<1>2. pageTableSize(h) \in Nat /\ pageTableSize(h) >= 256
  <2>1. h.cacheSize >= 256 * h.pageSize
    BY DEF Proper
  <2>. QED BY ONLY <1>1, <2>1 DEF pageTableSize
<1>3. indexTableSize(h) \in Nat /\ indexTableSize(h) >= 128
  <2>1. \A n \in Nat : n >= 256 => n \div 2 \in Nat /\ n \div 2 >= 128
    OBVIOUS
  <2>. QED BY <1>2, <2>1 DEF indexTableSize
<1>. QED BY <1>1, <1>2, <1>3

(* The six slots of a chain are different ones of such a table. *)
LEMMA SlotsDistinct ==
    ASSUME NEW n \in Nat, n >= 128,
           NEW a \in 0 .. MaxProbeCount - 1, NEW b \in 0 .. MaxProbeCount - 1, a # b
    PROVE  ((a + a * a) \div 2) % n # ((b + b * b) \div 2) % n
<1> DEFINE slot(x) == (x + x * x) \div 2
<1>1. /\ slot(0) = 0 /\ slot(1) = 1 /\ slot(2) = 3
      /\ slot(3) = 6 /\ slot(4) = 10 /\ slot(5) = 15
  OBVIOUS
<1>2. /\ a \in {0, 1, 2, 3, 4, 5}
      /\ b \in {0, 1, 2, 3, 4, 5}
  BY DEF MaxProbeCount
<1>. HIDE DEF slot
<1>3. slot(a) \in 0 .. 15 /\ slot(b) \in 0 .. 15 /\ slot(a) # slot(b)
  BY <1>1, <1>2
<1>4. \A k \in 0 .. 15 : k % n = k
  OBVIOUS
<1>5. slot(a) % n # slot(b) % n
  BY <1>3, <1>4
<1>. QED BY <1>5 DEF slot

(* The last page begins in what is mapped for these sizes, if they fit. *)
LEMMA LastPageMapped ==
    ASSUME NEW h, Proper(h), NEW b \in Nat, SizeFits(h.cacheSize, h.pageSize)
    PROVE  /\ page(h, b, pageTableSize(h) - 1) \in Int
           /\ page(h, b, pageTableSize(h) - 1) <= totalSize(h.cacheSize, h.pageSize)
<1> DEFINE c == h.cacheSize
           s == h.pageSize
           n == pageTableSize(h)
           m == intCeil(c, s)
           tables(k) == indexTable + (k \div 2) * EntrySize
           before(k) == alignTo(tables(k), PageEntrySize) + k * PageEntrySize
<1>1. c \in Nat /\ s \in Nat \ {0} /\ n \in Nat /\ n >= 256
  BY TableSizes
<1>2. m \in Nat /\ n <= m
  <2>1. c + s - 1 \in Nat /\ c <= c + s - 1
    BY <1>1
  <2>2. m = (c + s - 1) \div s /\ n = c \div s
    BY DEF intCeil, pageTableSize
  <2>. QED BY ONLY <1>1, <2>1, <2>2, Division, QuotientGrows
<1>3. indexTable \in Nat /\ EntrySize \in Nat \ {0} /\ WordAlign \in Nat \ {0}
  BY LayoutAssumption, Aligned DEF indexTable
<1>. HIDE DEF c, s, n, m
<1>4. /\ n \div 2 \in Nat /\ m \div 2 \in Nat /\ n \div 2 <= m \div 2
  BY <1>1, <1>2
<1>5. tables(n) \in Nat /\ tables(m) \in Nat /\ tables(n) <= tables(m)
  <2> DEFINE i == n \div 2
             j == m \div 2
  <2>1. i \in Nat /\ j \in Nat /\ i <= j
    BY <1>4
  <2>. HIDE DEF i, j
  <2>2. i * EntrySize \in Nat /\ j * EntrySize \in Nat /\ i * EntrySize <= j * EntrySize
    BY <1>3, <2>1
  <2>3. /\ indexTable + i * EntrySize \in Nat /\ indexTable + j * EntrySize \in Nat
        /\ indexTable + i * EntrySize <= indexTable + j * EntrySize
    BY <1>3, <2>2
  <2>. QED BY <2>3 DEF i, j
<1>. HIDE DEF tables
<1>6. before(n) \in Nat /\ before(m) \in Nat /\ before(n) <= before(m)
  <2>1. PageEntrySize = 4
    BY DEF PageEntrySize
  <2>2. /\ alignTo(tables(n), 4) \in Nat /\ alignTo(tables(m), 4) \in Nat
        /\ alignTo(tables(n), 4) <= alignTo(tables(m), 4)
    BY <1>5, Aligned, AlignedGrows
  <2>. QED BY <1>1, <1>2, <2>1, <2>2
<1>7. page(h, b, n - 1) = (alignTo(b + before(n), s) - b) + (n - 1) * s
  <2>1. pageTable(h) = alignTo(tables(n), PageEntrySize)
    BY DEF pageTable, indexTableSize, n, tables
  <2>2. b + before(n) = b + pageTable(h) + n * PageEntrySize
    <3>1. PageEntrySize = 4 /\ alignTo(tables(n), 4) \in Nat
      BY <1>5, Aligned DEF PageEntrySize
    <3>. QED BY <1>1, <2>1, <3>1
  <2>. QED BY <2>2 DEF page, cachePages, n, s
<1>8. tablesSize(m) = before(m)
  BY DEF tablesSize, tables, indexTable
<1>. HIDE DEF before
<1>9. alignTo(b + before(n), s) \in Nat /\ alignTo(b + before(n), s) - b <= before(n) + s - 1
  <2>1. b + before(n) \in Nat
    BY <1>6
  <2>2. /\ alignTo(b + before(n), s) \in Nat
        /\ alignTo(b + before(n), s) <= b + before(n) + s - 1
    BY ONLY <1>1, <2>1, Aligned
  <2>. QED BY <1>1, <1>6, <2>2
<1>10. /\ n * s \in Nat /\ m * s \in Nat /\ n * s <= m * s
       /\ (n - 1) * s = n * s - s
  BY <1>1, <1>2
<1>11. before(m) + m * s \in Nat
  BY <1>6, <1>10
<1>12. totalSize(c, s) \in Nat /\ before(m) + m * s <= totalSize(c, s)
  <2> DEFINE bytes == alignTo(before(m) + m * s, WordAlign)
  <2>1. bytes \in Nat /\ before(m) + m * s <= bytes
    BY ONLY <1>3, <1>11, Aligned
  <2>2. bytes < UintSize /\ UintSize \in Nat
    BY <1>8, LayoutAssumption DEF SizeFits, c, s, m
  <2>3. totalSize(c, s) = alignTo(before(m) + ((m * s) % UintSize), WordAlign) % UintSize
    BY <1>8 DEF totalSize, m
  <2>4. UintSize \in Nat \ {0}
    BY LayoutAssumption
  <2>5. (m * s) % UintSize = m * s
    <3> DEFINE k == m * s
    <3>1. k \in Nat /\ k < UintSize
      BY <1>6, <1>10, <2>1, <2>2
    <3>. HIDE DEF k
    <3>2. k % UintSize = k
      BY <2>4, <3>1, Wrapped
    <3>. QED BY <3>2 DEF k
  <2>. HIDE DEF bytes
  <2>6. bytes % UintSize = bytes
    BY <2>1, <2>2, <2>4, Wrapped
  <2>. QED BY <2>1, <2>2, <2>3, <2>5, <2>6 DEF bytes
<1>13. page(h, b, n - 1) \in Int /\ page(h, b, n - 1) <= totalSize(c, s)
  BY <1>1, <1>6, <1>7, <1>9, <1>10, <1>12
<1>. QED BY <1>13 DEF c, s, n

-----------------------------------------------------------------------------
(* The inductive invariant: the header is proper once it is there, and it is  *)
(* there once a process has attached.                                      *)
LayoutInv ==
    /\ header = NoHeader \/ Proper(header)
    /\ mapSize \in [Processes -> Nat] /\ base \in [Processes -> Bases]
    /\ header = NoHeader => \A p \in Processes : mapSize[p] = 0

(* What a process that opens the cache asks for is proper. *)
LEMMA RequestProper ==
    ASSUME NEW default \in Nat, NEW itemSize \in Nat
    PROVE  LET s == equivalentPageSize(itemSize)
           IN Proper([cacheSize |-> RequestedSize(default, s), pageSize |-> s])
<1> DEFINE s == equivalentPageSize(itemSize)
<1>1. s \in PageSizes /\ s \in Nat
  BY PageSizeChosen, PageSizesAre
<1>. HIDE DEF s
<1>2. RequestedSize(default, s) \in Nat /\ RequestedSize(default, s) >= 256 * s
  BY <1>1 DEF RequestedSize, Larger, MinimumCacheSize
<1>3. Proper([cacheSize |-> RequestedSize(default, s), pageSize |-> s])
  BY <1>1, <1>2 DEF Proper
<1>. QED BY <1>3 DEF s

(* What is mapped is a number of bytes. *)
LEMMA TotalSizeType ==
    ASSUME NEW h, Proper(h)
    PROVE  totalSize(h.cacheSize, h.pageSize) \in Nat
<1> DEFINE m == intCeil(h.cacheSize, h.pageSize)
           tables == alignTo(HeaderSize, WordAlign) + (m \div 2) * EntrySize
           bytes == tablesSize(m) + ((m * h.pageSize) % UintSize)
<1>1. h.cacheSize \in Nat /\ h.pageSize \in Nat \ {0}
  BY TableSizes
<1>2. m \in Nat
  <2>1. h.cacheSize + h.pageSize - 1 \in Nat
    BY <1>1
  <2>. QED BY ONLY <1>1, <2>1, Division DEF intCeil
<1>3. totalSize(h.cacheSize, h.pageSize) = alignTo(bytes, WordAlign) % UintSize
  BY DEF totalSize
<1>. HIDE DEF m
<1>4. WordAlign \in Nat \ {0} /\ alignTo(HeaderSize, WordAlign) \in Nat
  BY LayoutAssumption, Aligned
<1>5. tables \in Nat
  <2>1. m \div 2 \in Nat
    BY <1>2
  <2>. QED BY LayoutAssumption, <1>4, <2>1
<1>. HIDE DEF tables
<1>6. tablesSize(m) \in Nat
  <2>1. PageEntrySize = 4 /\ alignTo(tables, 4) \in Nat
    BY <1>5, Aligned DEF PageEntrySize
  <2>. QED BY <1>2, <2>1 DEF tablesSize, tables
<1>7. bytes \in Nat
  <2>1. m * h.pageSize \in Nat
    BY <1>1, <1>2
  <2>2. (m * h.pageSize) % UintSize \in Nat
    <3> DEFINE n == m * h.pageSize
    <3>1. n \in Nat
      BY <2>1
    <3>. HIDE DEF n
    <3>2. n % UintSize \in Nat
      BY <3>1, LayoutAssumption, Wrapped
    <3>. QED BY <3>2 DEF n
  <2>. QED BY <1>6, <2>2
<1>. HIDE DEF bytes
<1>8. alignTo(bytes, WordAlign) \in Nat
  BY ONLY <1>4, <1>7, Aligned
<1> DEFINE whole == alignTo(bytes, WordAlign)
<1>9. whole \in Nat
  BY <1>8
<1>. HIDE DEF whole
<1>10. whole % UintSize \in Nat
  BY <1>9, LayoutAssumption, Wrapped
<1>. QED BY <1>3, <1>10 DEF whole

LEMMA LayoutInitially == LayoutInit => LayoutInv
BY DEF LayoutInit, LayoutInv

LEMMA LayoutNextKeeps ==
    ASSUME LayoutInv, [LayoutNext]_layoutVars
    PROVE  LayoutInv'
<1>1. CASE UNCHANGED layoutVars
  BY <1>1 DEF layoutVars, LayoutInv
<1>2. ASSUME NEW p \in Processes, NEW c \in CacheSizes, NEW i \in ItemSizes, Open(p, c, i)
      PROVE  LayoutInv'
  <2> DEFINE s == equivalentPageSize(i)
             h == [cacheSize |-> RequestedSize(c, s), pageSize |-> s]
  <2>1. Proper(h)
    BY RequestProper, LayoutAssumption
  <2>2. totalSize(RequestedSize(c, s), s) \in Nat
    BY <2>1, TotalSizeType
  <2>3. h # NoHeader /\ h.pageSize # 0
    BY <2>1, TableSizes DEF NoHeader
  <2> DEFINE size == totalSize(RequestedSize(c, s), s)
  <2>4. header' = h \/ header' = header
    BY <1>2 DEF Open
  <2>5. header' = NoHeader \/ Proper(header')
    BY <2>1, <2>4 DEF LayoutInv
  <2>6. /\ mapSize' = [mapSize EXCEPT ![p] = size]
        /\ \E b \in Bases : base' = [base EXCEPT ![p] = b]
    BY <1>2 DEF Open
  <2>7. header' = NoHeader => header = NoHeader /\ ~(size > 0)
    BY <1>2, <2>3 DEF Open
  <2>8. size \in Nat
    BY <2>2
  <2>. HIDE DEF h, s, size
  <2>9. header' = NoHeader => size = 0
    BY <2>7, <2>8
  <2>. QED BY <2>5, <2>6, <2>7, <2>8, <2>9 DEF LayoutInv
<1>3. ASSUME NEW p \in Processes, Close(p)
      PROVE  LayoutInv'
  BY <1>3 DEF Close, LayoutInv
<1>. QED BY <1>1, <1>2, <1>3 DEF LayoutNext

(* The four properties follow. *)
LEMMA LayoutInvSound ==
    LayoutInv => PageSizeAccepted /\ ChainsDistinct /\ AllButLastPageMapped /\ SmallPagesAgree
<1>. SUFFICES ASSUME LayoutInv
              PROVE  PageSizeAccepted /\ ChainsDistinct /\ AllButLastPageMapped
                       /\ SmallPagesAgree
  OBVIOUS
<1>1. header # NoHeader => Proper(header)
  BY DEF LayoutInv
<1>2. PageSizeAccepted
  BY <1>1 DEF PageSizeAccepted, cachePageSizeThrows, Proper, PageSizes
<1>3. ChainsDistinct
  BY <1>1, TableSizes, SlotsDistinct DEF ChainsDistinct
<1>4. ASSUME NEW p \in Attached
      PROVE  base[p] \in Nat /\ base[p] \in Bases /\ header # NoHeader
  <2>1. p \in Processes /\ mapSize[p] > 0 /\ ~(mapSize[p] = 0)
    BY DEF Attached, LayoutInv
  <2>2. base[p] \in Bases
    BY <2>1 DEF LayoutInv
  <2>. QED BY <2>1, <2>2, LayoutAssumption DEF LayoutInv
<1>5. AllButLastPageMapped
  <2>. SUFFICES ASSUME NEW p \in Attached, SizeFits(header.cacheSize, header.pageSize),
                       mapSize[p] >= totalSize(header.cacheSize, header.pageSize)
                PROVE  page(header, base[p], pageTableSize(header) - 1) <= mapSize[p]
    BY DEF AllButLastPageMapped
  <2>1. Proper(header) /\ base[p] \in Nat
    BY <1>1, <1>4
  <2>2. mapSize[p] \in Nat /\ totalSize(header.cacheSize, header.pageSize) \in Nat
    BY <2>1, TotalSizeType DEF LayoutInv, Attached
  <2>3. page(header, base[p], pageTableSize(header) - 1)
          <= totalSize(header.cacheSize, header.pageSize)
    BY <2>1, LastPageMapped
  <2>4. page(header, base[p], pageTableSize(header) - 1) \in Int
    BY <2>1, LastPageMapped
  <2>. QED BY <2>2, <2>3, <2>4
<1>6. SmallPagesAgree
  <2>. SUFFICES ASSUME header # NoHeader, \A b \in Bases : b % header.pageSize = 0,
                       NEW p \in Attached, NEW q \in Attached
                PROVE  cachePages(header, base[p]) = cachePages(header, base[q])
    BY DEF SmallPagesAgree
  <2> DEFINE tables == pageTable(header) + pageTableSize(header) * PageEntrySize
  <2>1. header.pageSize \in Nat \ {0} /\ pageTableSize(header) \in Nat
          /\ indexTableSize(header) \in Nat
    BY <1>1, TableSizes
  <2>2. tables \in Nat /\ pageTable(header) \in Nat
          /\ pageTableSize(header) * PageEntrySize \in Nat
    <3>1. indexTable + indexTableSize(header) * EntrySize \in Nat
      BY <2>1, LayoutAssumption, Aligned DEF indexTable
    <3>2. PageEntrySize = 4 /\ pageTable(header) \in Nat
      BY <3>1, Aligned DEF pageTable, PageEntrySize
    <3>3. pageTableSize(header) * PageEntrySize \in Nat
      BY <2>1, <3>2
    <3>. QED BY <3>2, <3>3
  <2>3. /\ base[p] \in Nat /\ base[p] % header.pageSize = 0
        /\ base[q] \in Nat /\ base[q] % header.pageSize = 0
    BY <1>4
  <2>4. \A b \in Nat : cachePages(header, b) = alignTo(b + tables, header.pageSize) - b
    <3>1. TAKE b \in Nat
    <3>2. b + pageTable(header) + pageTableSize(header) * PageEntrySize = b + tables
      BY <2>2
    <3>. QED BY <3>2 DEF cachePages
  <2>. HIDE DEF tables
  <2>5. /\ cachePages(header, base[p]) = alignTo(tables, header.pageSize)
        /\ cachePages(header, base[q]) = alignTo(tables, header.pageSize)
    BY ONLY <2>1, <2>2, <2>3, <2>4, AlignedFrom
  <2>. QED BY <2>5
<1>. QED BY <1>2, <1>3, <1>5, <1>6

(* For every size that is asked for, and wherever the cache is mapped: its    *)
(* page size passes the test of cachePageSize(), the slots that a key is     *)
(* looked for in are different, processes find small pages at the same      *)
(* place, and all pages but the end of the last one lie in what a process    *)
(* maps, unless it maps less than the cache was created with or that size    *)
(* wrapped around (createMemoryMapping(), totalSize() and cachePages();      *)
(* AllButLastPageMapped says where these exceptions come from).              *)
THEOREM LayoutIsSound ==
    LayoutSpec => [](PageSizeAccepted /\ ChainsDistinct /\ AllButLastPageMapped
                       /\ SmallPagesAgree)
<1>1. LayoutInv /\ [LayoutNext]_layoutVars => LayoutInv'
  BY LayoutNextKeeps
<1>. QED BY LayoutInitially, LayoutInvSound, <1>1, PTL DEF LayoutSpec

-----------------------------------------------------------------------------
(* On every platform the lock of a cache is one that can be initialised and    *)
(* that processes share, with timeouts where they are to be had              *)
(* (findBestSharedLock(), createLockFromId()).                               *)
THEOREM LockIsChosen ==
    ASSUME NEW pf,
           pf.timeouts \in BOOLEAN, pf.mutex \in BOOLEAN, pf.mutexShared \in BOOLEAN,
           pf.semaphores \in BOOLEAN, pf.semaphore \in BOOLEAN,
           pf.semaphoreShared \in BOOLEAN
    PROVE  LockChosen(pf)
<1> DEFINE id == findBestSharedLock(pf)
           timeouts == "timeouts" \in pf.built /\ pf.timeouts
           mutexes == "mutex" \in pf.built /\ pf.mutexShared
           semaphores == "semaphore" \in pf.built /\ pf.semaphores /\ pf.semaphoreShared
<1>1. CASE id = "LOCKTYPE_MUTEX"
  <2>1. mutexes
    BY <1>1 DEF findBestSharedLock, initialize
  <2>2. createLockFromId(pf, id) = [kind |-> "mutex", timed |-> timeouts]
    BY <1>1, <2>1 DEF createLockFromId
  <2>3. initialize(pf, "mutex") = [ok |-> TRUE, shared |-> TRUE]
    BY <2>1 DEF initialize
  <2>4. createLockFromId(pf, id).kind = "mutex" /\ createLockFromId(pf, id).timed = timeouts
    BY <2>2
  <2>. HIDE DEF id
  <2>5. /\ createLockFromId(pf, id).kind # "shell"
        /\ initialize(pf, createLockFromId(pf, id).kind) = [ok |-> TRUE, shared |-> TRUE]
        /\ timeouts => createLockFromId(pf, id).timed
        /\ createLockFromId(pf, id).timed => timeouts
        /\ createLockFromId(pf, id).kind # "semaphore"
    BY <2>3, <2>4
  <2>. QED BY <2>5 DEF LockChosen, id
<1>2. CASE id = "LOCKTYPE_SEMAPHORE"
  <2>1. semaphores /\ (timeouts \/ ~mutexes)
    BY <1>2 DEF findBestSharedLock, initialize
  <2>2. createLockFromId(pf, id)
          = [kind |-> "semaphore", timed |-> "timeouts" \in pf.built /\ pf.semaphores]
    BY <1>2, <2>1 DEF createLockFromId
  <2>3. initialize(pf, "semaphore") = [ok |-> TRUE, shared |-> TRUE]
    BY <2>1 DEF initialize
  <2>4. /\ createLockFromId(pf, id).kind = "semaphore"
        /\ createLockFromId(pf, id).timed = ("timeouts" \in pf.built /\ pf.semaphores)
    BY <2>2
  <2>. HIDE DEF id
  <2>5. /\ createLockFromId(pf, id).kind # "shell"
        /\ initialize(pf, createLockFromId(pf, id).kind) = [ok |-> TRUE, shared |-> TRUE]
        /\ timeouts => createLockFromId(pf, id).timed
        /\ createLockFromId(pf, id).kind \in {"semaphore", "spinlock"}
        /\ ~timeouts => ~mutexes
    BY <2>1, <2>3, <2>4
  <2>. QED BY <2>5 DEF LockChosen, id
<1>3. CASE id = "LOCKTYPE_SPINLOCK"
  BY <1>3 DEF LockChosen, createLockFromId, initialize
<1>4. id \in {"LOCKTYPE_MUTEX", "LOCKTYPE_SEMAPHORE", "LOCKTYPE_SPINLOCK"}
  BY DEF findBestSharedLock
<1>. QED BY <1>1, <1>2, <1>3, <1>4

-----------------------------------------------------------------------------
(* The hash of a key: word k of it, from 0 on, has the bytes 4 * k and on.   *)
Word(data, k) ==
    Load(data, 4 * k, IF Len(data) - 4 * k >= 4 THEN 4 ELSE Len(data) - 4 * k)
WordsOf(data) == [k \in 1 .. (Len(data) + 3) \div 4 |-> Word(data, k - 1)]

(* A key that is read by whole words. *)
LEMMA HashOfWhole ==
    ASSUME NEW data \in Seq(Nat), NEW align \in 0 .. 3, align = 0 \/ Len(data) < 4
    PROVE  MurmurHashAligned(data, align) = WordsOf(data)
<1> DEFINE len == Len(data)
           words == len \div 4
           spare == len % 4
           d == [k \in 1 .. words |-> Load(data, 0 + 4 * (k - 1), 4)]
           tail == IF spare = 0 THEN <<>> ELSE <<Load(data, len - (spare - 0), spare - 0)>>
<1>1. len \in Nat /\ words \in Nat /\ spare \in 0 .. 3 /\ len = 4 * words + spare
  <2>1. len \in Nat /\ 4 \in Nat \ {0} /\ 0 .. 4 - 1 = 0 .. 3
    OBVIOUS
  <2>. QED BY ONLY <2>1, Division
<1>2. MurmurHashAligned(data, align) = d \o tail
  <2>1. (len - 0) \div 4 = words /\ (len - 0) % 4 = spare
    BY <1>1
  <2>. QED BY <2>1 DEF MurmurHashAligned
<1>. HIDE DEF words, spare
<1>3. \A k \in 1 .. words : d[k] = Word(data, k - 1)
  <2>1. TAKE k \in 1 .. words
  <2>2. len - 4 * (k - 1) >= 4 /\ 0 + 4 * (k - 1) = 4 * (k - 1)
    BY <1>1
  <2>. QED BY <2>2 DEF Word
<1> DEFINE S == {Word(data, k) : k \in 0 .. words}
<1>4. d \in Seq(S) /\ Len(d) = words
  <2>1. \A k \in 1 .. words : k - 1 \in 0 .. words
    BY <1>1
  <2>2. \A k \in 1 .. words : d[k] \in S
    BY <1>3, <2>1
  <2>3. d \in [1 .. words -> S]
    BY <2>2
  <2>. HIDE DEF d, S
  <2>. QED BY <1>1, <2>3
<1>. HIDE DEF d
<1>5. CASE spare = 0
  <2>1. (len + 3) \div 4 = words
    BY <1>1, <1>5
  <2>2. d = WordsOf(data)
    BY <1>3, <1>4, <2>1 DEF WordsOf
  <2>. QED BY <1>2, <1>4, <1>5, <2>2
<1>6. CASE spare # 0
  <2>1. (len + 3) \div 4 = words + 1
    BY <1>1, <1>6
  <2>2. tail = <<Word(data, words)>>
    <3>1. len - 4 * words = spare /\ spare < 4 /\ len - (spare - 0) = 4 * words /\ spare - 0 = spare
      BY <1>1
    <3>2. Word(data, words) = Load(data, 4 * words, spare)
      <4>1. ~(len - 4 * words >= 4)
        BY <1>1, <3>1
      <4>. QED BY <3>1, <4>1 DEF Word
    <3>3. tail = <<Load(data, len - (spare - 0), spare - 0)>>
      BY <1>6
    <3>. QED BY <3>1, <3>2, <3>3
  <2>. HIDE DEF tail
  <2>3. d \o tail = WordsOf(data)
    <3>1. /\ Len(d \o tail) = words + 1 /\ DOMAIN (d \o tail) = 1 .. words + 1
          /\ \A k \in 1 .. words : (d \o tail)[k] = d[k]
          /\ (d \o tail)[words + 1] = Word(data, words)
      BY <1>1, <1>4, <2>2
    <3>2. \A k \in 1 .. words + 1 : (d \o tail)[k] = Word(data, k - 1)
      BY <1>1, <1>3, <3>1
    <3>3. d \o tail \in Seq(S)
      <4>1. Word(data, words) \in S
        BY <1>1
      <4>. HIDE DEF S
      <4>. QED BY <1>4, <2>2, <4>1
    <3>4. d \o tail = [k \in 1 .. words + 1 |-> (d \o tail)[k]]
      <4>. HIDE DEF S
      <4>1. d \o tail \in [1 .. Len(d \o tail) -> S]
        <5>1. \A s \in Seq(S) : s \in [1 .. Len(s) -> S]
          OBVIOUS
        <5>. QED BY <3>3, <5>1, Zenon
      <4>2. d \o tail \in [1 .. words + 1 -> S]
        BY <3>1, <4>1
      <4>. QED BY <4>2
    <3>. QED BY <2>1, <3>2, <3>4 DEF WordsOf
  <2>. QED BY <1>2, <2>3
<1>. QED BY <1>1, <1>5, <1>6

(* A sequence of the right words is that of the key. *)
LEMMA SameWords ==
    ASSUME NEW data \in Seq(Nat), NEW S, NEW s \in Seq(S),
           Len(s) = (Len(data) + 3) \div 4,
           \A k \in 1 .. Len(s) : s[k] = Word(data, k - 1)
    PROVE  s = WordsOf(data)
<1>1. s \in [1 .. Len(s) -> S]
  OBVIOUS
<1>2. s = [k \in 1 .. Len(s) |-> s[k]]
  BY <1>1
<1>. QED BY <1>2 DEF WordsOf

(* A key that begins between two words, and is read from those that lie      *)
(* across the words it has.                                                *)
LEMMA HashOfUnaligned ==
    ASSUME NEW data \in Seq(Nat), NEW align \in 1 .. 3, Len(data) >= 4
    PROVE  MurmurHashAligned(data, align) = WordsOf(data)
<1> DEFINE len == Len(data)
           before == 4 - align
           words == (len - before) \div 4
           spare == (len - before) % 4
           pack == IF spare < align THEN spare ELSE align
           d(k) == Load(data, before + 4 * (k - 1), 4)
           t(k) == IF k = 0 THEN ShiftLeft(Load(data, 0, before), align) ELSE d(k)
           Joined(k, next) == Or(ShiftRight(t(k), align), ShiftLeft(next, before))
           joined == [k \in 1 .. words |-> Joined(k - 1, d(k))]
           last == Joined(words, Load(data, before + 4 * words, pack))
           tail == IF spare = pack THEN <<>> ELSE <<Load(data, len - (spare - pack), spare - pack)>>
<1>1. /\ len \in Nat /\ before \in 1 .. 3 /\ before = 4 - align
      /\ words \in Nat /\ spare \in 0 .. 3 /\ len = 4 * words + spare + before
  <2>1. len \in Nat /\ before \in 1 .. 3 /\ before = 4 - align
    OBVIOUS
  <2>2. len - before \in Nat /\ 4 \in Nat \ {0} /\ 0 .. 4 - 1 = 0 .. 3
    BY <2>1
  <2>3. words \in Nat /\ spare \in 0 .. 3 /\ len - before = 4 * words + spare
    BY ONLY <2>2, Division
  <2>. HIDE DEF words, spare, before
  <2>. QED BY <2>1, <2>3
<1>2. MurmurHashAligned(data, align) = joined \o <<last>> \o tail
  <2>1. ~(align = 0 \/ len < 4)
    OBVIOUS
  <2>. QED BY <2>1 DEF MurmurHashAligned
<1>. HIDE DEF words, spare, before
<1>3. pack \in 0 .. 3 /\ pack <= spare /\ before + pack <= 4
  BY <1>1
<1> DEFINE Begins(first, k) ==
              \A i \in 0 .. 3 : i < before => first[i + align] = data[4 * k + i + 1]
<1>4. ASSUME NEW k \in 0 .. words
      PROVE  Begins(t(k), k)
  <2>. SUFFICES ASSUME NEW i \in 0 .. 3, i < before
                PROVE  t(k)[i + align] = data[4 * k + i + 1]
    OBVIOUS
  <2>1. i + align \in 0 .. 3 /\ i + align >= align /\ i + align - align = i
    BY <1>1
  <2>2. CASE k = 0
    <3>1. ShiftLeft(Load(data, 0, before), align)[i + align] = Load(data, 0, before)[i]
      BY <2>1 DEF ShiftLeft
    <3>2. Load(data, 0, before)[i] = data[0 + i + 1]
      BY DEF Load
    <3>3. 0 + i + 1 = 4 * k + i + 1
      BY <2>2
    <3>. QED BY <2>2, <3>1, <3>2, <3>3
  <2>3. CASE k # 0
    <3>1. d(k)[i + align] = data[before + 4 * (k - 1) + (i + align) + 1]
      BY <2>1 DEF Load
    <3>2. before + 4 * (k - 1) + (i + align) + 1 = 4 * k + i + 1
      BY <1>1
    <3>. QED BY <2>3, <3>1, <3>2
  <2>. QED BY <2>2, <2>3
<1>. HIDE DEF pack
<1> DEFINE Next(k, n) == Load(data, before + 4 * k, n)
           Join(first, next) == Or(ShiftRight(first, align), ShiftLeft(next, before))
<1>5. ASSUME NEW k \in Nat, NEW n \in 0 .. 4, NEW first, Begins(first, k),
             before + n <= 4 \/ n = 4, 4 * k + before + n <= Len(data)
      PROVE  Join(first, Next(k, n))
               = Load(data, 4 * k, IF before + n >= 4 THEN 4 ELSE before + n)
  <2> DEFINE next == Load(data, before + 4 * k, n)
             m == IF before + n >= 4 THEN 4 ELSE before + n
             a == ShiftRight(first, align)
             b == ShiftLeft(next, before)
  <2>1. before \in 1 .. 3 /\ align = 4 - before /\ m \in Nat /\ m <= 4 /\ Len(data) \in Nat
    BY <1>1
  <2>2. \A j \in 1 .. Len(data) : data[j] \in Nat
    OBVIOUS
  <2>3. ASSUME NEW i \in 0 .. 3, i < before
        PROVE  a[i] + b[i] = Load(data, 4 * k, m)[i]
    <3>1. a[i] = data[4 * k + i + 1]
      <4>1. i + align <= 3
        BY <2>1, <2>3
      <4>2. a[i] = first[i + align]
        BY <4>1 DEF ShiftRight
      <4>3. first[i + align] = data[4 * k + i + 1]
        BY <1>5, <2>3
      <4>. QED BY <4>2, <4>3
    <3>2. b[i] = 0
      BY <2>1, <2>3 DEF ShiftLeft
    <3>3. i < m /\ 4 * k + i + 1 \in 1 .. Len(data)
      <4>1. 4 * k + before + n <= Len(data)
        BY <1>5
      <4>. QED BY <2>1, <2>3, <4>1
    <3>4. Load(data, 4 * k, m)[i] = data[4 * k + i + 1]
      BY <3>3 DEF Load
    <3>. QED BY <2>2, <3>1, <3>2, <3>3, <3>4
  <2>4. ASSUME NEW i \in 0 .. 3, i >= before
        PROVE  a[i] + b[i] = Load(data, 4 * k, m)[i]
    <3>1. a[i] = 0
      BY <2>1, <2>4 DEF ShiftRight
    <3>2. i - before \in 0 .. 3 /\ b[i] = next[i - before]
      <4>1. i - before \in 0 .. 3
        BY <2>1, <2>4
      <4>. HIDE DEF next
      <4>. QED BY <2>4, <4>1 DEF ShiftLeft
    <3>3. i - before < n <=> i < m
      BY <2>1, <2>4
    <3>4. CASE i < m
      <4>1. next[i - before] = data[before + 4 * k + (i - before) + 1]
        BY <3>2, <3>3, <3>4 DEF Load
      <4>2. before + 4 * k + (i - before) + 1 = 4 * k + i + 1 /\ 4 * k + i + 1 \in 1 .. Len(data)
        <5>1. 4 * k + before + n <= Len(data)
          BY <1>5
        <5>. QED BY <2>1, <2>4, <3>3, <3>4, <5>1
      <4>3. Load(data, 4 * k, m)[i] = data[4 * k + i + 1]
        BY <3>4 DEF Load
      <4>. HIDE DEF a, b
      <4>4. b[i] = data[4 * k + i + 1] /\ data[4 * k + i + 1] \in Nat
        BY <2>2, <3>2, <4>1, <4>2
      <4>. QED BY <3>1, <4>3, <4>4
    <3>5. CASE ~(i < m)
      <4>1. next[i - before] = 0
        BY <3>2, <3>3, <3>5 DEF Load
      <4>2. Load(data, 4 * k, m)[i] = 0
        BY <3>5 DEF Load
      <4>. QED BY <3>1, <3>2, <4>1, <4>2
    <3>. QED BY <3>4, <3>5
  <2>5. \A i \in 0 .. 3 : a[i] + b[i] = Load(data, 4 * k, m)[i]
    <3>. TAKE i \in 0 .. 3
    <3>. HIDE DEF a, b, m
    <3>1. i < before \/ i >= before
      BY <2>1
    <3>. QED BY <2>3, <2>4, <3>1
  <2>. HIDE DEF a, b
  <2>6. Or(a, b) = Load(data, 4 * k, m)
    BY <2>5 DEF Or, Load
  <2>. QED BY <2>6 DEF a, b, next, m
<1>6. ASSUME NEW k \in 1 .. words
      PROVE  joined[k] = Word(data, k - 1)
  <2> DEFINE first == t(k - 1)
             j == k - 1
  <2>1. j \in Nat /\ j \in 0 .. words /\ 4 * j + before + 4 <= Len(data)
    BY <1>1
  <2>2. Begins(first, j)
    BY <1>4, <2>1
  <2>3. joined[k] = Join(first, Next(j, 4))
    OBVIOUS
  <2>. HIDE DEF first, j, joined
  <2>4. Join(first, Next(j, 4)) = Load(data, 4 * j, IF before + 4 >= 4 THEN 4 ELSE before + 4)
    <3>1. 4 \in 0 .. 4
      OBVIOUS
    <3>. HIDE DEF Join, Next, Begins
    <3>. QED BY <1>5, <2>1, <2>2, <3>1
  <2>5. before + 4 >= 4 /\ Len(data) - 4 * j >= 4
    BY <1>1, <2>1
  <2>6. Word(data, j) = Load(data, 4 * j, 4)
    BY <2>5 DEF Word
  <2>7. joined[k] = Word(data, j)
    BY <2>3, <2>4, <2>5, <2>6
  <2>. QED BY <2>7 DEF j
<1>7. last = Word(data, words)
  <2> DEFINE first == t(words)
  <2>1. words \in 0 .. words /\ pack \in 0 .. 4 /\ 4 * words + before + pack <= Len(data)
    BY <1>1, <1>3
  <2>2. Begins(first, words)
    BY <1>4, <2>1
  <2>3. last = Join(first, Next(words, pack))
    OBVIOUS
  <2>. HIDE DEF first, last
  <2>4. Join(first, Next(words, pack))
          = Load(data, 4 * words, IF before + pack >= 4 THEN 4 ELSE before + pack)
    <3>. HIDE DEF Join, Next, Begins
    <3>. QED BY <1>1, <1>3, <1>5, <2>1, <2>2
  <2>5. (IF before + pack >= 4 THEN 4 ELSE before + pack)
          = (IF Len(data) - 4 * words >= 4 THEN 4 ELSE Len(data) - 4 * words)
    BY <1>1 DEF pack
  <2>. QED BY <2>3, <2>4, <2>5 DEF Word
<1>. HIDE DEF t
<1> DEFINE S == {Word(data, k) : k \in 0 .. words + 1}
<1>8. joined \in Seq(S) /\ Len(joined) = words /\ last \in S
  <2>1. \A k \in 1 .. words : k - 1 \in 0 .. words + 1
    BY <1>1
  <2>2. \A k \in 1 .. words : joined[k] \in S
    <3>. HIDE DEF joined
    <3>. QED BY <1>6, <2>1
  <2>3. joined \in [1 .. words -> S]
    BY <2>2
  <2>4. words \in 0 .. words + 1
    BY <1>1
  <2>5. last \in S
    BY <1>7, <2>4
  <2>. HIDE DEF joined, S, last
  <2>. QED BY <1>1, <2>3, <2>5
<1>. HIDE DEF joined, last
<1>9. CASE spare <= align
  <2>1. spare = pack /\ (len + 3) \div 4 = words + 1
    BY <1>1, <1>9 DEF pack
  <2>2. tail = <<>>
    BY <2>1
  <2>. HIDE DEF tail
  <2> DEFINE s == joined \o <<last>> \o tail
  <2>3. s \in Seq(S) /\ Len(s) = words + 1
    <3>. HIDE DEF S
    <3>. QED BY <1>1, <1>8, <2>2
  <2>4. \A k \in 1 .. words : s[k] = joined[k]
    <3>. HIDE DEF S
    <3>. QED BY <1>1, <1>8, <2>2
  <2>5. s[words + 1] = last
    <3>. HIDE DEF S
    <3>1. s = joined \o <<last>>
      BY <1>8, <2>2
    <3>2. (joined \o <<last>>)[words + 1] = last
      BY <1>1, <1>8
    <3>. QED BY <3>1, <3>2
  <2>. HIDE DEF s
  <2>6. \A k \in 1 .. words + 1 : s[k] = Word(data, k - 1)
    <3>1. \A k \in 1 .. words + 1 : k \in 1 .. words \/ (k = words + 1 /\ k - 1 = words)
      BY <1>1
    <3>. QED BY <1>6, <1>7, <2>4, <2>5, <3>1
  <2>7. s = WordsOf(data)
    <3>. HIDE DEF S
    <3>. QED BY <2>1, <2>3, <2>6, SameWords
  <2>. QED BY <1>2, <2>7 DEF s
<1>10. CASE spare > align
  <2>1. pack = align /\ spare # pack /\ (len + 3) \div 4 = words + 2
    BY <1>1, <1>10 DEF pack
  <2>2. tail = <<Word(data, words + 1)>>
    <3>1. /\ len - (spare - pack) = 4 * (words + 1)
          /\ Len(data) - 4 * (words + 1) = spare - pack
          /\ ~(Len(data) - 4 * (words + 1) >= 4)
      BY <1>1, <1>10, <2>1
    <3>2. Word(data, words + 1) = Load(data, 4 * (words + 1), spare - pack)
      BY <3>1 DEF Word
    <3>3. tail = <<Load(data, len - (spare - pack), spare - pack)>>
      BY <2>1
    <3>. QED BY <3>1, <3>2, <3>3
  <2>. HIDE DEF tail
  <2> DEFINE s == joined \o <<last>> \o tail
  <2>3. Word(data, words + 1) \in S
    <3>1. words + 1 \in 0 .. words + 1
      BY <1>1
    <3>. QED BY <3>1
  <2>4. s \in Seq(S) /\ Len(s) = words + 2
    <3>. HIDE DEF S
    <3>. QED BY <1>1, <1>8, <2>2, <2>3
  <2>5. \A k \in 1 .. words : s[k] = joined[k]
    <3>. HIDE DEF S
    <3>. QED BY <1>1, <1>8, <2>2, <2>3
  <2>6. s[words + 1] = last /\ s[words + 2] = Word(data, words + 1)
    <3> DEFINE u == joined \o <<last>>
    <3>. HIDE DEF S
    <3>1. u \in Seq(S) /\ Len(u) = words + 1 /\ u[words + 1] = last
      BY <1>1, <1>8
    <3>. HIDE DEF u
    <3>2. s = u \o <<Word(data, words + 1)>>
      BY <2>2 DEF u
    <3>. HIDE DEF s
    <3>3. /\ (u \o <<Word(data, words + 1)>>)[words + 1] = u[words + 1]
          /\ (u \o <<Word(data, words + 1)>>)[words + 2] = Word(data, words + 1)
      BY <1>1, <2>3, <3>1
    <3>. QED BY <3>1, <3>2, <3>3
  <2>. HIDE DEF s
  <2>7. \A k \in 1 .. words + 2 : s[k] = Word(data, k - 1)
    <3>1. \A k \in 1 .. words + 2 :
             \/ k \in 1 .. words
             \/ k = words + 1 /\ k - 1 = words
             \/ k = words + 2 /\ k - 1 = words + 1
      BY <1>1
    <3>. QED BY <1>6, <1>7, <2>5, <2>6, <3>1
  <2>8. s = WordsOf(data)
    <3>. HIDE DEF S
    <3>. QED BY <2>1, <2>4, <2>7, SameWords
  <2>. QED BY <1>2, <2>8 DEF s
<1>. QED BY <1>1, <1>9, <1>10

(* Two processes that have the same key at different addresses look for it in   *)
(* the same place, whatever the key is: every byte of it counts once, in       *)
(* order, however it is aligned (MurmurHashAligned(), ksdcmemory.cpp).       *)
THEOREM HashIsSameAnywhere == \A data \in Seq(Nat) : SameAnywhere(data)
<1>1. TAKE data \in Seq(Nat)
<1>2. \A align \in 0 .. 3 : MurmurHashAligned(data, align) = WordsOf(data)
  <2>1. TAKE align \in 0 .. 3
  <2>2. align = 0 \/ Len(data) < 4 \/ (align \in 1 .. 3 /\ Len(data) >= 4)
    OBVIOUS
  <2>. QED BY <2>2, HashOfWhole, HashOfUnaligned
<1>3. ASSUME NEW i \in DOMAIN data
      PROVE  WordsOf(data)[(i - 1) \div 4 + 1][(i - 1) % 4] = data[i]
  <2> DEFINE q == (i - 1) \div 4
             r == (i - 1) % 4
  <2>1. /\ Len(data) \in Nat /\ i \in 1 .. Len(data) /\ i - 1 \in Nat
        /\ 4 \in Nat \ {0} /\ 0 .. 4 - 1 = 0 .. 3
    OBVIOUS
  <2>2. q \in Nat /\ r \in 0 .. 3 /\ i - 1 = 4 * q + r
    BY ONLY <2>1, Division
  <2>. HIDE DEF q, r
  <2>3. q + 1 \in 1 .. (Len(data) + 3) \div 4 /\ q + 1 - 1 = q
    BY <2>1, <2>2
  <2>4. WordsOf(data)[q + 1] = Word(data, q)
    <3> DEFINE m == q + 1
    <3>1. m \in 1 .. (Len(data) + 3) \div 4 /\ m - 1 = q
      BY <2>1, <2>2, <2>3
    <3>. HIDE DEF m
    <3>2. WordsOf(data)[m] = Word(data, m - 1)
      BY <3>1 DEF WordsOf
    <3>3. WordsOf(data)[m] = Word(data, q)
      BY <3>1, <3>2
    <3>. QED BY <3>3 DEF m
  <2> DEFINE n == IF Len(data) - 4 * q >= 4 THEN 4 ELSE Len(data) - 4 * q
  <2>5. r < n /\ 4 * q + r + 1 = i
    BY <2>1, <2>2
  <2>6. Word(data, q)[r] = data[4 * q + r + 1]
    <3>1. Word(data, q) = Load(data, 4 * q, n)
      BY DEF Word
    <3>. HIDE DEF n
    <3>. QED BY <2>2, <2>5, <3>1 DEF Load
  <2>7. WordsOf(data)[q + 1][r] = data[i]
    BY <2>4, <2>5, <2>6
  <2>. QED BY <2>7 DEF q, r
<1>. QED BY <1>2, <1>3 DEF SameAnywhere

-----------------------------------------------------------------------------
(* A lock that any number of callers take and release, in any order.         *)

(* The states of a lock, and what its calls keep: places that are free or held *)
(* are one at first, and at most one more with each call that did harm.     *)
LockStates(callers) ==
    [free : Nat, holders : SUBSET callers, without : SUBSET callers, harm : Nat]

Excludes(st) ==
    /\ IsFiniteSet(st.holders) /\ st.holders \cap st.without = {}
    /\ Cardinality(st.holders) + st.free <= 1 + st.harm
    /\ st.holders = {} => st.free > 0
    /\ st.harm = 0 => Cardinality(st.holders) + st.free = 1

(* lock() *)
LEMMA LockingKeeps ==
    ASSUME NEW callers, NEW lk, NEW st \in LockStates(callers), Excludes(st),
           NEW who \in callers
    PROVE  lock(lk, st, who) \in LockStates(callers) /\ Excludes(lock(lk, st, who))
<1>1. /\ st.free \in Nat /\ st.harm \in Nat
      /\ st.holders \in SUBSET callers /\ st.without \in SUBSET callers
  BY DEF LockStates
<1>2. Cardinality(st.holders) \in Nat
  BY FS_CardinalityType DEF Excludes
<1>3. CASE who \in st.holders \cup st.without
  BY <1>3 DEF lock
<1>4. CASE ~(who \in st.holders \cup st.without) /\ st.free > 0
  <2> DEFINE taken == [st EXCEPT !.free = @ - 1, !.holders = @ \cup {who}]
  <2>1. lock(lk, st, who) = taken
    BY <1>4 DEF lock
  <2>2. /\ taken.free = st.free - 1 /\ taken.holders = st.holders \cup {who}
        /\ taken.without = st.without /\ taken.harm = st.harm
        /\ taken \in LockStates(callers)
    <3>1. st.free - 1 \in Nat
      BY <1>1, <1>4
    <3>2. st.holders \cup {who} \in SUBSET callers
      BY <1>1
    <3>3. \A n \in Nat, hs \in SUBSET callers :
              [st EXCEPT !.free = n, !.holders = hs] \in LockStates(callers)
      BY DEF LockStates
    <3>4. taken = [st EXCEPT !.free = st.free - 1, !.holders = st.holders \cup {who}]
      BY DEF LockStates
    <3>5. taken \in LockStates(callers)
      <4>. HIDE DEF taken
      <4>. QED BY <3>1, <3>2, <3>3, <3>4
    <3>. QED BY <3>5 DEF LockStates
  <2>3. /\ IsFiniteSet(st.holders \cup {who})
        /\ Cardinality(st.holders \cup {who}) = Cardinality(st.holders) + 1
    BY <1>4, FS_AddElement DEF Excludes
  <2>. HIDE DEF taken
  <2>4. (st.holders \cup {who}) \cap st.without = {} /\ st.holders \cup {who} # {}
    BY <1>4 DEF Excludes
  <2>5. Excludes(taken)
    BY <1>1, <1>2, <2>2, <2>3, <2>4 DEF Excludes
  <2>. QED BY <2>1, <2>2, <2>5
<1>5. CASE ~(who \in st.holders \cup st.without) /\ ~(st.free > 0) /\ lk.timed
  <2> DEFINE gone == [st EXCEPT !.without = @ \cup {who}]
  <2>1. lock(lk, st, who) = gone
    BY <1>5 DEF lock
  <2>2. /\ gone.free = st.free /\ gone.holders = st.holders
        /\ gone.without = st.without \cup {who} /\ gone.harm = st.harm
        /\ gone \in LockStates(callers)
    BY <1>1 DEF LockStates
  <2>. HIDE DEF gone
  <2>3. st.holders \cap (st.without \cup {who}) = {}
    BY <1>5 DEF Excludes
  <2>4. Excludes(gone)
    BY <1>5, <2>2, <2>3 DEF Excludes
  <2>. QED BY <2>1, <2>2, <2>4
<1>6. CASE ~(who \in st.holders \cup st.without) /\ ~(st.free > 0) /\ ~lk.timed
  BY <1>6 DEF lock
<1>. QED BY <1>3, <1>4, <1>5, <1>6

(* unlock() *)
LEMMA UnlockingKeeps ==
    ASSUME NEW callers, NEW lk, NEW st \in LockStates(callers), Excludes(st),
           NEW who \in callers
    PROVE  unlock(lk, st, who) \in LockStates(callers) /\ Excludes(unlock(lk, st, who))
<1>1. /\ st.free \in Nat /\ st.harm \in Nat
      /\ st.holders \in SUBSET callers /\ st.without \in SUBSET callers
  BY DEF LockStates
<1>2. Cardinality(st.holders) \in Nat
  BY FS_CardinalityType DEF Excludes
<1>3. CASE who \notin st.holders \cup st.without
  BY <1>3 DEF unlock
<1>4. CASE who \in st.holders \cup st.without
  <2> DEFINE free == IF lk.kind = "semaphore" THEN st.free + 1 ELSE 1
             harm == IF who \in st.without /\ (lk.kind = "semaphore" \/ st.holders # {})
                     THEN st.harm + 1 ELSE st.harm
             after == [free |-> free, holders |-> st.holders \ {who},
                       without |-> st.without \ {who}, harm |-> harm]
  <2>1. unlock(lk, st, who) = after
    BY <1>4 DEF unlock
  <2>2. free \in Nat /\ harm \in Nat /\ free > 0
    BY <1>1
  <2>3. /\ after.free = free /\ after.holders = st.holders \ {who}
        /\ after.without = st.without \ {who} /\ after.harm = harm
    OBVIOUS
  <2>4. after \in LockStates(callers)
    <3>. HIDE DEF free, harm
    <3>. QED BY <1>1, <2>2 DEF LockStates
  <2>5. IsFiniteSet(st.holders \ {who})
    BY FS_RemoveElement DEF Excludes
  <2>6. (st.holders \ {who}) \cap (st.without \ {who}) = {}
    BY DEF Excludes
  <2>7. CASE who \in st.holders
    <3>1. Cardinality(st.holders \ {who}) = Cardinality(st.holders) - 1 /\ who \notin st.without
      BY <2>7, FS_RemoveElement DEF Excludes
    <3>2. harm = st.harm
      BY <3>1
    <3>3. Cardinality(st.holders) >= 1
      BY <1>2, <2>7, FS_EmptySet DEF Excludes
    <3>4. free <= st.free + 1
      BY <1>1
    <3>5. st.harm = 0 => free = st.free + 1
      <4>1. st.harm = 0 => st.free = 0
        BY <1>1, <1>2, <3>3 DEF Excludes
      <4>. QED BY <1>1, <4>1
    <3>. HIDE DEF free, harm, after
    <3>7. Excludes(after)
      BY <1>1, <1>2, <2>2, <2>3, <2>5, <2>6, <3>1, <3>2, <3>3, <3>4, <3>5 DEF Excludes
    <3>. QED BY <2>1, <2>4, <3>7
  <2>8. CASE who \in st.without /\ who \notin st.holders
    <3>1. st.holders \ {who} = st.holders
      BY <2>8
    <3>2. CASE st.holders = {}
      <4>1. Cardinality(st.holders) = 0
        BY <3>2, FS_EmptySet
      <4>2. free <= 1 + harm
        <5>1. st.free <= 1 + st.harm
          BY <1>1, <4>1 DEF Excludes
        <5>. QED BY <1>1, <2>8, <5>1
      <4>3. harm = 0 => free = 1
        <5>1. harm = 0 => st.harm = 0 /\ lk.kind # "semaphore"
          BY <1>1, <2>8
        <5>. QED BY <5>1
      <4>. HIDE DEF free, harm, after
      <4>4. /\ after.holders = st.holders /\ after.free = free /\ after.harm = harm
            /\ after.without = st.without \ {who}
        BY <2>3, <3>1
      <4>5. Cardinality(st.holders) + free <= 1 + harm
        BY <2>2, <4>1, <4>2
      <4>6. Excludes(after)
        BY <2>2, <2>5, <2>6, <3>1, <4>1, <4>3, <4>4, <4>5 DEF Excludes
      <4>. QED BY <2>1, <2>4, <4>6
    <3>3. CASE st.holders # {}
      <4>1. harm = st.harm + 1 /\ free <= st.free + 1
        BY <1>1, <2>8, <3>3
      <4>. HIDE DEF free, harm, after
      <4>2. /\ after.holders = st.holders /\ after.free = free /\ after.harm = harm
            /\ after.without = st.without \ {who}
        BY <2>3, <3>1
      <4>3. Cardinality(st.holders) + free <= 1 + harm
        <5>1. Cardinality(st.holders) + st.free <= 1 + st.harm
          BY DEF Excludes
        <5>. QED BY <1>1, <1>2, <2>2, <4>1, <5>1
      <4>4. Excludes(after)
        BY <1>1, <2>2, <2>5, <2>6, <3>1, <4>1, <4>2, <4>3 DEF Excludes
      <4>. QED BY <2>1, <2>4, <4>4
    <3>. QED BY <3>2, <3>3
  <2>. QED BY <1>4, <2>7, <2>8
<1>. QED BY <1>3, <1>4

(* initialize() *)
LEMMA AttachingKeeps ==
    ASSUME NEW callers, NEW st \in LockStates(callers), Excludes(st)
    PROVE  attach(st) \in LockStates(callers) /\ Excludes(attach(st))
<1>1. /\ st.free \in Nat /\ st.harm \in Nat
      /\ st.holders \in SUBSET callers /\ st.without \in SUBSET callers
  BY DEF LockStates
<1>2. Cardinality(st.holders) \in Nat
  BY FS_CardinalityType DEF Excludes
<1> DEFINE harm == IF st.holders # {} THEN st.harm + 1 ELSE st.harm
           after == [st EXCEPT !.free = 1, !.harm = harm]
<1>3. attach(st) = after
  BY DEF attach
<1>4. harm \in Nat
  BY <1>1
<1>5. /\ after.free = 1 /\ after.harm = harm
      /\ after.holders = st.holders /\ after.without = st.without
      /\ after \in LockStates(callers)
  <2>. HIDE DEF harm
  <2>. QED BY <1>4 DEF LockStates
<1>6. CASE st.holders = {}
  <2>1. Cardinality(st.holders) = 0
    BY <1>6, FS_EmptySet
  <2>. HIDE DEF harm, after
  <2>2. Excludes(after)
    BY <1>4, <1>5, <2>1 DEF Excludes
  <2>. QED BY <1>3, <1>5, <2>2
<1>7. CASE st.holders # {}
  <2>1. harm = st.harm + 1 /\ harm # 0
    BY <1>1, <1>7
  <2>2. Cardinality(st.holders) <= 1 + st.harm
    BY <1>1, <1>2 DEF Excludes
  <2>. HIDE DEF harm, after
  <2>3. Excludes(after)
    BY <1>1, <1>2, <1>5, <1>7, <2>1, <2>2 DEF Excludes
  <2>. QED BY <1>3, <1>5, <2>3
<1>. QED BY <1>6, <1>7

(* One of the calls. *)
Stepped(lk, st, call) ==
    CASE call.op = "lock" -> lock(lk, st, call.who)
      [] call.op = "unlock" -> unlock(lk, st, call.who)
      [] call.op = "attach" -> attach(st)

LockCalls(callers) == [op : {"lock", "unlock", "attach"}, who : callers]

(* After any calls. *)
LEMMA LocksExclude ==
    ASSUME NEW callers, NEW lk, NEW history \in Seq(LockCalls(callers))
    PROVE  LocksTaken(lk, history) \in LockStates(callers) /\ Excludes(LocksTaken(lk, history))
<1> DEFINE N == Len(history)
           T == {st \in LockStates(callers) : Excludes(st)}
           F == [k \in 1 .. N |-> [st \in T |-> Stepped(lk, st, history[k])]]
<1>1. N \in Nat /\ DOMAIN history = 1 .. N
  OBVIOUS
<1>2. Initialized \in T
  <2>1. IsFiniteSet({}) /\ Cardinality({}) = 0
    BY FS_EmptySet
  <2>2. Initialized \in LockStates(callers)
    BY DEF Initialized, LockStates
  <2>3. Excludes(Initialized)
    BY <2>1 DEF Initialized, Excludes
  <2>. QED BY <2>2, <2>3
<1>3. \A k \in 1 .. N : \A st \in T : Stepped(lk, st, history[k]) \in T
  <2>. SUFFICES ASSUME NEW k \in 1 .. N, NEW st \in T
                PROVE  Stepped(lk, st, history[k]) \in T
    OBVIOUS
  <2>1. history[k] \in LockCalls(callers)
    BY <1>1
  <2>2. history[k].who \in callers /\ history[k].op \in {"lock", "unlock", "attach"}
    BY <2>1 DEF LockCalls
  <2>3. CASE history[k].op = "lock"
    BY <2>2, <2>3, LockingKeeps DEF Stepped
  <2>4. CASE history[k].op = "unlock"
    BY <2>2, <2>4, UnlockingKeeps DEF Stepped
  <2>5. CASE history[k].op = "attach"
    BY <2>2, <2>5, AttachingKeeps DEF Stepped
  <2>. QED BY <2>2, <2>3, <2>4, <2>5
<1>. HIDE DEF T
<1>4. F \in Steps(N, T)
  BY <1>3 DEF Steps
<1>. HIDE DEF N
<1>5. PICK h : Iterates(h, N, T, Initialized, F)
  <2>. HIDE DEF F
  <2>. QED BY <1>1, <1>2, <1>4, FoldExists
<1>6. \E it : it = [s \in SUBSET DOMAIN history |->
                       IF s = {} THEN Initialized
                       ELSE Stepped(lk, it[s \ {Max(s)}], history[Max(s)])]
  <2>1. ASSUME NEW s \in SUBSET (1 .. N), s # {}
        PROVE  h[s] = Stepped(lk, h[s \ {Max(s)}], history[Max(s)])
    <3>1. Max(s) \in 1 .. N /\ s \ {Max(s)} \in SUBSET (1 .. N)
      BY <1>1, <2>1, MaxFacts
    <3>2. h[s \ {Max(s)}] \in T
      BY <1>5, <3>1 DEF Iterates
    <3>. QED BY <1>5, <2>1, <3>1, <3>2 DEF Iterates
  <2>. HIDE DEF F
  <2>2. h = [s \in SUBSET DOMAIN history |->
                IF s = {} THEN Initialized
                ELSE Stepped(lk, h[s \ {Max(s)}], history[Max(s)])]
    BY <1>1, <1>5, <2>1 DEF Iterates
  <2>. QED BY <2>2
<1>7. PICK it : /\ it = [s \in SUBSET DOMAIN history |->
                              IF s = {} THEN Initialized
                              ELSE Stepped(lk, it[s \ {Max(s)}], history[Max(s)])]
                /\ LocksTaken(lk, history) = it[DOMAIN history]
  BY <1>6 DEF LocksTaken, Stepped, FoldLeft, MapThenFoldSet
<1>8. Loops(it, N, T, Initialized, F)
  <2>1. ASSUME NEW s \in SUBSET (1 .. N), s # {}, it[s \ {Max(s)}] \in T
        PROVE  it[s] = F[Max(s)][it[s \ {Max(s)}]]
    <3>1. Max(s) \in 1 .. N
      BY <1>1, <2>1, MaxFacts
    <3>2. it[s] = Stepped(lk, it[s \ {Max(s)}], history[Max(s)])
      BY <1>1, <1>7, <2>1
    <3>. QED BY <2>1, <3>1, <3>2
  <2>2. it[{}] = Initialized
    BY <1>1, <1>7
  <2>. HIDE DEF F
  <2>3. Iterated(it, N, T, Initialized, F)
    BY <2>1, <2>2 DEF Iterated
  <2>. QED BY <1>1, <1>2, <1>4, <2>3, FoldLoop
<1>9. it[1 .. N] \in T
  <2>1. N \in 0 .. N
    BY <1>1
  <2>. QED BY <1>8, <2>1 DEF Loops
<1>10. LocksTaken(lk, history) \in T
  BY <1>1, <1>7, <1>9
<1>. QED BY <1>10 DEF T

(* Whoever takes and releases the lock of a cache and attaches to it, and     *)
(* however often: it has one holder, or none and can be taken, until a       *)
(* process attaches while it is held, or one whose lock() timed out releases  *)
(* it; every such call lets in no more than one; and a lock that nobody      *)
(* holds can be taken (initialize(), lock() and unlock() of pthreadLock,      *)
(* semaphoreLock and their timed variants, and ksdcmapping_p.h:307).          *)
THEOREM LockIsKept ==
    \A callers, lk :
        \A history \in Seq([op : {"lock", "unlock", "attach"}, who : callers]) :
            LockKept(lk, history)
<1>. SUFFICES ASSUME NEW callers, NEW lk, NEW history \in Seq(LockCalls(callers))
              PROVE  LockKept(lk, history)
  BY DEF LockCalls
<1> DEFINE st == LocksTaken(lk, history)
<1>1. st \in LockStates(callers) /\ Excludes(st)
  BY LocksExclude
<1>2. st.free \in Nat /\ st.harm \in Nat
  BY <1>1 DEF LockStates
<1>3. Cardinality(st.holders) \in Nat
  BY <1>1, FS_CardinalityType DEF Excludes
<1>. QED BY <1>1, <1>2, <1>3 DEF LockKept, Excludes
=============================================================================
