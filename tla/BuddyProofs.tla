---------------------------- MODULE BuddyProofs -----------------------------
(***************************************************************************)
(* The proofs about Buddy, for every number of CPUs, every BUDDY_MAX_ORDER *)
(* and every region that satisfies the assumptions of that module: chunk   *)
(* sizes and alignment, the lists, the inductive invariant, what splitting *)
(* and merging do to a tiling of the memory, what linking and unlinking do *)
(* to the lists, one lemma per action of a call and of populate_page, and  *)
(* the theorems.                                                           *)
(***************************************************************************)
EXTENDS Buddy, TLAPS

-----------------------------------------------------------------------------
(* Multiples of a positive number, for ROUND_DOWN and alignment.           *)

\* Euclidean division, from which the lemmas below follow.
LEMMA DivMod ==
  ASSUME NEW a \in Int, NEW n \in Nat \ {0}
  PROVE  /\ a \div n \in Int
         /\ a = n * (a \div n) + (a % n)
         /\ a % n \in 0 .. n - 1
OBVIOUS

\* A product is a multiple of its factor.
LEMMA ProductMod ==
  ASSUME NEW n \in Nat \ {0}, NEW q \in Int, NEW a \in Int, a = n * q
  PROVE  a % n = 0
OBVIOUS

\* What Euclidean division leaves.
LEMMA RemainderMod ==
  ASSUME NEW n \in Nat \ {0}, NEW q \in Int, NEW r \in 0 .. n - 1,
         NEW a \in Int, a = n * q + r
  PROVE  a % n = r
OBVIOUS

\* A multiple is a product.
LEMMA Multiple ==
  ASSUME NEW n \in Nat \ {0}, NEW a \in Int, a % n = 0
  PROVE  \E q \in Int : a = n * q
<1>1. a = n * (a \div n) /\ a \div n \in Int
  BY DivMod
<1> QED
  BY <1>1, Zenon

\* Sums and differences of multiples are multiples.
LEMMA SumMod ==
  ASSUME NEW n \in Nat \ {0}, NEW a \in Int, NEW b \in Int,
         a % n = 0, b % n = 0
  PROVE  (a + b) % n = 0 /\ (a - b) % n = 0
<1>1. PICK q \in Int : a = n * q
  BY Multiple
<1>2. PICK r \in Int : b = n * r
  BY Multiple
<1>3. a + b = n * (q + r) /\ a - b = n * (q - r)
  BY <1>1, <1>2
<1>4. (a + b) % n = 0
  BY <1>3, ProductMod, q + r \in Int, a + b \in Int, Zenon
<1>5. (a - b) % n = 0
  BY <1>3, ProductMod, q - r \in Int, a - b \in Int
<1> QED
  BY <1>4, <1>5

\* Being a multiple is transitive.
LEMMA TransMod ==
  ASSUME NEW n \in Nat \ {0}, NEW m \in Nat \ {0}, NEW a \in Int,
         m % n = 0, a % m = 0
  PROVE  a % n = 0
<1>1. PICK q \in Int : a = m * q
  BY Multiple, Zenon
<1>2. PICK r \in Int : m = n * r
  BY Multiple
<1>3. a = n * (r * q) /\ r * q \in Int
  BY <1>1, <1>2
<1> QED
  BY <1>3, ProductMod

\* Two multiples of n less than n apart are equal.
LEMMA CloseMultiples ==
  ASSUME NEW n \in Nat \ {0}, NEW a \in Int, NEW b \in Int,
         a % n = 0, b % n = 0, a < b + n
  PROVE  a <= b
<1>1. PICK q \in Int : a = n * q
  BY Multiple
<1>2. PICK r \in Int : b = n * r
  BY Multiple
<1>3. n * q < n * (r + 1)
  BY <1>1, <1>2
<1>4. q < r + 1
  <2> SUFFICES ASSUME q >= r + 1 PROVE FALSE
    OBVIOUS
  <2>1. n * q >= n * (r + 1)
    OBVIOUS
  <2> QED
    BY <2>1, <1>3
<1>5. n * q <= n * r
  BY <1>4
<1> QED
  BY <1>1, <1>2, <1>5

\* Rounding a multiple of n down to 2n either keeps it or takes n off.
LEMMA HalfMod ==
  ASSUME NEW n \in Nat \ {0}, NEW a \in Int, a % n = 0
  PROVE  a % (2 * n) = 0 \/ a % (2 * n) = n
<1>1. PICK q \in Int : a = n * q
  BY Multiple, Zenon
<1>2. PICK d \in Nat \ {0} : d = 2 * n
  OBVIOUS
<1>3. PICK h \in Int : q = 2 * h \/ q = 2 * h + 1
  <2>1. q = 2 * (q \div 2) + (q % 2) /\ q \div 2 \in Int /\ q % 2 \in {0, 1}
    OBVIOUS
  <2> QED
    BY <2>1
<1>4. CASE q = 2 * h
  <2>1. a = d * h
    BY <1>1, <1>2, <1>4
  <2>2. a % d = 0
    BY <2>1, ProductMod
  <2> QED
    BY <2>2, <1>2
<1>5. CASE q = 2 * h + 1
  <2>1. a = d * h + n
    BY <1>1, <1>2, <1>5
  <2>2. n \in 0 .. d - 1
    BY <1>2
  <2>3. a % d = n
    BY <2>1, <2>2, RemainderMod
  <2> QED
    BY <2>3, <1>2
<1> QED
  BY <1>3, <1>4, <1>5

-----------------------------------------------------------------------------
(* The geometry of a set H of chunk heads whose orders are given by o.     *)

Top(p, o) == p + BUDDY_CHUNK_PAGES_COUNT(o[p])

Tiling(H, o) ==
  /\ H \subseteq Pages
  /\ \A p \in H : Aligned(p, o[p]) /\ Top(p, o) <= End
  /\ \A p, q \in H : p < q => Top(p, o) <= q

\* A chunk of order k at p would overlap no chunk of H.
Clear(p, k, H, o) ==
  \A q \in H : Top(q, o) <= p \/ p + BUDDY_CHUNK_PAGES_COUNT(k) <= q

Covers(H, o, lo, hi) ==
  \A r \in lo .. hi - 1 : \E p \in H : p <= r /\ r < Top(p, o)

-----------------------------------------------------------------------------
(* The inductive invariant.                                                *)

Distinct(list) ==
  \A i, j \in 1 .. Len(list) : list[i] = list[j] => i = j

ListsOK ==
  \A k \in Orders : nr_free[k] = Len(free_list[k]) /\ Distinct(free_list[k])

FieldsOK ==
  \A k \in Orders : \A p \in Pages :
    page_in_list(p, free_list[k]) => order[p] = k /\ allocated[p] = 0

\* Only the holder of free_lists_lock is inside a call.
Mutex == \A c \in CPUs : pc[c] # "idle" => lock = c

\* Nobody calls the allocator before populate_page has finished.
BootFirst == phase # "ready" => lock = NULL /\ live = {}

LiveOK == \A x \in live : order[x[1]] = x[2] /\ allocated[x[1]] = 1

\* The allocated field is set only in the first page of a chunk a caller holds:
\* merges and splits leave no stale mark behind.
AllocatedIsLive == \A p \in Pages : allocated[p] = 1 => p \in LiveHeads

BusyOK ==
  \A c \in CPUs :
    Busy(c) => /\ chunk[c] \in Pages
               /\ chunk[c] \notin FreeHeads
               /\ allocated[chunk[c]] = 0

SplitOK ==
  \A c \in CPUs :
    pc[c] = "split" => level[c] = order[chunk[c]] /\ want[c] <= level[c]

\* How far populate_page has come.
BootOK ==
  /\ phase = "forward" =>
       /\ FirstAligned <= fill /\ Aligned(fill, fill_order)
       /\ Covers(Heads, order, FirstAligned, fill)
       /\ \A p \in Heads : FirstAligned <= p /\ Top(p, order) <= fill
  /\ phase = "backward" =>
       /\ Aligned(fill, fill_order)
       /\ Covers(Heads, order, fill, End)
       /\ \A p \in Heads : fill <= p
  /\ phase = "ready" => Covers(Heads, order, Start, End)

IInv ==
  /\ TypeOK /\ ListsOK /\ FieldsOK /\ NoHalt
  /\ Mutex /\ BootFirst /\ BootOK
  /\ Tiling(Heads, order)
  /\ LiveOK /\ AllocatedIsLive /\ BusyOK /\ SplitOK

-----------------------------------------------------------------------------
(* Chunk sizes and alignment.                                              *)

\* Chunk sizes are positive, start at one page and double with each order.
LEMMA CountFacts ==
  /\ MaxOrder \in Nat /\ MaxOrder >= 2 /\ MaxOrder - 1 \in Orders
  /\ Start \in Nat /\ End \in Nat
  /\ BUDDY_CHUNK_PAGES_COUNT(0) = 1
  /\ \A k \in Orders :
       /\ k \in Nat /\ k <= MaxOrder - 1
       /\ BUDDY_CHUNK_PAGES_COUNT(k) \in Nat \ {0}
       /\ BUDDY_CHUNK_PAGES_COUNT(k + 1) = 2 * BUDDY_CHUNK_PAGES_COUNT(k)
       /\ \A i \in 0 .. k :
            i \in Orders
            /\ BUDDY_CHUNK_PAGES_COUNT(k) % BUDDY_CHUNK_PAGES_COUNT(i) = 0
<1>1. 2 ^ 0 = 1
  OBVIOUS
<1> QED
  BY <1>1, RegionAssumption, ShiftAssumption
     DEF Orders, BUDDY_CHUNK_PAGES_COUNT

\* Parts of CountFacts, for the steps that need no more.
LEMMA CountPos == \A k \in Orders : BUDDY_CHUNK_PAGES_COUNT(k) \in Nat \ {0}
BY CountFacts, Zenon

\* A chunk is two chunks of the order below (split_chunk, merge_chunk).
LEMMA CountDouble ==
  \A k \in Orders :
    BUDDY_CHUNK_PAGES_COUNT(k + 1) = 2 * BUDDY_CHUNK_PAGES_COUNT(k)
BY CountFacts, Zenon

\* Page frame numbers are integers of the region.
LEMMA PageFacts == \A p : p \in Pages <=> p \in Int /\ Start <= p /\ p < End
BY RegionAssumption DEF Pages

\* A chunk has at least one page.
LEMMA TopFacts ==
  ASSUME NEW o \in [Pages -> Orders], NEW q \in Pages
  PROVE  Top(q, o) \in Int /\ q < Top(q, o)
<1>1. o[q] \in Orders /\ q \in Int
  BY PageFacts, Zenon
<1>2. BUDDY_CHUNK_PAGES_COUNT(o[q]) \in Nat \ {0}
  BY <1>1, CountPos, Zenon
<1> QED BY <1>1, <1>2 DEF Top

\* Aligned to a chunk size means aligned to every smaller one.
LEMMA AlignedBelow ==
  ASSUME NEW k \in Orders, NEW i \in 0 .. k, NEW p \in Int, Aligned(p, k)
  PROVE  Aligned(p, i)
BY CountFacts, TransMod, Zenon DEF Aligned

\* Alignment is preserved by adding or subtracting aligned numbers.
LEMMA AlignedSum ==
  ASSUME NEW k \in Orders, NEW p \in Int, NEW q \in Int,
         Aligned(p, k), Aligned(q, k)
  PROVE  Aligned(p + q, k) /\ Aligned(p - q, k)
BY CountFacts, SumMod, Zenon DEF Aligned

\* A chunk size is aligned to itself and to every smaller one.
LEMMA AlignedCount ==
  ASSUME NEW k \in Orders, NEW i \in 0 .. k
  PROVE  Aligned(BUDDY_CHUNK_PAGES_COUNT(k), i)
BY CountFacts, Zenon DEF Aligned

\* Aligned numbers less than a chunk apart.
LEMMA AlignedClose ==
  ASSUME NEW k \in Orders, NEW p \in Int, NEW q \in Int,
         Aligned(p, k), Aligned(q, k), p < q + BUDDY_CHUNK_PAGES_COUNT(k)
  PROVE  p <= q
BY CountFacts, CloseMultiples, Zenon DEF Aligned

\* The region ends on a boundary of every chunk size.
LEMMA EndAligned == \A k \in Orders : Aligned(End, k)
<1>1. Aligned(End, MaxOrder - 1)
  BY RegionAssumption, Zenon DEF Aligned
<1> QED
  BY <1>1, CountFacts, AlignedBelow DEF Orders

\* Where populate_page starts: an aligned page inside the region.
LEMMA FirstAlignedOK ==
  /\ FirstAligned \in Start .. End - 1
  /\ Aligned(FirstAligned, MaxOrder - 1)
<1> DEFINE n == BUDDY_CHUNK_PAGES_COUNT(MaxOrder - 1)
           a == Start + n - 1
<1>1. n \in Nat \ {0} /\ a \in Int /\ Start \in Nat /\ End \in Nat
  BY CountFacts
<1>2. FirstAligned = (a \div n) * n
  BY Zenon DEF FirstAligned, ROUND_UP
<1>3. /\ a \div n \in Int
      /\ a = n * (a \div n) + (a % n)
      /\ a % n \in 0 .. n - 1
  <2> HIDE DEF n, a
  <2> QED BY <1>1, DivMod, Zenon
<1>4. FirstAligned = n * (a \div n) /\ FirstAligned \in Int
  <2> HIDE DEF n, a
  <2> QED BY <1>1, <1>2, <1>3
<1>5. FirstAligned >= Start
  BY <1>1, <1>3, <1>4
<1>6. FirstAligned % n = 0
  <2> HIDE DEF n, a
  <2> QED BY <1>1, <1>3, <1>4, ProductMod, Zenon
<1> QED
  BY <1>1, <1>4, <1>5, <1>6, RegionAssumption DEF Aligned

\* What merge_chunk's ROUND_DOWN gives: p is the low or the high half of the
\* chunk one order up.
LEMMA RoundDownHalf ==
  ASSUME NEW k \in Orders, k + 1 \in Orders, NEW p \in Int, Aligned(p, k)
  PROVE  LET n == BUDDY_CHUNK_PAGES_COUNT(k)
             m == ROUND_DOWN(p, BUDDY_CHUNK_PAGES_COUNT(k + 1))
         IN  m \in {p, p - n} /\ Aligned(m, k + 1)
<1> DEFINE n == BUDDY_CHUNK_PAGES_COUNT(k)
           d == BUDDY_CHUNK_PAGES_COUNT(k + 1)
           m == ROUND_DOWN(p, d)
<1>1. n \in Nat \ {0} /\ d \in Nat \ {0} /\ d = 2 * n
  BY CountFacts, Zenon
<1>2. p % (2 * n) = 0 \/ p % (2 * n) = n
  BY <1>1, HalfMod, Zenon DEF Aligned
<1>3. m = p - (p % d)
  BY Zenon DEF ROUND_DOWN
<1>4. m \in {p, p - n}
  BY <1>1, <1>2, <1>3
<1>5. m = d * (p \div d) /\ p \div d \in Int /\ m \in Int
  <2> HIDE DEF n, d, m
  <2>0. d \in Nat \ {0}
    BY <1>1, Zenon
  <2>1. p = d * (p \div d) + (p % d) /\ p \div d \in Int /\ p % d \in 0 .. d - 1
    BY <2>0, DivMod, Zenon
  <2>2. d * (p \div d) \in Int
    BY <2>1, <1>1
  <2> QED BY <2>1, <2>2, <1>3
<1>6. m % d = 0
  <2> HIDE DEF n, d, m
  <2> QED BY <1>1, <1>5, ProductMod, Zenon
<1> QED
  BY <1>4, <1>6, Zenon DEF Aligned

-----------------------------------------------------------------------------
(* Lists.                                                                  *)

\* list_add puts exactly one more page on the list.
LEMMA ListAdd ==
  ASSUME NEW S, NEW l \in Seq(S), NEW p \in S
  PROVE  /\ list_add(p, l) \in Seq(S)
         /\ Len(list_add(p, l)) = Len(l) + 1
         /\ \A q : page_in_list(q, list_add(p, l)) <=> q = p \/ page_in_list(q, l)
         /\ Distinct(l) /\ ~page_in_list(p, l) => Distinct(list_add(p, l))
<1> DEFINE m == list_add(p, l)
<1>1. /\ m \in Seq(S) /\ Len(m) = Len(l) + 1 /\ Len(l) \in Nat
      /\ m[1] = p
      /\ \A i \in 1 .. Len(l) : m[i + 1] = l[i]
      /\ \A i \in 2 .. Len(l) + 1 : m[i] = l[i - 1]
  BY DEF list_add
<1> HIDE DEF m
<1>2. ASSUME NEW q PROVE page_in_list(q, m) <=> q = p \/ page_in_list(q, l)
  <2>1. ASSUME page_in_list(q, m) PROVE q = p \/ page_in_list(q, l)
    <3>1. PICK i \in 1 .. Len(m) : m[i] = q
      BY <2>1, Zenon DEF page_in_list
    <3>2. CASE i = 1
      BY <3>1, <3>2, <1>1, Zenon
    <3>3. CASE i # 1
      <4>1. i - 1 \in 1 .. Len(l) /\ l[i - 1] = q
        BY <3>1, <3>3, <1>1
      <4> QED BY <4>1, Zenon DEF page_in_list
    <3> QED BY <3>2, <3>3, Zenon
  <2>2. ASSUME q = p PROVE page_in_list(q, m)
    BY <2>2, <1>1 DEF page_in_list
  <2>3. ASSUME page_in_list(q, l) PROVE page_in_list(q, m)
    <3>1. PICK i \in 1 .. Len(l) : l[i] = q
      BY <2>3, Zenon DEF page_in_list
    <3>2. i + 1 \in 1 .. Len(m) /\ m[i + 1] = q
      BY <3>1, <1>1
    <3> QED BY <3>2, Zenon DEF page_in_list
  <2> QED BY <2>1, <2>2, <2>3, Zenon
<1>3. ASSUME Distinct(l), ~page_in_list(p, l) PROVE Distinct(m)
  <2>1. ASSUME NEW i \in 1 .. Len(m), NEW j \in 1 .. Len(m), m[i] = m[j], i < j
        PROVE  FALSE
    <3>1. j - 1 \in 1 .. Len(l) /\ m[j] = l[j - 1]
      BY <2>1, <1>1
    <3>2. CASE i = 1
      BY <3>1, <3>2, <2>1, <1>1, <1>3, Zenon DEF page_in_list
    <3>3. CASE i # 1
      <4>1. i - 1 \in 1 .. Len(l) /\ m[i] = l[i - 1]
        BY <3>3, <2>1, <1>1
      <4>2. i - 1 = j - 1
        BY <3>1, <4>1, <2>1, <1>3, Zenon DEF Distinct
      <4> QED BY <4>2, <2>1, <1>1
    <3> QED BY <3>2, <3>3, Zenon
  <2>2. SUFFICES ASSUME NEW i \in 1 .. Len(m), NEW j \in 1 .. Len(m), m[i] = m[j]
                 PROVE  i = j
    BY Zenon DEF Distinct
  <2>3. ~(i < j) /\ ~(j < i)
    BY <2>1, <2>2, Zenon
  <2>4. Len(m) \in Nat
    BY <1>1
  <2> QED BY <2>3, <2>4
<1> QED
  BY <1>1, <1>2, <1>3, Zenon DEF m

\* Taking the head of a list removes exactly that page.
LEMMA ListTail ==
  ASSUME NEW S, NEW l \in Seq(S), l # <<>>, Distinct(l)
  PROVE  /\ Head(l) \in S /\ page_in_list(Head(l), l)
         /\ Tail(l) \in Seq(S)
         /\ Len(l) >= 1 /\ Len(Tail(l)) = Len(l) - 1
         /\ \A q : page_in_list(q, Tail(l)) <=> q # Head(l) /\ page_in_list(q, l)
         /\ Distinct(Tail(l))
<1> DEFINE t == Tail(l)
<1>1. /\ t \in Seq(S) /\ Len(t) = Len(l) - 1 /\ Len(l) \in Nat /\ Len(l) >= 1
      /\ Head(l) = l[1] /\ l[1] \in S
      /\ \A i \in 1 .. Len(t) : t[i] = l[i + 1]
  OBVIOUS
<1> HIDE DEF t
<1>2. ASSUME NEW q
      PROVE  page_in_list(q, t) <=> q # Head(l) /\ page_in_list(q, l)
  <2>1. ASSUME page_in_list(q, t) PROVE q # Head(l) /\ page_in_list(q, l)
    <3>1. PICK i \in 1 .. Len(t) : t[i] = q
      BY <2>1, Zenon DEF page_in_list
    <3>2. i + 1 \in 1 .. Len(l) /\ l[i + 1] = q /\ i + 1 # 1 /\ 1 \in 1 .. Len(l)
      BY <3>1, <1>1
    <3> QED BY <3>2, <1>1, Zenon DEF page_in_list, Distinct
  <2>2. ASSUME q # Head(l), page_in_list(q, l) PROVE page_in_list(q, t)
    <3>1. PICK i \in 1 .. Len(l) : l[i] = q
      BY <2>2, Zenon DEF page_in_list
    <3>2. i - 1 \in 1 .. Len(t) /\ t[i - 1] = q
      BY <3>1, <2>2, <1>1
    <3> QED BY <3>2, Zenon DEF page_in_list
  <2> QED BY <2>1, <2>2, Zenon
<1>3. Distinct(t)
  BY <1>1 DEF Distinct
<1>4. page_in_list(Head(l), l)
  BY <1>1 DEF page_in_list
<1> QED
  BY <1>1, <1>2, <1>3, <1>4, Zenon DEF t

\* list_del removes exactly the page it is given.
LEMMA ListDel ==
  ASSUME NEW S, NEW l \in Seq(S), NEW p, page_in_list(p, l), Distinct(l)
  PROVE  /\ list_del(p, l) \in Seq(S)
         /\ Len(l) >= 1 /\ Len(list_del(p, l)) = Len(l) - 1
         /\ \A q : page_in_list(q, list_del(p, l)) <=>
                     q # p /\ page_in_list(q, l)
         /\ Distinct(list_del(p, l))
<1> DEFINE at == CHOOSE i \in 1 .. Len(l) : l[i] = p
           d == list_del(p, l)
<1>1. at \in 1 .. Len(l) /\ l[at] = p
  BY Zenon DEF page_in_list
<1>2. Len(l) \in Nat /\ Len(l) >= 1 /\ at \in Nat
  BY <1>1
<1>3. d = [i \in 1 .. Len(l) - 1 |-> IF i < at THEN l[i] ELSE l[i + 1]]
  BY Zenon DEF list_del
<1> HIDE DEF at, d
<1>4. /\ d \in Seq(S) /\ Len(d) = Len(l) - 1
      /\ \A i \in 1 .. Len(l) - 1 : d[i] = IF i < at THEN l[i] ELSE l[i + 1]
  <2>1. \A i \in 1 .. Len(l) : l[i] \in S
    OBVIOUS
  <2>2. d \in [1 .. Len(l) - 1 -> S]
    BY <2>1, <1>2, <1>3
  <2>3. Len(l) - 1 \in Nat
    BY <1>2
  <2> QED BY <2>2, <2>3, <1>3
<1>5. ASSUME NEW q PROVE page_in_list(q, d) <=> q # p /\ page_in_list(q, l)
  <2>1. ASSUME page_in_list(q, d) PROVE q # p /\ page_in_list(q, l)
    <3>1. PICK i \in 1 .. Len(d) : d[i] = q
      BY <2>1, Zenon DEF page_in_list
    <3>2. PICK j \in 1 .. Len(l) : j # at /\ l[j] = q
      <4>1. i \in 1 .. Len(l) - 1 /\ d[i] = IF i < at THEN l[i] ELSE l[i + 1]
        BY <3>1, <1>4, Zenon
      <4>2. CASE i < at
        BY <4>1, <4>2, <3>1, <1>2
      <4>3. CASE ~(i < at)
        <5>1. i + 1 \in 1 .. Len(l) /\ i + 1 # at /\ l[i + 1] = q
          BY <4>1, <4>3, <3>1, <1>2
        <5> QED BY <5>1, Zenon
      <4> QED BY <4>2, <4>3, Zenon
    <3> QED BY <3>2, <1>1, Zenon DEF page_in_list, Distinct
  <2>2. ASSUME q # p, page_in_list(q, l) PROVE page_in_list(q, d)
    <3>1. PICK j \in 1 .. Len(l) : l[j] = q
      BY <2>2, Zenon DEF page_in_list
    <3>2. j # at
      BY <3>1, <2>2, <1>1, Zenon
    <3>3. PICK i \in 1 .. Len(d) : d[i] = q
      <4>1. CASE j < at
        BY <4>1, <3>1, <1>1, <1>2, <1>4
      <4>2. CASE j > at
        <5>1. j - 1 \in 1 .. Len(d) /\ ~(j - 1 < at) /\ d[j - 1] = l[j]
          BY <4>2, <1>1, <1>2, <1>4
        <5> QED BY <5>1, <3>1, Zenon
      <4> QED BY <3>2, <4>1, <4>2, <1>2
    <3> QED BY <3>3, Zenon DEF page_in_list
  <2> QED BY <2>1, <2>2, Zenon
<1>6. Distinct(d)
  <2>1. ASSUME NEW i \in 1 .. Len(d), NEW j \in 1 .. Len(d), d[i] = d[j], i < j
        PROVE  FALSE
    <3>1. PICK x \in 1 .. Len(l) : d[i] = l[x] /\ x = IF i < at THEN i ELSE i + 1
      BY <2>1, <1>2, <1>4
    <3>2. PICK y \in 1 .. Len(l) : d[j] = l[y] /\ y = IF j < at THEN j ELSE j + 1
      BY <2>1, <1>2, <1>4
    <3>3. x < y
      BY <3>1, <3>2, <2>1, <1>2, <1>4
    <3>4. x = y
      BY <3>1, <3>2, <2>1 DEF Distinct
    <3> QED BY <3>3, <3>4
  <2>2. SUFFICES ASSUME NEW i \in 1 .. Len(d), NEW j \in 1 .. Len(d), d[i] = d[j]
                 PROVE  i = j
    BY Zenon DEF Distinct
  <2>3. i \in Int /\ j \in Int /\ ~(i < j) /\ ~(j < i)
    BY <2>1, <2>2, <1>2, <1>4
  <2> QED BY <2>3
<1> QED
  BY <1>2, <1>4, <1>5, <1>6, Zenon DEF d

-----------------------------------------------------------------------------
(* What populating, splitting and merging do to the geometry.              *)

\* A chunk that overlaps no other may be added.
LEMMA AddChunk ==
  ASSUME NEW H, NEW o \in [Pages -> Orders], Tiling(H, o),
         NEW p \in Pages, NEW k \in Orders, Aligned(p, k),
         p + BUDDY_CHUNK_PAGES_COUNT(k) <= End,
         Clear(p, k, H, o),
         NEW o2 \in [Pages -> Orders], o2 = [o EXCEPT ![p] = k]
  PROVE  p \notin H /\ Tiling(H \cup {p}, o2)
<1> DEFINE n == BUDDY_CHUNK_PAGES_COUNT(k)
<1>0. H \subseteq Pages /\ Pages \subseteq Int /\ p \in Int /\ n \in Nat \ {0}
  BY PageFacts, CountPos, Zenon DEF Tiling
<1>1. \A q \in Pages : Top(q, o) \in Int /\ q < Top(q, o)
  BY TopFacts, Zenon
<1>2. p \notin H
  BY <1>0, <1>1 DEF Clear
<1>3. o2[p] = k /\ \A q \in Pages : q # p => o2[q] = o[q]
  OBVIOUS
<1>4. Top(p, o2) = p + BUDDY_CHUNK_PAGES_COUNT(k)
  BY <1>3, Zenon DEF Top
<1>5. \A q \in H : q # p /\ Top(q, o2) = Top(q, o)
  BY <1>0, <1>2, <1>3, Zenon DEF Top
<1>6. \A q \in H \cup {p} : Aligned(q, o2[q]) /\ Top(q, o2) <= End
  BY <1>0, <1>2, <1>3, <1>4, <1>5, Zenon DEF Tiling
<1>7. ASSUME NEW q \in H \cup {p}, NEW r \in H \cup {p}, q < r
      PROVE  Top(q, o2) <= r
  <2>1. q \in Int /\ r \in Int
    BY <1>0, Zenon
  <2>2. CASE q = p
    <3>1. r \in H /\ Top(r, o) \in Int /\ r < Top(r, o)
      BY <2>2, <1>0, <1>1, <1>7
    <3> QED BY <3>1, <2>1, <2>2, <1>0, <1>4, <1>7 DEF Clear
  <2>3. CASE q # p /\ r = p
    <3>1. q \in H /\ Top(q, o) \in Int /\ q < Top(q, o) /\ Top(q, o2) = Top(q, o)
      BY <2>3, <1>0, <1>1, <1>5, <1>7, Zenon
    <3> QED BY <3>1, <2>1, <2>3, <1>0, <1>7 DEF Clear
  <2>4. CASE q # p /\ r # p
    BY <2>4, <1>5, <1>7, Zenon DEF Tiling
  <2> QED BY <2>2, <2>3, <2>4, Zenon
<1> QED
  BY <1>0, <1>2, <1>6, <1>7, Zenon DEF Tiling

\* Halving a chunk: the upper half becomes a chunk of its own.
LEMMA SplitTiling ==
  ASSUME NEW H, NEW o \in [Pages -> Orders], Tiling(H, o),
         Covers(H, o, Start, End),
         NEW p \in H, NEW k \in Orders, o[p] = k + 1,
         NEW b, b = p + BUDDY_CHUNK_PAGES_COUNT(k),
         NEW o2, o2 = [o EXCEPT ![p] = k, ![b] = k]
  PROVE  /\ b \in Pages \ H
         /\ o2 \in [Pages -> Orders]
         /\ Tiling(H \cup {b}, o2)
         /\ Covers(H \cup {b}, o2, Start, End)
<1> DEFINE n == BUDDY_CHUNK_PAGES_COUNT(k)
<1>0. H \subseteq Pages /\ Pages \subseteq Int /\ p \in Int /\ p \in Pages
  BY PageFacts, Zenon DEF Tiling
<1>1. n \in Nat \ {0} /\ b \in Int /\ b = p + n /\ Top(p, o) = b + n
  <2>1. n \in Nat \ {0} /\ BUDDY_CHUNK_PAGES_COUNT(k + 1) = 2 * n
    BY CountFacts, Zenon
  <2> QED BY <2>1, <1>0 DEF Top
<1>2. \A q \in Pages : Top(q, o) \in Int /\ q < Top(q, o)
  BY TopFacts, Zenon
<1> HIDE DEF n
<1>3. b + n <= End
  BY <1>1, Zenon DEF Tiling
<1>4. b \in Pages
  <2>1. Start <= p /\ p < End /\ Start \in Int /\ End \in Int
    BY <1>0, PageFacts, RegionAssumption
  <2> QED BY <2>1, <1>0, <1>1, <1>3, PageFacts
<1>5. b \notin H
  BY <1>0, <1>1, <1>2 DEF Tiling
<1>6. o2 \in [Pages -> Orders]
  BY <1>0, <1>4
<1>7. o2[p] = k /\ o2[b] = k /\ \A q \in Pages : q # p /\ q # b => o2[q] = o[q]
  BY <1>0, <1>1, <1>4
<1>8. /\ Top(p, o2) = b /\ Top(b, o2) = b + n
      /\ \A q \in H : q # p => Top(q, o2) = Top(q, o)
  BY <1>0, <1>1, <1>5, <1>7 DEF Top, n
<1>9. Aligned(p, k) /\ Aligned(b, k)
  <2>1. k + 1 \in Orders /\ k \in 0 .. k + 1 /\ k \in 0 .. k
    <3>1. o[p] \in Orders
      BY <1>0, Zenon
    <3> QED BY <3>1, CountFacts DEF Orders
  <2>2. Aligned(p, k + 1)
    BY Zenon DEF Tiling
  <2>3. Aligned(p, k)
    BY <2>1, <2>2, <1>0, AlignedBelow, Zenon
  <2>4. Aligned(n, k) /\ n \in Int
    BY <2>1, <1>1, AlignedCount DEF n
  <2>5. Aligned(p + n, k)
    BY <2>3, <2>4, <1>0, AlignedSum, Zenon
  <2> QED BY <2>3, <2>5, <1>1
<1>10. \A q \in H \cup {b} : Aligned(q, o2[q]) /\ Top(q, o2) <= End
  <2> TAKE q \in H \cup {b}
  <2>1. CASE q = b
    BY <2>1, <1>3, <1>7, <1>8, <1>9
  <2>2. CASE q = p
    <3>1. End \in Int
      BY RegionAssumption
    <3> QED BY <3>1, <2>2, <1>1, <1>3, <1>7, <1>8, <1>9
  <2>3. CASE q \in H /\ q # p /\ q # b
    BY <2>3, <1>0, <1>7, <1>8, Zenon DEF Tiling
  <2> QED BY <2>1, <2>2, <2>3
<1>11. ASSUME NEW q \in H \cup {b}, NEW r \in H \cup {b}, q < r
       PROVE  Top(q, o2) <= r
  <2>1. \A u \in H : u # p => Top(u, o) <= p \/ b + n <= u
    BY <1>0, <1>1, <1>2 DEF Tiling
  <2>2. CASE q \in {p, b}
    BY <1>0, <1>1, <1>2, <1>8, <1>11, <2>1, <2>2
  <2>3. CASE q \notin {p, b} /\ r = b
    <3>1. q \in H /\ q # p /\ q \in Int /\ Top(q, o2) = Top(q, o)
      BY <1>0, <1>8, <1>11, <2>3, Zenon
    <3>2. Top(q, o) \in Int /\ q < Top(q, o)
      BY <3>1, <1>0, <1>2
    <3>3. Top(q, o) <= p \/ b + n <= q
      BY <3>1, <2>1
    <3> QED BY <3>1, <3>2, <3>3, <2>3, <1>0, <1>1, <1>11
  <2>4. CASE q \notin {p, b} /\ r # b
    BY <1>0, <1>8, <1>11, <2>4, Zenon DEF Tiling
  <2> QED BY <2>2, <2>3, <2>4, Zenon
<1>12. ASSUME NEW r \in Start .. End - 1
       PROVE  \E q \in H \cup {b} : q <= r /\ r < Top(q, o2)
  <2>0. r \in Int
    BY <1>12, RegionAssumption
  <2>1. PICK q \in H : q <= r /\ r < Top(q, o)
    BY <1>12 DEF Covers
  <2>2. CASE q # p
    BY <2>1, <2>2, <1>8, Zenon
  <2>3. CASE q = p /\ r < b
    BY <2>1, <2>3, <1>8
  <2>4. CASE q = p /\ ~(r < b)
    BY <2>0, <2>1, <2>4, <1>1, <1>8
  <2> QED BY <2>2, <2>3, <2>4, Zenon
<1> QED
  BY <1>0, <1>4, <1>5, <1>6, <1>10, <1>11, <1>12, Zenon DEF Tiling, Covers

\* Joining two halves: the upper one stops being a chunk.
LEMMA MergeTiling ==
  ASSUME NEW H, NEW o \in [Pages -> Orders], Tiling(H, o),
         Covers(H, o, Start, End),
         NEW k \in Orders, k + 1 \in Orders,
         NEW m \in H, NEW u \in H, u = m + BUDDY_CHUNK_PAGES_COUNT(k),
         o[m] = k, o[u] = k, Aligned(m, k + 1),
         NEW o2, o2 = [o EXCEPT ![m] = k + 1]
  PROVE  /\ o2 \in [Pages -> Orders]
         /\ Tiling(H \ {u}, o2)
         /\ Covers(H \ {u}, o2, Start, End)
<1> DEFINE n == BUDDY_CHUNK_PAGES_COUNT(k)
<1>0. H \subseteq Pages /\ Pages \subseteq Int /\ m \in Int /\ m \in Pages
      /\ u \in Int /\ u \in Pages
  BY PageFacts, Zenon DEF Tiling
<1>1. /\ n \in Nat \ {0} /\ u = m + n
      /\ BUDDY_CHUNK_PAGES_COUNT(k + 1) = 2 * n
      /\ Top(m, o) = u /\ Top(u, o) = u + n
  <2>1. n \in Nat \ {0} /\ BUDDY_CHUNK_PAGES_COUNT(k + 1) = 2 * n
    BY CountFacts, Zenon
  <2> QED BY <2>1, <1>0, Zenon DEF Top
<1>2. \A q \in Pages : Top(q, o) \in Int /\ q < Top(q, o)
  BY TopFacts, Zenon
<1> HIDE DEF n
<1>3. o2 \in [Pages -> Orders]
  BY <1>0, Zenon
<1>4. o2[m] = k + 1 /\ \A q \in Pages : q # m => o2[q] = o[q]
  BY <1>0, Zenon
<1>5. /\ Top(m, o2) = u + n
      /\ \A q \in H : q # m => Top(q, o2) = Top(q, o)
  BY <1>0, <1>1, <1>4 DEF Top
<1>6. \A q \in H \ {u} : Aligned(q, o2[q]) /\ Top(q, o2) <= End
  BY <1>0, <1>1, <1>4, <1>5, Zenon DEF Tiling
<1>7. ASSUME NEW q \in H \ {u}, NEW r \in H \ {u}, q < r
      PROVE  Top(q, o2) <= r
  <2>1. CASE q = m
    <3>1. u <= r
      BY <1>1, <1>7, <2>1, Zenon DEF Tiling
    <3>2. u < r
      BY <3>1, <1>0, <1>7
    <3> QED BY <3>2, <2>1, <1>0, <1>1, <1>5, <1>7, Zenon DEF Tiling
  <2>2. CASE q # m
    BY <2>2, <1>5, <1>7, Zenon DEF Tiling
  <2> QED BY <2>1, <2>2, Zenon
<1>8. ASSUME NEW r \in Start .. End - 1
      PROVE  \E q \in H \ {u} : q <= r /\ r < Top(q, o2)
  <2>0. r \in Int
    BY <1>8, RegionAssumption
  <2>1. PICK q \in H : q <= r /\ r < Top(q, o)
    BY <1>8, Zenon DEF Covers
  <2>2. CASE q = u
    <3>1. m \in H \ {u} /\ m <= r
      BY <2>0, <2>1, <2>2, <1>0, <1>1
    <3> QED BY <3>1, <2>1, <2>2, <1>1, <1>5, Zenon
  <2>3. CASE q = m
    <3>1. m \in H \ {u} /\ r < u + n
      BY <2>0, <2>1, <2>3, <1>0, <1>1
    <3> QED BY <3>1, <2>1, <2>3, <1>5, Zenon
  <2>4. CASE q # u /\ q # m
    BY <2>1, <2>4, <1>5, Zenon
  <2> QED BY <2>2, <2>3, <2>4, Zenon
<1> QED
  BY <1>0, <1>3, <1>6, <1>7, <1>8, Zenon DEF Tiling, Covers

-----------------------------------------------------------------------------
(* What linking and unlinking a page do to the free lists.                 *)

\* What list_add and nr_free++ do to the free lists and to the set of free chunks.
LEMMA LinkEffect ==
  ASSUME TypeOK, ListsOK, NEW p \in Pages, NEW k \in Orders,
         p \notin FreeHeads, Link(p, k)
  PROVE  /\ free_list' \in [Orders -> Seq(Pages)]
         /\ nr_free' \in [Orders -> Nat]
         /\ ListsOK'
         /\ \A j \in Orders, q \in Pages :
              page_in_list(q, free_list'[j]) <=>
                page_in_list(q, free_list[j]) \/ (j = k /\ q = p)
         /\ FreeHeads' = FreeHeads \cup {p}
<1> DEFINE l == list_add(p, free_list[k])
<1>1. /\ free_list \in [Orders -> Seq(Pages)] /\ nr_free \in [Orders -> Nat]
      /\ free_list[k] \in Seq(Pages) /\ Distinct(free_list[k])
      /\ ~page_in_list(p, free_list[k])
  BY Zenon DEF TypeOK, ListsOK, FreeHeads
<1>2. /\ l \in Seq(Pages) /\ Len(l) = Len(free_list[k]) + 1 /\ Distinct(l)
      /\ \A q : page_in_list(q, l) <=> q = p \/ page_in_list(q, free_list[k])
  BY <1>1, ListAdd, Zenon
<1>3. /\ free_list' = [free_list EXCEPT ![k] = l]
      /\ nr_free' = [nr_free EXCEPT ![k] = nr_free[k] + 1]
  BY Zenon DEF Link
<1> HIDE DEF l
<1>4. /\ free_list' \in [Orders -> Seq(Pages)] /\ nr_free' \in [Orders -> Nat]
      /\ free_list'[k] = l /\ nr_free'[k] = nr_free[k] + 1
      /\ \A j \in Orders : j # k => /\ free_list'[j] = free_list[j]
                                    /\ nr_free'[j] = nr_free[j]
  BY <1>1, <1>2, <1>3
<1>5. ListsOK'
  <2>1. nr_free'[k] = Len(free_list'[k]) /\ Distinct(free_list'[k])
    BY <1>1, <1>2, <1>4, Zenon DEF ListsOK
  <2>2. \A j \in Orders :
          j # k => nr_free'[j] = Len(free_list'[j]) /\ Distinct(free_list'[j])
    BY <1>4, Zenon DEF ListsOK
  <2> QED BY <2>1, <2>2, Zenon DEF ListsOK, Distinct
<1>6. \A j \in Orders, q \in Pages :
        page_in_list(q, free_list'[j]) <=>
          page_in_list(q, free_list[j]) \/ (j = k /\ q = p)
  BY <1>2, <1>4, Zenon
<1>7. FreeHeads' = FreeHeads \cup {p}
  <2>1. FreeHeads' = {q \in Pages : \E j \in Orders : page_in_list(q, free_list'[j])}
    BY Zenon DEF FreeHeads, page_in_list
  <2> QED BY <2>1, <1>6, Zenon DEF FreeHeads
<1> QED BY <1>4, <1>5, <1>6, <1>7, Zenon

\* What taking one page off a free list and nr_free-- do, for list_del and Tail.
LEMMA UnlinkEffect ==
  ASSUME TypeOK, ListsOK, FieldsOK, NEW k \in Orders, NEW p \in Pages,
         page_in_list(p, free_list[k]),
         NEW l \in Seq(Pages), Distinct(l),
         Len(free_list[k]) >= 1, Len(l) = Len(free_list[k]) - 1,
         \A q : page_in_list(q, l) <=> q # p /\ page_in_list(q, free_list[k]),
         free_list' = [free_list EXCEPT ![k] = l],
         nr_free' = [nr_free EXCEPT ![k] = @ - 1]
  PROVE  /\ free_list' \in [Orders -> Seq(Pages)]
         /\ nr_free' \in [Orders -> Nat]
         /\ ListsOK'
         /\ \A j \in Orders, q \in Pages :
              page_in_list(q, free_list'[j]) <=>
                page_in_list(q, free_list[j]) /\ q # p
         /\ FreeHeads' = FreeHeads \ {p}
<1>1. /\ free_list \in [Orders -> Seq(Pages)] /\ nr_free \in [Orders -> Nat]
      /\ nr_free[k] = Len(free_list[k])
  BY SMTT(30) DEF TypeOK, ListsOK
<1>2. /\ free_list' \in [Orders -> Seq(Pages)] /\ nr_free' \in [Orders -> Nat]
      /\ free_list'[k] = l /\ nr_free'[k] = nr_free[k] - 1
      /\ \A j \in Orders : j # k => /\ free_list'[j] = free_list[j]
                                    /\ nr_free'[j] = nr_free[j]
  BY <1>1
<1>3. ListsOK'
  BY <1>1, <1>2, SMTT(30) DEF ListsOK, Distinct
<1>4. \A j \in Orders, q \in Pages :
        page_in_list(q, free_list'[j]) <=> page_in_list(q, free_list[j]) /\ q # p
  <2>1. \A j \in Orders : page_in_list(p, free_list[j]) => j = k
    BY Zenon DEF FieldsOK
  <2> QED BY <2>1, <1>2
<1>5. FreeHeads' = FreeHeads \ {p}
  <2>1. FreeHeads' = {q \in Pages : \E j \in Orders : page_in_list(q, free_list'[j])}
    BY Zenon DEF FreeHeads, page_in_list
  <2> QED BY <2>1, <1>4, Zenon DEF FreeHeads
<1> QED BY <1>2, <1>3, <1>4, <1>5, Zenon

-----------------------------------------------------------------------------
(***************************************************************************)
(* The steps of buddy_get_pages and buddy_free_pages preserve the          *)
(* invariant: one lemma per action.  Each is one level of split_chunk or   *)
(* merge_chunk, so it only relates an order to the next one.  At most one  *)
(* CPU is inside a call, so a step changes at most one chunk in transit.   *)
(***************************************************************************)
\* While CPU c is inside a call, the others are not.
LEMMA InCall ==
  ASSUME IInv, NEW c \in CPUs, pc[c] # "idle"
  PROVE  /\ lock = c /\ phase = "ready"
         /\ \A d \in CPUs : d # c => pc[d] = "idle"
         /\ BusyHeads = IF Busy(c) THEN {chunk[c]} ELSE {}
         /\ Covers(Heads, order, Start, End)
<1>1. lock = c
  BY Zenon DEF IInv, Mutex
<1>2. phase = "ready"
  BY <1>1, NullAssumption, Zenon DEF IInv, BootFirst
<1>3. \A d \in CPUs : d # c => pc[d] = "idle"
  BY <1>1, Zenon DEF IInv, Mutex
<1>4. BusyHeads = IF Busy(c) THEN {chunk[c]} ELSE {}
  BY <1>3, Zenon DEF BusyHeads, Busy
<1>5. Covers(Heads, order, Start, End)
  BY <1>2, Zenon DEF IInv, BootOK
<1> QED BY <1>1, <1>2, <1>3, <1>4, <1>5, Zenon

\* While the lock is free, nobody is.
LEMMA OutOfCall ==
  ASSUME IInv, lock = NULL
  PROVE  BusyHeads = {} /\ \A d \in CPUs : pc[d] = "idle"
<1>1. \A d \in CPUs : pc[d] = "idle"
  BY NullAssumption, Zenon DEF IInv, Mutex
<1> QED BY <1>1, Zenon DEF BusyHeads, Busy

\* The same after a step of c.
LEMMA BusyNext ==
  ASSUME NEW c \in CPUs, \A d \in CPUs : d # c => pc'[d] = "idle"
  PROVE  BusyHeads' = IF pc'[c] \in {"split", "merge"} THEN {chunk'[c]} ELSE {}
BY Zenon DEF BusyHeads, Busy

\* What is left to show of a step of c inside a call.
LEMMA CallFrame ==
  ASSUME NEW c \in CPUs, phase = "ready", UNCHANGED bootVars,
         TypeOK', ListsOK', FieldsOK', LiveOK', AllocatedIsLive',
         \A d \in CPUs : d # c => pc'[d] = "idle",
         pc'[c] # "idle" => lock' = c, pc'[c] # "halt",
         NEW H, Heads' = H, Tiling(H, order'), Covers(H, order', Start, End),
         pc'[c] \in {"split", "merge"} =>
           /\ chunk'[c] \in Pages /\ chunk'[c] \notin FreeHeads'
           /\ allocated'[chunk'[c]] = 0,
         pc'[c] = "split" => /\ level'[c] = order'[chunk'[c]]
                             /\ want'[c] <= level'[c]
  PROVE  IInv'
<1>1. phase' = "ready"
  BY Zenon DEF bootVars
<1>2. NoHalt' /\ Mutex' /\ BootFirst' /\ SplitOK'
  BY <1>1, Zenon DEF NoHalt, Mutex, BootFirst, SplitOK
<1>3. BusyOK'
  BY Zenon DEF BusyOK, Busy
<1>4. (Tiling(Heads, order))'
  BY Zenon DEF Tiling, Top, Aligned
<1>5. (Covers(Heads, order, Start, End))'
  BY Zenon DEF Covers, Top
<1>6. BootOK'
  BY <1>1, <1>5, Zenon DEF BootOK
<1> QED BY <1>2, <1>3, <1>4, <1>6, Zenon DEF IInv

\* A step that leaves the region and the callers' chunks alone.
LEMMA RegionFrame ==
  ASSUME IInv, UNCHANGED <<regionVars, live>>
  PROVE  /\ ListsOK' /\ FieldsOK' /\ LiveOK' /\ AllocatedIsLive'
         /\ FreeHeads' = FreeHeads /\ LiveHeads' = LiveHeads
<1>1. /\ order' = order /\ allocated' = allocated /\ free_list' = free_list
      /\ nr_free' = nr_free /\ live' = live
  BY Zenon DEF regionVars
<1>2. FreeHeads' = FreeHeads /\ LiveHeads' = LiveHeads
  BY <1>1, Zenon DEF FreeHeads, LiveHeads, page_in_list
<1>3. ListsOK' /\ FieldsOK'
  BY <1>1 DEF IInv, ListsOK, FieldsOK, Distinct, page_in_list
<1>4. LiveOK' /\ AllocatedIsLive'
  BY <1>1, <1>2, Zenon DEF IInv, LiveOK, AllocatedIsLive
<1> QED BY <1>2, <1>3, <1>4, Zenon

\* Taking the lock in buddy_get_pages preserves the invariant.
LEMMA GetPagesInv ==
  ASSUME IInv, NEW c \in CPUs, NEW k \in Orders, GetPages(c, k)
  PROVE  IInv'
<1>1. /\ phase = "ready" /\ lock = NULL /\ lock' = c
      /\ pc' = [pc EXCEPT ![c] = "get"]
      /\ want' = [want EXCEPT ![c] = k]
      /\ UNCHANGED <<regionVars, bootVars, chunk, level, live>>
  BY Zenon DEF GetPages
<1>2. TypeOK'
  BY <1>1, SMTT(30) DEF IInv, TypeOK, regionVars, bootVars
<1>3. /\ BusyHeads = {} /\ pc'[c] = "get"
      /\ \A d \in CPUs : d # c => pc'[d] = "idle"
  BY <1>1, OutOfCall, Zenon DEF IInv, TypeOK
<1>4. BusyHeads' = {}
  BY <1>3, BusyNext, Zenon
<1>5. /\ ListsOK' /\ FieldsOK' /\ LiveOK' /\ AllocatedIsLive'
      /\ Heads' = Heads
  BY <1>1, <1>3, <1>4, RegionFrame, Zenon DEF Heads
<1>6. /\ Tiling(Heads, order') /\ Covers(Heads, order', Start, End)
  BY <1>1, Zenon DEF IInv, BootOK, regionVars
<1> QED BY <1>1, <1>2, <1>3, <1>5, <1>6, CallFrame, Zenon

\* What returning does to the lock and the locals of the call.
LEMMA ReturnType ==
  ASSUME TypeOK, NEW c \in CPUs, Return(c)
  PROVE  /\ lock' = NULL /\ pc'[c] = "idle"
         /\ \A d \in CPUs : d # c => pc'[d] = pc[d]
         /\ lock' \in CPUs \cup {NULL}
         /\ pc' \in [CPUs -> {"idle", "get", "split", "merge", "halt"}]
         /\ want' \in [CPUs -> Orders] /\ level' \in [CPUs -> Orders]
         /\ chunk' \in [CPUs -> Pages \cup {NULL}]
<1>1. 0 \in Orders
  BY RegionAssumption DEF Orders
<1> QED BY <1>1, SMTT(30) DEF TypeOK, Return

\* Returning NULL from buddy_get_pages preserves the invariant.
LEMMA GetNoneInv ==
  ASSUME IInv, NEW c \in CPUs, GetNone(c)
  PROVE  IInv'
<1>1. /\ pc[c] = "get" /\ Return(c)
      /\ UNCHANGED <<regionVars, bootVars, live>>
  BY Zenon DEF GetNone
<1>2. TypeOK'
  BY <1>1, ReturnType, Zenon DEF IInv, TypeOK, regionVars, bootVars
<1>3. /\ BusyHeads = {} /\ phase = "ready" /\ Covers(Heads, order, Start, End)
      /\ pc'[c] = "idle"
      /\ \A d \in CPUs : d # c => pc'[d] = "idle"
  BY <1>1, InCall, Zenon DEF IInv, TypeOK, Return, Busy
<1>4. BusyHeads' = {}
  BY <1>3, BusyNext, Zenon
<1>5. /\ ListsOK' /\ FieldsOK' /\ LiveOK' /\ AllocatedIsLive'
      /\ Heads' = Heads
  BY <1>1, <1>3, <1>4, RegionFrame, Zenon DEF Heads
<1>6. /\ Tiling(Heads, order') /\ Covers(Heads, order', Start, End)
  BY <1>1, <1>3, Zenon DEF IInv, regionVars
<1> QED BY <1>1, <1>2, <1>3, <1>5, <1>6, CallFrame, Zenon

\* The pages on the lists keep their fields when no list grows.
LEMMA FieldsShrink ==
  ASSUME FieldsOK, UNCHANGED <<order, allocated>>,
         \A j \in Orders, q \in Pages :
           page_in_list(q, free_list'[j]) => page_in_list(q, free_list[j])
  PROVE  FieldsOK'
<1>1. FieldsOK' <=> \A j \in Orders : \A q \in Pages :
        page_in_list(q, free_list'[j]) => order'[q] = j /\ allocated'[q] = 0
  BY Zenon DEF FieldsOK, page_in_list
<1> QED BY <1>1, Zenon DEF FieldsOK

\* Taking the head of the first list that is not empty preserves the invariant.
LEMMA GetTakeInv ==
  ASSUME IInv, NEW c \in CPUs, GetTake(c)
  PROVE  IInv'
<1>1. PICK j \in Splittable(want[c]) :
        /\ chunk' = [chunk EXCEPT ![c] = Head(free_list[j])]
        /\ free_list' = [free_list EXCEPT ![j] = Tail(free_list[j])]
        /\ nr_free' = [nr_free EXCEPT ![j] = nr_free[j] - 1]
        /\ level' = [level EXCEPT ![c] = j]
  BY Zenon DEF GetTake
<1>2. /\ pc[c] = "get" /\ pc' = [pc EXCEPT ![c] = "split"]
      /\ UNCHANGED <<order, allocated, lock, bootVars, want, live>>
  BY Zenon DEF GetTake
<1>3. TypeOK /\ ListsOK /\ FieldsOK
  BY Zenon DEF IInv
<1>4. j \in Orders /\ want[c] <= j /\ nr_free[j] # 0
  <2>1. want[c] \in Orders
    BY <1>3, Zenon DEF TypeOK
  <2> QED BY <2>1, RegionAssumption DEF Splittable, Orders
<1> DEFINE h == Head(free_list[j])
<1>5. /\ free_list[j] \in Seq(Pages) /\ Distinct(free_list[j])
      /\ free_list[j] # <<>>
  BY <1>3, <1>4, Zenon DEF TypeOK, ListsOK
<1>6. /\ h \in Pages /\ page_in_list(h, free_list[j])
      /\ Tail(free_list[j]) \in Seq(Pages) /\ Distinct(Tail(free_list[j]))
      /\ Len(free_list[j]) >= 1
      /\ Len(Tail(free_list[j])) = Len(free_list[j]) - 1
      /\ \A q : page_in_list(q, Tail(free_list[j])) <=>
                  q # h /\ page_in_list(q, free_list[j])
  BY <1>5, ListTail, Zenon
<1>7. /\ free_list' \in [Orders -> Seq(Pages)] /\ nr_free' \in [Orders -> Nat]
      /\ ListsOK'
      /\ \A i \in Orders, q \in Pages :
           page_in_list(q, free_list'[i]) => page_in_list(q, free_list[i])
      /\ FreeHeads' = FreeHeads \ {h}
  BY <1>1, <1>3, <1>4, <1>6, UnlinkEffect, Zenon
<1>8. h \in FreeHeads /\ order[h] = j /\ allocated[h] = 0
  BY <1>3, <1>4, <1>6, Zenon DEF FieldsOK, FreeHeads
<1>9. FieldsOK'
  BY <1>2, <1>3, <1>7, FieldsShrink, Zenon
<1> HIDE DEF h
<1>10. TypeOK'
  BY <1>1, <1>2, <1>3, <1>4, <1>6, <1>7, Zenon DEF TypeOK, bootVars, h
<1>11. /\ BusyHeads = {} /\ phase = "ready" /\ Covers(Heads, order, Start, End)
       /\ lock' = c
       /\ pc'[c] = "split" /\ chunk'[c] = h /\ level'[c] = j
       /\ \A d \in CPUs : d # c => pc'[d] = "idle"
  BY <1>1, <1>2, <1>3, InCall, Zenon DEF TypeOK, Busy, h
<1>12. BusyHeads' = {h}
  BY <1>11, BusyNext, Zenon
<1>13. LiveHeads' = LiveHeads /\ LiveOK' /\ AllocatedIsLive'
  BY <1>2, Zenon DEF IInv, LiveHeads, LiveOK, AllocatedIsLive
<1>14. Heads' = Heads
  BY <1>7, <1>8, <1>11, <1>12, <1>13, Zenon DEF Heads
<1>15. Tiling(Heads, order') /\ Covers(Heads, order', Start, End)
  BY <1>2, <1>11, Zenon DEF IInv
<1>16. /\ h \in Pages /\ h \notin FreeHeads' /\ allocated'[h] = 0
       /\ level'[c] = order'[h] /\ want'[c] <= level'[c]
  BY <1>2, <1>4, <1>6, <1>7, <1>8, <1>11, Zenon
<1> QED
  BY <1>2, <1>7, <1>9, <1>10, <1>11, <1>13, <1>14, <1>15, <1>16, CallFrame, Zenon

\* One level of split_chunk preserves the invariant.
LEMMA SplitChunkInv ==
  ASSUME IInv, NEW c \in CPUs, SplitChunk(c)
  PROVE  IInv'
<1> DEFINE p == chunk[c]
           k == level[c] - 1
           b == p + BUDDY_CHUNK_PAGES_COUNT(k)
<1>1. /\ pc[c] = "split" /\ level[c] > want[c]
      /\ order' = [order EXCEPT ![p] = k, ![b] = k]
      /\ Link(b, k)
      /\ level' = [level EXCEPT ![c] = k]
      /\ UNCHANGED <<allocated, lock, bootVars, pc, want, chunk, live>>
  BY Zenon DEF SplitChunk
<1>2. TypeOK /\ ListsOK /\ FieldsOK /\ Tiling(Heads, order)
  BY Zenon DEF IInv
<1>3. /\ p \in Pages /\ p \notin FreeHeads /\ allocated[p] = 0
      /\ level[c] = order[p] /\ want[c] \in Orders /\ level[c] \in Orders
      /\ order \in [Pages -> Orders]
  BY <1>1, <1>2, Zenon DEF IInv, BusyOK, SplitOK, Busy, TypeOK
<1>4. k \in Orders /\ order[p] = k + 1 /\ want[c] <= k
  BY <1>1, <1>3, RegionAssumption DEF Orders
<1>5. /\ BusyHeads = {p} /\ phase = "ready" /\ Covers(Heads, order, Start, End)
      /\ lock = c /\ \A d \in CPUs : d # c => pc[d] = "idle"
  BY <1>1, InCall, Zenon DEF Busy
<1> HIDE DEF k, p
<1>6. p \in Heads
  BY <1>5, Zenon DEF Heads
<1>7. /\ b \in Pages \ Heads
      /\ order' \in [Pages -> Orders]
      /\ Tiling(Heads \cup {b}, order')
      /\ Covers(Heads \cup {b}, order', Start, End)
  BY <1>1, <1>2, <1>3, <1>4, <1>5, <1>6, SplitTiling, Zenon
<1> HIDE DEF b
<1>8. /\ order'[p] = k /\ order'[b] = k
      /\ \A q \in Pages : q # p /\ q # b => order'[q] = order[q]
  BY <1>1, <1>3, <1>4, <1>7, Zenon
<1>9. /\ b \notin FreeHeads /\ b \notin LiveHeads /\ b # p /\ allocated[b] = 0
  <2>1. b \notin FreeHeads /\ b \notin LiveHeads /\ b # p
    BY <1>6, <1>7, Zenon DEF Heads
  <2>2. allocated[b] # 1
    BY <2>1, <1>7, Zenon DEF IInv, AllocatedIsLive
  <2> QED BY <2>1, <2>2, <1>2, <1>7, Zenon DEF TypeOK
<1>10. /\ free_list' \in [Orders -> Seq(Pages)] /\ nr_free' \in [Orders -> Nat]
       /\ ListsOK'
       /\ \A j \in Orders, q \in Pages :
            page_in_list(q, free_list'[j]) <=>
              page_in_list(q, free_list[j]) \/ (j = k /\ q = b)
       /\ FreeHeads' = FreeHeads \cup {b}
  BY <1>1, <1>2, <1>4, <1>7, <1>9, LinkEffect, Zenon
<1>11. TypeOK'
  BY <1>1, <1>2, <1>4, <1>7, <1>10, Zenon DEF TypeOK, bootVars
<1>12. FieldsOK'
  <2>1. ASSUME NEW j \in Orders, NEW q \in Pages, page_in_list(q, free_list'[j])
        PROVE  order'[q] = j /\ allocated'[q] = 0
    <3>1. CASE page_in_list(q, free_list[j])
      <4>1. q \in FreeHeads /\ order[q] = j /\ allocated[q] = 0
        BY <3>1, <1>2, Zenon DEF FieldsOK, FreeHeads
      <4> QED BY <4>1, <1>1, <1>3, <1>8, <1>9, Zenon
    <3>2. CASE j = k /\ q = b
      BY <3>2, <1>1, <1>8, <1>9, Zenon
    <3> QED BY <2>1, <3>1, <3>2, <1>10, Zenon
  <2>2. FieldsOK' <=> \A j \in Orders : \A q \in Pages :
          page_in_list(q, free_list'[j]) => order'[q] = j /\ allocated'[q] = 0
    BY Zenon DEF FieldsOK, page_in_list
  <2> QED BY <2>1, <2>2, Zenon
<1>13. LiveHeads' = LiveHeads /\ AllocatedIsLive'
  BY <1>1, Zenon DEF IInv, LiveHeads, AllocatedIsLive
<1>14. LiveOK'
  <2>1. ASSUME NEW x \in live
        PROVE  order'[x[1]] = x[2] /\ allocated'[x[1]] = 1
    <3>1. x[1] \in Pages /\ x[1] \in LiveHeads
      BY <1>2, SMTT(30) DEF TypeOK, LiveHeads
    <3>2. order[x[1]] = x[2] /\ allocated[x[1]] = 1
      BY Zenon DEF IInv, LiveOK
    <3> QED BY <3>1, <3>2, <1>1, <1>3, <1>8, <1>9
  <2> QED BY <2>1, <1>1, Zenon DEF LiveOK
<1>15. /\ pc'[c] = "split" /\ chunk'[c] = p /\ level'[c] = k /\ lock' = c
       /\ \A d \in CPUs : d # c => pc'[d] = "idle"
  BY <1>1, <1>2, <1>5, Zenon DEF TypeOK, p
<1>16. BusyHeads' = {p}
  BY <1>15, BusyNext, Zenon
<1>17. Heads' = Heads \cup {b}
  BY <1>5, <1>10, <1>13, <1>16, Zenon DEF Heads
<1>18. /\ p \in Pages /\ p \notin FreeHeads' /\ allocated'[p] = 0
       /\ level'[c] = order'[p] /\ want'[c] <= level'[c]
  <2>1. p \notin FreeHeads'
    BY <1>3, <1>9, <1>10, Zenon
  <2>2. allocated' = allocated /\ want' = want
    BY <1>1, Zenon
  <2> QED BY <2>1, <2>2, <1>3, <1>4, <1>8, <1>15, Zenon
<1> QED
  BY <1>1, <1>5, <1>7, <1>10, <1>11, <1>12, <1>13, <1>14, <1>15, <1>17, <1>18,
     CallFrame, ZenonT(30)

\* The checks of buddy_get_pages pass, and its return preserves the invariant.
LEMMA GetDoneInv ==
  ASSUME IInv, NEW c \in CPUs, GetDone(c)
  PROVE  IInv'
<1> DEFINE p == chunk[c]
<1>1. pc[c] = "split" /\ level[c] = want[c] /\ UNCHANGED bootVars
  BY Zenon DEF GetDone
<1>2. TypeOK /\ ListsOK /\ FieldsOK
  BY Zenon DEF IInv
<1>3. /\ p \in Pages /\ p \notin FreeHeads /\ allocated[p] = 0
      /\ order[p] = want[c] /\ want[c] \in Orders
  BY <1>1, <1>2, Zenon DEF IInv, BusyOK, SplitOK, Busy, TypeOK
<1>4. /\ allocated' = [allocated EXCEPT ![p] = 1]
      /\ live' = live \cup {<<p, want[c]>>}
      /\ Return(c)
      /\ UNCHANGED <<order, free_list, nr_free>>
  BY <1>3 DEF GetDone
<1>5. /\ BusyHeads = {p} /\ phase = "ready" /\ Covers(Heads, order, Start, End)
      /\ pc'[c] = "idle" /\ \A d \in CPUs : d # c => pc'[d] = "idle"
  BY <1>1, <1>2, <1>4, InCall, ReturnType, Zenon DEF Busy
<1> HIDE DEF p
<1>6. TypeOK'
  <2>1. live' \in SUBSET (Pages \X Orders)
    BY <1>2, <1>3, <1>4, SMTT(30) DEF TypeOK
  <2>2. allocated' \in [Pages -> {0, 1}]
    BY <1>2, <1>4, Zenon DEF TypeOK
  <2> QED BY <2>1, <2>2, <1>1, <1>2, <1>4, ReturnType, Zenon
             DEF TypeOK, bootVars
<1>7. ListsOK' /\ FreeHeads' = FreeHeads
  BY <1>2, <1>4, Zenon DEF ListsOK, Distinct, FreeHeads, page_in_list
<1>8. FieldsOK'
  <2>1. \A q \in FreeHeads : allocated'[q] = allocated[q]
    BY <1>2, <1>3, <1>4, Zenon DEF TypeOK, FreeHeads
  <2> QED BY <2>1, <1>2, <1>4 DEF FieldsOK, FreeHeads, page_in_list
<1>9. BusyHeads' = {}
  BY <1>5, BusyNext, Zenon
<1>10. LiveHeads' = LiveHeads \cup {p}
  <2>1. <<p, want[c]>>[1] = p
    OBVIOUS
  <2>2. LiveHeads' = {x[1] : x \in live \cup {<<p, want[c]>>}}
    BY <1>4, Zenon DEF LiveHeads
  <2> QED BY <2>1, <2>2, Zenon DEF LiveHeads
<1>11. LiveOK' /\ AllocatedIsLive'
  BY <1>2, <1>3, <1>4, <1>10 DEF IInv, LiveOK, AllocatedIsLive, TypeOK
<1>12. Heads' = Heads
  BY <1>5, <1>7, <1>9, <1>10, Zenon DEF Heads
<1>13. Tiling(Heads, order') /\ Covers(Heads, order', Start, End)
  BY <1>4, <1>5, Zenon DEF IInv
<1> QED BY <1>1, <1>5, <1>6, <1>7, <1>8, <1>11, <1>12, <1>13, CallFrame, Zenon

\* The entry of buddy_free_pages preserves the invariant.
LEMMA FreePagesInv ==
  ASSUME IInv, NEW c \in CPUs, NEW x \in live, FreePages(c, x)
  PROVE  IInv'
<1> DEFINE p == x[1]
<1>1. /\ phase = "ready" /\ lock = NULL /\ lock' = c
      /\ live' = live \ {x}
      /\ allocated' = [allocated EXCEPT ![p] = 0]
      /\ chunk' = [chunk EXCEPT ![c] = p]
      /\ pc' = [pc EXCEPT ![c] = "merge"]
      /\ UNCHANGED <<order, free_list, nr_free, bootVars, want, level>>
  BY Zenon DEF FreePages
<1>2. TypeOK /\ ListsOK /\ FieldsOK /\ Covers(Heads, order, Start, End)
  BY <1>1, Zenon DEF IInv, BootOK
<1>3. p \in Pages /\ allocated[p] = 1 /\ p \in LiveHeads
  BY <1>2, Zenon DEF IInv, LiveOK, TypeOK, LiveHeads
<1>4. p \notin FreeHeads
  BY <1>2, <1>3 DEF FieldsOK, FreeHeads
<1>5. /\ BusyHeads = {} /\ pc'[c] = "merge" /\ chunk'[c] = p
      /\ \A d \in CPUs : d # c => pc'[d] = "idle"
  BY <1>1, <1>2, OutOfCall, Zenon DEF TypeOK
<1>6. TypeOK'
  BY <1>1, <1>2, <1>3, Zenon DEF TypeOK, bootVars
<1>7. \A y \in live : y[1] = p => y = x
  <2>1. \A y \in live : /\ y \in Pages \X Orders
                       /\ y = <<y[1], y[2]>> /\ order[y[1]] = y[2]
    BY <1>2 DEF IInv, LiveOK, TypeOK
  <2> QED BY <2>1
<1>8. LiveHeads' = LiveHeads \ {p}
  BY <1>1, <1>7, Zenon DEF LiveHeads
<1> HIDE DEF p
<1>9. ListsOK' /\ FreeHeads' = FreeHeads
  BY <1>1, <1>2, Zenon DEF ListsOK, Distinct, FreeHeads, page_in_list
<1>10. FieldsOK'
  <2>1. \A q \in FreeHeads : allocated'[q] = allocated[q]
    BY <1>1, <1>2, <1>3, <1>4, Zenon DEF TypeOK, FreeHeads
  <2> QED BY <2>1, <1>1, <1>2 DEF FieldsOK, FreeHeads, page_in_list
<1>11. BusyHeads' = {p}
  BY <1>5, BusyNext, Zenon
<1>12. LiveOK'
  <2>1. ASSUME NEW y \in live, y # x
        PROVE  order'[y[1]] = y[2] /\ allocated'[y[1]] = 1
    <3>1. y[1] \in Pages /\ order[y[1]] = y[2] /\ allocated[y[1]] = 1
      BY <1>2, Zenon DEF IInv, LiveOK, TypeOK
    <3>2. y[1] # p
      BY <2>1, <1>7, Zenon
    <3> QED BY <3>1, <3>2, <1>1, <1>2, <1>3, Zenon DEF TypeOK
  <2> QED BY <2>1, <1>1, Zenon DEF LiveOK
<1>13. AllocatedIsLive'
  BY <1>1, <1>2, <1>3, <1>8 DEF IInv, AllocatedIsLive, TypeOK
<1>14. Heads' = Heads
  BY <1>3, <1>5, <1>8, <1>9, <1>11, Zenon DEF Heads
<1>15. Tiling(Heads, order') /\ Covers(Heads, order', Start, End)
  BY <1>1, <1>2, Zenon DEF IInv
<1>16. p \in Pages /\ p \notin FreeHeads' /\ allocated'[p] = 0
  BY <1>1, <1>2, <1>3, <1>4, <1>9, SMTT(30) DEF TypeOK
<1> QED
  BY <1>1, <1>5, <1>6, <1>9, <1>10, <1>12, <1>13, <1>14, <1>15, <1>16, CallFrame, Zenon

\* Linking the merged chunk in buddy_free_pages preserves the invariant.
LEMMA FreeDoneInv ==
  ASSUME IInv, NEW c \in CPUs, FreeDone(c)
  PROVE  IInv'
<1> DEFINE p == chunk[c]
<1>1. /\ pc[c] = "merge" /\ Link(p, order[p]) /\ Return(c)
      /\ UNCHANGED <<order, allocated, bootVars, live>>
  BY Zenon DEF FreeDone
<1>2. TypeOK /\ ListsOK /\ FieldsOK
  BY Zenon DEF IInv
<1>3. /\ p \in Pages /\ p \notin FreeHeads /\ allocated[p] = 0
      /\ order[p] \in Orders
  BY <1>1, <1>2, Zenon DEF IInv, BusyOK, Busy, TypeOK
<1>4. /\ BusyHeads = {p} /\ phase = "ready" /\ Covers(Heads, order, Start, End)
      /\ pc'[c] = "idle" /\ \A d \in CPUs : d # c => pc'[d] = "idle"
  <2>1. /\ BusyHeads = {p} /\ phase = "ready" /\ Covers(Heads, order, Start, End)
        /\ \A d \in CPUs : d # c => pc[d] = "idle"
    BY <1>1, InCall, Zenon DEF Busy
  <2>2. pc'[c] = "idle" /\ \A d \in CPUs : d # c => pc'[d] = pc[d]
    BY <1>1, <1>2, ReturnType, Zenon
  <2> QED BY <2>1, <2>2, Zenon
<1> HIDE DEF p
<1>5. /\ free_list' \in [Orders -> Seq(Pages)] /\ nr_free' \in [Orders -> Nat]
      /\ ListsOK'
      /\ \A j \in Orders, q \in Pages :
           page_in_list(q, free_list'[j]) <=>
             page_in_list(q, free_list[j]) \/ (j = order[p] /\ q = p)
      /\ FreeHeads' = FreeHeads \cup {p}
  BY <1>1, <1>2, <1>3, LinkEffect, Zenon
<1>6. TypeOK'
  BY <1>1, <1>2, <1>5, ReturnType, Zenon DEF TypeOK, bootVars
<1>7. FieldsOK'
  <2>1. FieldsOK' <=> \A j \in Orders : \A q \in Pages :
          page_in_list(q, free_list'[j]) => order'[q] = j /\ allocated'[q] = 0
    BY Zenon DEF FieldsOK, page_in_list
  <2>2. ASSUME NEW j \in Orders, NEW q \in Pages,
               page_in_list(q, free_list'[j])
        PROVE  order'[q] = j /\ allocated'[q] = 0
    <3>1. CASE page_in_list(q, free_list[j])
      BY <1>1, <1>2, <3>1 DEF FieldsOK
    <3>2. CASE j = order[p] /\ q = p
      BY <1>1, <1>3, <3>2
    <3> QED
      BY <1>5, <2>2, <3>1, <3>2, SMTT(30)
  <2> QED
    BY <2>1, <2>2, ZenonT(30)
<1>8. BusyHeads' = {}
  BY <1>4, BusyNext, Zenon
<1>9. LiveHeads' = LiveHeads /\ LiveOK' /\ AllocatedIsLive'
  BY <1>1, Zenon DEF IInv, LiveHeads, LiveOK, AllocatedIsLive
<1>10. Heads' = Heads
  <2>1. /\ BusyHeads = {p} /\ BusyHeads' = {} /\ LiveHeads' = LiveHeads
        /\ FreeHeads' = FreeHeads \cup {p}
    BY <1>4, <1>5, <1>8, <1>9, Zenon
  <2> QED BY <2>1, Zenon DEF Heads
<1>11. Tiling(Heads, order') /\ Covers(Heads, order', Start, End)
  BY <1>1, <1>4, Zenon DEF IInv
<1> QED BY <1>1, <1>4, <1>5, <1>6, <1>7, <1>9, <1>10, <1>11, CallFrame, Zenon

\* The page merge_chunk takes for the buddy of a chunk heads a chunk itself:
\* the chunk it lies in cannot be larger than the buddy without covering p too.
LEMMA BuddyIsHead ==
  ASSUME NEW H, NEW o \in [Pages -> Orders], Tiling(H, o),
         Covers(H, o, Start, End),
         NEW k \in Orders, k + 1 \in Orders, NEW p \in H, o[p] = k,
         NEW m \in Int, Aligned(m, k + 1), NEW b \in Pages,
         NEW n, n = BUDDY_CHUNK_PAGES_COUNT(k),
         \/ m = p /\ b = p + n
         \/ m = p - n /\ b = p - n
  PROVE  b \in H
<1>1. /\ H \subseteq Pages /\ \A q \in Pages : q \in Int
      /\ n \in Nat \ {0} /\ BUDDY_CHUNK_PAGES_COUNT(k + 1) = 2 * n
      /\ p \in Pages /\ p \in Int /\ b \in Int /\ k \in Int
      /\ Top(p, o) = p + n
  BY PageFacts, CountPos, CountDouble DEF Tiling, Top, Orders
<1>2. PICK h \in H : h <= b /\ b < Top(h, o)
  BY PageFacts, RegionAssumption, Zenon DEF Covers, Pages
<1> DEFINE j == o[h]
           t == Top(h, o)
<1>3. /\ h \in Pages /\ h \in Int /\ j \in Orders /\ j \in Int /\ t \in Int
      /\ Aligned(h, j) /\ t = h + BUDDY_CHUNK_PAGES_COUNT(j)
  BY <1>1, TopFacts DEF Tiling, Top, Orders
<1>4. h # p
  BY <1>1, <1>2
<1>5. Aligned(p, k) /\ Aligned(b, k)
  <2>1. Aligned(p, k)
    BY Zenon DEF Tiling
  <2>2. k \in 0 .. k /\ n \in Int
    BY <1>1 DEF Orders
  <2>3. Aligned(n, k)
    BY <2>2, AlignedCount, Zenon
  <2> QED BY <2>1, <2>2, <2>3, <1>1, AlignedSum, Zenon
<1> HIDE DEF j, t
<1>6. CASE j <= k
  <2>1. j \in 0 .. k
    BY <1>3, <1>6 DEF Orders
  <2>2. Aligned(b, j)
    BY <2>1, <1>1, <1>5, AlignedBelow
  <2>3. b <= h
    BY <2>2, <1>1, <1>2, <1>3, AlignedClose DEF t
  <2> QED BY <2>3, <1>1, <1>2, <1>3
<1>7. CASE ~(j <= k)
  <2>1. k + 1 \in 0 .. j /\ BUDDY_CHUNK_PAGES_COUNT(j) \in Int
    BY <1>1, <1>3, <1>7, CountPos DEF Orders
  <2>2. Aligned(h, k + 1) /\ Aligned(t, k + 1)
    BY <2>1, <1>3, AlignedBelow, AlignedCount, AlignedSum, Zenon
  <2>3. h <= m
    <3>1. h < m + BUDDY_CHUNK_PAGES_COUNT(k + 1)
      BY <1>1, <1>2, <1>3
    <3> QED BY <3>1, <2>2, <1>3, AlignedClose, Zenon
  <2>4. p < t
    <3>1. CASE t < m + BUDDY_CHUNK_PAGES_COUNT(k + 1)
      <4>1. t <= m
        BY <3>1, <2>2, <1>3, AlignedClose, Zenon
      <4> QED BY <4>1, <1>1, <1>2, <1>3 DEF t
    <3>2. CASE ~(t < m + BUDDY_CHUNK_PAGES_COUNT(k + 1))
      BY <3>2, <1>1, <1>3
    <3> QED BY <3>1, <3>2, Zenon
  <2>5. h < p
    BY <2>3, <1>1, <1>3, <1>4
  <2>6. t <= p
    BY <2>5, Zenon DEF Tiling, t
  <2> QED BY <2>4, <2>6, <1>1, <1>3
<1> QED BY <1>6, <1>7, Zenon

\* m and b are right for a chunk p of order k: m is the lower of the chunk and its
\* buddy b, and b is on the free list of order k.
MergeOK(p, k, m, b) ==
  /\ k \in Orders /\ k + 1 \in Orders
  /\ m \in Pages /\ Aligned(m, k + 1) /\ b \in Pages
  /\ \/ m = p /\ b = m + BUDDY_CHUNK_PAGES_COUNT(k)
     \/ m = b /\ p = m + BUDDY_CHUNK_PAGES_COUNT(k)
  /\ b \in Heads /\ b \notin LiveHeads /\ b # p
  /\ allocated[b] = 0 /\ order[b] = k /\ page_in_list(b, free_list[k])

\* What merge_chunk finds when it merges: chunk_merge is the lower of the chunk and
\* its buddy, and the buddy is on the free list of the chunk's order.
LEMMA MergeFacts ==
  ASSUME IInv, NEW c \in CPUs, pc[c] = "merge", CanMerge(chunk[c])
  PROVE  MergeOK(chunk[c], order[chunk[c]], ChunkMerge(chunk[c]), ChunkBuddy(chunk[c]))
<1>0. PICK p, k, m, b : p = chunk[c] /\ k = order[p] /\ m = ChunkMerge(p) /\ b = ChunkBuddy(p)
  OBVIOUS
<1> DEFINE n == BUDDY_CHUNK_PAGES_COUNT(k)
           r == ROUND_DOWN(p, BUDDY_CHUNK_PAGES_COUNT(k + 1))
<1>1. /\ TypeOK /\ FieldsOK /\ Tiling(Heads, order) /\ order \in [Pages -> Orders]
      /\ p \in Pages /\ k \in Orders /\ p \in Int /\ order[p] = k
  BY <1>0, PageFacts, Zenon DEF IInv, BusyOK, Busy, TypeOK
<1>2. k + 1 \in Orders /\ b # NULL /\ allocated[b] # 1 /\ order[b] = k
  <2>1. CanMerge(p)
    BY <1>0, Zenon
  <2>2. k # MaxOrder - 1 /\ b # NULL /\ allocated[b] # 1 /\ order[b] = k
    BY <1>0, <2>1, Zenon DEF CanMerge
  <2> QED BY <1>1, <2>2, RegionAssumption DEF Orders
<1>3. BusyHeads = {p} /\ p \in Heads /\ Covers(Heads, order, Start, End)
  BY <1>0, InCall, Zenon DEF Busy, Heads
<1>4. Aligned(p, k) /\ p + n <= End
  BY <1>1, <1>3, Zenon DEF Tiling, Top
<1>5. r \in {p, p - n} /\ Aligned(r, k + 1)
  BY <1>1, <1>2, <1>4, RoundDownHalf, Zenon
<1>6. /\ n \in Nat \ {0} /\ BUDDY_CHUNK_PAGES_COUNT(k + 1) = 2 * n
      /\ End \in Int /\ Start \in Int /\ Start <= p /\ p < End
  BY <1>1, CountPos, CountDouble, RegionAssumption, PageFacts
<1>7. m = virt_to_page(r) /\ b = IF m = p THEN p + n ELSE m
  BY <1>0, Zenon DEF ChunkMerge, ChunkBuddy
<1> HIDE DEF n, r
<1>8. /\ m \in Pages /\ m = r /\ b \in Pages
      /\ \/ m = p /\ b = p + n
         \/ m = p - n /\ b = p - n
  <2>1. CASE r = p
    <3>1. m = p /\ b = p + n
      BY <2>1, <1>1, <1>7, Zenon DEF virt_to_page
    <3>2. CASE p + n = End
      <4>1. End < p + BUDDY_CHUNK_PAGES_COUNT(k + 1)
        BY <3>2, <1>1, <1>6
      <4>2. Aligned(End, k + 1) /\ Aligned(p, k + 1)
        BY <2>1, <1>2, <1>5, EndAligned, SMTT(30)
      <4>3. End <= p
        BY <4>1, <4>2, <1>1, <1>2, <1>6, AlignedClose, Zenon
      <4> QED BY <4>3, <1>1, <1>6
    <3>3. CASE p + n # End
      <4>1. p + n \in Pages
        <5>1. p + n \in Int /\ Start <= p + n /\ p + n < End
          BY <3>3, <1>1, <1>4, <1>6
        <5> QED BY <5>1, PageFacts, Zenon
      <4> QED BY <4>1, <3>1, <2>1, <1>1, Zenon
    <3> QED BY <3>2, <3>3, Zenon
  <2>2. CASE r = p - n
    <3>1. r # p
      BY <2>2, <1>1, <1>6
    <3>2. r \in Pages
      BY <1>1, <1>2, <1>7, NullAssumption, Zenon DEF virt_to_page
    <3>3. m = r /\ b = r
      BY <3>1, <3>2, <1>7, Zenon DEF virt_to_page
    <3> QED BY <3>2, <3>3, <2>2, Zenon
  <2> QED BY <2>1, <2>2, <1>5, Zenon
<1>9. b # p
  BY <1>1, <1>6, <1>8, SMTT(30)
<1>10. b \in Heads
  <2>1. m \in Int
    BY <1>8, PageFacts, SMTT(30)
  <2>2. Aligned(m, k + 1) /\ n = BUDDY_CHUNK_PAGES_COUNT(k)
    BY <1>5, <1>8, Zenon DEF n
  <2>3. /\ order \in [Pages -> Orders] /\ Tiling(Heads, order) /\ Covers(Heads, order, Start, End)
        /\ k \in Orders /\ k + 1 \in Orders /\ p \in Heads /\ order[p] = k /\ b \in Pages
        /\ \/ m = p /\ b = p + n
           \/ m = p - n /\ b = p - n
    BY <1>1, <1>2, <1>3, <1>8, Zenon
  <2> QED BY <2>1, <2>2, <2>3, BuddyIsHead, SMTT(30)
<1>11. b \notin LiveHeads
  BY <1>2, Zenon DEF IInv, LiveOK, LiveHeads
<1>12. b \in FreeHeads
  BY <1>3, <1>9, <1>10, <1>11, Zenon DEF Heads
<1>13. allocated[b] = 0 /\ page_in_list(b, free_list[k])
  BY <1>1, <1>2, <1>8, <1>12, Zenon DEF FieldsOK, FreeHeads
<1>14. \/ m = p /\ b = m + n
       \/ m = b /\ p = m + n
  BY <1>1, <1>6, <1>8
<1>15. MergeOK(p, k, m, b)
  BY <1>1, <1>2, <1>5, <1>8, <1>9, <1>10, <1>11, <1>13, <1>14, Zenon DEF n, MergeOK
<1> QED BY <1>0, <1>15, Zenon

\* One level of merge_chunk preserves the invariant.
LEMMA MergeChunkInv ==
  ASSUME IInv, NEW c \in CPUs, MergeChunk(c)
  PROVE  IInv'
<1> DEFINE p == chunk[c]
           k == order[p]
           m == ChunkMerge(p)
           b == ChunkBuddy(p)
           l == list_del(b, free_list[k])
<1>1. pc[c] = "merge" /\ CanMerge(p) /\ UNCHANGED bootVars
  BY Zenon DEF MergeChunk
<1>2. TypeOK /\ ListsOK /\ FieldsOK /\ Tiling(Heads, order)
  BY Zenon DEF IInv
<1>3. /\ k \in Orders /\ k + 1 \in Orders
      /\ m \in Pages /\ Aligned(m, k + 1) /\ b \in Pages
      /\ \/ m = p /\ b = m + BUDDY_CHUNK_PAGES_COUNT(k)
         \/ m = b /\ p = m + BUDDY_CHUNK_PAGES_COUNT(k)
      /\ b \in Heads /\ b \notin LiveHeads /\ b # p
      /\ allocated[b] = 0 /\ order[b] = k /\ page_in_list(b, free_list[k])
  <2>1. MergeOK(p, k, m, b)
    BY <1>1, MergeFacts, Zenon
  <2> HIDE DEF p, k, m, b
  <2> QED BY <2>1, Zenon DEF MergeOK
<1>4. /\ free_list' = [free_list EXCEPT ![k] = l]
      /\ nr_free' = [nr_free EXCEPT ![k] = nr_free[k] - 1]
      /\ order' = [order EXCEPT ![m] = k + 1]
      /\ chunk' = [chunk EXCEPT ![c] = m]
      /\ UNCHANGED <<allocated, lock, pc, want, level, live>>
  BY <1>3, Zenon DEF MergeChunk
<1>5. /\ p \in Pages /\ p \notin FreeHeads /\ allocated[p] = 0 /\ order[p] = k
      /\ order \in [Pages -> Orders]
  BY <1>1, <1>2, Zenon DEF IInv, BusyOK, Busy, TypeOK
<1>6. /\ BusyHeads = {p} /\ phase = "ready" /\ Covers(Heads, order, Start, End)
      /\ lock = c /\ \A d \in CPUs : d # c => pc[d] = "idle"
  BY <1>1, InCall, Zenon DEF Busy
<1>7. p \in Heads /\ p \notin LiveHeads
  <2>1. \A x \in live : allocated[x[1]] = 1
    BY Zenon DEF IInv, LiveOK
  <2>2. \A x \in live : x[1] # p
    BY <2>1, <1>5
  <2> QED BY <2>2, <1>6, Zenon DEF Heads, LiveHeads
<1>8. /\ l \in Seq(Pages) /\ Len(free_list[k]) >= 1
      /\ Len(l) = Len(free_list[k]) - 1 /\ Distinct(l)
      /\ \A q : page_in_list(q, l) <=> q # b /\ page_in_list(q, free_list[k])
  <2>1. free_list[k] \in Seq(Pages) /\ Distinct(free_list[k])
    BY <1>2, <1>3, Zenon DEF TypeOK, ListsOK
  <2> HIDE DEF k, b
  <2> QED BY <2>1, <1>3, ListDel, Zenon
<1> HIDE DEF l, b, m, k, p
<1>9. /\ free_list' \in [Orders -> Seq(Pages)] /\ nr_free' \in [Orders -> Nat]
      /\ ListsOK'
      /\ \A j \in Orders, q \in Pages :
           page_in_list(q, free_list'[j]) <=>
             page_in_list(q, free_list[j]) /\ q # b
      /\ FreeHeads' = FreeHeads \ {b}
  BY <1>2, <1>3, <1>4, <1>8, UnlinkEffect, Zenon
<1>10. PICK u \in Heads :
         /\ m \in Heads /\ u = m + BUDDY_CHUNK_PAGES_COUNT(k)
         /\ {m, u} = {p, b} /\ order[m] = k /\ order[u] = k
  BY <1>3, <1>5, <1>7, Zenon
<1>11. /\ order' \in [Pages -> Orders]
       /\ Tiling(Heads \ {u}, order')
       /\ Covers(Heads \ {u}, order', Start, End)
  BY <1>2, <1>3, <1>4, <1>5, <1>6, <1>10, MergeTiling, Zenon
<1>12. order'[m] = k + 1 /\ \A q \in Pages : q # m => order'[q] = order[q]
  BY <1>3, <1>4, <1>5, Zenon
<1>13. TypeOK'
  BY <1>1, <1>2, <1>3, <1>4, <1>9, <1>11, Zenon DEF TypeOK, bootVars
<1>14. FieldsOK'
  <2>1. ASSUME NEW j \in Orders, NEW q \in Pages, page_in_list(q, free_list'[j])
        PROVE  order'[q] = j /\ allocated'[q] = 0
    <3>1. q # b /\ order[q] = j /\ allocated[q] = 0 /\ q \in FreeHeads
      BY <2>1, <1>2, <1>9, Zenon DEF FieldsOK, FreeHeads
    <3> QED BY <3>1, <1>3, <1>4, <1>5, <1>12
  <2>2. FieldsOK' <=> \A j \in Orders : \A q \in Pages :
          page_in_list(q, free_list'[j]) => order'[q] = j /\ allocated'[q] = 0
    BY Zenon DEF FieldsOK, page_in_list
  <2> QED BY <2>1, <2>2
<1>15. LiveHeads' = LiveHeads /\ AllocatedIsLive'
  BY <1>4, Zenon DEF IInv, LiveHeads, AllocatedIsLive
<1>16. LiveOK'
  <2>1. ASSUME NEW x \in live
        PROVE  order'[x[1]] = x[2] /\ allocated'[x[1]] = 1
    <3>1. x[1] \in Pages /\ x[1] \in LiveHeads
      BY <1>2, SMTT(30) DEF TypeOK, LiveHeads
    <3>2. order[x[1]] = x[2] /\ allocated[x[1]] = 1
      BY Zenon DEF IInv, LiveOK
    <3> QED BY <3>1, <3>2, <1>3, <1>4, <1>7, <1>12
  <2> QED BY <2>1, <1>4, Zenon DEF LiveOK
<1>17. /\ pc'[c] = "merge" /\ chunk'[c] = m /\ lock' = c
       /\ \A d \in CPUs : d # c => pc'[d] = "idle"
  BY <1>1, <1>2, <1>4, <1>6, Zenon DEF TypeOK
<1>18. BusyHeads' = {m}
  BY <1>17, BusyNext, Zenon
<1>19. Heads' = Heads \ {u}
  BY <1>3, <1>5, <1>6, <1>7, <1>9, <1>10, <1>15, <1>18, SMTT(30) DEF Heads
<1>20. m \in Pages /\ m \notin FreeHeads' /\ allocated'[m] = 0
  BY <1>3, <1>4, <1>5, <1>9, Zenon
<1> QED
  BY <1>1, <1>6, <1>9, <1>11, <1>13, <1>14, <1>15, <1>16, <1>17, <1>19, <1>20,
     CallFrame, Zenon

-----------------------------------------------------------------------------
(* The invariant holds initially and is preserved by populate_page.        *)

\* The state init_buddy sets up: nothing is free yet and nothing is held.
LEMMA InitInv == Init => IInv
<1> SUFFICES ASSUME Init PROVE IInv
  OBVIOUS
<1>1. TypeOK
  <2>1. 0 \in Orders /\ MaxOrder - 1 \in Orders
    BY RegionAssumption DEF Orders
  <2>2. FirstAligned \in Start .. End
    BY FirstAlignedOK, RegionAssumption
  <2> QED BY <2>1, <2>2 DEF Init, TypeOK
<1>2. \A k \in Orders : free_list[k] = <<>> /\ nr_free[k] = 0
  BY Zenon DEF Init
<1>3. FreeHeads = {} /\ LiveHeads = {} /\ BusyHeads = {}
  BY <1>2 DEF Init, FreeHeads, page_in_list, LiveHeads, BusyHeads, Busy
<1>4. Heads = {}
  BY <1>3, Zenon DEF Heads
<1>5. ListsOK /\ FieldsOK
  BY <1>2 DEF ListsOK, FieldsOK, Distinct, page_in_list
<1>6. NoHalt /\ Mutex /\ BootFirst /\ LiveOK /\ BusyOK /\ SplitOK
  BY Zenon DEF Init, NoHalt, Mutex, BootFirst, LiveOK, BusyOK, SplitOK, Busy
<1>7. AllocatedIsLive
  BY DEF Init, AllocatedIsLive
<1>8. Tiling(Heads, order)
  BY <1>4, Zenon DEF Tiling
<1>9. BootOK
  <2>1. /\ phase = "forward" /\ fill = FirstAligned /\ fill_order = MaxOrder - 1
    BY Zenon DEF Init
  <2>2. FirstAligned \in Int
    BY FirstAlignedOK, RegionAssumption
  <2> QED BY <2>1, <2>2, <1>4, FirstAlignedOK DEF BootOK, Covers
<1> QED
  BY <1>1, <1>5, <1>6, <1>7, <1>8, <1>9, Zenon DEF IInv

\* While populate_page runs nobody holds a chunk.
LEMMA BootHeads ==
  ASSUME IInv, phase # "ready"
  PROVE  /\ lock = NULL /\ live = {} /\ LiveHeads = {} /\ BusyHeads = {}
         /\ Heads = FreeHeads
         /\ \A c \in CPUs : pc[c] = "idle"
<1>1. lock = NULL /\ live = {}
  BY Zenon DEF IInv, BootFirst
<1>2. \A c \in CPUs : pc[c] = "idle"
  BY <1>1, NullAssumption, Zenon DEF IInv, Mutex
<1> QED BY <1>1, <1>2, Zenon DEF LiveHeads, BusyHeads, Busy, Heads

\* One iteration of either loop that finds room for a chunk of fill_order at p.
LEMMA PopulateStep ==
  ASSUME IInv, phase # "ready", NEW p \in Pages,
         Populate(p), UNCHANGED <<phase, fill_order, lock, callVars, live>>,
         Aligned(p, fill_order),
         p + BUDDY_CHUNK_PAGES_COUNT(fill_order) <= End,
         Clear(p, fill_order, Heads, order),
         fill' \in Start .. End
  PROVE  /\ Heads' = Heads \cup {p}
         /\ Top(p, order') = p + BUDDY_CHUNK_PAGES_COUNT(fill_order)
         /\ \A q \in Heads : Top(q, order') = Top(q, order)
         /\ BootOK' => IInv'
<1>1. /\ TypeOK /\ ListsOK /\ FieldsOK /\ Tiling(Heads, order)
      /\ order \in [Pages -> Orders] /\ fill_order \in Orders
      /\ allocated \in [Pages -> {0, 1}]
  BY SMTT(30) DEF IInv, TypeOK
<1>2. /\ order' = [order EXCEPT ![p] = fill_order]
      /\ order' \in [Pages -> Orders]
      /\ allocated' = [allocated EXCEPT ![p] = 0]
      /\ allocated' \in [Pages -> {0, 1}]
  BY <1>1, Zenon DEF Populate
<1>3. /\ p \notin Heads
      /\ Tiling(Heads \cup {p}, order')
      /\ Top(p, order') = p + BUDDY_CHUNK_PAGES_COUNT(fill_order)
      /\ \A q \in Heads : Top(q, order') = Top(q, order)
  <2>1. p \notin Heads /\ Tiling(Heads \cup {p}, order')
    BY <1>1, <1>2, AddChunk, Zenon
  <2>2. order'[p] = fill_order /\ \A q \in Heads : order'[q] = order[q]
    BY <2>1, <1>1, <1>2, Zenon DEF Tiling
  <2> QED BY <2>1, <2>2, Zenon DEF Top
<1>4. p \notin FreeHeads /\ Link(p, fill_order)
  BY <1>3, Zenon DEF Heads, Populate
<1>5. /\ free_list' \in [Orders -> Seq(Pages)]
      /\ nr_free' \in [Orders -> Nat]
      /\ ListsOK'
      /\ \A j \in Orders, q \in Pages :
           page_in_list(q, free_list'[j]) <=>
             page_in_list(q, free_list[j]) \/ (j = fill_order /\ q = p)
      /\ FreeHeads' = FreeHeads \cup {p}
  BY <1>1, <1>4, LinkEffect, Zenon
<1>6. /\ lock = NULL /\ live = {} /\ LiveHeads = {} /\ BusyHeads = {}
      /\ Heads = FreeHeads /\ \A c \in CPUs : pc[c] = "idle"
  BY BootHeads, Zenon
<1>7. LiveHeads' = {} /\ BusyHeads' = {} /\ \A c \in CPUs : pc'[c] = "idle"
  BY <1>6, Zenon DEF LiveHeads, BusyHeads, Busy, callVars
<1>8. Heads' = Heads \cup {p}
  BY <1>5, <1>6, <1>7, Zenon DEF Heads
<1>9. TypeOK'
  BY <1>1, <1>2, <1>5, Zenon DEF TypeOK, callVars
<1>10. FieldsOK'
  <2>1. ASSUME NEW j \in Orders, NEW q \in Pages, page_in_list(q, free_list'[j])
        PROVE  order'[q] = j /\ allocated'[q] = 0
    <3>1. CASE q = p
      <4>1. j = fill_order
        BY <2>1, <3>1, <1>4, <1>5, Zenon DEF FreeHeads
      <4> QED BY <4>1, <3>1, <1>1, <1>2, Zenon
    <3>2. CASE q # p
      <4>1. page_in_list(q, free_list[j])
        BY <2>1, <3>2, <1>5, Zenon
      <4> QED BY <4>1, <3>2, <1>1, <1>2, Zenon DEF FieldsOK
    <3> QED BY <3>1, <3>2, Zenon
  <2>2. FieldsOK' <=> \A j \in Orders : \A q \in Pages :
          page_in_list(q, free_list'[j]) => order'[q] = j /\ allocated'[q] = 0
    BY Zenon DEF FieldsOK, page_in_list
  <2> QED BY <2>1, <2>2, Zenon
<1>11. NoHalt' /\ Mutex' /\ BusyOK' /\ SplitOK'
  BY <1>7, Zenon DEF NoHalt, Mutex, BusyOK, SplitOK, Busy
<1>12. BootFirst' /\ LiveOK'
  BY <1>6, Zenon DEF BootFirst, LiveOK
<1>13. AllocatedIsLive'
  <2>1. \A q \in Pages : allocated[q] # 1
    BY <1>6, Zenon DEF IInv, AllocatedIsLive
  <2> QED BY <2>1, <1>1, <1>2, Zenon DEF AllocatedIsLive
<1>14. (Tiling(Heads, order))'
  BY <1>3, <1>8, Zenon DEF Tiling, Top, Aligned
<1> QED
  BY <1>3, <1>5, <1>8, <1>9, <1>10, <1>11, <1>12, <1>13, <1>14, Zenon DEF IInv

\* A step of populate_page that only moves its loop variables.
LEMMA BootFrame ==
  ASSUME IInv, phase # "ready", UNCHANGED <<regionVars, lock, callVars, live>>,
         fill' \in Start .. End, fill_order' \in Orders,
         phase' \in {"forward", "backward", "ready"}
  PROVE  /\ Heads' = Heads /\ order' = order
         /\ BootOK' => IInv'
<1>1. /\ order' = order /\ allocated' = allocated /\ free_list' = free_list
      /\ nr_free' = nr_free /\ lock' = lock /\ live' = live
      /\ pc' = pc /\ want' = want /\ chunk' = chunk /\ level' = level
  BY Zenon DEF regionVars, callVars
<1>2. FreeHeads' = FreeHeads /\ LiveHeads' = LiveHeads /\ BusyHeads' = BusyHeads
  BY <1>1, Zenon DEF FreeHeads, LiveHeads, BusyHeads, Busy, page_in_list
<1>3. Heads' = Heads
  BY <1>2, Zenon DEF Heads
<1>4. lock = NULL /\ live = {}
  BY BootHeads, Zenon
<1>5. TypeOK'
  BY <1>1, Zenon DEF IInv, TypeOK
<1>6. ListsOK' /\ FieldsOK'
  <2>1. ListsOK /\ FieldsOK
    BY Zenon DEF IInv
  <2>2. ListsOK'
    BY <2>1, <1>1, Zenon DEF ListsOK, Distinct
  <2>3. FieldsOK'
    BY <2>1, <1>1 DEF FieldsOK, page_in_list
  <2> QED BY <2>2, <2>3, Zenon
<1>7. NoHalt' /\ Mutex' /\ LiveOK' /\ SplitOK' /\ BootFirst'
  BY <1>1, <1>4, Zenon DEF IInv, NoHalt, Mutex, LiveOK, SplitOK, BootFirst
<1>8. AllocatedIsLive' /\ BusyOK'
  BY <1>1, <1>2, Zenon DEF IInv, AllocatedIsLive, BusyOK, Busy
<1>9. (Tiling(Heads, order))'
  BY <1>1, <1>3, Zenon DEF IInv, Tiling, Top, Aligned
<1> QED
  BY <1>1, <1>3, <1>5, <1>6, <1>7, <1>8, <1>9, Zenon DEF IInv

\* The upward loop of populate_page preserves the invariant.
LEMMA ForwardInv == IInv /\ PopulateForward => IInv'
<1> SUFFICES ASSUME IInv, PopulateForward PROVE IInv'
  OBVIOUS
<1> DEFINE n == BUDDY_CHUNK_PAGES_COUNT(fill_order)
<1>1. /\ phase = "forward" /\ phase # "ready"
      /\ fill \in Start .. End /\ fill_order \in Orders
      /\ order \in [Pages -> Orders]
      /\ Tiling(Heads, order)
      /\ UNCHANGED <<lock, callVars, live>>
  BY Zenon DEF IInv, TypeOK, PopulateForward
<1>2. /\ FirstAligned <= fill /\ Aligned(fill, fill_order)
      /\ Covers(Heads, order, FirstAligned, fill)
      /\ \A p \in Heads : FirstAligned <= p /\ Top(p, order) <= fill
  BY <1>1, Zenon DEF IInv, BootOK
<1>3. /\ n \in Nat \ {0} /\ fill \in Int /\ Start \in Int /\ End \in Int
      /\ FirstAligned \in Int /\ Start <= FirstAligned /\ FirstAligned <= End
  BY <1>1, CountPos, FirstAlignedOK, RegionAssumption
<1>4. CASE fill + n - 1 < End
  <2>1. /\ Populate(fill) /\ fill' = fill + n
        /\ UNCHANGED <<phase, fill_order>>
    BY <1>1, <1>4, Zenon DEF PopulateForward
  <2> HIDE DEF n
  <2>2. /\ fill \in Pages /\ fill + n <= End /\ fill + n \in Start .. End
    BY <1>1, <1>3, <1>4, PageFacts
  <2>3. Clear(fill, fill_order, Heads, order)
    BY <1>2, Zenon DEF Clear
  <2>4. /\ Heads' = Heads \cup {fill}
        /\ Top(fill, order') = fill + n
        /\ \A q \in Heads : Top(q, order') = Top(q, order)
        /\ BootOK' => IInv'
    <3> USE DEF n
    <3> QED BY <1>1, <1>2, <2>1, <2>2, <2>3, PopulateStep, Zenon
  <2>5. Aligned(fill + n, fill_order)
    <3>1. fill_order \in 0 .. fill_order /\ n \in Int
      BY <1>1, <1>3 DEF Orders
    <3>2. Aligned(n, fill_order)
      BY <3>1, <1>1, AlignedCount, Zenon DEF n
    <3> QED BY <3>1, <3>2, <1>1, <1>2, <1>3, AlignedSum, Zenon
  <2>6. \A q \in Heads \cup {fill} : FirstAligned <= q /\ Top(q, order') <= fill + n
    <3>1. \A q \in Heads : Top(q, order) \in Int
      BY <1>1, TopFacts, Zenon DEF Tiling
    <3> QED BY <3>1, <1>2, <1>3, <2>4
  <2>7. ASSUME NEW r \in FirstAligned .. fill + n - 1
        PROVE  \E q \in Heads \cup {fill} : q <= r /\ r < Top(q, order')
    <3>1. r \in Int
      BY <1>3, <2>7
    <3>2. CASE r < fill
      <4>1. PICK q \in Heads : q <= r /\ r < Top(q, order)
        BY <3>1, <3>2, <1>2, <1>3, <2>7 DEF Covers
      <4> QED BY <4>1, <2>4, Zenon
    <3>3. CASE fill <= r
      BY <3>1, <3>3, <2>4, <2>7, <1>3
    <3> QED BY <3>1, <3>2, <3>3, <1>3
  <2>8. BootOK'
    <3>1. phase' = "forward" /\ fill' = fill + n /\ fill_order' = fill_order
      BY <1>1, <2>1, Zenon
    <3>2. FirstAligned <= fill + n
      BY <1>2, <1>3
    <3>3. Aligned(fill', fill_order')
      BY <3>1, <2>5, Zenon
    <3>4. (Covers(Heads, order, FirstAligned, fill))'
      <4>1. ASSUME NEW r \in FirstAligned .. fill' - 1
            PROVE  \E q \in Heads' : q <= r /\ r < Top(q, order')
        <5>1. r \in FirstAligned .. fill + n - 1
          BY <3>1, <4>1, <1>3
        <5> QED BY <5>1, <2>7, <2>4, Zenon
      <4> QED BY <4>1, Zenon DEF Covers
    <3>5. \A p \in Heads' : FirstAligned <= p /\ Top(p, order') <= fill'
      BY <3>1, <2>4, <2>6, Zenon
    <3> QED BY <3>1, <3>2, <3>3, <3>4, <3>5, Zenon DEF BootOK, Top, Aligned
  <2> QED BY <2>4, <2>8, Zenon
<1>5. CASE ~(fill + n - 1 < End)
  <2>1. NextFillOrder(FirstAligned, "backward", MaxOrder - 2)
    BY <1>1, <1>5, Zenon DEF PopulateForward
  <2>2. UNCHANGED <<regionVars, lock, callVars, live>>
    BY <2>1, <1>1, Zenon DEF NextFillOrder
  <2>3. CASE fill_order > 0
    <3>1. fill_order' = fill_order - 1 /\ fill' = fill /\ phase' = "forward"
      BY <2>1, <2>3, <1>1, Zenon DEF NextFillOrder
    <3>2. fill_order - 1 \in Orders /\ fill_order - 1 \in 0 .. fill_order
      BY <2>3, <1>1, RegionAssumption DEF Orders
    <3>3. Aligned(fill, fill_order - 1)
      BY <3>2, <1>1, <1>2, <1>3, AlignedBelow, Zenon
    <3>4. Heads' = Heads /\ order' = order /\ (BootOK' => IInv')
      BY <2>2, <3>1, <3>2, <1>1, BootFrame, Zenon
    <3>5. (Covers(Heads, order, FirstAligned, fill))'
      BY <3>1, <3>4, <1>2, Zenon DEF Covers
    <3>6. BootOK'
      BY <3>1, <3>3, <3>4, <3>5, <1>2, Zenon DEF BootOK
    <3> QED BY <3>4, <3>6, Zenon
  <2>4. CASE ~(fill_order > 0)
    <3>1. fill_order = 0 /\ n = 1
      BY <2>4, <1>1, CountFacts DEF Orders
    <3>2. fill = End
      BY <3>1, <1>1, <1>3, <1>5
    <3>3. /\ fill_order' = MaxOrder - 2 /\ fill' = FirstAligned
          /\ phase' = "backward"
      BY <2>1, <2>4, Zenon DEF NextFillOrder
    <3>4. /\ MaxOrder - 2 \in Orders /\ MaxOrder - 1 \in Orders
          /\ MaxOrder - 2 \in 0 .. MaxOrder - 1 /\ FirstAligned \in Start .. End
      BY <1>3, RegionAssumption DEF Orders
    <3>5. Aligned(FirstAligned, MaxOrder - 2)
      BY <3>4, <1>3, FirstAlignedOK, AlignedBelow, Zenon
    <3>6. Heads' = Heads /\ order' = order /\ (BootOK' => IInv')
      BY <2>2, <3>3, <3>4, <1>1, BootFrame, Zenon
    <3>7. (Covers(Heads, order, fill, End))'
      BY <3>2, <3>3, <3>6, <1>2, Zenon DEF Covers
    <3>8. BootOK'
      BY <3>3, <3>5, <3>6, <3>7, <1>2, Zenon DEF BootOK
    <3> QED BY <3>6, <3>8, Zenon
  <2> QED BY <2>3, <2>4, Zenon
<1> QED BY <1>4, <1>5, Zenon

\* The downward loop of populate_page preserves the invariant.
LEMMA BackwardInv == IInv /\ PopulateBackward => IInv'
<1> SUFFICES ASSUME IInv, PopulateBackward PROVE IInv'
  OBVIOUS
<1> DEFINE n == BUDDY_CHUNK_PAGES_COUNT(fill_order)
           p == fill - n
<1>1. /\ phase = "backward" /\ phase # "ready"
      /\ fill \in Start .. End /\ fill_order \in Orders
      /\ order \in [Pages -> Orders]
      /\ Tiling(Heads, order)
      /\ UNCHANGED <<lock, callVars, live>>
  BY Zenon DEF IInv, TypeOK, PopulateBackward
<1>2. /\ Aligned(fill, fill_order)
      /\ Covers(Heads, order, fill, End)
      /\ \A q \in Heads : fill <= q
  BY <1>1, Zenon DEF IInv, BootOK
<1>3. /\ n \in Nat \ {0} /\ fill \in Int /\ Start \in Int /\ End \in Int
      /\ Start <= fill /\ fill <= End
  BY <1>1, CountPos, RegionAssumption
<1>4. CASE fill - n >= Start
  <2>1. /\ Populate(p) /\ fill' = p
        /\ UNCHANGED <<phase, fill_order>>
    BY <1>1, <1>4, Zenon DEF PopulateBackward
  <2>2. p + n = fill
    BY <1>3
  <2>3. p \in Pages /\ p + n <= End /\ p \in Start .. End /\ p \in Int
    BY <1>3, <1>4, PageFacts
  <2>4. Clear(p, fill_order, Heads, order)
    BY <1>2, <2>2, Zenon DEF Clear
  <2>5. Aligned(p, fill_order)
    <3>1. fill_order \in 0 .. fill_order /\ n \in Int
      BY <1>1, <1>3 DEF Orders
    <3>2. Aligned(n, fill_order)
      BY <3>1, <1>1, AlignedCount, Zenon
    <3> QED BY <3>1, <3>2, <1>1, <1>2, <1>3, AlignedSum, Zenon
  <2>6. /\ Heads' = Heads \cup {p}
        /\ Top(p, order') = p + n
        /\ \A q \in Heads : Top(q, order') = Top(q, order)
        /\ BootOK' => IInv'
    BY <1>1, <2>1, <2>3, <2>4, <2>5, PopulateStep, Zenon
  <2> HIDE DEF n, p
  <2>7. ASSUME NEW r \in p .. End - 1
        PROVE  \E q \in Heads \cup {p} : q <= r /\ r < Top(q, order')
    <3>1. r \in Int
      BY <1>3, <2>3, <2>7
    <3>2. CASE fill <= r
      <4>1. PICK q \in Heads : q <= r /\ r < Top(q, order)
        BY <3>1, <3>2, <1>2, <1>3, <2>7 DEF Covers
      <4> QED BY <4>1, <2>6, Zenon
    <3>3. CASE r < fill
      BY <3>1, <3>3, <2>2, <2>6, <2>7, <1>3
    <3> QED BY <3>1, <3>2, <3>3, <1>3
  <2>8. \A q \in Heads \cup {p} : p <= q
    <3>1. \A q \in Heads : q \in Int
      BY <1>1, PageFacts, Zenon DEF Tiling
    <3> QED BY <3>1, <1>2, <1>3, <2>2, <2>3
  <2>9. BootOK'
    <3>1. phase' = "backward" /\ fill' = p /\ fill_order' = fill_order
      BY <1>1, <2>1, Zenon
    <3>2. (Covers(Heads, order, fill, End))'
      BY <3>1, <2>6, <2>7, Zenon DEF Covers
    <3> QED BY <3>1, <3>2, <2>5, <2>6, <2>8, Zenon DEF BootOK
  <2> QED BY <2>6, <2>9, Zenon
<1>5. CASE ~(fill - n >= Start)
  <2>1. NextFillOrder(fill, "ready", 0)
    BY <1>1, <1>5, Zenon DEF PopulateBackward
  <2>2. UNCHANGED <<regionVars, lock, callVars, live>>
    BY <2>1, <1>1, Zenon DEF NextFillOrder
  <2>3. CASE fill_order > 0
    <3>1. fill_order' = fill_order - 1 /\ fill' = fill /\ phase' = "backward"
      BY <2>1, <2>3, <1>1, Zenon DEF NextFillOrder
    <3>2. fill_order - 1 \in Orders /\ fill_order - 1 \in 0 .. fill_order
      BY <2>3, <1>1, RegionAssumption DEF Orders
    <3>3. Aligned(fill, fill_order - 1)
      BY <3>2, <1>1, <1>2, <1>3, AlignedBelow, Zenon
    <3>4. Heads' = Heads /\ order' = order /\ (BootOK' => IInv')
      BY <2>2, <3>1, <3>2, <1>1, BootFrame, Zenon
    <3>5. (Covers(Heads, order, fill, End))'
      BY <3>1, <3>4, <1>2, Zenon DEF Covers
    <3>6. BootOK'
      BY <3>1, <3>3, <3>4, <3>5, <1>2, Zenon DEF BootOK
    <3> QED BY <3>4, <3>6, Zenon
  <2>4. CASE ~(fill_order > 0)
    <3>1. fill_order = 0 /\ n = 1
      BY <2>4, <1>1, CountFacts DEF Orders
    <3>2. fill = Start
      BY <3>1, <1>3, <1>5
    <3>3. fill_order' = 0 /\ fill' = fill /\ phase' = "ready"
      BY <2>1, <2>4, Zenon DEF NextFillOrder
    <3>4. Heads' = Heads /\ order' = order /\ (BootOK' => IInv')
      BY <2>2, <3>1, <3>3, <1>1, BootFrame, Zenon
    <3>5. (Covers(Heads, order, Start, End))'
      BY <3>2, <3>4, <1>2, Zenon DEF Covers
    <3>6. BootOK'
      BY <3>3, <3>5, Zenon DEF BootOK
    <3> QED BY <3>4, <3>6, Zenon
  <2> QED BY <2>3, <2>4, Zenon
<1> QED BY <1>4, <1>5, Zenon

\* Every step keeps the invariant.
LEMMA NextInv == IInv /\ [Next]_vars => IInv'
<1> SUFFICES ASSUME IInv, [Next]_vars PROVE IInv'
  OBVIOUS
<1>1. CASE PopulateForward
  BY <1>1, ForwardInv, Zenon
<1>2. CASE PopulateBackward
  BY <1>2, BackwardInv, Zenon
<1>3. ASSUME NEW c \in CPUs, NEW k \in Orders, GetPages(c, k) PROVE IInv'
  BY <1>3, GetPagesInv, Zenon
<1>4. ASSUME NEW c \in CPUs, NEW x \in live, FreePages(c, x) PROVE IInv'
  BY <1>4, FreePagesInv, Zenon
<1>5. ASSUME NEW c \in CPUs, CallStep(c) PROVE IInv'
  BY <1>5, GetNoneInv, GetTakeInv, SplitChunkInv, GetDoneInv, MergeChunkInv,
     FreeDoneInv, Zenon DEF CallStep
<1>6. CASE UNCHANGED vars
  <2>1. UNCHANGED <<regionVars, live>> /\ UNCHANGED <<lock, bootVars, callVars>>
    BY <1>6, Zenon DEF vars
  <2>2. /\ ListsOK' /\ FieldsOK' /\ LiveOK' /\ AllocatedIsLive'
        /\ FreeHeads' = FreeHeads /\ LiveHeads' = LiveHeads
    BY <2>1, RegionFrame, Zenon
  <2>3. BusyHeads' = BusyHeads
    BY <2>1, Zenon DEF BusyHeads, Busy, callVars
  <2>4. Heads' = Heads /\ order' = order
    BY <2>1, <2>2, <2>3, Zenon DEF Heads, regionVars
  <2>5. (Tiling(Heads, order))' /\ BootOK'
    BY <2>1, <2>4, Zenon DEF IInv, Tiling, BootOK, Covers, Top, Aligned, bootVars
  <2>6. TypeOK' /\ NoHalt' /\ Mutex' /\ BootFirst'
    BY <2>1, Zenon DEF IInv, TypeOK, NoHalt, Mutex, BootFirst, regionVars, bootVars,
                callVars
  <2>7. BusyOK' /\ SplitOK'
    BY <2>1, <2>2, Zenon DEF IInv, BusyOK, SplitOK, Busy, regionVars, callVars
  <2> QED BY <2>2, <2>5, <2>6, <2>7, Zenon DEF IInv
<1> QED
  BY <1>1, <1>2, <1>3, <1>4, <1>5, <1>6, Zenon DEF Next

\* IInv is an invariant of the allocator, populate_page included.
THEOREM InductiveInvariant == Spec => []IInv
BY InitInv, NextInv, PTL DEF Spec

-----------------------------------------------------------------------------
\* Type correctness: no field, list, counter or local of mm/buddy.c ever leaves
\* its range.
THEOREM TypeCorrect == Spec => []TypeOK
<1>1. IInv => TypeOK
  BY Zenon DEF IInv
<1> QED BY <1>1, InductiveInvariant, PTL

\* No BUG_ON or kerror of merge_chunk and buddy_get_pages is ever reached.
THEOREM NeverHalts == Spec => []NoHalt
<1>1. IInv => NoHalt
  BY Zenon DEF IInv
<1> QED BY <1>1, InductiveInvariant, PTL

\* The free lists, nr_free and the page fields agree at every step of every call.
THEOREM ListsAgree == Spec => []FreeListsAgree
<1>1. IInv => FreeListsAgree
  <2> SUFFICES ASSUME IInv, NEW k \in Orders
               PROVE  /\ nr_free[k] = Len(free_list[k])
                      /\ Distinct(free_list[k])
                      /\ \A i \in 1 .. Len(free_list[k]) :
                           LET p == free_list[k][i]
                           IN  /\ order[p] = k /\ allocated[p] = 0
                               /\ Aligned(p, k)
    BY Zenon DEF FreeListsAgree, Distinct
  <2>1. nr_free[k] = Len(free_list[k]) /\ Distinct(free_list[k])
    BY Zenon DEF IInv, ListsOK
  <2>2. ASSUME NEW i \in 1 .. Len(free_list[k])
        PROVE  LET p == free_list[k][i]
               IN  order[p] = k /\ allocated[p] = 0 /\ Aligned(p, k)
    <3> DEFINE p == free_list[k][i]
    <3>1. p \in Pages /\ page_in_list(p, free_list[k])
      BY SMTT(30) DEF IInv, TypeOK, page_in_list
    <3>2. order[p] = k /\ allocated[p] = 0 /\ p \in Heads
      BY <3>1, Zenon DEF IInv, FieldsOK, Heads, FreeHeads
    <3> QED BY <3>2, Zenon DEF IInv, Tiling
  <2> QED BY <2>1, <2>2, Zenon
<1> QED BY <1>1, InductiveInvariant, PTL

\* IInv says of heads and orders what ChunksTileMemory says of page sets.
LEMMA TilingOK == IInv => ChunksTileMemory
<1> SUFFICES ASSUME IInv PROVE ChunksTileMemory
  OBVIOUS
<1>1. TypeOK /\ Tiling(Heads, order) /\ order \in [Pages -> Orders]
  BY Zenon DEF IInv, TypeOK
<1>2. FreeHeads \cap LiveHeads = {}
  BY DEF IInv, FieldsOK, LiveOK, FreeHeads, LiveHeads
<1>3. (FreeHeads \cup LiveHeads) \cap BusyHeads = {}
  BY DEF IInv, BusyOK, LiveOK, LiveHeads, BusyHeads
<1>4. \A q \in Heads :
        q \in Int /\ Top(q, order) \in Int /\ Span(q) = q .. Top(q, order) - 1
  <2> TAKE q \in Heads
  <2>1. q \in Pages /\ q \in Int /\ Top(q, order) \in Int
    BY <1>1, PageFacts, TopFacts, Zenon DEF Tiling
  <2>2. Span(q) = q .. Top(q, order) - 1
    <3>1. BUDDY_CHUNK_PAGES_COUNT(order[q]) \in Nat \ {0}
      BY <2>1, <1>1, CountPos, Zenon
    <3>2. Top(q, order) - 1 = q + (BUDDY_CHUNK_PAGES_COUNT(order[q]) - 1)
      BY <3>1, <2>1 DEF Top
    <3> QED BY <3>2, Zenon DEF Span
  <2> QED BY <2>1, <2>2, Zenon
<1>5. ASSUME NEW p \in Heads, NEW q \in Heads, p # q
      PROVE  Span(p) \cap Span(q) = {}
  <2>1. p \in Int /\ q \in Int
    BY <1>4, Zenon
  <2>2. CASE p < q
    BY <2>1, <2>2, <1>1, <1>4 DEF Tiling
  <2>3. CASE q < p
    BY <2>1, <2>3, <1>1, <1>4 DEF Tiling
  <2> QED BY <2>1, <2>2, <2>3, <1>5
<1>6. ASSUME phase = "ready", NEW q \in Pages
      PROVE  \E p \in Heads : q \in Span(p)
  <2>1. PICK p \in Heads : p <= q /\ q < Top(p, order)
    BY <1>6, Zenon DEF IInv, BootOK, Covers, Pages
  <2>2. q \in Int
    BY PageFacts, SMTT(30)
  <2> QED BY <2>1, <2>2, <1>4
<1>7. phase = "ready" => Pages \subseteq UNION {Span(p) : p \in Heads}
  BY <1>6, Zenon
<1> QED BY <1>2, <1>3, <1>5, <1>7, Zenon DEF ChunksTileMemory

\* Chunks never overlap, and once populate_page is done no page is ever lost:
\* each one is in a chunk that is free, held, or in the hands of one call.
THEOREM MemoryIsTiled == Spec => []ChunksTileMemory
BY TilingOK, InductiveInvariant, PTL

\* Only the return of buddy_get_pages and the entry of buddy_free_pages change
\* what the callers hold; every other step is invisible to them.
LEMMA OthersStutter ==
  ASSUME NEW c \in CPUs, CallStep(c), ~GetDone(c)
  PROVE  live' = live
BY Zenon DEF CallStep, GetNone, GetTake, SplitChunk, MergeChunk, FreeDone, Halt

\* The chunk a call returns is what PageAllocator allows it to return.
LEMMA GetDoneIsGet ==
  ASSUME IInv, NEW c \in CPUs, GetDone(c)
  PROVE  PA!Next
<1> DEFINE p == chunk[c]
           k == want[c]
<1>1. pc[c] = "split" /\ level[c] = k
  BY Zenon DEF GetDone
<1>2. /\ p \in Pages /\ allocated[p] = 0 /\ order[p] = k /\ k \in Orders
      /\ order \in [Pages -> Orders] /\ Tiling(Heads, order)
  BY <1>1, SMTT(30) DEF IInv, BusyOK, SplitOK, Busy, TypeOK
<1>3. live' = live \cup {<<p, k>>}
  BY <1>2 DEF GetDone
<1>4. p \in BusyHeads /\ p \in Heads
  BY <1>1, SMTT(30) DEF BusyHeads, Heads, Busy
<1>5. /\ p % 2 ^ k = 0 /\ p + 2 ^ k <= End /\ p \in Int /\ Start <= p
      /\ 2 ^ k \in Nat \ {0}
  BY <1>2, <1>4, PageFacts, CountPos, Zenon
     DEF Tiling, Aligned, Top, BUDDY_CHUNK_PAGES_COUNT
<1> HIDE DEF p, k
<1>6. PA!ChunkPages(<<p, k>>) = p .. p + 2 ^ k - 1
  BY Zenon DEF PA!ChunkPages
<1>7. PA!ChunkPages(<<p, k>>) \subseteq Start .. End - 1
  BY <1>5, <1>6, RegionAssumption, SMTT(30)
<1>8. ASSUME NEW x \in live
      PROVE  PA!ChunkPages(x) \cap PA!ChunkPages(<<p, k>>) = {}
  <2>1. x[1] \in LiveHeads /\ x[1] \in Heads /\ order[x[1]] = x[2]
    BY Zenon DEF LiveHeads, Heads, IInv, LiveOK
  <2>2. x[1] # p
    BY <2>1, <1>4, TilingOK, Zenon DEF ChunksTileMemory
  <2>3. Span(x[1]) \cap Span(p) = {}
    BY <2>1, <2>2, <1>4, TilingOK, Zenon DEF ChunksTileMemory
  <2>4. PA!ChunkPages(x) = Span(x[1]) /\ PA!ChunkPages(<<p, k>>) = Span(p)
    BY <2>1, <1>2, <1>6, Zenon DEF PA!ChunkPages, Span, BUDDY_CHUNK_PAGES_COUNT
  <2> QED BY <2>3, <2>4, Zenon
<1>9. PA!Get(p, k)
  BY <1>3, <1>5, <1>7, <1>8 DEF PA!Get
<1> QED BY <1>2, <1>9, SMTT(30) DEF PA!Next, Pages, Orders

\* The allocator of mm/buddy.c implements PageAllocator: whatever the CPUs call
\* and however their calls interleave, each chunk handed out is aligned, inside
\* the region and disjoint from every chunk still held.
THEOREM Refinement == Spec => ImplementsPageAllocator
<1>1. Init => PA!Init
  BY Zenon DEF Init, PA!Init
<1>2. IInv /\ [Next]_vars => [PA!Next]_live
  <2> SUFFICES ASSUME IInv, [Next]_vars PROVE PA!Next \/ live' = live
    OBVIOUS
  <2>1. CASE PopulateForward \/ PopulateBackward \/ UNCHANGED vars
    BY <2>1, Zenon DEF PopulateForward, PopulateBackward, vars
  <2>2. ASSUME NEW c \in CPUs, NEW k \in Orders, GetPages(c, k)
        PROVE  live' = live
    BY <2>2, Zenon DEF GetPages
  <2>3. ASSUME NEW c \in CPUs, NEW x \in live, FreePages(c, x) PROVE PA!Next
    BY <2>3, Zenon DEF FreePages, PA!Next, PA!Free
  <2>4. ASSUME NEW c \in CPUs, CallStep(c) PROVE PA!Next \/ live' = live
    BY <2>4, GetDoneIsGet, OthersStutter, Zenon
  <2> QED BY <2>1, <2>2, <2>3, <2>4 DEF Next
<1> QED
  BY <1>1, <1>2, InductiveInvariant, PTL
     DEF Spec, ImplementsPageAllocator, PA!Spec

-----------------------------------------------------------------------------
(***************************************************************************)
(* Merging is complete.  IInv says nothing of which chunks are free, so    *)
(* the proof of NoFalseOOM strengthens it: no two free chunks are buddies. *)
(* It holds after populate_page because of the shape the two loops build,  *)
(* and a call keeps it because merge_chunk goes up until the buddy of the  *)
(* chunk it puts back is not free as one chunk.                            *)
(***************************************************************************)
\* Page p heads a free chunk of order k.
FreeAt(p, k) == page_in_list(p, free_list[k])

\* The two halves of an aligned block are never both free: merge_chunk would have
\* joined them.
NoFreeBuddies ==
  \A k \in Orders :
    k + 1 \in Orders =>
      \A p, q \in Pages :
        FreeAt(p, k) /\ FreeAt(q, k) /\ Aligned(p, k + 1) =>
          q # p + BUDDY_CHUNK_PAGES_COUNT(k)

\* What populate_page has built so far: above FirstAligned chunks of the largest
\* order only, below it at most one of each smaller order.
BootShape ==
  /\ phase = "forward" =>
       /\ Aligned(fill, MaxOrder - 1)
       /\ fill_order < MaxOrder - 1 => fill = End
       /\ \A p \in Heads : order[p] = MaxOrder - 1
  /\ phase = "backward" =>
       /\ fill_order < MaxOrder - 1
       /\ fill - BUDDY_CHUNK_PAGES_COUNT(fill_order + 1) < Start
       /\ \A p \in Heads :
            \/ order[p] = MaxOrder - 1
            \/ p - BUDDY_CHUNK_PAGES_COUNT(order[p]) < Start

MergedInv == IInv /\ NoFreeBuddies /\ BootShape

\* What is left to show of a step after populate_page has returned.
LEMMA MergedFrame ==
  ASSUME phase' = "ready",
         \A k \in Orders : \A p, q \in Pages :
           /\ k + 1 \in Orders
           /\ page_in_list(p, free_list'[k]) /\ page_in_list(q, free_list'[k])
           /\ Aligned(p, k + 1)
           => q # p + BUDDY_CHUNK_PAGES_COUNT(k)
  PROVE  NoFreeBuddies' /\ BootShape'
<1>1. BootShape'
  BY Zenon DEF BootShape
<1>2. NoFreeBuddies'
  BY Zenon DEF NoFreeBuddies, FreeAt, page_in_list, Aligned
<1> QED BY <1>1, <1>2, Zenon

\* A step that puts no chunk on a free list keeps them merged: the steps of
\* buddy_get_pages but a split, the first step of buddy_free_pages and a merge.
LEMMA ShrinkMerged ==
  ASSUME NoFreeBuddies, phase' = "ready",
         \A j \in Orders, q \in Pages :
           page_in_list(q, free_list'[j]) => page_in_list(q, free_list[j])
  PROVE  NoFreeBuddies' /\ BootShape'
<1>1. ASSUME NEW k \in Orders, NEW p \in Pages, NEW q \in Pages, k + 1 \in Orders,
             page_in_list(p, free_list'[k]), page_in_list(q, free_list'[k]),
             Aligned(p, k + 1)
      PROVE  q # p + BUDDY_CHUNK_PAGES_COUNT(k)
  <2>1. page_in_list(p, free_list[k]) /\ page_in_list(q, free_list[k])
    BY <1>1, Zenon
  <2> QED BY <1>1, <2>1, Zenon DEF NoFreeBuddies, FreeAt
<1> QED BY <1>1, MergedFrame, Zenon

\* The upper half that split_chunk frees has its buddy in the hands of the call.
LEMMA SplitMerged ==
  ASSUME MergedInv, NEW c \in CPUs, SplitChunk(c)
  PROVE  NoFreeBuddies' /\ BootShape'
<1>0. PICK p, k, n, b : /\ p = chunk[c] /\ k = level[c] - 1
                        /\ n = BUDDY_CHUNK_PAGES_COUNT(k) /\ b = p + n
  OBVIOUS
<1>1. /\ pc[c] = "split" /\ level[c] > want[c] /\ Link(b, k)
      /\ order' = [order EXCEPT ![p] = k, ![b] = k] /\ UNCHANGED bootVars
  BY <1>0, Zenon DEF SplitChunk
<1>2. IInv /\ NoFreeBuddies /\ TypeOK /\ ListsOK /\ Tiling(Heads, order)
  BY Zenon DEF MergedInv, IInv
<1>3. /\ p \in Pages /\ p \notin FreeHeads
      /\ level[c] = order[p] /\ want[c] \in Orders /\ level[c] \in Orders
      /\ order \in [Pages -> Orders]
  <2>1. p \in Pages /\ p \notin FreeHeads
    BY <1>0, <1>1, <1>2, Zenon DEF IInv, BusyOK, Busy
  <2>2. level[c] = order[p]
    BY <1>0, <1>1, <1>2, Zenon DEF IInv, SplitOK
  <2>3. /\ want \in [CPUs -> Orders] /\ level \in [CPUs -> Orders]
        /\ order \in [Pages -> Orders]
    BY <1>2, Zenon DEF TypeOK
  <2> QED BY <2>1, <2>2, <2>3, Zenon
<1>4. k \in Orders /\ order[p] = k + 1 /\ k + 1 \in Orders
  BY <1>0, <1>1, <1>3, RegionAssumption DEF Orders
<1>5. p \in Heads /\ phase = "ready" /\ phase' = "ready" /\ Covers(Heads, order, Start, End)
  BY <1>0, <1>1, <1>2, InCall, Zenon DEF Busy, Heads, bootVars
<1>6. b \in Pages \ Heads
  <2>1. /\ order \in [Pages -> Orders] /\ Tiling(Heads, order) /\ p \in Heads
        /\ Covers(Heads, order, Start, End) /\ k \in Orders /\ order[p] = k + 1
    BY <1>2, <1>3, <1>4, <1>5, Zenon
  <2>2. p + BUDDY_CHUNK_PAGES_COUNT(k) \in Pages \ Heads
    BY <2>1, SplitTiling, Zenon
  <2> QED BY <2>2, <1>0, Zenon
<1>7. \A j \in Orders, q \in Pages :
        page_in_list(q, free_list'[j]) <=>
          page_in_list(q, free_list[j]) \/ (j = k /\ q = b)
  <2>1. b \in Pages /\ b \notin FreeHeads
    BY <1>6, Zenon DEF Heads
  <2> QED BY <2>1, <1>1, <1>2, <1>4, LinkEffect, Zenon
<1>8. /\ Aligned(p, k + 1) /\ p \in Int /\ b \in Int /\ n \in Nat \ {0}
      /\ BUDDY_CHUNK_PAGES_COUNT(k + 1) = 2 * n
  BY <1>0, <1>2, <1>3, <1>4, <1>5, <1>6, PageFacts, CountPos, CountDouble, ZenonT(30) DEF Tiling
<1>9. ASSUME NEW j \in Orders, NEW x \in Pages, NEW y \in Pages, j + 1 \in Orders,
             page_in_list(x, free_list'[j]), page_in_list(y, free_list'[j]),
             Aligned(x, j + 1)
      PROVE  y # x + BUDDY_CHUNK_PAGES_COUNT(j)
  <2>1. CASE page_in_list(x, free_list[j]) /\ page_in_list(y, free_list[j])
    BY <1>2, <1>9, <2>1 DEF NoFreeBuddies, FreeAt
  <2>2. CASE j = k /\ x = b
    <3>1. b < p + BUDDY_CHUNK_PAGES_COUNT(k + 1)
      BY <1>0, <1>8
    <3>2. b <= p
      BY <3>1, <2>2, <1>4, <1>8, <1>9, AlignedClose, SMTT(30)
    <3> QED BY <3>2, <1>0, <1>8
  <2>3. CASE j = k /\ y = b /\ x # b
    <3>1. page_in_list(x, free_list[k])
      BY <2>3, <1>7, <1>9, Zenon
    <3>2. x # p
      BY <3>1, <1>3, <1>4, Zenon DEF FreeHeads
    <3>3. x \in Int
      BY PageFacts, Zenon
    <3> QED BY <3>2, <3>3, <2>3, <1>0, <1>8
  <2> QED BY <1>7, <1>9, <2>1, <2>2, <2>3, SMTT(30)
<1> QED BY <1>5, <1>9, MergedFrame, Zenon

\* The chunk buddy_free_pages puts on a list has no free buddy of its order:
\* merge_chunk looked for it and would have found it.
LEMMA BuddyWouldMerge ==
  ASSUME IInv, NEW p \in Heads, p \in Pages, ~CanMerge(p), order[p] + 1 \in Orders,
         NEW y \in Pages, y # p, page_in_list(y, free_list[order[p]])
  PROVE  LET n == BUDDY_CHUNK_PAGES_COUNT(order[p])
         IN  /\ ~(Aligned(p, order[p] + 1) /\ y = p + n)
             /\ ~(Aligned(y, order[p] + 1) /\ p = y + n)
<1>0. PICK k, n, r : /\ k = order[p] /\ n = BUDDY_CHUNK_PAGES_COUNT(k)
                     /\ r = ROUND_DOWN(p, BUDDY_CHUNK_PAGES_COUNT(k + 1))
  OBVIOUS
<1>1. /\ k \in Orders /\ k + 1 \in Orders /\ p \in Int /\ y \in Int /\ n \in Nat \ {0}
      /\ BUDDY_CHUNK_PAGES_COUNT(k + 1) = 2 * n /\ Aligned(p, k)
  <2>1. order \in [Pages -> Orders] /\ Tiling(Heads, order)
    BY Zenon DEF IInv, TypeOK
  <2>2. k \in Orders /\ Aligned(p, k)
    BY <2>1, <1>0 DEF Tiling
  <2> QED BY <2>2, <1>0, PageFacts, CountPos, CountDouble
<1>2. /\ nr_free[k] # 0 /\ k # MaxOrder - 1 /\ y # NULL /\ allocated[y] # 1 /\ order[y] = k
  <2>1. order[y] = k /\ allocated[y] = 0
    BY <1>0, <1>1, SMTT(30) DEF IInv, FieldsOK
  <2>2. nr_free[k] # 0
    <3>1. nr_free[k] = Len(free_list[k]) /\ free_list[k] \in Seq(Pages)
      BY <1>1, Zenon DEF IInv, ListsOK, TypeOK
    <3>2. PICK i \in 1 .. Len(free_list[k]) : free_list[k][i] = y
      BY <1>0, Zenon DEF page_in_list
    <3> QED BY <3>1, <3>2
  <2>3. k # MaxOrder - 1
    BY <1>1, RegionAssumption DEF Orders
  <2> QED BY <2>1, <2>2, <2>3, NullAssumption, SMTT(30)
<1>3. ChunkBuddy(p) # y
  BY <1>0, <1>2, Zenon DEF CanMerge
<1>4. r \in {p, p - n} /\ Aligned(r, k + 1)
  BY <1>0, <1>1, RoundDownHalf, Zenon
<1>5. ChunkBuddy(p) = IF virt_to_page(r) = p THEN p + n ELSE virt_to_page(r)
  BY <1>0, Zenon DEF ChunkBuddy, ChunkMerge
<1>6. ~(Aligned(p, k + 1) /\ y = p + n)
  <2> SUFFICES ASSUME Aligned(p, k + 1), y = p + n PROVE FALSE
    OBVIOUS
  <2>1. p < r + BUDDY_CHUNK_PAGES_COUNT(k + 1) /\ r \in Int
    BY <1>1, <1>4
  <2>2. p <= r
    BY <2>1, <1>1, <1>4, AlignedClose, SMTT(30)
  <2>3. r = p
    BY <2>2, <1>1, <1>4
  <2> QED BY <2>3, <1>3, <1>5, Zenon DEF virt_to_page
<1>7. ~(Aligned(y, k + 1) /\ p = y + n)
  <2> SUFFICES ASSUME Aligned(y, k + 1), p = y + n PROVE FALSE
    OBVIOUS
  <2>1. CASE r = p
    <3>1. p < y + BUDDY_CHUNK_PAGES_COUNT(k + 1) /\ Aligned(p, k + 1)
      BY <2>1, <1>1, <1>4
    <3>2. p <= y
      BY <3>1, <1>1, AlignedClose, Zenon
    <3> QED BY <3>2, <1>1
  <2>2. CASE r = p - n
    <3>1. r = y
      BY <2>2, <1>1
    <3> QED BY <3>1, <1>3, <1>5, Zenon DEF virt_to_page
  <2> QED BY <2>1, <2>2, <1>4, Zenon
<1> QED BY <1>0, <1>6, <1>7, Zenon

\* The last step of buddy_free_pages keeps the free chunks merged.
LEMMA FreeDoneMerged ==
  ASSUME MergedInv, NEW c \in CPUs, FreeDone(c)
  PROVE  NoFreeBuddies' /\ BootShape'
<1>0. PICK p, k, n : p = chunk[c] /\ k = order[p] /\ n = BUDDY_CHUNK_PAGES_COUNT(k)
  OBVIOUS
<1>1. pc[c] = "merge" /\ ~CanMerge(p) /\ Link(p, k) /\ UNCHANGED bootVars
  BY <1>0, Zenon DEF FreeDone
<1>2. IInv /\ NoFreeBuddies /\ TypeOK /\ ListsOK
  BY Zenon DEF MergedInv, IInv
<1>3. p \in Pages /\ p \notin FreeHeads /\ k \in Orders
  <2>1. p \in Pages /\ p \notin FreeHeads
    BY <1>0, <1>1, <1>2, Zenon DEF IInv, BusyOK, Busy
  <2> QED BY <2>1, <1>0, <1>2, Zenon DEF TypeOK
<1>4. p \in Heads /\ phase' = "ready"
  BY <1>0, <1>1, <1>2, InCall DEF Busy, Heads, bootVars
<1>5. \A j \in Orders, q \in Pages :
        page_in_list(q, free_list'[j]) <=>
          page_in_list(q, free_list[j]) \/ (j = k /\ q = p)
  BY <1>1, <1>2, <1>3, LinkEffect, Zenon
<1>6. ASSUME NEW j \in Orders, NEW x \in Pages, NEW y \in Pages, j + 1 \in Orders,
             page_in_list(x, free_list'[j]), page_in_list(y, free_list'[j]),
             Aligned(x, j + 1)
      PROVE  y # x + BUDDY_CHUNK_PAGES_COUNT(j)
  <2>1. CASE page_in_list(x, free_list[j]) /\ page_in_list(y, free_list[j])
    BY <1>2, <1>6, <2>1, Zenon DEF NoFreeBuddies, FreeAt
  <2>2. x \in Int /\ y \in Int /\ BUDDY_CHUNK_PAGES_COUNT(j) \in Nat \ {0}
    BY PageFacts, CountPos, ZenonT(30)
  <2>3. CASE j = k /\ x = p /\ y # p
    <3>1. page_in_list(y, free_list[k])
      BY <2>3, <1>5, <1>6, ZenonT(30)
    <3> QED BY <3>1, <2>3, <1>0, <1>1, <1>2, <1>3, <1>4, <1>6, BuddyWouldMerge
  <2>4. CASE j = k /\ y = p /\ x # p
    <3>1. page_in_list(x, free_list[k])
      BY <2>4, <1>5, <1>6, Zenon
    <3> QED BY <3>1, <2>4, <1>0, <1>1, <1>2, <1>3, <1>4, <1>6, BuddyWouldMerge, SMTT(30)
  <2>5. CASE x = y
    BY <2>2, <2>5
  <2> QED BY <1>5, <1>6, <2>1, <2>3, <2>4, <2>5
<1> QED BY <1>4, <1>6, MergedFrame, Zenon

\* The steps of the calls that take a chunk off a free list, or leave the lists alone.
LEMMA ListsMerged ==
  ASSUME MergedInv, NEW c \in CPUs,
         \/ \E k \in Orders : GetPages(c, k)
         \/ \E x \in live : FreePages(c, x)
         \/ GetNone(c) \/ GetTake(c) \/ GetDone(c) \/ MergeChunk(c)
  PROVE  NoFreeBuddies' /\ BootShape'
<1>1. IInv /\ NoFreeBuddies /\ TypeOK /\ ListsOK /\ FieldsOK
  BY Zenon DEF MergedInv, IInv
<1>2. phase' = "ready"
  <2>1. CASE \/ \E k \in Orders : GetPages(c, k)
             \/ \E x \in live : FreePages(c, x)
    BY <2>1, Zenon DEF GetPages, FreePages, bootVars
  <2>2. CASE GetNone(c) \/ GetTake(c) \/ GetDone(c) \/ MergeChunk(c)
    <3>1. pc[c] # "idle" /\ UNCHANGED bootVars
      BY <2>2, Zenon DEF GetNone, GetTake, GetDone, MergeChunk
    <3> QED BY <3>1, <1>1, InCall, Zenon DEF bootVars
  <2> QED BY <2>1, <2>2, Zenon
<1>3. CASE free_list' = free_list
  BY <1>1, <1>2, <1>3, ShrinkMerged, Zenon
<1>4. CASE \/ \E k \in Orders : GetPages(c, k)
           \/ \E x \in live : FreePages(c, x)
           \/ GetNone(c) \/ GetDone(c)
  BY <1>3, <1>4, Zenon DEF GetPages, FreePages, GetNone, GetDone, Halt, regionVars
<1>5. CASE GetTake(c)
  <2>1. PICK j \in Splittable(want[c]) :
          /\ free_list' = [free_list EXCEPT ![j] = Tail(free_list[j])]
          /\ nr_free' = [nr_free EXCEPT ![j] = nr_free[j] - 1]
    BY <1>5, Zenon DEF GetTake
  <2>2. j \in Orders /\ nr_free[j] # 0
    <3>1. want[c] \in Orders
      BY <1>1, Zenon DEF TypeOK
    <3> QED BY <3>1, RegionAssumption DEF Splittable, Orders
  <2>3. /\ free_list[j] \in Seq(Pages) /\ Distinct(free_list[j])
        /\ free_list[j] # <<>>
    BY <1>1, <2>2, ZenonT(30) DEF TypeOK, ListsOK
  <2>4. PICK h \in Pages :
          /\ page_in_list(h, free_list[j])
          /\ Tail(free_list[j]) \in Seq(Pages) /\ Distinct(Tail(free_list[j]))
          /\ Len(free_list[j]) >= 1
          /\ Len(Tail(free_list[j])) = Len(free_list[j]) - 1
          /\ \A q : page_in_list(q, Tail(free_list[j])) <=>
                      q # h /\ page_in_list(q, free_list[j])
    BY <2>3, ListTail
  <2>5. \A i \in Orders, q \in Pages :
          page_in_list(q, free_list'[i]) => page_in_list(q, free_list[i])
    BY <1>1, <2>1, <2>2, <2>4, UnlinkEffect, Zenon
  <2> QED BY <2>5, <1>1, <1>2, ShrinkMerged, Zenon
<1>6. CASE MergeChunk(c)
  <2>0. PICK p, k, m, b : /\ p = chunk[c] /\ k = order[p]
                          /\ m = ChunkMerge(p) /\ b = ChunkBuddy(p)
    OBVIOUS
  <2>1. /\ k \in Orders /\ b \in Pages /\ page_in_list(b, free_list[k])
    <3>1. pc[c] = "merge" /\ CanMerge(chunk[c])
      BY <1>6, Zenon DEF MergeChunk
    <3>2. MergeOK(p, k, m, b)
      BY <3>1, <2>0, <1>1, MergeFacts, Zenon
    <3> QED BY <3>2, Zenon DEF MergeOK
  <2>2. /\ free_list' = [free_list EXCEPT ![k] = list_del(b, free_list[k])]
        /\ nr_free' = [nr_free EXCEPT ![k] = nr_free[k] - 1]
    BY <1>6, <2>0, <2>1, Zenon DEF MergeChunk
  <2>3. free_list[k] \in Seq(Pages) /\ Distinct(free_list[k])
    BY <1>1, <2>1, Zenon DEF TypeOK, ListsOK
  <2>4. PICK l \in Seq(Pages) :
          /\ l = list_del(b, free_list[k]) /\ Len(free_list[k]) >= 1
          /\ Len(l) = Len(free_list[k]) - 1 /\ Distinct(l)
          /\ \A q : page_in_list(q, l) <=> q # b /\ page_in_list(q, free_list[k])
    BY <2>1, <2>3, ListDel, Zenon
  <2>5. \A i \in Orders, q \in Pages :
          page_in_list(q, free_list'[i]) => page_in_list(q, free_list[i])
    BY <1>1, <2>1, <2>2, <2>4, UnlinkEffect, Zenon
  <2> QED BY <2>5, <1>1, <1>2, ShrinkMerged, Zenon
<1> QED BY <1>4, <1>5, <1>6, Zenon

\* What one iteration of populate_page that links a chunk at p does.
LEMMA PopulateLinks ==
  ASSUME IInv, phase # "ready", NEW p \in Pages, p \notin Heads, Populate(p),
         UNCHANGED <<phase, fill_order, lock, callVars, live>>
  PROVE  /\ \A j \in Orders, q \in Pages :
              page_in_list(q, free_list'[j]) <=>
                page_in_list(q, free_list[j]) \/ (j = fill_order /\ q = p)
         /\ \A j \in Orders, q \in Pages :
              page_in_list(q, free_list[j]) => q \in Heads /\ order[q] = j
         /\ Heads' = Heads \cup {p}
         /\ order'[p] = fill_order /\ \A q \in Heads : order'[q] = order[q]
<1>1. /\ TypeOK /\ ListsOK /\ FieldsOK /\ Tiling(Heads, order)
      /\ order \in [Pages -> Orders] /\ fill_order \in Orders
  BY SMTT(30) DEF IInv, TypeOK
<1>2. p \notin FreeHeads /\ Link(p, fill_order) /\ order' = [order EXCEPT ![p] = fill_order]
  BY Zenon DEF Heads, Populate
<1>3. /\ \A j \in Orders, q \in Pages :
           page_in_list(q, free_list'[j]) <=>
             page_in_list(q, free_list[j]) \/ (j = fill_order /\ q = p)
      /\ FreeHeads' = FreeHeads \cup {p}
  BY <1>1, <1>2, LinkEffect, Zenon
<1>4. LiveHeads' = LiveHeads /\ BusyHeads' = BusyHeads
  BY Zenon DEF LiveHeads, BusyHeads, Busy, callVars
<1>5. Heads' = Heads \cup {p}
  BY <1>3, <1>4, Zenon DEF Heads
<1>6. order'[p] = fill_order /\ \A q \in Heads : order'[q] = order[q]
  BY <1>1, <1>2, Zenon DEF Tiling
<1>7. \A j \in Orders, q \in Pages :
        page_in_list(q, free_list[j]) => q \in Heads /\ order[q] = j
  BY <1>1, Zenon DEF FieldsOK, Heads, FreeHeads
<1> QED BY <1>3, <1>5, <1>6, <1>7, Zenon

\* populate_page rounds the start of the region up by less than the largest chunk.
LEMMA FirstAlignedLow == FirstAligned - BUDDY_CHUNK_PAGES_COUNT(MaxOrder - 1) < Start
<1> DEFINE n == BUDDY_CHUNK_PAGES_COUNT(MaxOrder - 1)
           a == Start + n - 1
<1>1. n \in Nat \ {0} /\ Start \in Nat /\ a \in Int
  BY CountFacts
<1>2. FirstAligned = (a \div n) * n
  BY Zenon DEF FirstAligned, ROUND_UP
<1> HIDE DEF n
<1>3. /\ a \div n \in Int /\ a % n \in Int
      /\ a = n * (a \div n) + (a % n)
      /\ a % n \in 0 .. n - 1
  <2> HIDE DEF a
  <2> QED BY <1>1, DivMod
<1>4. (a \div n) * n = n * (a \div n) /\ n * (a \div n) \in Int
  BY <1>3, <1>1
<1> HIDE DEF a
<1>5. FirstAligned <= a /\ FirstAligned \in Int
  BY <1>1, <1>2, <1>3, <1>4, SMTT(30)
<1>6. FirstAligned - n < Start
  BY <1>1, <1>5 DEF a
<1> QED BY <1>6, Zenon DEF n

\* What is left to show of a step of populate_page.
LEMMA BootMerged ==
  ASSUME NoFreeBuddies, NEW p,
         \A j \in Orders, q \in Pages :
           page_in_list(q, free_list'[j]) =>
             page_in_list(q, free_list[j]) \/ (j = fill_order /\ q = p),
         fill_order + 1 \in Orders =>
           \A q \in Pages :
             page_in_list(q, free_list[fill_order]) =>
               /\ q # p + BUDDY_CHUNK_PAGES_COUNT(fill_order)
               /\ p # q + BUDDY_CHUNK_PAGES_COUNT(fill_order),
         p \in Int, fill_order \in Orders
  PROVE  NoFreeBuddies'
<1>1. ASSUME NEW j \in Orders, NEW x \in Pages, NEW y \in Pages, j + 1 \in Orders,
             page_in_list(x, free_list'[j]), page_in_list(y, free_list'[j]),
             Aligned(x, j + 1)
      PROVE  y # x + BUDDY_CHUNK_PAGES_COUNT(j)
  <2>1. CASE page_in_list(x, free_list[j]) /\ page_in_list(y, free_list[j])
    BY <1>1, <2>1, Zenon DEF NoFreeBuddies, FreeAt
  <2>2. CASE j = fill_order /\ x = p /\ page_in_list(y, free_list[j])
    BY <1>1, <2>2, Zenon
  <2>3. CASE j = fill_order /\ y = p /\ page_in_list(x, free_list[j])
    BY <1>1, <2>3, Zenon
  <2>4. CASE x = p /\ y = p
    BY <2>4, CountPos
  <2> QED BY <1>1, <2>1, <2>2, <2>3, <2>4
<1> QED BY <1>1, Zenon DEF NoFreeBuddies, FreeAt, page_in_list, Aligned

\* The upward loop of populate_page only ever links chunks of the largest order:
\* the region ends where one of them does.
LEMMA ForwardMerged ==
  ASSUME MergedInv, PopulateForward
  PROVE  NoFreeBuddies' /\ BootShape'
<1>0. PICK n, big : /\ n = BUDDY_CHUNK_PAGES_COUNT(fill_order)
                    /\ big = BUDDY_CHUNK_PAGES_COUNT(MaxOrder - 1)
  OBVIOUS
<1>1. /\ IInv /\ NoFreeBuddies /\ phase = "forward" /\ phase # "ready"
      /\ fill \in Int /\ Start <= fill /\ fill <= End /\ fill_order \in Orders
      /\ Tiling(Heads, order) /\ order \in [Pages -> Orders]
      /\ UNCHANGED <<lock, callVars, live>>
  <2>1. IInv /\ NoFreeBuddies /\ TypeOK /\ Tiling(Heads, order)
    BY Zenon DEF MergedInv, IInv
  <2>2. phase = "forward" /\ UNCHANGED <<lock, callVars, live>>
    BY Zenon DEF PopulateForward
  <2>3. fill \in Start .. End /\ fill_order \in Orders /\ order \in [Pages -> Orders]
    BY <2>1, Zenon DEF TypeOK
  <2> QED BY <2>1, <2>2, <2>3, RegionAssumption
<1>2. /\ Aligned(fill, MaxOrder - 1)
      /\ fill_order < MaxOrder - 1 => fill = End
      /\ \A q \in Heads : order[q] = MaxOrder - 1
  BY <1>1, Zenon DEF MergedInv, BootShape
<1>3. \A q \in Heads : Top(q, order) <= fill
  BY <1>1, Zenon DEF IInv, BootOK
<1>4. /\ n \in Nat \ {0} /\ big \in Nat \ {0} /\ End \in Int
      /\ MaxOrder - 1 \in Orders /\ Aligned(big, MaxOrder - 1)
      /\ Aligned(End, MaxOrder - 1)
  <2>1. MaxOrder - 1 \in Orders /\ MaxOrder - 1 \in 0 .. MaxOrder - 1 /\ End \in Int
    BY RegionAssumption DEF Orders
  <2> QED BY <2>1, <1>0, <1>1, CountPos, AlignedCount, EndAligned
<1>5. CASE fill + n - 1 < End
  <2>1. Populate(fill) /\ fill' = fill + n /\ UNCHANGED <<phase, fill_order>>
    BY <1>0, <1>1, <1>5, Zenon DEF PopulateForward
  <2>2. fill \in Pages /\ fill # End
    BY <1>1, <1>4, <1>5, PageFacts
  <2>3. fill_order = MaxOrder - 1 /\ n = big
    BY <2>2, <1>0, <1>1, <1>2, RegionAssumption DEF Orders
  <2>4. fill \notin Heads
    <3>1. \A q \in Heads : q < Top(q, order) /\ Top(q, order) \in Int /\ q \in Int
      BY <1>1, TopFacts, PageFacts, SMTT(30) DEF Tiling
    <3> QED BY <3>1, <1>1, <1>3, SMTT(30)
  <2>5. /\ \A j \in Orders, q \in Pages :
             page_in_list(q, free_list'[j]) <=>
               page_in_list(q, free_list[j]) \/ (j = fill_order /\ q = fill)
        /\ Heads' = Heads \cup {fill}
        /\ order'[fill] = fill_order /\ \A q \in Heads : order'[q] = order[q]
    BY <1>1, <2>1, <2>2, <2>4, PopulateLinks, SMTT(30)
  <2>6. fill_order + 1 \notin Orders
    BY <2>3, RegionAssumption, SMTT(30) DEF Orders
  <2>7. NoFreeBuddies'
    <3>1. \A j \in Orders, q \in Pages :
            page_in_list(q, free_list'[j]) =>
              page_in_list(q, free_list[j]) \/ (j = fill_order /\ q = fill)
      BY <2>5, Zenon
    <3> QED BY <3>1, <2>6, <1>1, BootMerged, ZenonT(30)
  <2>8. Aligned(fill + n, MaxOrder - 1)
    BY <2>3, <1>1, <1>2, <1>4, AlignedSum
  <2>9. BootShape'
    <3>1. Aligned(fill, MaxOrder - 1)'
      BY <2>1, <2>8, Zenon DEF Aligned
    <3>2. \A q \in Heads' : order'[q] = MaxOrder - 1
      BY <2>3, <2>5, <1>2, Zenon
    <3>3. phase' = "forward" /\ ~(fill_order' < MaxOrder - 1)
      BY <2>1, <2>3, <1>1, RegionAssumption
    <3> QED BY <3>1, <3>2, <3>3, Zenon DEF BootShape
  <2> QED BY <2>7, <2>9, Zenon
<1>6. CASE ~(fill + n - 1 < End)
  <2>1. NextFillOrder(FirstAligned, "backward", MaxOrder - 2)
    BY <1>0, <1>1, <1>6, Zenon DEF PopulateForward
  <2>2. /\ order' = order /\ free_list' = free_list /\ live' = live
        /\ pc' = pc /\ chunk' = chunk
    BY <2>1, <1>1, Zenon DEF NextFillOrder, regionVars, callVars
  <2>3. NoFreeBuddies'
    BY <2>2, <1>1, Zenon DEF NoFreeBuddies, FreeAt, page_in_list, Aligned
  <2>4. Heads' = Heads
    BY <2>2, Zenon DEF Heads, FreeHeads, LiveHeads, BusyHeads, Busy, page_in_list
  <2>5. fill = End
    <3>1. CASE fill_order = MaxOrder - 1
      <4>1. End < fill + big
        BY <3>1, <1>0, <1>1, <1>4, <1>6, SMTT(30)
      <4>2. End <= fill
        BY <4>1, <1>0, <1>1, <1>2, <1>4, AlignedClose, SMTT(30)
      <4> QED BY <4>2, <1>1, <1>4, SMTT(30)
    <3> QED BY <3>1, <1>1, <1>2, RegionAssumption, SMTT(30) DEF Orders
  <2>6. CASE fill_order > 0
    <3>1. fill_order' = fill_order - 1 /\ fill' = fill /\ phase' = "forward"
      BY <2>1, <2>6, <1>1, Zenon DEF NextFillOrder
    <3>2. Aligned(fill, MaxOrder - 1)'
      BY <3>1, <1>2, Zenon DEF Aligned
    <3> QED BY <3>1, <3>2, <2>2, <2>3, <2>4, <2>5, <1>2, SMTT(30) DEF BootShape
  <2>7. CASE ~(fill_order > 0)
    <3>1. fill_order' = MaxOrder - 2 /\ fill' = FirstAligned /\ phase' = "backward"
      BY <2>1, <2>7, Zenon DEF NextFillOrder
    <3>2. /\ fill_order' + 1 = MaxOrder - 1 /\ fill_order' < MaxOrder - 1
      BY <3>1, RegionAssumption
    <3>3. FirstAligned - big < Start
      BY <1>0, FirstAlignedLow, Zenon
    <3>4. fill' - BUDDY_CHUNK_PAGES_COUNT(fill_order' + 1) < Start
      BY <3>1, <3>2, <3>3, <1>0
    <3>5. \A q \in Heads' : order'[q] = MaxOrder - 1
      BY <2>2, <2>4, <1>2, Zenon
    <3> QED BY <3>1, <3>2, <3>4, <3>5, <2>3 DEF BootShape
  <2> QED BY <2>6, <2>7, Zenon
<1> QED BY <1>5, <1>6, Zenon

\* The downward loop of populate_page links at most one chunk of each order: two
\* would make one of the order above, for which there was no room.
LEMMA BackwardMerged ==
  ASSUME MergedInv, PopulateBackward
  PROVE  NoFreeBuddies' /\ BootShape'
<1>0. PICK n, p : n = BUDDY_CHUNK_PAGES_COUNT(fill_order) /\ p = fill - n
  OBVIOUS
<1>1. /\ IInv /\ NoFreeBuddies /\ phase = "backward" /\ phase # "ready"
      /\ fill \in Int /\ Start <= fill /\ fill <= End /\ fill_order \in Orders
      /\ Tiling(Heads, order) /\ order \in [Pages -> Orders]
      /\ UNCHANGED <<lock, callVars, live>>
  <2>1. IInv /\ NoFreeBuddies /\ TypeOK /\ Tiling(Heads, order)
    BY Zenon DEF MergedInv, IInv
  <2>2. phase = "backward" /\ UNCHANGED <<lock, callVars, live>>
    BY Zenon DEF PopulateBackward
  <2>3. fill \in Start .. End /\ fill_order \in Orders /\ order \in [Pages -> Orders]
    BY <2>1, Zenon DEF TypeOK
  <2> QED BY <2>1, <2>2, <2>3, RegionAssumption
<1>2. /\ fill_order < MaxOrder - 1
      /\ fill - BUDDY_CHUNK_PAGES_COUNT(fill_order + 1) < Start
      /\ \A q \in Heads :
           \/ order[q] = MaxOrder - 1
           \/ q - BUDDY_CHUNK_PAGES_COUNT(order[q]) < Start
  BY <1>1, Zenon DEF MergedInv, BootShape
<1>3. \A q \in Heads : fill <= q
  BY <1>1, Zenon DEF IInv, BootOK
<1>4. /\ n \in Nat \ {0} /\ BUDDY_CHUNK_PAGES_COUNT(fill_order + 1) = 2 * n
      /\ Start \in Int /\ End \in Int /\ p \in Int /\ p - n < Start
  <2>1. /\ n \in Nat \ {0} /\ BUDDY_CHUNK_PAGES_COUNT(fill_order + 1) = 2 * n
        /\ Start \in Int /\ End \in Int
    BY <1>0, <1>1, CountPos, CountDouble, RegionAssumption, SMTT(30)
  <2> QED BY <2>1, <1>0, <1>1, <1>2, SMTT(30)
<1>5. CASE fill - n >= Start
  <2>1. Populate(p) /\ fill' = p /\ UNCHANGED <<phase, fill_order>>
    BY <1>0, <1>1, <1>5, Zenon DEF PopulateBackward
  <2>2. p \in Pages /\ p < fill /\ Start <= p
    BY <1>0, <1>1, <1>4, <1>5, PageFacts, SMTT(30)
  <2>3. p \notin Heads
    BY <2>2, <1>1, <1>3, <1>4
  <2>4. /\ \A j \in Orders, q \in Pages :
             page_in_list(q, free_list'[j]) <=>
               page_in_list(q, free_list[j]) \/ (j = fill_order /\ q = p)
        /\ \A j \in Orders, q \in Pages :
             page_in_list(q, free_list[j]) => q \in Heads /\ order[q] = j
        /\ Heads' = Heads \cup {p}
        /\ order'[p] = fill_order /\ \A q \in Heads : order'[q] = order[q]
    BY <1>1, <2>1, <2>2, <2>3, PopulateLinks, Zenon
  <2>5. ASSUME NEW q \in Pages, page_in_list(q, free_list[fill_order])
        PROVE  q # p + n /\ p # q + n
    <3>1. q \in Heads /\ order[q] = fill_order /\ q \in Int /\ fill <= q
      BY <2>4, <2>5, <1>1, <1>3, PageFacts, Zenon
    <3>2. q - n < Start
      BY <3>1, <1>0, <1>1, <1>2, RegionAssumption, SMTT(30) DEF Orders
    <3> QED BY <3>1, <3>2, <2>2, <1>1, <1>4
  <2>6. NoFreeBuddies'
    <3>1. \A j \in Orders, q \in Pages :
            page_in_list(q, free_list'[j]) =>
              page_in_list(q, free_list[j]) \/ (j = fill_order /\ q = p)
      BY <2>4, Zenon
    <3>2. \A q \in Pages :
            page_in_list(q, free_list[fill_order]) =>
              /\ q # p + BUDDY_CHUNK_PAGES_COUNT(fill_order)
              /\ p # q + BUDDY_CHUNK_PAGES_COUNT(fill_order)
      BY <2>5, <1>0, Zenon
    <3> QED BY <3>1, <3>2, <1>1, <1>4, BootMerged
  <2>7. BootShape'
    <3>1. phase' = "backward" /\ fill' = p /\ fill_order' = fill_order
      BY <2>1, <1>1, Zenon
    <3>2. fill' - BUDDY_CHUNK_PAGES_COUNT(fill_order' + 1) < Start
      BY <3>1, <1>4
    <3>3. \A q \in Heads' :
            \/ order'[q] = MaxOrder - 1
            \/ q - BUDDY_CHUNK_PAGES_COUNT(order'[q]) < Start
      BY <2>4, <1>0, <1>2, <1>4, Zenon
    <3> QED BY <3>1, <3>2, <3>3, <1>2, Zenon DEF BootShape
  <2> QED BY <2>6, <2>7, Zenon
<1>6. CASE ~(fill - n >= Start)
  <2>1. NextFillOrder(fill, "ready", 0)
    BY <1>0, <1>1, <1>6, Zenon DEF PopulateBackward
  <2>2. /\ order' = order /\ free_list' = free_list /\ live' = live
        /\ pc' = pc /\ chunk' = chunk
    BY <2>1, <1>1, Zenon DEF NextFillOrder, regionVars, callVars
  <2>3. NoFreeBuddies'
    BY <2>2, <1>1, Zenon DEF NoFreeBuddies, FreeAt, page_in_list, Aligned
  <2>4. Heads' = Heads
    BY <2>2, Zenon DEF Heads, FreeHeads, LiveHeads, BusyHeads, Busy, page_in_list
  <2>5. CASE fill_order > 0
    <3>1. fill_order' = fill_order - 1 /\ fill' = fill /\ phase' = "backward"
      BY <2>1, <2>5, <1>1, Zenon DEF NextFillOrder
    <3>2. fill_order' + 1 = fill_order /\ fill_order' < MaxOrder - 1
      BY <3>1, <1>1, <1>2, RegionAssumption, SMTT(30) DEF Orders
    <3>3. fill' - BUDDY_CHUNK_PAGES_COUNT(fill_order' + 1) < Start
      BY <3>1, <3>2, <1>0, <1>1, <1>4, <1>6
    <3> QED BY <3>1, <3>2, <3>3, <2>2, <2>3, <2>4, <1>2, SMTT(30) DEF BootShape
  <2>6. CASE ~(fill_order > 0)
    <3>1. phase' = "ready"
      BY <2>1, <2>6, Zenon DEF NextFillOrder
    <3> QED BY <3>1, <2>3, Zenon DEF BootShape
  <2> QED BY <2>5, <2>6, Zenon
<1> QED BY <1>5, <1>6, Zenon

\* Every step keeps free chunks merged.
LEMMA NextMerged == MergedInv /\ [Next]_vars => MergedInv'
<1> SUFFICES ASSUME MergedInv, [Next]_vars PROVE MergedInv'
  OBVIOUS
<1>1. IInv'
  BY NextInv, Zenon DEF MergedInv
<1>2. CASE PopulateForward
  BY <1>1, <1>2, ForwardMerged, Zenon DEF MergedInv
<1>3. CASE PopulateBackward
  BY <1>1, <1>3, BackwardMerged, Zenon DEF MergedInv
<1>4. ASSUME NEW c \in CPUs,
             \/ \E k \in Orders : GetPages(c, k)
             \/ \E x \in live : FreePages(c, x)
             \/ CallStep(c)
      PROVE  MergedInv'
  <2>1. CASE SplitChunk(c)
    BY <2>1, <1>1, SplitMerged, Zenon DEF MergedInv
  <2>2. CASE FreeDone(c)
    BY <2>2, <1>1, FreeDoneMerged, Zenon DEF MergedInv
  <2>3. CASE ~SplitChunk(c) /\ ~FreeDone(c)
    BY <2>3, <1>1, <1>4, ListsMerged, Zenon DEF MergedInv, CallStep
  <2> QED BY <2>1, <2>2, <2>3, Zenon
<1>5. CASE UNCHANGED vars
  <2>1. /\ order' = order /\ free_list' = free_list /\ live' = live
        /\ pc' = pc /\ chunk' = chunk
        /\ phase' = phase /\ fill' = fill /\ fill_order' = fill_order
    BY <1>5, Zenon DEF vars, regionVars, callVars, bootVars
  <2>2. NoFreeBuddies'
    BY <2>1, Zenon DEF MergedInv, NoFreeBuddies, FreeAt, page_in_list, Aligned
  <2>3. Heads' = Heads
    BY <2>1, Zenon DEF Heads, FreeHeads, LiveHeads, BusyHeads, Busy, page_in_list
  <2>4. BootShape'
    BY <2>1, <2>3, Zenon DEF MergedInv, BootShape, Aligned
  <2> QED BY <1>1, <2>2, <2>4, Zenon DEF MergedInv
<1> QED BY <1>2, <1>3, <1>4, <1>5, Zenon DEF Next

\* MergedInv is an invariant of the allocator, populate_page included.
THEOREM MergedInvariant == Spec => []MergedInv
<1>1. Init => MergedInv
  <2> SUFFICES ASSUME Init PROVE MergedInv
    OBVIOUS
  <2>1. IInv
    BY InitInv, Zenon
  <2>2. /\ \A k \in Orders : free_list[k] = <<>>
        /\ phase = "forward" /\ fill = FirstAligned /\ fill_order = MaxOrder - 1
    BY Zenon DEF Init
  <2>3. \A k \in Orders, p \in Pages : ~page_in_list(p, free_list[k])
    BY <2>2 DEF page_in_list
  <2>4. NoFreeBuddies
    BY <2>3, Zenon DEF NoFreeBuddies, FreeAt
  <2>5. Heads = {}
    <3>1. FreeHeads = {}
      BY <2>3, Zenon DEF FreeHeads
    <3> QED BY <3>1, <2>1, <2>2, BootHeads
  <2>6. BootShape
    BY <2>2, <2>5, FirstAlignedOK, RegionAssumption DEF BootShape
  <2> QED BY <2>1, <2>4, <2>6, Zenon DEF MergedInv
<1> QED BY <1>1, NextMerged, PTL DEF Spec

\* A free chunk of a smaller order that meets an aligned run lies in it.
LEMMA InRun ==
  ASSUME NEW k \in Orders, NEW i \in 0 .. k, NEW p \in Int, NEW q \in Int, NEW r \in Int,
         Aligned(p, k), Aligned(q, i), p <= r, r < q + BUDDY_CHUNK_PAGES_COUNT(i)
  PROVE  p <= q
<1>1. i \in Orders /\ Aligned(p, i)
  BY CountFacts, AlignedBelow, Zenon
<1>2. BUDDY_CHUNK_PAGES_COUNT(i) \in Nat
  BY <1>1, CountPos, Zenon
<1> QED BY <1>1, <1>2, AlignedClose, SMTT(30)

INSTANCE WellFoundedInduction

\* Every non-empty set of orders has a smallest element.
LEMMA SmallestOrder ==
  ASSUME NEW S \in SUBSET Nat, S # {}
  PROVE  \E k \in S : \A j \in S : k <= j
<1>1. IsWellFoundedOn(OpToRel(<, Nat), Nat)
  BY NatLessThanWellFounded, Zenon
<1>2. PICK k \in S : \A j \in S : ~(<<j, k>> \in OpToRel(<, Nat))
  BY <1>1, WFMin, Zenon
<1>3. \A j \in S : ~(j < k)
  BY <1>2, Zenon DEF OpToRel
<1> QED BY <1>3

\* The block that a free chunk q and its buddy make up, inside an aligned run of a
\* larger order that starts at p.
LEMMA BuddyInRun ==
  ASSUME NEW w \in Orders, NEW k \in Orders, k < w,
         NEW p \in Int, Aligned(p, w),
         NEW q \in Int, Aligned(q, k), p <= q, q < p + BUDDY_CHUNK_PAGES_COUNT(w)
  PROVE  \E m \in Int :
           /\ Aligned(m, k + 1) /\ p <= m
           /\ m + BUDDY_CHUNK_PAGES_COUNT(k + 1) <= p + BUDDY_CHUNK_PAGES_COUNT(w)
           /\ q \in {m, m + BUDDY_CHUNK_PAGES_COUNT(k)}
<1>0. PICK n, d, e, m : /\ n = BUDDY_CHUNK_PAGES_COUNT(k)
                        /\ d = BUDDY_CHUNK_PAGES_COUNT(k + 1)
                        /\ e = BUDDY_CHUNK_PAGES_COUNT(w)
                        /\ m = ROUND_DOWN(q, d)
  OBVIOUS
<1>1. k + 1 \in Orders /\ k + 1 \in 0 .. w /\ k \in Nat
  BY RegionAssumption DEF Orders
<1>2. n \in Nat \ {0} /\ d = 2 * n /\ e \in Nat \ {0}
  BY <1>0, CountPos, CountDouble, Zenon
<1>3. m \in {q, q - n} /\ Aligned(m, k + 1)
  BY <1>0, <1>1, RoundDownHalf, Zenon
<1>4. m \in Int /\ m <= q /\ q < m + d
  BY <1>2, <1>3, SMTT(30)
<1>5. Aligned(p, k + 1) /\ Aligned(p + e, k + 1) /\ p + e \in Int
  <2>1. Aligned(p, k + 1) /\ Aligned(e, k + 1)
    BY <1>0, <1>1, AlignedBelow, AlignedCount, Zenon
  <2> QED BY <2>1, <1>1, <1>2, AlignedSum, SMTT(30)
<1>6. p <= m
  <2>1. p < m + d
    BY <1>2, <1>4, SMTT(30)
  <2> QED BY <2>1, <1>0, <1>1, <1>3, <1>4, <1>5, AlignedClose, SMTT(30)
<1>7. m + d <= p + e
  <2> SUFFICES ASSUME ~(m + d <= p + e) PROVE FALSE
    OBVIOUS
  <2>1. p + e < m + d
    BY <1>2, <1>4, <1>5, SMTT(30)
  <2>2. p + e <= m
    BY <2>1, <1>0, <1>1, <1>3, <1>4, <1>5, AlignedClose, SMTT(30)
  <2> QED BY <2>2, <1>0, <1>2, <1>4, SMTT(30)
<1>8. q \in {m, m + n}
  BY <1>2, <1>3, <1>4
<1> QED BY <1>0, <1>3, <1>4, <1>6, <1>7, <1>8, SMTT(30)

\* A chunk larger than a block of order k + 1 that meets the block contains it.
LEMMA LargerContains ==
  ASSUME NEW k \in Orders, NEW j \in Orders, k < j,
         NEW m \in Int, Aligned(m, k + 1), NEW q \in Int, Aligned(q, j), NEW b \in Int,
         m <= b, b < m + BUDDY_CHUNK_PAGES_COUNT(k + 1),
         q <= b, b < q + BUDDY_CHUNK_PAGES_COUNT(j)
  PROVE  q <= m /\ m + BUDDY_CHUNK_PAGES_COUNT(k + 1) <= q + BUDDY_CHUNK_PAGES_COUNT(j)
<1>0. PICK d, e : /\ d = BUDDY_CHUNK_PAGES_COUNT(k + 1) /\ e = BUDDY_CHUNK_PAGES_COUNT(j)
  OBVIOUS
<1>1. k + 1 \in Orders /\ k + 1 \in 0 .. j
  BY RegionAssumption DEF Orders
<1>2. d \in Nat \ {0} /\ e \in Nat \ {0}
  BY <1>0, <1>1, CountPos, Zenon
<1>3. Aligned(q, k + 1) /\ Aligned(q + e, k + 1) /\ q + e \in Int
  <2>1. Aligned(q, k + 1) /\ Aligned(e, k + 1)
    BY <1>0, <1>1, AlignedBelow, AlignedCount, SMTT(30)
  <2> QED BY <2>1, <1>1, <1>2, AlignedSum, SMTT(30)
<1>4. q <= m
  <2>1. q < m + d
    BY <1>0, <1>2, SMTT(30)
  <2> QED BY <2>1, <1>0, <1>1, <1>3, AlignedClose, Zenon
<1>5. m + d <= q + e
  <2> SUFFICES ASSUME ~(m + d <= q + e) PROVE FALSE
    OBVIOUS
  <2>1. q + e < m + d
    BY <1>2, <1>3, SMTT(30)
  <2>2. q + e <= m
    BY <2>1, <1>0, <1>1, <1>3, AlignedClose, SMTT(30)
  <2> QED BY <2>2, <1>0, <1>2, SMTT(30)
<1> QED BY <1>0, <1>4, <1>5, Zenon

\* No aligned run is covered by free chunks that are all smaller than it: the
\* smallest chunk in the run would have its buddy free beside it.
LEMMA NoHiddenRun ==
  ASSUME MergedInv, NEW w \in Orders, NEW p \in Pages, Aligned(p, w),
         \A q \in FreeHeads : order[q] < w,
         \A r \in p .. p + BUDDY_CHUNK_PAGES_COUNT(w) - 1 :
           \E q \in FreeHeads : q <= r /\ r < Top(q, order)
  PROVE  FALSE
<1>0. PICK e : e = BUDDY_CHUNK_PAGES_COUNT(w)
  OBVIOUS
<1>1. p \in Int /\ e \in Nat \ {0} /\ w \in Nat
  BY <1>0, PageFacts, CountPos, CountFacts, SMTT(30)
<1>2. \A q \in FreeHeads :
        /\ q \in Int /\ q \in Pages /\ q \in Heads /\ order[q] \in Orders /\ order[q] \in Nat
        /\ order[q] \in 0 .. w /\ order[q] < w
        /\ Aligned(q, order[q]) /\ FreeAt(q, order[q])
        /\ Top(q, order) = q + BUDDY_CHUNK_PAGES_COUNT(order[q])
  <2> SUFFICES ASSUME NEW q \in FreeHeads
               PROVE  /\ q \in Int /\ q \in Pages /\ q \in Heads
                      /\ order[q] \in Orders /\ order[q] \in Nat
                      /\ order[q] \in 0 .. w /\ order[q] < w
                      /\ Aligned(q, order[q]) /\ FreeAt(q, order[q])
                      /\ Top(q, order) = q + BUDDY_CHUNK_PAGES_COUNT(order[q])
    OBVIOUS
  <2>1. PICK k \in Orders : page_in_list(q, free_list[k])
    BY Zenon DEF FreeHeads
  <2>2. q \in Pages /\ q \in Int /\ q \in Heads /\ order[q] < w
    BY PageFacts, Zenon DEF FreeHeads, Heads
  <2>3. order[q] = k
    BY <2>1, <2>2, Zenon DEF MergedInv, IInv, FieldsOK
  <2>4. Aligned(q, order[q])
    BY <2>2, Zenon DEF MergedInv, IInv, Tiling
  <2>5. k \in Nat /\ k \in 0 .. w
    BY <2>2, <2>3, <1>1, RegionAssumption, SMTT(30) DEF Orders
  <2> QED BY <2>1, <2>2, <2>3, <2>4, <2>5, SMTT(30) DEF FreeAt, Top
<1>3. ASSUME NEW r \in Int, p <= r, r < p + e
      PROVE  \E q \in FreeHeads :
               /\ q <= r /\ r < q + BUDDY_CHUNK_PAGES_COUNT(order[q])
               /\ p <= q /\ q < p + e
  <2>1. PICK q \in FreeHeads : q <= r /\ r < Top(q, order)
    BY <1>0, <1>1, <1>3, SMTT(30)
  <2>2. p <= q
    BY <2>1, <1>1, <1>2, <1>3, InRun, SMTT(30)
  <2> QED BY <2>1, <2>2, <1>1, <1>2, <1>3, SMTT(30)
<1>4. PICK q \in FreeHeads :
        /\ p <= q /\ q < p + e
        /\ \A x \in FreeHeads : p <= x /\ x < p + e => order[q] <= order[x]
  <2> DEFINE In == {x \in FreeHeads : p <= x /\ x < p + e}
             S == {order[x] : x \in In}
  <2>1. S \in SUBSET Nat /\ S # {}
    <3>1. PICK x \in FreeHeads : p <= x /\ x < p + e
      BY <1>1, <1>3
    <3> QED BY <3>1, <1>2, Zenon
  <2> HIDE DEF S
  <2>2. PICK k \in S : \A j \in S : k <= j
    BY <2>1, SmallestOrder, Zenon
  <2>3. PICK x \in FreeHeads : p <= x /\ x < p + e /\ order[x] = k
    BY <2>2, Zenon DEF S
  <2>4. \A y \in FreeHeads : p <= y /\ y < p + e => order[y] \in S
    BY Zenon DEF S
  <2> QED BY <2>2, <2>3, <2>4, Zenon
<1>5. PICK k : k = order[q]
  OBVIOUS
<1>6. /\ q \in Int /\ q \in Pages /\ q \in Heads /\ k \in Orders /\ k < w /\ Aligned(q, k)
      /\ FreeAt(q, k) /\ k \in Nat /\ k + 1 \in Orders
  <2>1. /\ q \in Int /\ q \in Pages /\ q \in Heads /\ k \in Orders /\ k < w /\ Aligned(q, k)
        /\ FreeAt(q, k) /\ k \in Nat
    BY <1>2, <1>5, Zenon
  <2> QED BY <2>1, RegionAssumption DEF Orders
<1>7. PICK m \in Int :
        /\ Aligned(m, k + 1) /\ p <= m
        /\ m + BUDDY_CHUNK_PAGES_COUNT(k + 1) <= p + e
        /\ q \in {m, m + BUDDY_CHUNK_PAGES_COUNT(k)}
  BY <1>0, <1>1, <1>4, <1>6, BuddyInRun, SMTT(30)
<1>8. PICK n : /\ n = BUDDY_CHUNK_PAGES_COUNT(k) /\ n \in Nat \ {0}
               /\ BUDDY_CHUNK_PAGES_COUNT(k + 1) = 2 * n
  BY <1>6, CountPos, CountDouble, SMTT(30)
<1>9. PICK b \in Int : b \in {m, m + n} /\ b # q
  BY <1>7, <1>8, SMTT(30)
<1>10. p <= b /\ b < p + e
  BY <1>1, <1>7, <1>8, <1>9, SMTT(30)
<1>11. PICK x \in FreeHeads :
         /\ x <= b /\ b < x + BUDDY_CHUNK_PAGES_COUNT(order[x])
         /\ p <= x /\ x < p + e
  BY <1>3, <1>10, Zenon
<1>12. PICK j : j = order[x]
  BY SMTT(30)
<1>13. /\ x \in Int /\ x \in Pages /\ x \in Heads /\ j \in Orders /\ Aligned(x, j)
       /\ FreeAt(x, j) /\ j \in Nat /\ k <= j
       /\ Top(x, order) = x + BUDDY_CHUNK_PAGES_COUNT(j)
  BY <1>2, <1>4, <1>5, <1>11, <1>12, SMTT(30)
<1>14. CASE j = k
  <2>1. Aligned(b, k)
    <3>1. Aligned(m, k) /\ Aligned(n, k)
      <4>1. k \in 0 .. k /\ k \in 0 .. k + 1
        BY <1>6, SMTT(30)
      <4> QED BY <4>1, <1>6, <1>7, <1>8, AlignedBelow, AlignedCount, SMTT(30)
    <3>2. Aligned(m + n, k)
      BY <3>1, <1>6, <1>8, AlignedSum, SMTT(30)
    <3> QED BY <3>1, <3>2, <1>9, SMTT(30)
  <2>2. b <= x
    BY <2>1, <1>6, <1>11, <1>12, <1>13, <1>14, AlignedClose, ZenonT(30)
  <2>3. x = b
    BY <2>2, <1>11, <1>13, SMTT(30)
  <2>4. \/ q = m /\ x = m + n
        \/ x = m /\ q = m + n
    BY <2>3, <1>7, <1>8, <1>9, SMTT(30)
  <2> QED BY <2>4, <1>6, <1>7, <1>8, <1>13, <1>14, SMTT(30) DEF MergedInv, NoFreeBuddies
<1>15. CASE k < j
  <2>1. m <= b /\ b < m + BUDDY_CHUNK_PAGES_COUNT(k + 1)
    BY <1>8, <1>9, SMTT(30)
  <2>2. x <= m /\ m + BUDDY_CHUNK_PAGES_COUNT(k + 1) <= x + BUDDY_CHUNK_PAGES_COUNT(j)
    BY <2>1, <1>6, <1>7, <1>11, <1>12, <1>13, <1>15, LargerContains, SMTT(30)
  <2>3. x < q /\ q < Top(x, order)
    <3>1. x # q
      BY <1>5, <1>6, <1>12, <1>13, <1>15, SMTT(30)
    <3>2. BUDDY_CHUNK_PAGES_COUNT(j) \in Nat
      BY <1>13, CountPos, Zenon
    <3> QED BY <3>1, <3>2, <2>2, <1>6, <1>7, <1>8, <1>13, SMTT(30)
  <2>4. Top(x, order) <= q
    BY <2>3, <1>6, <1>13, SMTT(30) DEF MergedInv, IInv, Tiling
  <2>5. Top(x, order) \in Int
    BY <1>13, CountPos, SMTT(30)
  <2> QED BY <2>3, <2>4, <2>5, <1>6, SMTT(30)
<1> QED BY <1>6, <1>13, <1>14, <1>15, SMTT(30)

\* Merging is complete: when buddy_get_pages runs out of orders to search and returns
\* NULL, no aligned run of the requested size is free, however the free pages came
\* to be free.
THEOREM NullMeansNoRun == Spec => []NoFalseOOM
<1>1. MergedInv => NoFalseOOM
  <2> SUFFICES ASSUME MergedInv, NEW c \in CPUs, pc[c] = "get", Splittable(want[c]) = {},
                      NEW p \in Pages, Aligned(p, want[c]),
                      p .. p + BUDDY_CHUNK_PAGES_COUNT(want[c]) - 1 \subseteq
                        UNION {Span(q) : q \in FreeHeads}
               PROVE  FALSE
    BY Zenon DEF NoFalseOOM
  <2>1. TypeOK /\ ListsOK /\ FieldsOK
    BY Zenon DEF MergedInv, IInv
  <2>2. want[c] \in Orders
    BY <2>1, Zenon DEF TypeOK
  <2>3. ASSUME NEW q \in FreeHeads
        PROVE  order[q] < want[c]
    <3>1. PICK k \in Orders : page_in_list(q, free_list[k])
      BY Zenon DEF FreeHeads
    <3>2. q \in Pages /\ order[q] = k
      BY <3>1, <2>1, Zenon DEF FieldsOK, FreeHeads
    <3>3. nr_free[k] # 0
      <4>1. nr_free[k] = Len(free_list[k]) /\ free_list[k] \in Seq(Pages)
        BY <2>1, Zenon DEF ListsOK, TypeOK
      <4>2. PICK i \in 1 .. Len(free_list[k]) : free_list[k][i] = q
        BY <3>1, Zenon DEF page_in_list
      <4> QED BY <4>1, <4>2
    <3>4. k \notin want[c] .. MaxOrder - 1
      BY <3>3, Zenon DEF Splittable
    <3> QED BY <3>2, <3>4, <2>2, RegionAssumption, SMTT(30) DEF Orders
  <2>4. ASSUME NEW r \in p .. p + BUDDY_CHUNK_PAGES_COUNT(want[c]) - 1
        PROVE  \E q \in FreeHeads : q <= r /\ r < Top(q, order)
    <3>1. PICK q \in FreeHeads : r \in Span(q)
      OBVIOUS
    <3>2. q \in Int /\ order[q] \in Orders
      BY <2>1, PageFacts, Zenon DEF FreeHeads, TypeOK
    <3>3. BUDDY_CHUNK_PAGES_COUNT(order[q]) \in Nat
      BY <3>2, CountPos, Zenon
    <3> QED BY <3>1, <3>2, <3>3, SMTT(30) DEF Span, Top
  <2> QED BY <2>2, <2>3, <2>4, NoHiddenRun, SMTT(30)
<1> QED BY <1>1, MergedInvariant, PTL
=============================================================================
