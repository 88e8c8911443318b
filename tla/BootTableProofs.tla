------------------------- MODULE BootTableProofs ---------------------------
(***************************************************************************)
(* What init_kernel_pt puts in the boot page tables, for any sizes of      *)
(* tables, blocks and memory.                                              *)
(***************************************************************************)
EXTENDS BootTables, TLAPS

(***************************************************************************)
(* Multiples of a positive number: what alignment arithmetic rests on      *)
(* (ROUND_UP, ROUND_DOWN of include/common/macro.h).                       *)
(***************************************************************************)
\* Euclidean division, from which the lemmas below follow.
LEMMA DivMod ==
  ASSUME NEW a \in Int, NEW n \in Nat \ {0}
  PROVE  /\ a \div n \in Int
         /\ a = n * (a \div n) + (a % n)
         /\ a % n \in 0 .. n - 1
OBVIOUS

\* A product is a multiple of its factor.
LEMMA ProductMod ==
  ASSUME NEW n \in Nat \ {0}, NEW q \in Int, NEW a \in Int, a = n * q
  PROVE  a % n = 0
OBVIOUS

\* What Euclidean division leaves.
LEMMA RemainderMod ==
  ASSUME NEW n \in Nat \ {0}, NEW q \in Int, NEW r \in 0 .. n - 1,
         NEW a \in Int, a = n * q + r
  PROVE  a % n = r
OBVIOUS

\* A multiple is a product.
LEMMA Multiple ==
  ASSUME NEW n \in Nat \ {0}, NEW a \in Int, a % n = 0
  PROVE  \E q \in Int : a = n * q
<1>1. a = n * (a \div n) /\ a \div n \in Int
  BY DivMod
<1> QED
  BY <1>1, Zenon

\* The quotient of Euclidean division is unique.
LEMMA Quotient ==
  ASSUME NEW n \in Nat \ {0}, NEW q \in Int, NEW r \in 0 .. n - 1, NEW a \in Int, a = n * q + r
  PROVE  a \div n = q
<1>1. PICK p \in Int : p = a \div n
  BY DivMod
<1>2. PICK m \in Int : m = n * p
  OBVIOUS
<1>3. a = m + (a % n) /\ a % n = r
  BY <1>1, <1>2, DivMod, RemainderMod
<1>4. n * p = n * q
  BY <1>2, <1>3
<1>5. p = q
  <2>1. ASSUME p > q PROVE FALSE
    <3>1. n * (p - q) >= n
      BY <2>1
    <3> QED BY <1>4, <3>1
  <2>2. ASSUME p < q PROVE FALSE
    <3>1. n * (q - p) >= n
      BY <2>2
    <3> QED BY <1>4, <3>1
  <2> QED BY <2>1, <2>2
<1> QED BY <1>1, <1>5

\* Sums and differences of multiples are multiples.
LEMMA SumMod ==
  ASSUME NEW n \in Nat \ {0}, NEW a \in Int, NEW b \in Int,
         a % n = 0, b % n = 0
  PROVE  (a + b) % n = 0 /\ (a - b) % n = 0
<1>1. PICK q \in Int : a = n * q
  BY Multiple
<1>2. PICK r \in Int : b = n * r
  BY Multiple
<1>3. a + b = n * (q + r) /\ a - b = n * (q - r)
  BY <1>1, <1>2
<1>4. (a + b) % n = 0
  BY <1>3, ProductMod, q + r \in Int, a + b \in Int, Zenon
<1>5. (a - b) % n = 0
  BY <1>3, ProductMod, q - r \in Int, a - b \in Int
<1> QED
  BY <1>4, <1>5

\* Two multiples of n less than n apart are equal.
LEMMA CloseMultiples ==
  ASSUME NEW n \in Nat \ {0}, NEW a \in Int, NEW b \in Int,
         a % n = 0, b % n = 0, a < b + n
  PROVE  a <= b
<1>1. PICK q \in Int : a = n * q
  BY Multiple
<1>2. PICK r \in Int : b = n * r
  BY Multiple
<1>3. n * q < n * (r + 1)
  BY <1>1, <1>2
<1>4. q < r + 1
  <2> SUFFICES ASSUME q >= r + 1 PROVE FALSE
    OBVIOUS
  <2>1. n * q >= n * (r + 1)
    OBVIOUS
  <2> QED
    BY <2>1, <1>3
<1>5. n * q <= n * r
  BY <1>4
<1> QED
  BY <1>1, <1>2, <1>5

(***************************************************************************)
(* The boot page tables                                                    *)
(***************************************************************************)
\* The sizes of a table, a block and the span of a level 1 entry are positive.
LEMMA Sizes ==
  /\ PTP_ENTRIES \in Nat \ {0} /\ SIZE_2M \in Nat \ {0} /\ SIZE_1G \in Nat \ {0}
  /\ SIZE_1G * PTP_ENTRIES \in Nat \ {0} /\ SIZE_1G <= SIZE_1G * PTP_ENTRIES
  /\ 0 \in Index
<1>1. PTP_ENTRIES \in Nat \ {0} /\ SIZE_2M \in Nat \ {0} /\ 0 \in Index
  BY BootLayoutAssumption DEF Index
<1>2. ASSUME NEW m \in Nat \ {0}, NEW n \in Nat \ {0} PROVE m * n \in Nat \ {0} /\ m <= m * n
  OBVIOUS
<1>3. SIZE_1G \in Nat \ {0}
  BY <1>1, <1>2, Zenon DEF SIZE_1G
<1> HIDE DEF SIZE_1G
<1> QED BY <1>1, <1>2, <1>3, Zenon

\* The block of 2 MB an address is in has a slot of its own in an L2 table.
LEMMA Slot ==
  ASSUME NEW pa \in 0 .. SIZE_1G - 1
  PROVE  \E q \in Index :
           /\ pa = SIZE_2M * q + (pa % SIZE_2M) /\ pa % SIZE_2M \in 0 .. SIZE_2M - 1
           /\ SIZE_2M * q \in Steps(0, SHARED_PERIPHERAL_END, SIZE_2M)
<1>0. pa \in Int /\ 0 <= pa /\ pa < SIZE_1G
  BY Sizes
<1>1. PICK q \in Int : pa = SIZE_2M * q + (pa % SIZE_2M) /\ pa % SIZE_2M \in 0 .. SIZE_2M - 1
  BY <1>0, Sizes, DivMod, Zenon
<1>2. q >= 0
  <2>1. ASSUME q < 0 PROVE FALSE
    <3>1. SIZE_2M * q <= SIZE_2M * (-1)
      BY <2>1, Sizes
    <3> QED BY <1>1, <3>1, Sizes
  <2> QED BY <2>1
<1>3. q < PTP_ENTRIES
  <2>1. ASSUME q >= PTP_ENTRIES PROVE FALSE
    <3>1. SIZE_2M * q >= SIZE_2M * PTP_ENTRIES
      BY <2>1, Sizes
    <3>2. SIZE_2M * q >= SIZE_1G /\ SIZE_2M * q \in Int
      BY <3>1, Sizes DEF SIZE_1G
    <3>3. PICK m \in Int : m = SIZE_2M * q
      BY <3>2, Zenon
    <3>4. PICK x \in Nat : x = pa % SIZE_2M
      BY <1>1, Sizes
    <3>5. pa = m + x /\ m >= SIZE_1G
      BY <1>1, <3>2, <3>3, <3>4, Zenon
    <3> QED BY <1>0, <3>5, Sizes
  <2> QED BY <2>1, Sizes
<1>4. SIZE_2M * q \in 0 .. SHARED_PERIPHERAL_END - 1
  <2>1. PICK m \in Int : m = SIZE_2M * q
    BY Sizes
  <2>2. m >= 0
    BY <1>2, <2>1, Sizes
  <2>3. SHARED_PERIPHERAL_END = SIZE_1G
    BY BootLayoutAssumption, Zenon
  <2> QED BY <1>1, <2>1, <2>2, <2>3, Sizes
<1>5. (SIZE_2M * q - 0) % SIZE_2M = 0
  <2>1. SIZE_2M * q - 0 = SIZE_2M * q /\ SIZE_2M * q - 0 \in Int
    BY Sizes
  <2> QED BY <2>1, ProductMod, Sizes, Zenon
<1>6. q \in Index
  BY <1>2, <1>3, Sizes DEF Index
<1>7. SIZE_2M * q \in Steps(0, SHARED_PERIPHERAL_END, SIZE_2M)
  BY <1>4, <1>5, Zenon DEF Steps
<1> QED BY <1>1, <1>6, <1>7, Zenon

\* The largest number of a set of one.
LEMMA MaxOfOne == ASSUME NEW x \in Int PROVE Max({x}) = x
BY DEF Max

\* An address that a loop over blocks visits is that of one slot.
LEMMA StepSlot ==
  ASSUME NEW v \in Steps(0, SHARED_PERIPHERAL_END, SIZE_2M)
  PROVE  \E k \in Index : v = SIZE_2M * k
<1>1. v \in 0 .. SIZE_1G - 1 /\ (v - 0) % SIZE_2M = 0
  BY BootLayoutAssumption, Zenon DEF Steps
<1>2. v - 0 = v /\ v \in Int
  BY <1>1, Sizes
<1>3. PICK k \in Index : v = SIZE_2M * k + (v % SIZE_2M)
  BY <1>1, Slot, Zenon
<1>4. v % SIZE_2M = 0
  BY <1>1, <1>2, Zenon
<1>5. SIZE_2M * k \in Int
  BY Sizes DEF Index
<1> QED BY <1>3, <1>4, <1>5

\* The index of a block's address in the low half, and in the upper half.
LEMMA BlockIndex ==
  ASSUME NEW k \in Index, NEW rest \in 0 .. SIZE_2M - 1, NEW pa \in Int, pa = SIZE_2M * k + rest
  PROVE  GET_L2_INDEX(pa) = k /\ GET_L2_INDEX(pa + KERNEL_VADDR) = k
<1>0. k \in Int /\ k \in 0 .. PTP_ENTRIES - 1
  BY Sizes DEF Index
<1>1. ASSUME NEW h \in Int, NEW m \in Int, m = PTP_ENTRIES * h PROVE (k + m) % PTP_ENTRIES = k
  <2>1. PICK a \in Int : a = k + m
    BY <1>0
  <2>2. a = PTP_ENTRIES * h + k
    BY <1>0, <1>1, <2>1
  <2>3. a % PTP_ENTRIES = k
    BY <1>0, <2>2, Sizes, RemainderMod
  <2> QED BY <2>1, <2>3, Zenon
<1>2. GET_L2_INDEX(pa) = k
  <2>1. pa \div SIZE_2M = k
    BY <1>0, Sizes, Quotient, Zenon
  <2>2. 0 = PTP_ENTRIES * 0 /\ k + 0 = k
    BY <1>0, Sizes
  <2>3. k % PTP_ENTRIES = k
    BY <1>1, <2>2
  <2> QED BY <2>1, <2>3, Zenon DEF GET_L2_INDEX
<1>3. PICK m \in Int : KERNEL_VADDR = (SIZE_1G * PTP_ENTRIES) * m
  <2>1. PICK n \in Nat \ {0} : n = SIZE_1G * PTP_ENTRIES
    BY Sizes, Zenon
  <2>2. KERNEL_VADDR % n = 0 /\ KERNEL_VADDR \in Int
    BY <2>1, BootLayoutAssumption
  <2> QED BY <2>1, <2>2, Multiple, Zenon
<1>4. PICK h \in Int : h = PTP_ENTRIES * m
  BY Sizes
<1>5. KERNEL_VADDR = SIZE_2M * (PTP_ENTRIES * h)
  BY <1>3, <1>4, Sizes DEF SIZE_1G
<1>6. PICK g \in Int : g = PTP_ENTRIES * h
  BY Sizes
<1>7. pa + KERNEL_VADDR = SIZE_2M * (k + g) + rest /\ pa + KERNEL_VADDR \in Int /\ k + g \in Int
  <2>1. SIZE_2M * (k + g) = SIZE_2M * k + SIZE_2M * g
    BY <1>0, Sizes
  <2>2. SIZE_2M * k \in Int /\ SIZE_2M * g \in Int /\ rest \in Int
    BY <1>0, Sizes
  <2>3. KERNEL_VADDR = SIZE_2M * g
    BY <1>5, <1>6, Zenon
  <2> QED BY <1>0, <2>1, <2>2, <2>3
<1>8. (pa + KERNEL_VADDR) \div SIZE_2M = k + g
  <2>1. PICK a \in Int : a = pa + KERNEL_VADDR
    BY <1>7, Zenon
  <2>2. PICK b \in Int : b = k + g
    BY <1>7, Zenon
  <2>3. a = SIZE_2M * b + rest
    BY <1>7, <2>1, <2>2, Zenon
  <2>4. a \div SIZE_2M = b
    BY <2>3, Sizes, Quotient, Zenon
  <2> QED BY <2>1, <2>2, <2>4, Zenon
<1>9. GET_L2_INDEX(pa + KERNEL_VADDR) = k
  <2>1. (k + g) % PTP_ENTRIES = k
    BY <1>1, <1>6, Zenon
  <2> QED BY <1>8, <2>1, Zenon DEF GET_L2_INDEX
<1> QED BY <1>2, <1>9, Zenon

\* An address of the first GB has index 0 in the L1 tables, and in the L0 tables
\* index 0 or that of KERNEL_VADDR.
LEMMA UpperIndex ==
  ASSUME NEW pa \in 0 .. SIZE_1G - 1
  PROVE  /\ GET_L0_INDEX(pa) = 0 /\ GET_L1_INDEX(pa) = 0
         /\ GET_L0_INDEX(pa + KERNEL_VADDR) = GET_L0_INDEX(KERNEL_VADDR)
         /\ GET_L0_INDEX(KERNEL_VADDR) \in Index
         /\ GET_L1_INDEX(pa + KERNEL_VADDR) = 0 /\ GET_L1_INDEX(KERNEL_VADDR) = 0
<1>0. PICK n \in Nat \ {0} : n = SIZE_1G * PTP_ENTRIES
  BY Sizes, Zenon
<1>1. /\ pa \in Int /\ pa \in 0 .. n - 1 /\ 0 \in 0 .. n - 1 /\ 0 \in 0 .. SIZE_1G - 1
      /\ 0 \in 0 .. PTP_ENTRIES - 1 /\ KERNEL_VADDR \in Int
  BY <1>0, Sizes, BootLayoutAssumption
<1>2. PICK m \in Int : KERNEL_VADDR = n * m
  BY <1>0, BootLayoutAssumption, <1>1, Multiple, Zenon
<1>3. ASSUME NEW x \in Int, NEW y \in 0 .. SIZE_1G - 1, NEW h \in Int, x = n * h + y
      PROVE  x \div n = h /\ GET_L1_INDEX(x) = 0
  <2>1. y \in 0 .. n - 1 /\ y \in Int
    BY <1>0, Sizes
  <2>2. x \div n = h
    BY <1>3, <2>1, Quotient, Zenon
  <2>3. PICK g \in Int : g = PTP_ENTRIES * h
    BY Sizes
  <2>4. x = SIZE_1G * g + y
    <3>1. n * h = SIZE_1G * g
      BY <1>0, <2>3, Sizes
    <3> QED BY <1>3, <3>1, Zenon
  <2>5. x \div SIZE_1G = g
    BY <2>4, Sizes, Quotient, Zenon
  <2>6. g % PTP_ENTRIES = 0
    BY <2>3, Sizes, ProductMod, Zenon
  <2> QED BY <2>2, <2>5, <2>6, Zenon DEF GET_L1_INDEX
<1>4. pa \div n = 0 /\ GET_L1_INDEX(pa) = 0
  <2>1. pa = n * 0 + pa
    BY <1>1
  <2> QED BY <1>1, <1>3, <2>1
<1>5. KERNEL_VADDR \div n = m /\ GET_L1_INDEX(KERNEL_VADDR) = 0
  <2>1. KERNEL_VADDR = n * m + 0
    BY <1>1, <1>2
  <2> QED BY <1>1, <1>3, <2>1, Zenon
<1>6. (pa + KERNEL_VADDR) \div n = m /\ GET_L1_INDEX(pa + KERNEL_VADDR) = 0
  <2>1. pa + KERNEL_VADDR = n * m + pa /\ pa + KERNEL_VADDR \in Int
    BY <1>1, <1>2
  <2> QED BY <1>1, <1>3, <2>1, Zenon
<1>7. 0 % PTP_ENTRIES = 0
  BY Sizes
<1>8. m % PTP_ENTRIES \in Index
  BY Sizes, DivMod, Zenon DEF Index
<1> QED BY <1>0, <1>4, <1>5, <1>6, <1>7, <1>8, Zenon DEF GET_L0_INDEX

\* The loops over the first GB fill slot k of an L2 table once, for block k.
LEMMA Hits ==
  ASSUME NEW k \in Index
  PROVE  /\ SIZE_2M * k \in 0 .. SIZE_1G - 1
         /\ {v \in Steps(0, SHARED_PERIPHERAL_END, SIZE_2M) : GET_L2_INDEX(v) = k} = {SIZE_2M * k}
         /\ {v \in Steps(0, SHARED_PERIPHERAL_END, SIZE_2M) : GET_L2_INDEX(v + KERNEL_VADDR) = k} = {SIZE_2M * k}
<1>0. PICK b \in Int : b = SIZE_2M * k
  BY Sizes DEF Index
<1>1. b \in 0 .. SIZE_1G - 1
  <2>1. b >= 0
    BY <1>0, Sizes DEF Index
  <2>2. SIZE_2M * k <= SIZE_2M * (PTP_ENTRIES - 1)
    BY Sizes DEF Index
  <2>3. SIZE_2M * (PTP_ENTRIES - 1) = SIZE_1G - SIZE_2M
    BY Sizes DEF SIZE_1G
  <2>4. b <= SIZE_1G - SIZE_2M
    BY <1>0, <2>2, <2>3, Zenon
  <2> QED BY <2>1, <2>4, Sizes
<1>2. ASSUME NEW j \in Index, NEW v \in Int, v = SIZE_2M * j
      PROVE  GET_L2_INDEX(v) = j /\ GET_L2_INDEX(v + KERNEL_VADDR) = j
  <2>1. 0 \in 0 .. SIZE_2M - 1 /\ v = SIZE_2M * j + 0
    BY <1>2, Sizes
  <2> QED BY <2>1, BlockIndex, Zenon
<1>3. b \in Steps(0, SHARED_PERIPHERAL_END, SIZE_2M)
  <2>1. PICK q \in Index : b = SIZE_2M * q + (b % SIZE_2M) /\ SIZE_2M * q \in Steps(0, SHARED_PERIPHERAL_END, SIZE_2M)
    BY <1>1, Slot, Zenon
  <2>2. b % SIZE_2M = 0
    BY <1>0, Sizes, ProductMod DEF Index
  <2>3. SIZE_2M * q \in Int
    BY Sizes DEF Index
  <2> QED BY <2>1, <2>2, <2>3
<1>4. ASSUME NEW v \in Steps(0, SHARED_PERIPHERAL_END, SIZE_2M)
      PROVE  /\ GET_L2_INDEX(v) = k <=> v = b
             /\ GET_L2_INDEX(v + KERNEL_VADDR) = k <=> v = b
  <2>1. PICK j \in Index : v = SIZE_2M * j
    BY StepSlot, Zenon
  <2>2. v \in Int
    BY BootLayoutAssumption DEF Steps
  <2>3. GET_L2_INDEX(v) = j /\ GET_L2_INDEX(v + KERNEL_VADDR) = j
    BY <1>2, <2>1, <2>2, Zenon
  <2>4. GET_L2_INDEX(b) = k /\ GET_L2_INDEX(b + KERNEL_VADDR) = k
    BY <1>0, <1>2, Zenon
  <2>5. j = k => v = b
    BY <1>0, <2>1, Zenon
  <2> QED BY <2>3, <2>4, <2>5, Zenon
<1> QED BY <1>0, <1>1, <1>3, <1>4, Zenon

\* What is in slot k of the two L2 tables.
LEMMA Entries ==
  ASSUME NEW k \in Index
  PROVE  /\ ttbr0_l2[k] = BlockPte(IF SIZE_2M * k < SIZE_2M THEN NORMAL_MEMORY ELSE DEVICE_MEMORY, SIZE_2M * k)
         /\ ttbr1_l2[k] = BlockPte(IF SIZE_2M * k < PERIPHERAL_BASE THEN NORMAL_MEMORY ELSE DEVICE_MEMORY, SIZE_2M * k)
<1> DEFINE low == {v \in Steps(0, SHARED_PERIPHERAL_END, SIZE_2M) : GET_L2_INDEX(v) = k}
           high == {v \in Steps(0, SHARED_PERIPHERAL_END, SIZE_2M) : GET_L2_INDEX(v + KERNEL_VADDR) = k}
<1>1. low = {SIZE_2M * k} /\ high = {SIZE_2M * k} /\ SIZE_2M * k \in Int
  BY Hits
<1>2. /\ Max(low) = SIZE_2M * k /\ low # {}
      /\ Max(high) = SIZE_2M * k /\ high # {}
  BY <1>1, MaxOfOne, Zenon
<1> HIDE DEF low, high
<1>3. ttbr0_l2[k] = IF low = {} THEN PTE_DESCRIPTOR_INVALID
                    ELSE BlockPte(IF Max(low) < SIZE_2M THEN NORMAL_MEMORY ELSE DEVICE_MEMORY, Max(low))
  BY Zenon DEF ttbr0_l2, Filled, low
<1>4. ttbr1_l2[k] = IF high = {} THEN PTE_DESCRIPTOR_INVALID
                    ELSE BlockPte(IF Max(high) < PERIPHERAL_BASE THEN NORMAL_MEMORY ELSE DEVICE_MEMORY, Max(high))
  BY Zenon DEF ttbr1_l2, Filled, high
<1> QED BY <1>2, <1>3, <1>4, Zenon

\* The tables an L0 table leads to.
LEMMA Links ==
  /\ init_kernel_pt(boot_ttbr0_l0)[0] = TablePte(boot_ttbr0_l1)
  /\ init_kernel_pt(boot_ttbr0_l1)[0] = TablePte(boot_ttbr0_l2)
  /\ init_kernel_pt(boot_ttbr0_l2) = ttbr0_l2
  /\ init_kernel_pt(boot_ttbr1_l0)[GET_L0_INDEX(KERNEL_VADDR)] = TablePte(boot_ttbr1_l1)
  /\ init_kernel_pt(boot_ttbr1_l1)[0] = TablePte(boot_ttbr1_l2)
  /\ init_kernel_pt(boot_ttbr1_l2) = ttbr1_l2
<1>0. /\ 0 \in 0 .. SIZE_1G - 1 /\ 0 \in Index
      /\ GET_L1_INDEX(KERNEL_VADDR) = 0 /\ GET_L0_INDEX(KERNEL_VADDR) \in Index
  <2>1. 0 \in 0 .. SIZE_1G - 1
    BY Sizes
  <2> QED BY <2>1, Sizes, UpperIndex, Zenon
<1>1. /\ init_kernel_pt(boot_ttbr0_l0) = [EmptyTable EXCEPT ![0] = TablePte(boot_ttbr0_l1)]
      /\ init_kernel_pt(boot_ttbr0_l1) = [EmptyTable EXCEPT ![0] = TablePte(boot_ttbr0_l2)]
      /\ init_kernel_pt(boot_ttbr0_l2) = ttbr0_l2
  BY TablesAssumption, Zenon DEF init_kernel_pt
<1>2. /\ init_kernel_pt(boot_ttbr1_l0) = [EmptyTable EXCEPT ![GET_L0_INDEX(KERNEL_VADDR)] = TablePte(boot_ttbr1_l1)]
      /\ init_kernel_pt(boot_ttbr1_l1) = ttbr1_l1
      /\ init_kernel_pt(boot_ttbr1_l2) = ttbr1_l2
  BY TablesAssumption, Zenon DEF init_kernel_pt
<1>3. ttbr1_l1[0] = TablePte(boot_ttbr1_l2)
  BY <1>0, Zenon DEF ttbr1_l1, Filled
<1> QED BY <1>0, <1>1, <1>2, <1>3, Zenon DEF EmptyTable

\* What a walk reads in an entry.
LEMMA PteFields ==
  ASSUME NEW t1, NEW t2, NEW attr, NEW pa
  PROVE  /\ TablePte(t1).addr = t1 /\ ~IS_PTE_INVALID(TablePte(t1))
         /\ TablePte(t2).addr = t2 /\ ~IS_PTE_INVALID(TablePte(t2)) /\ IS_PTE_TABLE(TablePte(t2))
         /\ BlockPte(attr, pa).addr = pa /\ BlockPte(attr, pa).attr_index = attr
         /\ ~IS_PTE_INVALID(BlockPte(attr, pa))
BY DEF TablePte, BlockPte, IS_PTE_INVALID, IS_PTE_TABLE

(***************************************************************************)
(* Above the first GB: the L1 blocks of the local peripherals              *)
(***************************************************************************)
\* KERNEL_VADDR is a multiple of what an L0 entry spans.
LEMMA KernelBase ==
  \E m \in Int : /\ KERNEL_VADDR = (SIZE_1G * PTP_ENTRIES) * m
                 /\ KERNEL_VADDR = SIZE_1G * (PTP_ENTRIES * m)
                 /\ KERNEL_VADDR \div (SIZE_1G * PTP_ENTRIES) = m
<1>1. PICK n \in Nat \ {0} : n = SIZE_1G * PTP_ENTRIES
  BY Sizes, Zenon
<1>2. KERNEL_VADDR % n = 0 /\ KERNEL_VADDR \in Int
  BY <1>1, BootLayoutAssumption
<1>3. PICK m \in Int : KERNEL_VADDR = n * m
  BY <1>2, Multiple, Zenon
<1>4. n * m = SIZE_1G * (PTP_ENTRIES * m)
  BY <1>1, Sizes
<1>5. KERNEL_VADDR \div n = m
  <2>1. KERNEL_VADDR = n * m + 0 /\ 0 \in 0 .. n - 1
    BY <1>2, <1>3
  <2> QED BY <1>2, <2>1, Quotient
<1> QED BY <1>1, <1>3, <1>4, <1>5, Zenon

\* The indices of an address in GB k of the direct map.
LEMMA GigIndex ==
  ASSUME NEW k \in Index, NEW rest \in 0 .. SIZE_1G - 1, NEW pa \in Int, pa = SIZE_1G * k + rest
  PROVE  /\ GET_L1_INDEX(pa + KERNEL_VADDR) = k
         /\ GET_L0_INDEX(pa + KERNEL_VADDR) = GET_L0_INDEX(KERNEL_VADDR)
<1>0. k \in Int /\ k \in 0 .. PTP_ENTRIES - 1 /\ rest \in Int
  BY Sizes DEF Index
<1>1. PICK m \in Int : /\ KERNEL_VADDR = (SIZE_1G * PTP_ENTRIES) * m
                       /\ KERNEL_VADDR = SIZE_1G * (PTP_ENTRIES * m)
                       /\ KERNEL_VADDR \div (SIZE_1G * PTP_ENTRIES) = m
  BY KernelBase, Zenon
<1>2. PICK g \in Int : g = PTP_ENTRIES * m
  BY Sizes
<1>3. PICK a \in Int : a = pa + KERNEL_VADDR
  BY BootLayoutAssumption
<1>4. PICK b \in Int : b = SIZE_1G * k
  BY <1>0, Sizes
<1>5. GET_L1_INDEX(a) = k
  <2>1. PICK d \in Int : d = k + g
    BY <1>0
  <2>2. SIZE_1G * d = SIZE_1G * k + SIZE_1G * g
    BY <1>0, <2>1, Sizes
  <2>3. a = SIZE_1G * d + rest
    BY <1>0, <1>1, <1>2, <1>3, <1>4, <2>2, Sizes
  <2>4. a \div SIZE_1G = d
    BY <2>3, Sizes, Quotient, Zenon
  <2>5. d = PTP_ENTRIES * m + k
    BY <1>0, <1>2, <2>1
  <2>6. d % PTP_ENTRIES = k
    BY <1>0, <2>5, Sizes, RemainderMod
  <2> QED BY <2>4, <2>6, Zenon DEF GET_L1_INDEX
<1>6. PICK n \in Nat \ {0} : n = SIZE_1G * PTP_ENTRIES
  BY Sizes, Zenon
<1>7. pa \in 0 .. n - 1
  <2>1. b >= 0
    BY <1>0, <1>4, Sizes
  <2>2. SIZE_1G * k <= SIZE_1G * (PTP_ENTRIES - 1)
    BY <1>0, Sizes
  <2>3. SIZE_1G * (PTP_ENTRIES - 1) = n - SIZE_1G
    BY <1>6, Sizes
  <2> QED BY <1>0, <1>4, <2>1, <2>2, <2>3, Sizes
<1>8. a \div n = m
  <2>1. a = n * m + pa
    BY <1>1, <1>3, <1>6
  <2> QED BY <1>7, <2>1, Quotient, Zenon
<1> QED BY <1>1, <1>3, <1>5, <1>6, <1>8, Zenon DEF GET_L0_INDEX

\* The loop over the local peripherals visits the GBs above the first one.
LEMMA GigSteps ==
  /\ \A v \in Steps(SHARED_PERIPHERAL_END, PHYSMEM_END, SIZE_1G) :
       v \in Int /\ v < PHYSMEM_END /\ \E k \in Index \ {0} : v = SIZE_1G * k
  /\ \A k \in Index \ {0} : SIZE_1G * k < PHYSMEM_END =>
       SIZE_1G * k \in Steps(SHARED_PERIPHERAL_END, PHYSMEM_END, SIZE_1G)
<1>0. /\ SHARED_PERIPHERAL_END = SIZE_1G /\ PHYSMEM_END \in Int
      /\ PHYSMEM_END <= SIZE_1G * PTP_ENTRIES
  BY BootLayoutAssumption
<1>1. ASSUME NEW v \in Steps(SHARED_PERIPHERAL_END, PHYSMEM_END, SIZE_1G)
      PROVE  v \in Int /\ v < PHYSMEM_END /\ \E k \in Index \ {0} : v = SIZE_1G * k
  <2>1. v \in Int /\ v >= SIZE_1G /\ v < PHYSMEM_END /\ (v - SIZE_1G) % SIZE_1G = 0
    BY <1>0, Sizes DEF Steps
  <2>2. PICK w \in Int : w = v - SIZE_1G
    BY <2>1, Sizes
  <2>3. PICK j \in Int : w = SIZE_1G * j
    BY <2>1, <2>2, Sizes, Multiple, Zenon
  <2>4. j >= 0
    <3>1. ASSUME j < 0 PROVE FALSE
      <4>1. SIZE_1G * j <= SIZE_1G * (-1)
        BY <3>1, Sizes
      <4> QED BY <2>1, <2>2, <2>3, <4>1, Sizes
    <3> QED BY <3>1
  <2>5. PICK k \in Int : k = j + 1
    OBVIOUS
  <2>6. v = SIZE_1G * k
    <3>1. SIZE_1G * k = SIZE_1G * j + SIZE_1G
      BY <2>5, Sizes
    <3> QED BY <2>1, <2>2, <2>3, <3>1, Sizes
  <2>7. k < PTP_ENTRIES
    <3>1. ASSUME k >= PTP_ENTRIES PROVE FALSE
      <4>1. SIZE_1G * k >= SIZE_1G * PTP_ENTRIES
        BY <3>1, Sizes
      <4> QED BY <1>0, <2>1, <2>6, <4>1, Sizes
    <3> QED BY <3>1, Sizes
  <2>8. k \in Index \ {0}
    BY <2>4, <2>5, <2>7, Sizes DEF Index
  <2> QED BY <2>1, <2>6, <2>8, Zenon
<1>2. ASSUME NEW k \in Index \ {0}, SIZE_1G * k < PHYSMEM_END
      PROVE  SIZE_1G * k \in Steps(SHARED_PERIPHERAL_END, PHYSMEM_END, SIZE_1G)
  <2>1. PICK j \in Int : j = k - 1 /\ j >= 0
    BY Sizes DEF Index
  <2>2. PICK v \in Int : v = SIZE_1G * k
    BY Sizes DEF Index
  <2>3. v = SIZE_1G * j + SIZE_1G
    BY <2>1, <2>2, Sizes DEF Index
  <2>4. PICK w \in Int : w = SIZE_1G * j /\ w >= 0
    BY <2>1, Sizes
  <2>5. w % SIZE_1G = 0
    BY <2>1, <2>4, Sizes, ProductMod, Zenon
  <2>6. v - SIZE_1G = w /\ v >= SIZE_1G
    BY <2>3, <2>4, Sizes
  <2>7. v \in SHARED_PERIPHERAL_END .. PHYSMEM_END - 1
    BY <1>0, <1>2, <2>2, <2>6, Sizes
  <2> QED BY <1>0, <2>2, <2>5, <2>6, <2>7, Zenon DEF Steps
<1> QED BY <1>1, <1>2, Zenon

\* What is in slot k of the L1 table of the upper half, but for slot 0.
LEMMA GigEntries ==
  ASSUME NEW k \in Index \ {0}
  PROVE  ttbr1_l1[k] = IF SIZE_1G * k < PHYSMEM_END THEN BlockPte(DEVICE_MEMORY, SIZE_1G * k)
                       ELSE PTE_DESCRIPTOR_INVALID
<1> DEFINE hits == {v \in Steps(SHARED_PERIPHERAL_END, PHYSMEM_END, SIZE_1G) : GET_L1_INDEX(v + KERNEL_VADDR) = k}
<1>0. PICK b \in Int : b = SIZE_1G * k
  BY Sizes DEF Index
<1>1. ASSUME NEW j \in Index, NEW v \in Int, v = SIZE_1G * j PROVE GET_L1_INDEX(v + KERNEL_VADDR) = j
  <2>1. 0 \in 0 .. SIZE_1G - 1 /\ v = SIZE_1G * j + 0
    BY <1>1, Sizes
  <2> QED BY <2>1, GigIndex, Zenon
<1>2. b < PHYSMEM_END => hits = {b}
  <2>1. ASSUME b < PHYSMEM_END PROVE b \in hits
    BY <1>0, <1>1, <2>1, GigSteps, Zenon
  <2>2. ASSUME NEW v \in hits PROVE v = b
    BY <1>0, <1>1, GigSteps
  <2> QED BY <2>1, <2>2, Zenon
<1>3. ~(b < PHYSMEM_END) => hits = {}
  <2>1. ASSUME NEW v \in hits PROVE b < PHYSMEM_END
    BY <1>0, <1>1, GigSteps
  <2> QED BY <2>1, Zenon
<1>4. b < PHYSMEM_END => Max(hits) = b /\ hits # {}
  BY <1>2, MaxOfOne, Zenon
<1> HIDE DEF hits
<1>5. ttbr1_l1[k] = IF hits = {} THEN PTE_DESCRIPTOR_INVALID ELSE BlockPte(DEVICE_MEMORY, Max(hits))
  <2>1. GET_L1_INDEX(KERNEL_VADDR) = 0
    <3>1. 0 \in 0 .. SIZE_1G - 1
      BY Sizes
    <3> QED BY <3>1, UpperIndex, Zenon
  <2> QED BY <2>1, Zenon DEF ttbr1_l1, Filled, hits
<1> QED BY <1>0, <1>3, <1>4, <1>5, Zenon
=============================================================================
