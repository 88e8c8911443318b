------------------------ MODULE PageTableInvariant -------------------------
(***************************************************************************)
(* The invariant of PageTable: which table is at which level, under which  *)
(* root and linked from where, and what a map call has reached.  Before it *)
(* the indices of an address, the trees of tables, and what walks and      *)
(* stores do in them; after it that it holds in the tables of the boot.    *)
(***************************************************************************)
EXTENDS PageTable, BootTableProofs

(***************************************************************************)
(* Indices: the digits of a page number                                    *)
(***************************************************************************)
\* What an entry of each level spans.
LEMMA SpanOf ==
  /\ EntrySize[0] = EntrySize[1] * PTP_ENTRIES /\ EntrySize[1] = EntrySize[2] * PTP_ENTRIES
  /\ EntrySize[2] = EntrySize[3] * PTP_ENTRIES /\ EntrySize[3] = PAGE_SIZE
  /\ \A l \in 0 .. 3 : EntrySize[l] \in Nat \ {0}
  /\ VA_END = EntrySize[0] * PTP_ENTRIES /\ VA_END \in Nat \ {0}
<1>1. /\ EntrySize[0] = SIZE_1G * PTP_ENTRIES /\ EntrySize[1] = SIZE_1G
      /\ EntrySize[2] = SIZE_2M /\ EntrySize[3] = PAGE_SIZE
  BY DEF EntrySize
<1>2. PAGE_SIZE \in Nat \ {0} /\ SIZE_2M = PAGE_SIZE * PTP_ENTRIES /\ PTP_ENTRIES \in Nat \ {0}
  BY PageTableAssumption, Sizes, Zenon
<1>3. /\ SIZE_1G * PTP_ENTRIES \in Nat \ {0} /\ SIZE_1G \in Nat \ {0} /\ SIZE_2M \in Nat \ {0}
      /\ SIZE_1G = SIZE_2M * PTP_ENTRIES
  BY Sizes, Zenon DEF SIZE_1G
<1>4. VA_END = EntrySize[0] * PTP_ENTRIES
  BY <1>1, Zenon DEF VA_END
<1>5. ASSUME NEW m \in Nat \ {0}, NEW n \in Nat \ {0} PROVE m * n \in Nat \ {0}
  OBVIOUS
<1>6. VA_END \in Nat \ {0}
  BY <1>1, <1>2, <1>3, <1>4, <1>5, Zenon
<1>7. ASSUME NEW l \in 0 .. 3 PROVE EntrySize[l] \in Nat \ {0}
  <2>1. l = 0 \/ l = 1 \/ l = 2 \/ l = 3
    OBVIOUS
  <2> QED BY <1>1, <1>2, <1>3, <2>1, Zenon
<1> QED BY <1>1, <1>2, <1>3, <1>4, <1>6, <1>7, Zenon

\* Dividing twice is dividing by the product.
LEMMA DivDiv ==
  ASSUME NEW a \in Nat, NEW n \in Nat \ {0}, NEW m \in Nat \ {0}, NEW k \in Nat \ {0}, k = n * m
  PROVE  a \div n = m * (a \div k) + ((a \div n) % m)
<1>1. PICK q \in Int, x \in 0 .. n - 1 : q = a \div n /\ a = n * q + x
  BY DivMod
<1>2. PICK p \in Int, y \in 0 .. m - 1 : q = m * p + y /\ y = q % m
  BY DivMod, Zenon
<1>3. PICK z \in Int : z = n * y + x
  OBVIOUS
<1>4. a = k * p + z
  <2>1. n * q = n * (m * p) + n * y
    BY <1>2
  <2>2. n * (m * p) = k * p
    OBVIOUS
  <2> QED BY <1>1, <1>3, <2>1, <2>2
<1>5. z \in 0 .. k - 1
  <2>1. n * y >= 0 /\ n * y <= n * (m - 1)
    OBVIOUS
  <2>2. n * (m - 1) = k - n
    OBVIOUS
  <2> QED BY <1>3, <2>1, <2>2
<1>6. a \div k = p
  BY <1>4, <1>5, Quotient
<1> QED BY <1>1, <1>2, <1>6, Zenon

\* The number of the entry of level l that va is in, counted from address 0.
Quot(l, va) == va \div EntrySize[l]

\* GET_INDEX yields the digits of the page number of va in base PTP_ENTRIES.
LEMMA Digits ==
  ASSUME NEW va \in Nat
  PROVE  /\ \A l \in 0 .. 3 : Quot(l, va) \in Int /\ GET_INDEX(l, va) \in Index
         /\ Quot(3, va) = PTP_ENTRIES * Quot(2, va) + GET_INDEX(3, va)
         /\ Quot(2, va) = PTP_ENTRIES * Quot(1, va) + GET_INDEX(2, va)
         /\ Quot(1, va) = PTP_ENTRIES * Quot(0, va) + GET_INDEX(1, va)
         /\ va < VA_END => Quot(0, va) = GET_INDEX(0, va)
<1>1. PTP_ENTRIES \in Nat \ {0}
  BY Sizes, Zenon
<1>2. ASSUME NEW l \in 0 .. 3 PROVE Quot(l, va) \in Int /\ GET_INDEX(l, va) \in Index
  <2>1. EntrySize[l] \in Nat \ {0}
    BY SpanOf, Zenon
  <2>2. Quot(l, va) \in Int
    BY <2>1, DivMod, va \in Int, Zenon DEF Quot
  <2>3. Quot(l, va) % PTP_ENTRIES \in 0 .. PTP_ENTRIES - 1
    BY <1>1, <2>2, DivMod, Zenon
  <2> QED BY <2>2, <2>3, Zenon DEF GET_INDEX, Quot, Index
<1>3. /\ EntrySize[0] \in Nat \ {0} /\ EntrySize[1] \in Nat \ {0}
      /\ EntrySize[2] \in Nat \ {0} /\ EntrySize[3] \in Nat \ {0}
  BY SpanOf
<1>4. ASSUME NEW l \in 1 .. 3 PROVE Quot(l, va) = PTP_ENTRIES * Quot(l - 1, va) + GET_INDEX(l, va)
  <2>1. PICK n \in Nat \ {0} : n = EntrySize[l]
    BY SpanOf
  <2>2. PICK k \in Nat \ {0} : k = EntrySize[l - 1]
    BY SpanOf
  <2>3. k = n * PTP_ENTRIES
    BY <2>1, <2>2, SpanOf
  <2>4. va \div n = PTP_ENTRIES * (va \div k) + ((va \div n) % PTP_ENTRIES)
    BY <1>1, <2>3, DivDiv, ZenonT(30)
  <2> QED BY <2>1, <2>2, <2>4, Zenon DEF Quot, GET_INDEX
<1>5. /\ Quot(3, va) = PTP_ENTRIES * Quot(2, va) + GET_INDEX(3, va)
      /\ Quot(2, va) = PTP_ENTRIES * Quot(1, va) + GET_INDEX(2, va)
      /\ Quot(1, va) = PTP_ENTRIES * Quot(0, va) + GET_INDEX(1, va)
  <2>1. 3 - 1 = 2 /\ 2 - 1 = 1 /\ 1 - 1 = 0 /\ 3 \in 1 .. 3 /\ 2 \in 1 .. 3 /\ 1 \in 1 .. 3
    OBVIOUS
  <2> QED BY <1>4, <2>1, Zenon
<1>7. ASSUME va < VA_END PROVE Quot(0, va) = GET_INDEX(0, va)
  <2>1. PICK n \in Nat \ {0} : n = EntrySize[0]
    BY <1>3, Zenon
  <2>2. PICK q \in Int, x \in 0 .. n - 1 : q = Quot(0, va) /\ va = n * q + x
    BY <2>1, DivMod, va \in Int, ZenonT(30) DEF Quot
  <2>3. va < n * PTP_ENTRIES
    BY <1>7, <2>1, SpanOf, Zenon
  <2>4. q >= 0
    <3>1. ASSUME q < 0 PROVE FALSE
      <4>1. n * q <= n * (-1)
        BY <3>1
      <4> QED BY <2>2, <4>1
    <3> QED BY <3>1
  <2>5. q < PTP_ENTRIES
    <3>1. ASSUME q >= PTP_ENTRIES PROVE FALSE
      <4>1. n * q >= n * PTP_ENTRIES
        BY <1>1, <3>1
      <4> QED BY <1>1, <2>2, <2>3, <4>1
    <3> QED BY <1>1, <3>1
  <2>6. q = PTP_ENTRIES * 0 + q /\ q \in 0 .. PTP_ENTRIES - 1
    BY <1>1, <2>4, <2>5
  <2>7. q % PTP_ENTRIES = q
    BY <1>1, <2>6, RemainderMod
  <2> QED BY <2>2, <2>7, Zenon DEF GET_INDEX, Quot
<1> QED BY <1>2, <1>5, <1>7, Zenon

\* The four indices of va.
Ix(va) == [l \in 0 .. 3 |-> GET_INDEX(l, va)]

\* The pages of the address space.
LEMMA PageFacts ==
  /\ \A v \in VPages : v \in Nat /\ v % PAGE_SIZE = 0 /\ GET_INDEX(3, v) \in Index
  /\ PAGE_SIZE \in Nat \ {0} /\ EntrySize[3] = PAGE_SIZE
<1>1. PAGE_SIZE \in Nat \ {0} /\ EntrySize[3] = PAGE_SIZE
  BY SpanOf, PageTableAssumption, Zenon
<1>2. ASSUME NEW v \in VPages PROVE v \in Nat /\ v % PAGE_SIZE = 0
  BY SpanOf DEF VPages
<1> QED BY <1>1, <1>2, Digits

\* The indices of an address are slots of a table.
LEMMA IxOf ==
  ASSUME NEW va \in Nat
  PROVE  /\ Ix(va) \in [0 .. 3 -> Index]
         /\ Ix(va)[0] = GET_INDEX(0, va) /\ Ix(va)[1] = GET_INDEX(1, va)
         /\ Ix(va)[2] = GET_INDEX(2, va) /\ Ix(va)[3] = GET_INDEX(3, va)
BY Digits DEF Ix

\* Two pages with the same indices are the same page.
LEMMA IxInjective ==
  ASSUME NEW v \in VPages, NEW w \in VPages, Ix(v) = Ix(w)
  PROVE  v = w
<1>1. /\ v \in Nat /\ v < VA_END /\ v % PAGE_SIZE = 0
      /\ w \in Nat /\ w < VA_END /\ w % PAGE_SIZE = 0
  BY SpanOf DEF VPages
<1>2. \A l \in 0 .. 3 : GET_INDEX(l, v) = GET_INDEX(l, w)
  BY <1>1, IxOf, Zenon DEF Ix
<1>3. Quot(0, v) = Quot(0, w)
  BY <1>1, <1>2, Digits
<1>4. Quot(1, v) = Quot(1, w)
  BY <1>1, <1>2, <1>3, Digits
<1>5. Quot(2, v) = Quot(2, w)
  BY <1>1, <1>2, <1>4, Digits
<1>6. Quot(3, v) = Quot(3, w)
  BY <1>1, <1>2, <1>5, Digits
<1>7. PAGE_SIZE \in Nat \ {0} /\ EntrySize[3] = PAGE_SIZE
  BY SpanOf, PageTableAssumption, Zenon
<1>8. ASSUME NEW x \in Nat, x % PAGE_SIZE = 0 PROVE x = PAGE_SIZE * Quot(3, x)
  <2>1. PICK q \in Int : q = x \div PAGE_SIZE
    BY <1>7, DivMod, x \in Int, Zenon
  <2>2. x = PAGE_SIZE * q + (x % PAGE_SIZE)
    BY <1>7, <2>1, DivMod, x \in Int, ZenonT(30)
  <2>3. x = PAGE_SIZE * q
    BY <1>7, <1>8, <2>2
  <2> QED BY <1>7, <2>1, <2>3, Zenon DEF Quot
<1> QED BY <1>1, <1>6, <1>8, Zenon

\* The next page is in the same level 3 table, unless this is the last of it.
LEMMA IxNext ==
  ASSUME NEW va \in Nat, NEW wa \in Nat, wa = va + PAGE_SIZE, GET_INDEX(3, va) # PTP_ENTRIES - 1
  PROVE  \A l \in 0 .. 2 : GET_INDEX(l, wa) = GET_INDEX(l, va)
<1>1. PAGE_SIZE \in Nat \ {0} /\ EntrySize[3] = PAGE_SIZE /\ PTP_ENTRIES \in Nat \ {0}
  BY SpanOf, PageTableAssumption, Sizes, Zenon
<1>2. Quot(3, wa) = Quot(3, va) + 1
  <2>1. PICK q \in Int : q = va \div PAGE_SIZE
    BY <1>1, DivMod, va \in Int, Zenon
  <2>2. PICK x \in 0 .. PAGE_SIZE - 1 : x = va % PAGE_SIZE
    BY <1>1, DivMod, va \in Int, Zenon
  <2>3. PICK m \in Int, p \in Int : m = PAGE_SIZE * q /\ p = q + 1
    BY <1>1
  <2>4. wa = PAGE_SIZE * p + x
    <3>1. va = m + x
      BY <1>1, <2>1, <2>2, <2>3, DivMod, va \in Int, Zenon
    <3>2. PAGE_SIZE * p = m + PAGE_SIZE
      BY <1>1, <2>3
    <3> QED BY <1>1, <3>1, <3>2
  <2>5. wa \div PAGE_SIZE = p
    BY <1>1, <2>4, Quotient, wa \in Int
  <2> QED BY <1>1, <2>1, <2>3, <2>5, Zenon DEF Quot
<1>3. ASSUME NEW n \in Nat \ {0}, NEW a \in Int, NEW b \in Int, NEW i \in 0 .. n - 1, NEW j \in 0 .. n - 1,
             n * a + i = n * b + j
      PROVE  a = b /\ i = j
  <2>1. PICK c \in Int : c = n * a + i
    OBVIOUS
  <2>2. c \div n = a /\ c \div n = b
    BY <1>3, <2>1, Quotient
  <2> QED BY <1>3, <2>2
<1>4. PICK i \in Index, j \in Index : i = GET_INDEX(3, va) /\ j = GET_INDEX(3, wa)
  BY Digits, 3 \in 0 .. 3, Zenon
<1>5. i \in 0 .. PTP_ENTRIES - 1 /\ j \in 0 .. PTP_ENTRIES - 1 /\ i + 1 \in 0 .. PTP_ENTRIES - 1
  BY <1>1, <1>4 DEF Index
<1>6. Quot(2, wa) = Quot(2, va)
  <2>1. PICK a \in Int, b \in Int : a = Quot(2, va) /\ b = Quot(2, wa)
    BY Digits, 2 \in 0 .. 3, Zenon
  <2>2. Quot(3, va) = PTP_ENTRIES * a + i /\ Quot(3, wa) = PTP_ENTRIES * b + j
    BY <1>4, <2>1, Digits, Zenon
  <2>3. PICK h \in 0 .. PTP_ENTRIES - 1 : h = i + 1
    BY <1>5, Zenon
  <2>4. PTP_ENTRIES * b + j = PTP_ENTRIES * a + h
    BY <1>1, <1>2, <1>5, <2>2, <2>3
  <2>5. b = a
    BY <1>1, <1>3, <1>5, <2>4, Zenon
  <2> QED BY <2>1, <2>5, Zenon
<1>7. ASSUME NEW l \in 1 .. 2, NEW k \in 0 .. 1, k = l - 1, Quot(l, wa) = Quot(l, va)
      PROVE  Quot(k, wa) = Quot(k, va) /\ GET_INDEX(l, wa) = GET_INDEX(l, va)
  <2>1. /\ Quot(l, va) = PTP_ENTRIES * Quot(k, va) + GET_INDEX(l, va)
        /\ Quot(l, wa) = PTP_ENTRIES * Quot(k, wa) + GET_INDEX(l, wa)
    <3>1. k = l - 1
      BY <1>7, Zenon
    <3>2. (l = 1 /\ k = 0) \/ (l = 2 /\ k = 1)
      BY <3>1
    <3> QED BY <3>2, Digits, Zenon
  <2>2. /\ Quot(k, va) \in Int /\ GET_INDEX(l, va) \in 0 .. PTP_ENTRIES - 1
        /\ Quot(k, wa) \in Int /\ GET_INDEX(l, wa) \in 0 .. PTP_ENTRIES - 1
    BY Digits, l \in 0 .. 3, k \in 0 .. 3, Zenon DEF Index
  <2>3. PICK a \in Int, b \in Int : a = Quot(k, wa) /\ b = Quot(k, va)
    BY <2>2, Zenon
  <2>4. PICK x \in 0 .. PTP_ENTRIES - 1, y \in 0 .. PTP_ENTRIES - 1 : x = GET_INDEX(l, wa) /\ y = GET_INDEX(l, va)
    BY <2>2, Zenon
  <2>5. PTP_ENTRIES * a + x = PTP_ENTRIES * b + y
    BY <1>7, <2>1, <2>3, <2>4, Zenon
  <2>6. a = b /\ x = y
    BY <1>1, <1>3, <2>5
  <2> QED BY <2>3, <2>4, <2>6, Zenon
<1>8. GET_INDEX(2, wa) = GET_INDEX(2, va) /\ Quot(1, wa) = Quot(1, va)
  BY <1>6, <1>7, 2 \in 1 .. 2, 1 \in 0 .. 1, 1 = 2 - 1, Zenon
<1>9. GET_INDEX(1, wa) = GET_INDEX(1, va) /\ Quot(0, wa) = Quot(0, va)
  BY <1>7, <1>8, 1 \in 1 .. 2, 0 \in 0 .. 1, 0 = 1 - 1, Zenon
<1>10. GET_INDEX(0, wa) = GET_INDEX(0, va)
  BY <1>9, Zenon DEF GET_INDEX, Quot
<1>11. ASSUME NEW l \in 0 .. 2 PROVE l = 0 \/ l = 1 \/ l = 2
  OBVIOUS
<1> QED BY <1>8, <1>9, <1>10, <1>11, Zenon

(***************************************************************************)
(* The trees of tables                                                     *)
(***************************************************************************)
\* What a table may hold beside links: blocks, and at level 3 pages.
BlockPtes == [is_valid : {1}, is_table : {0}, addr : Nat, AP : {0, 1, 3}, PXN : {0, 1},
              UXN : {0, 1}, nG : {1}, attr_index : {0, 3, 4}]
PagePtes == [is_valid : {1}, is_table : {1}, addr : Nat, AP : {0, 1, 3}, PXN : {0, 1},
             UXN : {0, 1}, nG : {1}, attr_index : {0, 3, 4}]

\* Entry i of table t links table s, one level further down in the same tree.
Linked(tb, depth, place, own, t, i, s) ==
  /\ tb[t][i] = TablePte(s) /\ place[s] = <<t, i>> /\ s \notin Roots
  /\ depth[s] = depth[t] + 1 /\ own[s] = own[t]

\* The tables of the set used form one tree under each root: depth is the level
\* of a table, own its root and place the one entry that links it.
Trees(tb, used, depth, place, own) ==
  /\ tb \in [Tables -> [Index -> Pte]] /\ used \subseteq Tables
  /\ Roots \cup {boot_ttbr1_l1, boot_ttbr1_l2} \subseteq used
  /\ depth \in [Tables -> 0 .. 3] /\ place \in [Tables -> Tables \X Index]
  /\ own \in [Tables -> Roots]
  /\ \A r \in Roots : depth[r] = 0 /\ own[r] = r
  /\ own[boot_ttbr1_l1] = KernelRoot /\ own[boot_ttbr1_l2] = KernelRoot
  /\ \A t \in used, i \in Index :
       \/ tb[t][i] = PTE_DESCRIPTOR_INVALID
       \/ depth[t] \in {1, 2} /\ tb[t][i] \in BlockPtes
       \/ depth[t] = 3 /\ tb[t][i] \in PagePtes
       \/ \E s \in used : Linked(tb, depth, place, own, t, i, s)
  /\ \A s \in used \ Roots : \E t \in used, i \in Index : Linked(tb, depth, place, own, t, i, s)

\* The walk of an address with indices ix from root r comes to table t at level l.
Reach1(tb, r, ix, t) == tb[r][ix[0]] = TablePte(t)
Reach2(tb, r, ix, t) == \E s : Reach1(tb, r, ix, s) /\ tb[s][ix[1]] = TablePte(t)
Reach3(tb, r, ix, t) == \E s : Reach2(tb, r, ix, s) /\ tb[s][ix[2]] = TablePte(t)
Reach(tb, l, r, ix, t) ==
  \/ l = 0 /\ t = r
  \/ l = 1 /\ Reach1(tb, r, ix, t)
  \/ l = 2 /\ Reach2(tb, r, ix, t)
  \/ l = 3 /\ Reach3(tb, r, ix, t)

\* Entry e ends a walk at level l.
Ended(e, l) ==
  \/ e = PTE_DESCRIPTOR_INVALID
  \/ l \in {1, 2} /\ e \in BlockPtes
  \/ l = 3 /\ e \in PagePtes

\* The walk for ix from root r ends at level l, in table t, with entry e ...
EndsAt(tb, r, ix, l, t, e) == Reach(tb, l, r, ix, t) /\ tb[t][ix[l]] = e /\ Ended(e, l)

\* ... and finds this.
EndLeaf(e, l) == IF e = PTE_DESCRIPTOR_INVALID THEN NULL ELSE <<l, e>>

\* The links of the tables in tb are in tc.
LinksKept(tb, tc, used) ==
  \A x \in used : \A j \in Index : \A s : tb[x][j] = TablePte(s) => tc[x][j] = TablePte(s)

\* The two stores of map_range_in_pgtbl_common: the free table f is linked at the
\* invalid entry i of table t, and entry i of table t is set to e.
NewTableAt(tb, tc, used, depth, t, i, f) ==
  /\ t \in used /\ depth[t] \in 0 .. 2 /\ i \in Index /\ tb[t][i] = PTE_DESCRIPTOR_INVALID
  /\ f \in Tables \ used
  /\ tc = [tb EXCEPT ![f] = EmptyTable, ![t][i] = TablePte(f)]
StoredAt(tb, tc, t, i, e) == tc = [tb EXCEPT ![t][i] = e]

\* What depth, place and own say of a new table f is added to them.
With(map, f, value) == [map EXCEPT ![f] = value]

\* LeafEntry of tables tb, for the indices of an address.
LeafAt(tb, r, ix) ==
  LET e0 == tb[r][ix[0]]
      e1 == tb[e0.addr][ix[1]]
      e2 == tb[e1.addr][ix[2]]
      e3 == tb[e2.addr][ix[3]]
  IN  IF IS_PTE_INVALID(e0) \/ ~IS_PTE_TABLE(e0) \/ IS_PTE_INVALID(e1) THEN NULL
      ELSE IF ~IS_PTE_TABLE(e1) THEN <<1, e1>>
      ELSE IF IS_PTE_INVALID(e2) THEN NULL
      ELSE IF ~IS_PTE_TABLE(e2) THEN <<2, e2>>
      ELSE IF IS_PTE_INVALID(e3) \/ ~IS_PTE_TABLE(e3) THEN NULL ELSE <<3, e3>>

\* Every walk finds in tc what it finds in tb.
SameLeaves(tb, tc) ==
  \A r \in Roots, ix \in [0 .. 3 -> Index] : LeafAt(tc, r, ix) = LeafAt(tb, r, ix)

\* The kinds of entries differ in the bits a walk tests.
LEMMA PteKinds ==
  /\ IS_PTE_INVALID(PTE_DESCRIPTOR_INVALID)
  /\ \A s : /\ ~IS_PTE_INVALID(TablePte(s)) /\ IS_PTE_TABLE(TablePte(s)) /\ TablePte(s).addr = s
            /\ TablePte(s) # PTE_DESCRIPTOR_INVALID
            /\ TablePte(s) \notin BlockPtes /\ TablePte(s) \notin PagePtes
  /\ \A e \in BlockPtes : ~IS_PTE_INVALID(e) /\ ~IS_PTE_TABLE(e) /\ e \in Pte /\ e.addr \in Nat /\ e.nG = 1
  /\ \A e \in PagePtes : ~IS_PTE_INVALID(e) /\ IS_PTE_TABLE(e) /\ e \in Pte /\ e.addr \in Nat /\ e.nG = 1
<1>1. IS_PTE_INVALID(PTE_DESCRIPTOR_INVALID)
  BY Zenon DEF IS_PTE_INVALID, PTE_DESCRIPTOR_INVALID
<1>2. ASSUME NEW s
      PROVE  /\ ~IS_PTE_INVALID(TablePte(s)) /\ IS_PTE_TABLE(TablePte(s)) /\ TablePte(s).addr = s
             /\ TablePte(s) # PTE_DESCRIPTOR_INVALID
  BY DEF IS_PTE_INVALID, IS_PTE_TABLE, TablePte, PTE_DESCRIPTOR_INVALID
<1>3. ASSUME NEW s PROVE TablePte(s) \notin BlockPtes /\ TablePte(s) \notin PagePtes
  BY DEF TablePte, BlockPtes, PagePtes
<1>4. ASSUME NEW e \in BlockPtes PROVE ~IS_PTE_INVALID(e) /\ ~IS_PTE_TABLE(e) /\ e \in Pte /\ e.addr \in Nat /\ e.nG = 1
  BY DEF IS_PTE_INVALID, IS_PTE_TABLE, BlockPtes, Pte
<1>5. ASSUME NEW e \in PagePtes PROVE ~IS_PTE_INVALID(e) /\ IS_PTE_TABLE(e) /\ e \in Pte /\ e.addr \in Nat /\ e.nG = 1
  BY DEF IS_PTE_INVALID, IS_PTE_TABLE, PagePtes, Pte
<1> QED BY <1>1, <1>2, <1>3, <1>4, <1>5, Zenon

\* What a walk finds at a leaf is not NULL.
LEMMA LeafPair ==
  ASSUME NEW l \in {1, 2, 3}, NEW e \in BlockPtes \cup PagePtes
  PROVE  e \in Pte /\ e.addr \in Nat /\ <<l, e>> # NULL
<1>1. e \in Pte /\ e.addr \in Nat
  BY PteKinds, Zenon
<1>2. l \in 1 .. 3
  OBVIOUS
<1>3. <<l, e>> \in (1 .. 3) \X Pte
  BY <1>1, <1>2
<1> QED BY <1>1, <1>3, NullAssumption, Zenon

\* A link determines the table it leads to.
LEMMA LinkInjective == ASSUME NEW s, NEW t, TablePte(s) = TablePte(t) PROVE s = t
BY PteKinds

\* A link is one of the tree.
LEMMA LinkOf ==
  ASSUME NEW tb, NEW used, NEW depth, NEW place, NEW own, Trees(tb, used, depth, place, own),
         NEW x \in used, NEW i \in Index, NEW s, tb[x][i] = TablePte(s)
  PROVE  s \in used /\ Linked(tb, depth, place, own, x, i, s)
<1>1. PICK y \in used : Linked(tb, depth, place, own, x, i, y)
  BY PteKinds, Zenon DEF Trees
<1>2. y = s
  BY <1>1, LinkInjective, Zenon DEF Linked
<1> QED BY <1>1, <1>2, Zenon

\* Where a walk can come to: used tables of that level, in the tree of its root.
LEMMA Reached ==
  ASSUME NEW tb, NEW used, NEW depth, NEW place, NEW own, Trees(tb, used, depth, place, own),
         NEW r \in Roots, NEW ix \in [0 .. 3 -> Index], NEW l, NEW t, Reach(tb, l, r, ix, t)
  PROVE  t \in used /\ depth[t] = l /\ own[t] = r /\ l \in 0 .. 3
<1>1. ASSUME NEW x \in used, NEW i \in Index, NEW s, tb[x][i] = TablePte(s)
      PROVE  s \in used /\ Linked(tb, depth, place, own, x, i, s)
  BY <1>1, LinkOf, Zenon
<1>2. r \in used /\ depth[r] = 0 /\ own[r] = r
  BY Zenon DEF Trees
<1>3. ix[0] \in Index /\ ix[1] \in Index /\ ix[2] \in Index
  OBVIOUS
<1>4. ASSUME NEW s, Reach1(tb, r, ix, s) PROVE s \in used /\ depth[s] = 1 /\ own[s] = r
  <2>1. s \in used /\ Linked(tb, depth, place, own, r, ix[0], s)
    BY <1>1, <1>2, <1>3, <1>4, Zenon DEF Reach1
  <2> QED BY <1>2, <2>1 DEF Linked
<1>5. ASSUME NEW s, Reach2(tb, r, ix, s) PROVE s \in used /\ depth[s] = 2 /\ own[s] = r
  <2>1. PICK x : Reach1(tb, r, ix, x) /\ tb[x][ix[1]] = TablePte(s)
    BY <1>5, Zenon DEF Reach2
  <2>2. x \in used /\ depth[x] = 1 /\ own[x] = r
    BY <1>4, <2>1, Zenon
  <2>3. s \in used /\ Linked(tb, depth, place, own, x, ix[1], s)
    BY <1>1, <1>3, <2>1, <2>2, Zenon
  <2> QED BY <2>2, <2>3 DEF Linked
<1>6. ASSUME NEW s, Reach3(tb, r, ix, s) PROVE s \in used /\ depth[s] = 3 /\ own[s] = r
  <2>1. PICK x : Reach2(tb, r, ix, x) /\ tb[x][ix[2]] = TablePte(s)
    BY <1>6, Zenon DEF Reach3
  <2>2. x \in used /\ depth[x] = 2 /\ own[x] = r
    BY <1>5, <2>1, Zenon
  <2>3. s \in used /\ Linked(tb, depth, place, own, x, ix[2], s)
    BY <1>1, <1>3, <2>1, <2>2, Zenon
  <2> QED BY <2>2, <2>3 DEF Linked
<1>7. l \in 0 .. 3
  BY DEF Reach
<1> QED BY <1>2, <1>4, <1>5, <1>6, <1>7, Zenon DEF Reach

\* One level further down.
LEMMA Descends ==
  ASSUME NEW tb, NEW r, NEW ix, NEW l \in 0 .. 2, NEW t, Reach(tb, l, r, ix, t),
         NEW s, tb[t][ix[l]] = TablePte(s)
  PROVE  Reach(tb, l + 1, r, ix, s)
<1>1. CASE l = 0
  BY <1>1 DEF Reach, Reach1
<1>2. CASE l = 1
  BY <1>2 DEF Reach, Reach2
<1>3. CASE l = 2
  BY <1>3 DEF Reach, Reach3
<1> QED BY <1>1, <1>2, <1>3

\* A walk ends: at a level it reaches a table whose entry is no link.
LEMMA Walks ==
  ASSUME NEW tb, NEW used, NEW depth, NEW place, NEW own, Trees(tb, used, depth, place, own),
         NEW r \in Roots, NEW ix \in [0 .. 3 -> Index]
  PROVE  \E l \in 0 .. 3, t \in used, e \in Pte : depth[t] = l /\ EndsAt(tb, r, ix, l, t, e)
<1> DEFINE Ends(l, t) ==
             depth[t] = l /\ EndsAt(tb, r, ix, l, t, tb[t][ix[l]])
<1>1. ASSUME NEW l \in 0 .. 3, NEW t \in used, Reach(tb, l, r, ix, t), depth[t] = l
      PROVE  Ends(l, t) \/ \E s \in used : tb[t][ix[l]] = TablePte(s) /\ depth[s] = l + 1
  <2>1. ix[l] \in Index
    OBVIOUS
  <2>2. \/ tb[t][ix[l]] = PTE_DESCRIPTOR_INVALID
        \/ depth[t] \in {1, 2} /\ tb[t][ix[l]] \in BlockPtes
        \/ depth[t] = 3 /\ tb[t][ix[l]] \in PagePtes
        \/ \E s \in used : Linked(tb, depth, place, own, t, ix[l], s)
    BY <2>1, Zenon DEF Trees
  <2> QED BY <1>1, <2>2, Zenon DEF Linked, Ended, EndsAt
<1> HIDE DEF Ends
<1>2. ASSUME NEW l \in 0 .. 2, NEW t \in used, Reach(tb, l, r, ix, t), depth[t] = l, ~Ends(l, t)
      PROVE  \E s \in used : Reach(tb, l + 1, r, ix, s) /\ depth[s] = l + 1
  <2>1. PICK s \in used : tb[t][ix[l]] = TablePte(s) /\ depth[s] = l + 1
    BY <1>1, <1>2
  <2>2. Reach(tb, l + 1, r, ix, s)
    BY <1>2, <2>1, Descends, Zenon
  <2> QED BY <2>1, <2>2, Zenon
<1>3. Reach(tb, 0, r, ix, r) /\ r \in used /\ depth[r] = 0
  BY Zenon DEF Reach, Trees
<1>4. ASSUME NEW l \in 0 .. 3, NEW u \in used PROVE tb[u][ix[l]] \in Pte
  BY DEF Trees
<1>5. CASE Ends(0, r)
  BY <1>3, <1>5, <1>4 DEF Ends
<1>6. CASE ~Ends(0, r)
  <2>1. PICK s1 \in used : Reach(tb, 1, r, ix, s1) /\ depth[s1] = 1
    BY <1>2, <1>3, <1>6
  <2>2. CASE Ends(1, s1)
    BY <1>4, <2>2 DEF Ends
  <2>3. CASE ~Ends(1, s1)
    <3>1. PICK s2 \in used : Reach(tb, 2, r, ix, s2) /\ depth[s2] = 2
      BY <1>2, <2>1, <2>3
    <3>2. CASE Ends(2, s2)
      BY <1>4, <3>2 DEF Ends
    <3>3. CASE ~Ends(2, s2)
      <4>1. PICK s3 \in used : Reach(tb, 3, r, ix, s3) /\ depth[s3] = 3
        BY <1>2, <3>1, <3>3
      <4>2. Ends(3, s3)
        <5>1. ASSUME NEW s \in used, depth[s] = 3 + 1 PROVE FALSE
          <6>1. depth \in [Tables -> 0 .. 3] /\ used \subseteq Tables
            BY Zenon DEF Trees
          <6> QED BY <5>1, <6>1
        <5> QED BY <1>1, <4>1, <5>1
      <4> QED BY <1>4, <4>2 DEF Ends
    <3> QED BY <3>2, <3>3, Zenon
  <2> QED BY <2>2, <2>3, Zenon
<1> QED BY <1>5, <1>6, Zenon

\* What the hardware makes of the entry its walk ends at.
LEMMA WalkEnds ==
  ASSUME NEW tb, NEW r, NEW ix, NEW l, NEW t, NEW e, EndsAt(tb, r, ix, l, t, e)
  PROVE  LeafAt(tb, r, ix) = EndLeaf(e, l)
<1>0. Reach(tb, l, r, ix, t) /\ e = tb[t][ix[l]] /\ (e = PTE_DESCRIPTOR_INVALID \/ e \in BlockPtes \/ e \in PagePtes)
      /\ (e \in BlockPtes => l \in {1, 2}) /\ (e \in PagePtes => l = 3)
  <2>1. ~(e \in BlockPtes /\ e \in PagePtes)
    BY DEF BlockPtes, PagePtes
  <2>2. e = PTE_DESCRIPTOR_INVALID => e \notin BlockPtes /\ e \notin PagePtes
    BY DEF PTE_DESCRIPTOR_INVALID, BlockPtes, PagePtes
  <2> QED BY <2>1, <2>2, Zenon DEF Ended, EndsAt
<1>1. /\ e = PTE_DESCRIPTOR_INVALID => e.is_valid = 0
      /\ e \in BlockPtes => e.is_valid = 1 /\ e.is_table = 0
      /\ e \in PagePtes => e.is_valid = 1 /\ e.is_table = 1
  BY DEF PTE_DESCRIPTOR_INVALID, BlockPtes, PagePtes
<1>2. ASSUME NEW s PROVE TablePte(s).is_valid = 1 /\ TablePte(s).is_table = 1 /\ TablePte(s).addr = s
  BY Zenon DEF TablePte
<1>3. PICK e0, e1, e2, e3 : e0 = tb[r][ix[0]] /\ e1 = tb[e0.addr][ix[1]] /\ e2 = tb[e1.addr][ix[2]] /\ e3 = tb[e2.addr][ix[3]]
  BY Zenon
<1>4. LeafAt(tb, r, ix) =
        IF e0.is_valid = 0 \/ ~(e0.is_table = 1) \/ e1.is_valid = 0 THEN NULL
        ELSE IF ~(e1.is_table = 1) THEN <<1, e1>>
        ELSE IF e2.is_valid = 0 THEN NULL
        ELSE IF ~(e2.is_table = 1) THEN <<2, e2>>
        ELSE IF e3.is_valid = 0 \/ ~(e3.is_table = 1) THEN NULL ELSE <<3, e3>>
  BY <1>3, Zenon DEF LeafAt, IS_PTE_INVALID, IS_PTE_TABLE
<1>5. CASE l = 0 /\ t = r
  <2>1. e = e0
    BY <1>0, <1>3, <1>5, Zenon
  <2> QED BY <1>0, <1>1, <1>4, <1>5, <2>1 DEF EndLeaf
<1>6. CASE l = 1 /\ Reach1(tb, r, ix, t)
  <2>1. e0 = TablePte(t)
    BY <1>3, <1>6, Zenon DEF Reach1
  <2>2. e0.is_valid = 1 /\ e0.is_table = 1 /\ e = e1
    <3>1. e0.is_valid = 1 /\ e0.is_table = 1 /\ e0.addr = t
      BY <1>2, <2>1, Zenon
    <3> QED BY <1>0, <1>3, <1>6, <3>1, Zenon
  <2> QED BY <1>0, <1>1, <1>4, <1>6, <2>2 DEF EndLeaf
<1>7. CASE l = 2 /\ Reach2(tb, r, ix, t)
  <2>1. PICK s : e0 = TablePte(s) /\ tb[s][ix[1]] = TablePte(t)
    BY <1>3, <1>7, Zenon DEF Reach2, Reach1
  <2>2. e1 = TablePte(t)
    BY <1>2, <1>3, <2>1, Zenon
  <2>3. e0.is_valid = 1 /\ e0.is_table = 1 /\ e1.is_valid = 1 /\ e1.is_table = 1 /\ e1.addr = t
    BY <1>2, <2>1, <2>2, Zenon
  <2>4. e = e2
    BY <1>0, <1>3, <1>7, <2>3, Zenon
  <2> QED BY <1>0, <1>1, <1>4, <1>7, <2>3, <2>4 DEF EndLeaf
<1>8. CASE l = 3 /\ Reach3(tb, r, ix, t)
  <2>1. PICK u, s : e0 = TablePte(u) /\ tb[u][ix[1]] = TablePte(s) /\ tb[s][ix[2]] = TablePte(t)
    BY <1>3, <1>8, Zenon DEF Reach3, Reach2, Reach1
  <2>2. e1 = TablePte(s)
    BY <1>2, <1>3, <2>1, Zenon
  <2>3. e2 = TablePte(t)
    BY <1>2, <1>3, <2>1, <2>2, Zenon
  <2>4. /\ e0.is_valid = 1 /\ e0.is_table = 1 /\ e1.is_valid = 1 /\ e1.is_table = 1
        /\ e2.is_valid = 1 /\ e2.is_table = 1 /\ e2.addr = t
    BY <1>2, <2>1, <2>2, <2>3, Zenon
  <2>5. e = e3
    BY <1>0, <1>3, <1>8, <2>4, Zenon
  <2> QED BY <1>0, <1>1, <1>4, <1>8, <2>4, <2>5 DEF EndLeaf
<1> QED BY <1>0, <1>5, <1>6, <1>7, <1>8, Zenon DEF Reach

\* Only one walk comes to a level 3 table: every table is linked at one place.
LEMMA OnePath ==
  ASSUME NEW tb, NEW used, NEW depth, NEW place, NEW own, Trees(tb, used, depth, place, own), NEW t,
         NEW r \in Roots, NEW ix \in [0 .. 3 -> Index], Reach(tb, 3, r, ix, t),
         NEW q \in Roots, NEW jx \in [0 .. 3 -> Index], Reach(tb, 3, q, jx, t)
  PROVE  r = q /\ ix[0] = jx[0] /\ ix[1] = jx[1] /\ ix[2] = jx[2]
<1>1. /\ ix[0] \in Index /\ ix[1] \in Index /\ ix[2] \in Index
      /\ jx[0] \in Index /\ jx[1] \in Index /\ jx[2] \in Index
  OBVIOUS
<1>2. PICK s2, s1 : Reach(tb, 1, r, ix, s1) /\ Reach(tb, 2, r, ix, s2) /\ tb[r][ix[0]] = TablePte(s1)
                    /\ tb[s1][ix[1]] = TablePte(s2) /\ tb[s2][ix[2]] = TablePte(t)
  BY DEF Reach, Reach1, Reach2, Reach3
<1>3. PICK u2, u1 : Reach(tb, 1, q, jx, u1) /\ Reach(tb, 2, q, jx, u2) /\ tb[q][jx[0]] = TablePte(u1)
                    /\ tb[u1][jx[1]] = TablePte(u2) /\ tb[u2][jx[2]] = TablePte(t)
  BY DEF Reach, Reach1, Reach2, Reach3
<1>4. r \in used /\ q \in used
  BY Zenon DEF Trees
<1>5. s1 \in used /\ s2 \in used /\ u1 \in used /\ u2 \in used
  BY <1>2, <1>3, Reached
<1>6. ASSUME NEW x \in used, NEW i \in Index, NEW y \in used, NEW j \in Index, NEW s,
             tb[x][i] = TablePte(s), tb[y][j] = TablePte(s)
      PROVE  x = y /\ i = j
  <2>1. Linked(tb, depth, place, own, x, i, s) /\ Linked(tb, depth, place, own, y, j, s)
    BY <1>6, LinkOf, Zenon
  <2>2. <<x, i>> = <<y, j>>
    BY <2>1, Zenon DEF Linked
  <2> QED BY <2>2, Zenon
<1>7. s2 = u2 /\ ix[2] = jx[2]
  BY <1>1, <1>2, <1>3, <1>5, <1>6
<1>8. s1 = u1 /\ ix[1] = jx[1]
  BY <1>1, <1>2, <1>3, <1>5, <1>6, <1>7
<1>9. r = q /\ ix[0] = jx[0]
  BY <1>1, <1>2, <1>3, <1>4, <1>6, <1>8
<1> QED BY <1>7, <1>8, <1>9, Zenon

\* Tables that keep their links keep the walks.
LEMMA ReachKept ==
  ASSUME NEW tb, NEW used, NEW depth, NEW place, NEW own, Trees(tb, used, depth, place, own), NEW tc,
         LinksKept(tb, tc, used),
         NEW r \in Roots, NEW ix \in [0 .. 3 -> Index], NEW l, NEW t, Reach(tb, l, r, ix, t)
  PROVE  Reach(tc, l, r, ix, t)
<1>1. ix[0] \in Index /\ ix[1] \in Index /\ ix[2] \in Index /\ r \in used
  BY DEF Trees
<1>2. ASSUME NEW s, Reach1(tb, r, ix, s) PROVE Reach1(tc, r, ix, s) /\ s \in used
  <2>1. Reach(tb, 1, r, ix, s)
    BY <1>2, Zenon DEF Reach
  <2>2. s \in used
    BY <2>1, Reached, Zenon
  <2> QED BY <1>1, <1>2, <2>2 DEF Reach1, LinksKept
<1>3. ASSUME NEW s, Reach2(tb, r, ix, s) PROVE Reach2(tc, r, ix, s) /\ s \in used
  <2>1. Reach(tb, 2, r, ix, s)
    BY <1>3, Zenon DEF Reach
  <2>2. s \in used
    BY <2>1, Reached, Zenon
  <2>3. PICK x : Reach1(tb, r, ix, x) /\ tb[x][ix[1]] = TablePte(s)
    BY <1>3, Zenon DEF Reach2
  <2> QED BY <1>1, <1>2, <2>2, <2>3 DEF Reach2, LinksKept
<1>4. ASSUME NEW s, Reach3(tb, r, ix, s) PROVE Reach3(tc, r, ix, s)
  <2>1. PICK x : Reach2(tb, r, ix, x) /\ tb[x][ix[2]] = TablePte(s)
    BY <1>4, Zenon DEF Reach3
  <2> QED BY <1>1, <1>3, <2>1 DEF Reach3, LinksKept
<1> QED BY <1>2, <1>3, <1>4, Zenon DEF Reach

\* get_next_ptp with alloc: a free page, cleared and linked at an invalid entry
\* above level 3, becomes part of the tree and changes no translation.
LEMMA NewTableStep ==
  ASSUME NEW tb, NEW used, NEW depth, NEW place, NEW own, Trees(tb, used, depth, place, own),
         NEW tc, NEW t, NEW i, NEW f, NewTableAt(tb, tc, used, depth, t, i, f)
  PROVE  /\ Trees(tc, used \cup {f}, With(depth, f, depth[t] + 1),
                  With(place, f, <<t, i>>), With(own, f, own[t]))
         /\ SameLeaves(tb, tc) /\ LinksKept(tb, tc, used) /\ tc[t][i] = TablePte(f)
<1> DEFINE U == used \cup {f}
           dp == With(depth, f, depth[t] + 1)
           pl == With(place, f, <<t, i>>)
           ow == With(own, f, own[t])
<1>0. /\ tb \in [Tables -> [Index -> Pte]] /\ used \subseteq Tables
      /\ depth \in [Tables -> 0 .. 3] /\ place \in [Tables -> Tables \X Index] /\ own \in [Tables -> Roots]
      /\ Roots \subseteq used
  BY Zenon DEF Trees
<1>1. /\ f # t /\ f \in Tables /\ t \in Tables /\ f \notin used /\ t \in used /\ i \in Index
      /\ depth[t] \in 0 .. 2 /\ tb[t][i] = PTE_DESCRIPTOR_INVALID
      /\ tc = [tb EXCEPT ![f] = EmptyTable, ![t][i] = TablePte(f)]
  BY <1>0, Zenon DEF NewTableAt
<1>2. TablePte(f) \in Pte /\ EmptyTable \in [Index -> Pte]
  BY <1>1, Zenon DEF Pte, EmptyTable
<1>3. tc = [x \in Tables |-> IF x = t THEN [tb[t] EXCEPT ![i] = TablePte(f)]
                             ELSE IF x = f THEN EmptyTable ELSE tb[x]]
  BY <1>0, <1>1, Zenon
<1>4. tc \in [Tables -> [Index -> Pte]]
  <2>1. [tb[t] EXCEPT ![i] = TablePte(f)] \in [Index -> Pte]
    BY <1>0, <1>1, <1>2, Zenon
  <2>2. ASSUME NEW x \in Tables
        PROVE  (IF x = t THEN [tb[t] EXCEPT ![i] = TablePte(f)]
                ELSE IF x = f THEN EmptyTable ELSE tb[x]) \in [Index -> Pte]
    BY <1>0, <1>2, <2>1, Zenon
  <2> QED BY <1>3, <2>2, Zenon
<1>5. tc[t][i] = TablePte(f) /\ \A j \in Index : tc[f][j] = PTE_DESCRIPTOR_INVALID
  BY <1>0, <1>1, <1>3 DEF EmptyTable
<1>6. ASSUME NEW x \in used, NEW j \in Index, x # t \/ j # i PROVE tc[x][j] = tb[x][j]
  BY <1>0, <1>1, <1>3, <1>6
<1>7. /\ dp \in [Tables -> 0 .. 3] /\ pl \in [Tables -> Tables \X Index] /\ ow \in [Tables -> Roots]
      /\ dp[f] = depth[t] + 1 /\ pl[f] = <<t, i>> /\ ow[f] = own[t]
      /\ \A x \in used : dp[x] = depth[x] /\ pl[x] = place[x] /\ ow[x] = own[x]
  BY <1>0, <1>1 DEF With
<1> HIDE DEF dp, pl, ow
<1>8. ASSUME NEW x \in used, NEW j \in Index, NEW s \in used, Linked(tb, depth, place, own, x, j, s)
      PROVE  Linked(tc, dp, pl, ow, x, j, s)
  <2>1. tb[x][j] # PTE_DESCRIPTOR_INVALID
    BY <1>8, PteKinds, Zenon DEF Linked
  <2>2. tc[x][j] = tb[x][j]
    BY <1>1, <1>6, <2>1, Zenon
  <2> QED BY <1>7, <1>8, <2>2, Zenon DEF Linked
<1>9. Linked(tc, dp, pl, ow, t, i, f)
  BY <1>0, <1>1, <1>5, <1>7, Zenon DEF Linked
<1>10. Trees(tc, U, dp, pl, ow)
  <2>1. /\ U \subseteq Tables /\ Roots \cup {boot_ttbr1_l1, boot_ttbr1_l2} \subseteq U
        /\ \A r \in Roots : dp[r] = 0 /\ ow[r] = r
        /\ ow[boot_ttbr1_l1] = KernelRoot /\ ow[boot_ttbr1_l2] = KernelRoot
    BY <1>0, <1>1, <1>7, Zenon DEF Trees
  <2>2. ASSUME NEW x \in U, NEW j \in Index
        PROVE  \/ tc[x][j] = PTE_DESCRIPTOR_INVALID
               \/ dp[x] \in {1, 2} /\ tc[x][j] \in BlockPtes
               \/ dp[x] = 3 /\ tc[x][j] \in PagePtes
               \/ \E s \in U : Linked(tc, dp, pl, ow, x, j, s)
    <3>1. CASE x = f
      BY <1>5, <3>1, Zenon
    <3>2. CASE x = t /\ j = i
      BY <1>1, <1>9, <3>2, Zenon
    <3>3. CASE x \in used /\ (x # t \/ j # i)
      <4>1. tc[x][j] = tb[x][j] /\ dp[x] = depth[x]
        BY <1>6, <1>7, <3>3, Zenon
      <4>2. \/ tb[x][j] = PTE_DESCRIPTOR_INVALID
            \/ depth[x] \in {1, 2} /\ tb[x][j] \in BlockPtes
            \/ depth[x] = 3 /\ tb[x][j] \in PagePtes
            \/ \E s \in used : Linked(tb, depth, place, own, x, j, s)
        BY <3>3, Zenon DEF Trees
      <4> QED BY <1>8, <3>3, <4>1, <4>2, Zenon
    <3> QED BY <3>1, <3>2, <3>3, Zenon
  <2>3. ASSUME NEW s \in U \ Roots
        PROVE  \E x \in U, j \in Index : Linked(tc, dp, pl, ow, x, j, s)
    <3>1. CASE s = f
      BY <1>1, <1>9, <3>1, Zenon
    <3>2. CASE s \in used
      <4>1. PICK x \in used, j \in Index : Linked(tb, depth, place, own, x, j, s)
        BY <3>2, Zenon DEF Trees
      <4> QED BY <1>8, <3>2, <4>1, Zenon
    <3> QED BY <3>1, <3>2, Zenon
  <2> QED BY <1>4, <1>7, <2>1, <2>2, <2>3, Zenon DEF Trees
<1>11. LinksKept(tb, tc, used)
  <2>1. ASSUME NEW x \in used, NEW j \in Index, NEW s, tb[x][j] = TablePte(s)
        PROVE  tc[x][j] = TablePte(s)
    <3>1. tb[x][j] # PTE_DESCRIPTOR_INVALID
      BY <2>1, PteKinds, Zenon
    <3> QED BY <1>1, <1>6, <2>1, <3>1, Zenon
  <2> QED BY <2>1, Zenon DEF LinksKept
<1>12. ASSUME NEW r \in Roots, NEW ix \in [0 .. 3 -> Index]
       PROVE  LeafAt(tc, r, ix) = LeafAt(tb, r, ix)
  <2>1. PICK l \in 0 .. 3, u \in used, e \in Pte : depth[u] = l /\ EndsAt(tb, r, ix, l, u, e)
    BY Walks, Zenon
  <2>2. Reach(tb, l, r, ix, u)
    BY <2>1, Zenon DEF EndsAt
  <2>3. Reach(tc, l, r, ix, u)
    BY <1>11, <2>2, ReachKept, Zenon
  <2>4. ix[l] \in Index
    OBVIOUS
  <2>5. CASE u # t \/ ix[l] # i
    <3>1. tc[u][ix[l]] = tb[u][ix[l]]
      BY <1>6, <2>4, <2>5, Zenon
    <3>2. EndsAt(tc, r, ix, l, u, e)
      BY <2>1, <2>3, <3>1, Zenon DEF EndsAt
    <3> QED BY <2>1, <3>2, WalkEnds
  <2>6. CASE u = t /\ ix[l] = i
    <3>1. l \in 0 .. 2 /\ tc[u][ix[l]] = TablePte(f)
      BY <1>1, <1>5, <2>1, <2>6, Zenon
    <3>2. Reach(tc, l + 1, r, ix, f)
      BY <2>3, <3>1, Descends, Zenon
    <3>3. ix[l + 1] \in Index
      BY <3>1
    <3>4. tc[f][ix[l + 1]] = PTE_DESCRIPTOR_INVALID
      BY <1>5, <3>3, Zenon
    <3>5. EndsAt(tc, r, ix, l + 1, f, PTE_DESCRIPTOR_INVALID)
      BY <3>2, <3>4, Zenon DEF EndsAt, Ended
    <3>6. EndsAt(tb, r, ix, l, u, PTE_DESCRIPTOR_INVALID)
      BY <1>1, <2>1, <2>6, Zenon DEF EndsAt
    <3>7. LeafAt(tc, r, ix) = NULL /\ LeafAt(tb, r, ix) = NULL
      BY <3>5, <3>6, WalkEnds, Zenon DEF EndLeaf
    <3> QED BY <3>7, Zenon
  <2> QED BY <2>5, <2>6, Zenon
<1> QED BY <1>5, <1>10, <1>11, <1>12, Zenon DEF dp, pl, ow, SameLeaves

\* One store of the inner loop of map_range_in_pgtbl_common: a page entry in a
\* level 3 table changes the translation of the addresses walked to it, no other.
LEMMA PageStep ==
  ASSUME NEW tb, NEW used, NEW depth, NEW place, NEW own, Trees(tb, used, depth, place, own),
         NEW t \in used, depth[t] = 3, NEW i \in Index, NEW e \in PagePtes,
         NEW tc, StoredAt(tb, tc, t, i, e)
  PROVE  /\ Trees(tc, used, depth, place, own)
         /\ \A r \in Roots, ix \in [0 .. 3 -> Index] :
              LeafAt(tc, r, ix) = IF Reach(tb, 3, r, ix, t) /\ ix[3] = i THEN <<3, e>>
                                  ELSE LeafAt(tb, r, ix)
         /\ LinksKept(tb, tc, used)
<1>0. /\ tb \in [Tables -> [Index -> Pte]] /\ used \subseteq Tables /\ t \in Tables /\ e \in Pte
  BY PteKinds, Zenon DEF Trees
<1>1. tc \in [Tables -> [Index -> Pte]] /\ tc[t][i] = e
  <2>1. [tb[t] EXCEPT ![i] = e] \in [Index -> Pte]
    BY <1>0, Zenon
  <2>2. tc = [tb EXCEPT ![t] = [tb[t] EXCEPT ![i] = e]]
    BY <1>0, Zenon DEF StoredAt
  <2> QED BY <1>0, <2>1, <2>2, Zenon
<1>2. ASSUME NEW x \in used, NEW j \in Index, x # t \/ j # i PROVE tc[x][j] = tb[x][j]
  BY <1>0, <1>2, Zenon DEF StoredAt
<1>3. ~\E s \in used : Linked(tb, depth, place, own, t, i, s)
  <2>1. SUFFICES ASSUME NEW s \in used, Linked(tb, depth, place, own, t, i, s) PROVE FALSE
    BY Zenon
  <2>2. depth[s] = 4
    BY <2>1 DEF Linked
  <2>3. depth[s] \in 0 .. 3
    BY Zenon DEF Trees
  <2> QED BY <2>2, <2>3
<1>4. ASSUME NEW x \in used, NEW j \in Index, NEW s \in used, Linked(tb, depth, place, own, x, j, s)
      PROVE  Linked(tc, depth, place, own, x, j, s)
  <2>1. tc[x][j] = tb[x][j]
    BY <1>2, <1>3, <1>4, Zenon
  <2> QED BY <1>4, <2>1, Zenon DEF Linked
<1>5. Trees(tc, used, depth, place, own)
  <2>1. ASSUME NEW x \in used, NEW j \in Index
        PROVE  \/ tc[x][j] = PTE_DESCRIPTOR_INVALID
               \/ depth[x] \in {1, 2} /\ tc[x][j] \in BlockPtes
               \/ depth[x] = 3 /\ tc[x][j] \in PagePtes
               \/ \E s \in used : Linked(tc, depth, place, own, x, j, s)
    <3>1. CASE x = t /\ j = i
      BY <1>1, <3>1, Zenon
    <3>2. CASE x # t \/ j # i
      <4>1. tc[x][j] = tb[x][j]
        BY <1>2, <3>2, Zenon
      <4>2. \/ tb[x][j] = PTE_DESCRIPTOR_INVALID
            \/ depth[x] \in {1, 2} /\ tb[x][j] \in BlockPtes
            \/ depth[x] = 3 /\ tb[x][j] \in PagePtes
            \/ \E s \in used : Linked(tb, depth, place, own, x, j, s)
        BY Zenon DEF Trees
      <4> QED BY <1>4, <4>1, <4>2, Zenon
    <3> QED BY <3>1, <3>2, Zenon
  <2>2. ASSUME NEW s \in used \ Roots
        PROVE  \E x \in used, j \in Index : Linked(tc, depth, place, own, x, j, s)
    <3>1. PICK x \in used, j \in Index : Linked(tb, depth, place, own, x, j, s)
      BY Zenon DEF Trees
    <3> QED BY <1>4, <3>1, Zenon
  <2> QED BY <1>1, <2>1, <2>2, Zenon DEF Trees
<1>6. LinksKept(tb, tc, used)
  <2>1. ASSUME NEW x \in used, NEW j \in Index, NEW s, tb[x][j] = TablePte(s)
        PROVE  tc[x][j] = TablePte(s)
    <3>1. s \in used /\ Linked(tb, depth, place, own, x, j, s)
      BY <2>1, LinkOf, Zenon
    <3>2. Linked(tc, depth, place, own, x, j, s)
      BY <1>4, <3>1, Zenon
    <3> QED BY <3>2, Zenon DEF Linked
  <2> QED BY <2>1, Zenon DEF LinksKept
<1>7. ASSUME NEW r \in Roots, NEW ix \in [0 .. 3 -> Index]
      PROVE  LeafAt(tc, r, ix) = IF Reach(tb, 3, r, ix, t) /\ ix[3] = i THEN <<3, e>>
                                 ELSE LeafAt(tb, r, ix)
  <2>1. CASE Reach(tb, 3, r, ix, t) /\ ix[3] = i
    <3>1. Reach(tb, 3, r, ix, t)
      BY <2>1, Zenon
    <3>2. Reach(tc, 3, r, ix, t)
      BY <1>6, <3>1, ReachKept, Zenon
    <3>3. Ended(e, 3) /\ e # PTE_DESCRIPTOR_INVALID
      BY PteKinds, Zenon DEF Ended
    <3>4. EndsAt(tc, r, ix, 3, t, e)
      BY <1>1, <2>1, <3>2, <3>3, Zenon DEF EndsAt
    <3>5. LeafAt(tc, r, ix) = <<3, e>>
      BY <3>3, <3>4, WalkEnds DEF EndLeaf
    <3> QED BY <2>1, <3>5, Zenon
  <2>2. CASE ~(Reach(tb, 3, r, ix, t) /\ ix[3] = i)
    <3>1. PICK l \in 0 .. 3, u \in used, g \in Pte : depth[u] = l /\ EndsAt(tb, r, ix, l, u, g)
      BY Walks, Zenon
    <3>2. Reach(tb, l, r, ix, u)
      BY <3>1, Zenon DEF EndsAt
    <3>3. Reach(tc, l, r, ix, u)
      BY <1>6, <3>2, ReachKept, Zenon
    <3>4. u # t \/ ix[l] # i
      BY <2>2, <3>1, <3>2, Zenon
    <3>5. tc[u][ix[l]] = tb[u][ix[l]]
      BY <1>2, <3>4, Zenon
    <3>6. EndsAt(tc, r, ix, l, u, g)
      BY <3>1, <3>3, <3>5, Zenon DEF EndsAt
    <3>7. LeafAt(tc, r, ix) = LeafAt(tb, r, ix)
      BY <3>1, <3>6, WalkEnds
    <3> QED BY <2>2, <3>7, Zenon
  <2> QED BY <2>1, <2>2, Zenon
<1> QED BY <1>5, <1>6, <1>7, Zenon

\* The walk ends at level 3, if it comes there.
LEMMA LastLevel ==
  ASSUME NEW tb, NEW used, NEW depth, NEW place, NEW own, Trees(tb, used, depth, place, own),
         NEW r \in Roots, NEW ix \in [0 .. 3 -> Index], NEW t, Reach(tb, 3, r, ix, t)
  PROVE  \E e \in Pte : EndsAt(tb, r, ix, 3, t, e)
<1>1. t \in used /\ depth[t] = 3
  BY Reached
<1>2. ix[3] \in Index
  OBVIOUS
<1>3. PICK e \in Pte : e = tb[t][ix[3]]
  BY <1>1, <1>2, Zenon DEF Trees
<1>4. ASSUME NEW s \in used, Linked(tb, depth, place, own, t, ix[3], s) PROVE FALSE
  <2>1. depth[s] = 4
    BY <1>1, <1>4 DEF Linked
  <2>2. depth[s] \in 0 .. 3
    BY Zenon DEF Trees
  <2> QED BY <2>1, <2>2
<1>5. \/ tb[t][ix[3]] = PTE_DESCRIPTOR_INVALID
      \/ depth[t] \in {1, 2} /\ tb[t][ix[3]] \in BlockPtes
      \/ depth[t] = 3 /\ tb[t][ix[3]] \in PagePtes
      \/ \E s \in used : Linked(tb, depth, place, own, t, ix[3], s)
  BY <1>1, <1>2, Zenon DEF Trees
<1>6. Ended(e, 3)
  BY <1>1, <1>3, <1>4, <1>5, Zenon DEF Ended
<1> QED BY <1>3, <1>6, Zenon DEF EndsAt

\* Translate in tables tb.
Trans(tb, r, va) ==
  LET leaf == LeafAt(tb, r, Ix(va))
  IN  IF leaf = NULL THEN NULL
      ELSE Leaf(leaf[2], leaf[2].addr + GET_VA_OFFSET(leaf[1], va))

(***************************************************************************)
(* The inductive invariant                                                 *)
(***************************************************************************)
CallRecords == [root : Roots, va : Nat, pa : Nat, flags : SUBSET VMR, left : Nat, asked : Requests]

\* The locals of map_range_in_pgtbl_common fit what the call was asked for and
\* how far it has come, and ptp is where the walk for va is.
CallInv ==
  /\ call = NULL => pc = "idle"
  /\ call # NULL =>
       /\ call \in CallRecords
       /\ call.root = call.asked.root /\ call.flags = call.asked.flags
       /\ pc # "halt" =>
            /\ call.va % PAGE_SIZE = 0 /\ call.left <= PageCount(call.asked.len)
            /\ call.va = call.asked.va + (PageCount(call.asked.len) - call.left) * PAGE_SIZE
            /\ call.pa = call.asked.pa + (call.va - call.asked.va)
       /\ pc = "idle" => call.left = 0
       /\ pc = "walk" => level \in 0 .. 2
       /\ pc = "fill" => level = 3
       /\ pc \in {"walk", "fill"} => call.left >= 1 /\ Reach(ent, level, call.root, Ix(call.va), ptp)

\* What the TLB holds was read for a root r, with the ASID of a process u.
TlbInv ==
  tlb # NULL =>
    \E r \in Roots, u \in UserRoots, v \in VPages :
      /\ tlb.high = (r = KernelRoot) /\ tlb.va = v /\ tlb.asid = Asid[u]
      /\ r # KernelRoot => u = r
      /\ tlb.leaf # NULL
      /\ <<r, v>> \notin remapped => tlb.leaf = Trans(ent, r, v)

\* What the kernel must find for pa, and finds in a block.
DirectLeaf(pa) ==
  [pa |-> pa, write |-> TRUE, kernel_exec |-> TRUE, user_exec |-> FALSE,
   attr |-> IF pa < PERIPHERAL_BASE THEN NORMAL_MEMORY ELSE DEVICE_MEMORY]
DirectInv ==
  \A pa \in 0 .. PHYSMEM_END - 1 :
    \E l \in {1, 2}, e \in BlockPtes :
      /\ LeafAt(ent, KernelRoot, Ix(KERNEL_VADDR + pa)) = <<l, e>>
      /\ Leaf(e, e.addr + GET_VA_OFFSET(l, KERNEL_VADDR + pa)) = DirectLeaf(pa)

TreeInv == \E depth, place, own : Trees(ent, Tables \ pool, depth, place, own)

TypeInv ==
  /\ ent \in [Tables -> [Index -> Pte]]
  /\ pool \subseteq Frames
  /\ ttbr0 \in UserRoots
  /\ rss \in [UserRoots -> Nat]
  /\ pc \in {"idle", "walk", "fill", "halt"}
  /\ level \in 0 .. 3
  /\ calls \in 0 .. MaxCalls
  /\ remapped \subseteq Roots \X VPages

Inv == TypeInv /\ TreeInv /\ CallInv /\ TlbInv /\ DirectInv

(***************************************************************************)
(* Translations                                                            *)
(***************************************************************************)
\* LeafEntry and Translate are LeafAt and Trans of the current tables.
LEMMA LeafIs ==
  ASSUME NEW r, NEW va \in Nat
  PROVE  LeafEntry(r, va) = LeafAt(ent, r, Ix(va)) /\ Translate(r, va) = Trans(ent, r, va)
<1>1. LeafEntry(r, va) = LeafAt(ent, r, Ix(va))
  BY IxOf, Zenon DEF LeafEntry, LeafAt, Entry
<1> QED BY <1>1, Zenon DEF Translate, Trans

\* The same after a step.
LEMMA LeafIsNext ==
  ASSUME NEW CONSTANT r, NEW CONSTANT va \in Nat
  PROVE  LeafEntry(r, va)' = LeafAt(ent', r, Ix(va)) /\ Translate(r, va)' = Trans(ent', r, va)
<1>1. LeafEntry(r, va)' = LeafAt(ent', r, Ix(va))
  BY IxOf, Zenon DEF LeafEntry, LeafAt, Entry
<1> QED BY <1>1, Zenon DEF Translate, Trans

\* What lies behind an address is not NULL.
LEMMA OffsetOf == ASSUME NEW l \in 0 .. 3, NEW va \in Nat PROVE GET_VA_OFFSET(l, va) \in Nat
<1>1. EntrySize[l] \in Nat \ {0}
  BY SpanOf, Zenon
<1>2. PICK n \in Nat \ {0} : n = EntrySize[l]
  BY <1>1, Zenon
<1>3. va % n \in 0 .. n - 1
  BY DivMod, va \in Int, Zenon
<1>4. PICK x \in 0 .. n - 1 : x = GET_VA_OFFSET(l, va)
  BY <1>2, <1>3, Zenon DEF GET_VA_OFFSET
<1>5. x \in Nat
  OBVIOUS
<1> QED BY <1>4, <1>5, Zenon

\* What a walk finds is not NULL.
LEMMA LeafNotNull ==
  ASSUME NEW e \in BlockPtes \cup PagePtes, NEW pa \in Nat
  PROVE  Leaf(e, pa) # NULL
<1>1. Leaf(e, pa) \in [pa : Nat, write : BOOLEAN, kernel_exec : BOOLEAN, user_exec : BOOLEAN, attr : {0, 3, 4}]
  BY DEF Leaf, BlockPtes, PagePtes
<1> QED BY <1>1, NullAssumption, Zenon

\* What the walk for va finds, for the entry it ends at.
LEMMA TransEnds ==
  ASSUME NEW tb, NEW r, NEW va \in Nat, NEW l \in 0 .. 3, NEW t, NEW e \in Pte,
         EndsAt(tb, r, Ix(va), l, t, e)
  PROVE  /\ e = PTE_DESCRIPTOR_INVALID => Trans(tb, r, va) = NULL
         /\ e # PTE_DESCRIPTOR_INVALID =>
              /\ Trans(tb, r, va) = Leaf(e, e.addr + GET_VA_OFFSET(l, va)) /\ Trans(tb, r, va) # NULL
              /\ LeafAt(tb, r, Ix(va)) = <<l, e>> /\ e.nG = 1 /\ e.addr + GET_VA_OFFSET(l, va) \in Nat
<1>1. LeafAt(tb, r, Ix(va)) = EndLeaf(e, l)
  BY WalkEnds, Zenon
<1>2. CASE e = PTE_DESCRIPTOR_INVALID
  BY <1>1, <1>2, Zenon DEF Trans, EndLeaf
<1>3. CASE e # PTE_DESCRIPTOR_INVALID
  <2>1. l \in 1 .. 3 /\ e \in BlockPtes \cup PagePtes
    BY <1>3 DEF EndsAt, Ended
  <2>2. <<l, e>> # NULL
    BY <2>1, NullAssumption
  <2>3. LeafAt(tb, r, Ix(va)) = <<l, e>>
    BY <1>1, <1>3, Zenon DEF EndLeaf
  <2>4. e.addr \in Nat /\ e.nG = 1
    BY <2>1, PteKinds, Zenon
  <2>5. PICK pa \in Nat : pa = e.addr + GET_VA_OFFSET(l, va)
    BY <2>4, OffsetOf
  <2>6. Trans(tb, r, va) = Leaf(e, pa)
    BY <2>2, <2>3, <2>5 DEF Trans
  <2> QED BY <1>3, <2>1, <2>3, <2>4, <2>5, <2>6, LeafNotNull, Zenon
<1> QED BY <1>2, <1>3, Zenon

\* What query_in_pgtbl finds: it tests no is_table bit at levels 0 and 3, where
\* the tables hold no block.
LEMMA QueryEnds ==
  ASSUME NEW r, NEW va \in Nat, NEW l \in 0 .. 3, NEW t, NEW e \in Pte,
         EndsAt(ent, r, Ix(va), l, t, e)
  PROVE  query_in_pgtbl(r, va) = IF e = PTE_DESCRIPTOR_INVALID THEN NULL
                                 ELSE e.addr + GET_VA_OFFSET(l, va)
<1>0. /\ Reach(ent, l, r, Ix(va), t) /\ e = ent[t][Ix(va)[l]]
      /\ e = PTE_DESCRIPTOR_INVALID => e.is_valid = 0
      /\ e # PTE_DESCRIPTOR_INVALID => e.is_valid = 1 /\ ((l \in {1, 2} /\ e.is_table = 0) \/ l = 3)
  BY DEF EndsAt, Ended, PTE_DESCRIPTOR_INVALID, BlockPtes, PagePtes
<1>1. ASSUME NEW s PROVE TablePte(s).is_valid = 1 /\ TablePte(s).is_table = 1 /\ TablePte(s).addr = s
  BY Zenon DEF TablePte
<1>2. PICK e0, e1, e2, e3 : /\ e0 = ent[r][Ix(va)[0]] /\ e1 = ent[e0.addr][Ix(va)[1]]
                            /\ e2 = ent[e1.addr][Ix(va)[2]] /\ e3 = ent[e2.addr][Ix(va)[3]]
  BY Zenon
<1>3. query_in_pgtbl(r, va) =
        IF e0.is_valid = 0 \/ e1.is_valid = 0 THEN NULL
        ELSE IF ~(e1.is_table = 1) THEN e1.addr + GET_VA_OFFSET(1, va)
        ELSE IF e2.is_valid = 0 THEN NULL
        ELSE IF ~(e2.is_table = 1) THEN e2.addr + GET_VA_OFFSET(2, va)
        ELSE IF e3.is_valid = 0 THEN NULL ELSE e3.addr + GET_VA_OFFSET(3, va)
  BY <1>2, IxOf, Zenon DEF query_in_pgtbl, Entry, IS_PTE_INVALID, IS_PTE_TABLE
<1>4. CASE l = 0 /\ t = r
  <2>1. e = e0
    BY <1>0, <1>2, <1>4, Zenon
  <2> QED BY <1>0, <1>3, <1>4, <2>1
<1>5. CASE l = 1 /\ Reach1(ent, r, Ix(va), t)
  <2>1. e0 = TablePte(t)
    BY <1>2, <1>5, Zenon DEF Reach1
  <2>2. e0.is_valid = 1 /\ e = e1
    <3>1. e0.is_valid = 1 /\ e0.addr = t
      BY <1>1, <2>1, Zenon
    <3> QED BY <1>0, <1>2, <1>5, <3>1, Zenon
  <2> QED BY <1>0, <1>3, <1>5, <2>2
<1>6. CASE l = 2 /\ Reach2(ent, r, Ix(va), t)
  <2>1. PICK s : e0 = TablePte(s) /\ ent[s][Ix(va)[1]] = TablePte(t)
    BY <1>2, <1>6, Zenon DEF Reach2, Reach1
  <2>2. e1 = TablePte(t)
    BY <1>1, <1>2, <2>1, Zenon
  <2>3. e0.is_valid = 1 /\ e1.is_valid = 1 /\ e1.is_table = 1 /\ e1.addr = t
    BY <1>1, <2>1, <2>2, Zenon
  <2>4. e = e2
    BY <1>0, <1>2, <1>6, <2>3, Zenon
  <2> QED BY <1>0, <1>3, <1>6, <2>3, <2>4
<1>7. CASE l = 3 /\ Reach3(ent, r, Ix(va), t)
  <2>1. PICK u, s : e0 = TablePte(u) /\ ent[u][Ix(va)[1]] = TablePte(s) /\ ent[s][Ix(va)[2]] = TablePte(t)
    BY <1>2, <1>7, Zenon DEF Reach3, Reach2, Reach1
  <2>2. e1 = TablePte(s)
    BY <1>1, <1>2, <2>1, Zenon
  <2>3. e2 = TablePte(t)
    BY <1>1, <1>2, <2>1, <2>2, Zenon
  <2>4. /\ e0.is_valid = 1 /\ e1.is_valid = 1 /\ e1.is_table = 1
        /\ e2.is_valid = 1 /\ e2.is_table = 1 /\ e2.addr = t
    BY <1>1, <2>1, <2>2, <2>3, Zenon
  <2>5. e = e3
    BY <1>0, <1>2, <1>7, <2>4, Zenon
  <2> QED BY <1>0, <1>3, <1>7, <2>4, <2>5
<1> QED BY <1>0, <1>4, <1>5, <1>6, <1>7, Zenon DEF Reach

\* Storing a page entry where the walk for va comes to maps va, and changes no
\* other page of any root, nor what is found in a block.
LEMMA PageTrans ==
  ASSUME NEW tb, NEW used, NEW depth, NEW place, NEW own, Trees(tb, used, depth, place, own),
         NEW r \in Roots, NEW va \in VPages, NEW t, Reach(tb, 3, r, Ix(va), t),
         NEW e \in PagePtes, NEW tc, StoredAt(tb, tc, t, GET_INDEX(3, va), e)
  PROVE  /\ Trees(tc, used, depth, place, own) /\ LinksKept(tb, tc, used)
         /\ \A q \in Roots, v \in VPages :
              Trans(tc, q, v) = IF q = r /\ v = va THEN Leaf(e, e.addr) ELSE Trans(tb, q, v)
         /\ \A q \in Roots, x \in Nat, l \in {1, 2}, b \in BlockPtes :
              LeafAt(tb, q, Ix(x)) = <<l, b>> => LeafAt(tc, q, Ix(x)) = <<l, b>>
<1>0. /\ va \in Nat /\ va % PAGE_SIZE = 0 /\ \A v \in VPages : v \in Nat
      /\ PAGE_SIZE \in Nat \ {0} /\ EntrySize[3] = PAGE_SIZE
  BY PageFacts, Zenon
<1>1. /\ \A x \in Nat : Ix(x) \in [0 .. 3 -> Index]
      /\ Ix(va)[3] = GET_INDEX(3, va) /\ GET_INDEX(3, va) \in Index
  BY <1>0, IxOf, PageFacts, ZenonT(30)
<1>2. t \in used /\ depth[t] = 3
  BY <1>0, <1>1, Reached, SMTT(30)
<1>3. /\ Trees(tc, used, depth, place, own) /\ LinksKept(tb, tc, used)
      /\ \A q \in Roots, ix \in [0 .. 3 -> Index] :
              LeafAt(tc, q, ix) = IF Reach(tb, 3, q, ix, t) /\ ix[3] = GET_INDEX(3, va) THEN <<3, e>>
                                  ELSE LeafAt(tb, q, ix)
  BY <1>1, <1>2, PageStep
<1>4. e \in Pte /\ e.addr \in Nat /\ <<3, e>> # NULL
  BY LeafPair, Zenon
<1>5. GET_VA_OFFSET(3, va) = 0
  BY <1>0, Zenon DEF GET_VA_OFFSET
<1>6. ASSUME NEW q \in Roots, NEW v \in VPages
      PROVE  Trans(tc, q, v) = IF q = r /\ v = va THEN Leaf(e, e.addr) ELSE Trans(tb, q, v)
  <2>0. v \in Nat /\ Ix(v) \in [0 .. 3 -> Index] /\ Ix(va) \in [0 .. 3 -> Index]
    BY <1>0, <1>1, Zenon
  <2>1. CASE q = r /\ v = va
    <3>1. LeafAt(tc, q, Ix(v)) = <<3, e>>
      BY <1>1, <1>3, <2>0, <2>1, ZenonT(30)
    <3>2. Trans(tc, q, v) = Leaf(e, e.addr + 0)
      BY <1>4, <1>5, <2>1, <3>1 DEF Trans
    <3> QED BY <1>4, <2>1, <3>2
  <2>2. CASE ~(q = r /\ v = va)
    <3>1. ASSUME Reach(tb, 3, q, Ix(v), t), Ix(v)[3] = Ix(va)[3] PROVE FALSE
      <4>1. q = r /\ Ix(v)[0] = Ix(va)[0] /\ Ix(v)[1] = Ix(va)[1] /\ Ix(v)[2] = Ix(va)[2]
        BY <2>0, <3>1, OnePath
      <4>2. \A k \in 0 .. 3 : Ix(v)[k] = Ix(va)[k]
        BY <3>1, <4>1
      <4>3. Ix(v) = Ix(va)
        BY <2>0, <4>2
      <4> QED BY <2>2, <4>1, <4>3, IxInjective, Zenon
    <3>2. LeafAt(tc, q, Ix(v)) = LeafAt(tb, q, Ix(v))
      BY <1>1, <1>3, <2>0, <3>1, Zenon
    <3> QED BY <2>2, <3>2, Zenon DEF Trans
  <2> QED BY <2>1, <2>2, Zenon
<1>7. ASSUME NEW q \in Roots, NEW x \in Nat, NEW l \in {1, 2}, NEW b \in BlockPtes,
             LeafAt(tb, q, Ix(x)) = <<l, b>>
      PROVE  LeafAt(tc, q, Ix(x)) = <<l, b>>
  <2>1. <<l, b>> # NULL
    BY LeafPair, Zenon
  <2>2. ASSUME Reach(tb, 3, q, Ix(x), t) PROVE FALSE
    <3>1. PICK g \in Pte : EndsAt(tb, q, Ix(x), 3, t, g)
      BY <1>1, <2>2, LastLevel, Zenon
    <3>2. LeafAt(tb, q, Ix(x)) = EndLeaf(g, 3)
      BY <3>1, WalkEnds, Zenon
    <3>3. <<l, b>> = <<3, g>>
      BY <1>7, <2>1, <3>2, Zenon DEF EndLeaf
    <3> QED BY <3>3
  <2> QED BY <1>1, <1>3, <1>7, <2>2, Zenon
<1> QED BY <1>3, <1>6, <1>7, Zenon

(***************************************************************************)
(* The initial state: the tables of init_kernel_pt                         *)
(***************************************************************************)
\* The entries of the tables in use.
LEMMA BootEntries ==
  ASSUME Init
  PROVE  /\ ent \in [Tables -> [Index -> Pte]]
         /\ \A u \in UserRoots, i \in Index : ent[u][i] = PTE_DESCRIPTOR_INVALID
         /\ \A i \in Index : ent[KernelRoot][i] = IF i = GET_L0_INDEX(KERNEL_VADDR) THEN TablePte(boot_ttbr1_l1)
                                                  ELSE PTE_DESCRIPTOR_INVALID
         /\ ent[boot_ttbr1_l1][0] = TablePte(boot_ttbr1_l2) /\ 0 \in Index
         /\ GET_L0_INDEX(KERNEL_VADDR) \in Index
         /\ \A k \in Index \ {0} :
              /\ SIZE_1G * k < PHYSMEM_END => ent[boot_ttbr1_l1][k] = BlockPte(DEVICE_MEMORY, SIZE_1G * k)
              /\ ent[boot_ttbr1_l1][k] \in BlockPtes \cup {PTE_DESCRIPTOR_INVALID}
         /\ \A k \in Index :
              /\ ent[boot_ttbr1_l2][k] =
                   BlockPte(IF SIZE_2M * k < PERIPHERAL_BASE THEN NORMAL_MEMORY ELSE DEVICE_MEMORY, SIZE_2M * k)
              /\ ent[boot_ttbr1_l2][k] \in BlockPtes
<1>0. /\ 0 \in Index /\ GET_L0_INDEX(KERNEL_VADDR) \in Index
      /\ GET_L1_INDEX(KERNEL_VADDR) = 0
  <2>1. 0 \in 0 .. SIZE_1G - 1
    BY Sizes
  <2> QED BY <2>1, Sizes, UpperIndex, Zenon
<1>1. ent = [t \in Tables |-> IF t \in UserRoots THEN EmptyTable
                              ELSE IF t \in Frames THEN Garbage ELSE init_kernel_pt(t)]
  BY Zenon DEF Init
<1>2. /\ {boot_ttbr1_l0, boot_ttbr1_l1, boot_ttbr1_l2} \subseteq Tables
      /\ {boot_ttbr1_l0, boot_ttbr1_l1, boot_ttbr1_l2} \cap (UserRoots \cup Frames) = {}
      /\ UserRoots \subseteq Tables
  BY NamesAssumption, Zenon DEF Tables, Roots, KernelRoot
<1>3. /\ init_kernel_pt(boot_ttbr1_l0) = [EmptyTable EXCEPT ![GET_L0_INDEX(KERNEL_VADDR)] = TablePte(boot_ttbr1_l1)]
      /\ init_kernel_pt(boot_ttbr1_l1) = ttbr1_l1
      /\ init_kernel_pt(boot_ttbr1_l2) = ttbr1_l2
  BY TablesAssumption, Zenon DEF init_kernel_pt
<1>4. /\ ent[boot_ttbr1_l0] = [EmptyTable EXCEPT ![GET_L0_INDEX(KERNEL_VADDR)] = TablePte(boot_ttbr1_l1)]
      /\ ent[boot_ttbr1_l1] = ttbr1_l1 /\ ent[boot_ttbr1_l2] = ttbr1_l2
      /\ \A u \in UserRoots : ent[u] = EmptyTable
      /\ \A f \in Frames \ UserRoots : f \in Tables => ent[f] = Garbage
  BY <1>1, <1>2, <1>3, Zenon
<1>5. ASSUME NEW attr \in {0, 4}, NEW pa \in Nat PROVE BlockPte(attr, pa) \in BlockPtes
  BY Zenon DEF BlockPte, BlockPtes
<1>6. ASSUME NEW k \in Index PROVE SIZE_1G * k \in Nat /\ SIZE_2M * k \in Nat
  BY Sizes DEF Index
<1>7. DEVICE_MEMORY = 0 /\ NORMAL_MEMORY = 4
  BY Zenon DEF DEVICE_MEMORY, NORMAL_MEMORY
<1>8. ASSUME NEW k \in Index \ {0}
      PROVE  /\ SIZE_1G * k < PHYSMEM_END => ttbr1_l1[k] = BlockPte(DEVICE_MEMORY, SIZE_1G * k)
             /\ ttbr1_l1[k] \in BlockPtes \cup {PTE_DESCRIPTOR_INVALID}
  <2>1. ttbr1_l1[k] = IF SIZE_1G * k < PHYSMEM_END THEN BlockPte(DEVICE_MEMORY, SIZE_1G * k)
                      ELSE PTE_DESCRIPTOR_INVALID
    BY GigEntries, Zenon
  <2>2. BlockPte(DEVICE_MEMORY, SIZE_1G * k) \in BlockPtes
    BY <1>5, <1>6, <1>7, Zenon
  <2> QED BY <2>1, <2>2, Zenon
<1>9. ASSUME NEW k \in Index
      PROVE  /\ ttbr1_l2[k] = BlockPte(IF SIZE_2M * k < PERIPHERAL_BASE THEN NORMAL_MEMORY ELSE DEVICE_MEMORY, SIZE_2M * k)
             /\ ttbr1_l2[k] \in BlockPtes
  <2>1. ttbr1_l2[k] = BlockPte(IF SIZE_2M * k < PERIPHERAL_BASE THEN NORMAL_MEMORY ELSE DEVICE_MEMORY, SIZE_2M * k)
    BY Entries, Zenon
  <2>2. PICK a \in {0, 4} : a = IF SIZE_2M * k < PERIPHERAL_BASE THEN NORMAL_MEMORY ELSE DEVICE_MEMORY
    BY <1>7, Zenon
  <2> QED BY <1>5, <1>6, <2>1, <2>2, Zenon
<1>10. ttbr1_l1[0] = TablePte(boot_ttbr1_l2)
  BY <1>3, Links, Zenon
<1>11. /\ \A u \in UserRoots, i \in Index : ent[u][i] = PTE_DESCRIPTOR_INVALID
       /\ \A i \in Index : ent[KernelRoot][i] = IF i = GET_L0_INDEX(KERNEL_VADDR) THEN TablePte(boot_ttbr1_l1)
                                                ELSE PTE_DESCRIPTOR_INVALID
  BY <1>0, <1>4 DEF EmptyTable, KernelRoot
<1>12. ent \in [Tables -> [Index -> Pte]]
  <2>1. /\ PTE_DESCRIPTOR_INVALID \in Pte /\ TablePte(boot_ttbr1_l1) \in Pte /\ TablePte(boot_ttbr1_l2) \in Pte
        /\ BlockPtes \subseteq Pte
    BY <1>2, PteKinds, Zenon DEF Pte
  <2>2. EmptyTable \in [Index -> Pte] /\ [EmptyTable EXCEPT ![GET_L0_INDEX(KERNEL_VADDR)] = TablePte(boot_ttbr1_l1)] \in [Index -> Pte]
    BY <2>1, Zenon DEF EmptyTable
  <2>3. BlockPte(NORMAL_MEMORY, 0) \in Pte
    BY <1>5, <1>7, <2>1, Zenon
  <2>4. Garbage \in [Index -> Pte]
    BY <2>3, Zenon DEF Garbage
  <2>5. ttbr1_l2 \in [Index -> Pte]
    <3>1. ttbr1_l2 = [i \in Index |-> ttbr1_l2[i]]
      BY Zenon DEF ttbr1_l2, Filled
    <3> QED BY <1>9, <2>1, <3>1, Zenon
  <2>6. ttbr1_l1 \in [Index -> Pte]
    <3>1. ttbr1_l1 = [i \in Index |-> ttbr1_l1[i]]
      BY Zenon DEF ttbr1_l1, Filled
    <3>2. ASSUME NEW k \in Index PROVE ttbr1_l1[k] \in Pte
      BY <1>8, <1>10, <2>1, Zenon
    <3> QED BY <3>1, <3>2, Zenon
  <2>7. ASSUME NEW t \in Tables PROVE ent[t] \in [Index -> Pte]
    <3>1. t \in UserRoots \/ t \in Frames \ UserRoots \/ t \in {boot_ttbr1_l0, boot_ttbr1_l1, boot_ttbr1_l2}
      BY Zenon DEF Tables, Roots, KernelRoot
    <3> QED BY <1>4, <2>2, <2>4, <2>5, <2>6, <3>1, Zenon
  <2> QED BY <1>1, <2>7, Zenon
<1> QED BY <1>0, <1>4, <1>8, <1>9, <1>10, <1>11, <1>12, Zenon

\* They form trees: one under the kernel's root, of three tables, and the empty
\* ones of the processes.
LEMMA BootTrees == ASSUME Init PROVE TreeInv
<1> DEFINE used == Tables \ pool
           l0 == boot_ttbr1_l0
           l1 == boot_ttbr1_l1
           l2 == boot_ttbr1_l2
           ki == GET_L0_INDEX(KERNEL_VADDR)
           depth == [t \in Tables |-> IF t = l1 THEN 1 ELSE IF t = l2 THEN 2 ELSE 0]
           place == [t \in Tables |-> IF t = l1 THEN <<l0, ki>> ELSE IF t = l2 THEN <<l1, 0>> ELSE <<l0, 0>>]
           own == [t \in Tables |-> IF t \in UserRoots THEN t ELSE KernelRoot]
<1>1. used = UserRoots \cup {l0, l1, l2} /\ UserRoots \cap {l0, l1, l2} = {} /\ KernelRoot = l0
      /\ l0 # l1 /\ l0 # l2 /\ l1 # l2 /\ Roots = UserRoots \cup {l0} /\ used \subseteq Tables
  BY NamesAssumption, TablesAssumption, ZenonT(30) DEF Init, Tables, Roots, KernelRoot
<1>2. /\ depth \in [Tables -> 0 .. 3] /\ place \in [Tables -> Tables \X Index] /\ own \in [Tables -> Roots]
  BY <1>1, BootEntries
<1>3. /\ depth[l1] = 1 /\ depth[l2] = 2 /\ depth[l0] = 0
      /\ place[l1] = <<l0, ki>> /\ place[l2] = <<l1, 0>>
      /\ own[l0] = l0 /\ own[l1] = l0 /\ own[l2] = l0
      /\ \A u \in UserRoots : depth[u] = 0 /\ own[u] = u
  BY <1>1, ZenonT(30)
<1> HIDE DEF depth, place, own
<1>4. Linked(ent, depth, place, own, l0, ki, l1) /\ Linked(ent, depth, place, own, l1, 0, l2)
  BY <1>1, <1>3, BootEntries DEF Linked
<1>5. ASSUME NEW t \in used, NEW i \in Index
      PROVE  \/ ent[t][i] = PTE_DESCRIPTOR_INVALID
             \/ depth[t] \in {1, 2} /\ ent[t][i] \in BlockPtes
             \/ depth[t] = 3 /\ ent[t][i] \in PagePtes
             \/ \E s \in used : Linked(ent, depth, place, own, t, i, s)
  <2>1. CASE t \in UserRoots
    BY <2>1, BootEntries, Zenon
  <2>2. CASE t = l0
    <3>1. CASE i = ki
      BY <1>1, <1>4, <2>2, <3>1, Zenon
    <3>2. CASE i # ki
      BY <1>1, <2>2, <3>2, BootEntries, Zenon
    <3> QED BY <3>1, <3>2, Zenon
  <2>3. CASE t = l1
    <3>1. CASE i = 0
      BY <1>1, <1>4, <2>3, <3>1, Zenon
    <3>2. CASE i # 0
      BY <1>3, <2>3, <3>2, BootEntries, Zenon
    <3> QED BY <3>1, <3>2, Zenon
  <2>4. CASE t = l2
    BY <1>3, <2>4, BootEntries, Zenon
  <2> QED BY <1>1, <2>1, <2>2, <2>3, <2>4, Zenon
<1>6. ASSUME NEW s \in used \ Roots
      PROVE  \E t \in used, i \in Index : Linked(ent, depth, place, own, t, i, s)
  <2>1. s = l1 \/ s = l2
    BY <1>1, Zenon
  <2>2. ki \in Index /\ 0 \in Index /\ l0 \in used /\ l1 \in used
    BY <1>1, BootEntries, Zenon
  <2> HIDE DEF ki, used
  <2> QED BY <1>4, <2>1, <2>2, Zenon
<1>7. Trees(ent, used, depth, place, own)
  BY <1>1, <1>2, <1>3, <1>5, <1>6, BootEntries, Zenon DEF Trees
<1> QED BY <1>7, Zenon DEF TreeInv

\* GET_INDEX is GET_L0_INDEX, GET_L1_INDEX and GET_L2_INDEX.
LEMMA SameIndex ==
  ASSUME NEW va \in Nat
  PROVE  Ix(va)[0] = GET_L0_INDEX(va) /\ Ix(va)[1] = GET_L1_INDEX(va) /\ Ix(va)[2] = GET_L2_INDEX(va)
<1>1. EntrySize[0] = SIZE_1G * PTP_ENTRIES /\ EntrySize[1] = SIZE_1G /\ EntrySize[2] = SIZE_2M
  BY DEF EntrySize
<1> QED BY <1>1, IxOf, Zenon DEF GET_INDEX, GET_L0_INDEX, GET_L1_INDEX, GET_L2_INDEX

\* KERNEL_VADDR disappears from an offset.
LEMMA KernelOffset ==
  ASSUME NEW n \in Nat \ {0}, NEW c \in Int, SIZE_1G = n * c, NEW pa \in Int, NEW q \in Int,
         NEW rest \in 0 .. n - 1, pa = n * q + rest
  PROVE  (KERNEL_VADDR + pa) % n = rest
<1>1. PICK m \in Int : KERNEL_VADDR = SIZE_1G * (PTP_ENTRIES * m)
  BY KernelBase, Zenon
<1>2. PICK g \in Int : g = PTP_ENTRIES * m
  BY Sizes
<1>3. PICK p \in Int : p = c * g
  OBVIOUS
<1>4. KERNEL_VADDR = n * p
  <2>1. KERNEL_VADDR = (n * c) * g
    BY <1>1, <1>2, Zenon
  <2>2. (n * c) * g = n * (c * g)
    OBVIOUS
  <2> QED BY <1>3, <2>1, <2>2, Zenon
<1>5. PICK k \in Int : k = p + q
  OBVIOUS
<1>6. n * k = n * p + n * q
  BY <1>5
<1>7. PICK a \in Int, b \in Int : a = n * p /\ b = n * q
  OBVIOUS
<1>8. PICK x \in Int : x = KERNEL_VADDR + pa
  BY BootLayoutAssumption
<1>9. x = n * k + rest
  BY <1>4, <1>6, <1>7, <1>8
<1>10. x % n = rest
  BY <1>9, RemainderMod
<1> QED BY <1>8, <1>10, Zenon

\* init_kernel_pt maps all of physical memory at KERNEL_VADDR.
LEMMA BootDirect == ASSUME Init PROVE DirectInv
<1> SUFFICES ASSUME NEW pa \in 0 .. PHYSMEM_END - 1
             PROVE  \E l \in {1, 2}, e \in BlockPtes :
                      /\ LeafAt(ent, KernelRoot, Ix(KERNEL_VADDR + pa)) = <<l, e>>
                      /\ Leaf(e, e.addr + GET_VA_OFFSET(l, KERNEL_VADDR + pa)) = DirectLeaf(pa)
  BY Zenon DEF DirectInv
<1>0. /\ pa \in Nat /\ pa < PHYSMEM_END /\ PHYSMEM_END \in Nat /\ KERNEL_VADDR \in Nat
      /\ PHYSMEM_END <= SIZE_1G * PTP_ENTRIES
      /\ PERIPHERAL_BASE \in Nat /\ PERIPHERAL_BASE < SIZE_1G /\ PERIPHERAL_BASE % SIZE_2M = 0
  BY BootLayoutAssumption, Sizes
<1>1. PICK va \in Nat : va = KERNEL_VADDR + pa /\ va = pa + KERNEL_VADDR
  BY <1>0
<1>2. PICK k \in Int, rest \in 0 .. SIZE_1G - 1 : pa = SIZE_1G * k + rest
  <2>1. SIZE_1G \in Nat \ {0} /\ pa \in Int
    BY <1>0, Sizes
  <2>2. /\ pa \div SIZE_1G \in Int /\ pa = SIZE_1G * (pa \div SIZE_1G) + (pa % SIZE_1G)
        /\ pa % SIZE_1G \in 0 .. SIZE_1G - 1
    BY <2>1, DivMod, Zenon
  <2> QED BY <2>2, Zenon
<1>3. k \in Index
  <2>1. ASSUME k < 0 PROVE FALSE
    <3>1. SIZE_1G * k <= SIZE_1G * (-1)
      BY <2>1, Sizes
    <3> QED BY <1>0, <1>2, <3>1, Sizes
  <2>2. ASSUME k >= PTP_ENTRIES PROVE FALSE
    <3>1. SIZE_1G * k >= SIZE_1G * PTP_ENTRIES
      BY <2>2, Sizes
    <3> QED BY <1>0, <1>2, <3>1, Sizes
  <2> QED BY <2>1, <2>2, Sizes DEF Index
<1>4. GET_L1_INDEX(va) = k /\ GET_L0_INDEX(va) = GET_L0_INDEX(KERNEL_VADDR)
  BY <1>0, <1>1, <1>2, <1>3, GigIndex, pa \in Int, SMTT(30)
<1>5. Ix(va)[0] = GET_L0_INDEX(KERNEL_VADDR) /\ Ix(va)[1] = k /\ Ix(va)[2] = GET_L2_INDEX(va)
  BY <1>4, SameIndex, Zenon
<1>6. Reach1(ent, KernelRoot, Ix(va), boot_ttbr1_l1)
  BY <1>5, BootEntries, Zenon DEF Reach1
<1>7. EntrySize[1] = SIZE_1G /\ EntrySize[2] = SIZE_2M /\ SIZE_1G = SIZE_2M * PTP_ENTRIES
  BY DEF EntrySize, SIZE_1G
<1>8. ASSUME NEW l \in {1, 2}, NEW t, NEW e \in BlockPtes, NEW attr, NEW at \in Nat, NEW off \in Nat,
             e = BlockPte(attr, at), Reach(ent, l, KernelRoot, Ix(va), t), ent[t][Ix(va)[l]] = e,
             GET_VA_OFFSET(l, va) = off, pa = at + off,
             attr = IF pa < PERIPHERAL_BASE THEN NORMAL_MEMORY ELSE DEVICE_MEMORY
      PROVE  /\ LeafAt(ent, KernelRoot, Ix(va)) = <<l, e>>
             /\ Leaf(e, e.addr + GET_VA_OFFSET(l, va)) = DirectLeaf(pa)
  <2>1. e # PTE_DESCRIPTOR_INVALID
    BY <1>8 DEF BlockPte, PTE_DESCRIPTOR_INVALID
  <2>2. EndsAt(ent, KernelRoot, Ix(va), l, t, e)
    BY <1>8, Zenon DEF EndsAt, Ended
  <2>3. LeafAt(ent, KernelRoot, Ix(va)) = EndLeaf(e, l)
    BY <2>2, WalkEnds, SMTT(30)
  <2>4. e.addr = at /\ e.AP = 0 /\ e.PXN = 0 /\ e.UXN = 1 /\ e.attr_index = attr
    BY <1>8 DEF BlockPte
  <2>5. Leaf(e, pa) = DirectLeaf(pa)
    <3>1. (e.AP \in {0, 1}) = TRUE /\ (e.PXN = 0) = TRUE /\ (e.UXN = 0) = FALSE
      BY <2>4, SMTT(30)
    <3> QED BY <1>8, <2>4, <3>1, Zenon DEF Leaf, DirectLeaf
  <2> QED BY <1>8, <2>1, <2>3, <2>4, <2>5, ZenonT(30) DEF EndLeaf
<1>9. CASE k # 0
  <2>1. PICK at \in Nat : at = SIZE_1G * k
    BY <1>3, Sizes DEF Index
  <2>2. at < PHYSMEM_END /\ pa = at + rest /\ rest \in Nat
    BY <1>0, <1>2, <2>1, Sizes
  <2>3. pa >= SIZE_1G
    <3>1. k >= 1
      BY <1>3, <1>9 DEF Index
    <3>2. SIZE_1G * k >= SIZE_1G * 1
      BY <1>3, <3>1, Sizes
    <3> QED BY <1>2, <2>1, <2>2, <3>2, Sizes
  <2>4. PICK e \in BlockPtes : e = BlockPte(DEVICE_MEMORY, at) /\ ent[boot_ttbr1_l1][k] = e
    <3>1. k \in Index \ {0} /\ SIZE_1G * k < PHYSMEM_END
      BY <1>3, <1>9, <2>1, <2>2, Zenon
    <3>2. ent[boot_ttbr1_l1][k] = BlockPte(DEVICE_MEMORY, SIZE_1G * k)
      BY <3>1, BootEntries, Zenon
    <3>3. BlockPte(DEVICE_MEMORY, at) \in BlockPtes
      BY Zenon DEF BlockPte, BlockPtes, DEVICE_MEMORY
    <3> QED BY <2>1, <3>2, <3>3, Zenon
  <2>5. GET_VA_OFFSET(1, va) = rest
    <3>1. SIZE_1G = SIZE_1G * 1 /\ pa \in Int
      BY <1>0, Sizes
    <3>2. (KERNEL_VADDR + pa) % SIZE_1G = rest
      BY <1>2, <3>1, KernelOffset, Sizes, 1 \in Int, SIZE_1G \in Nat \ {0}, Zenon
    <3> QED BY <1>1, <1>7, <3>2, Zenon DEF GET_VA_OFFSET
  <2>6. Reach(ent, 1, KernelRoot, Ix(va), boot_ttbr1_l1)
    BY <1>6, Zenon DEF Reach
  <2>7. DEVICE_MEMORY = IF pa < PERIPHERAL_BASE THEN NORMAL_MEMORY ELSE DEVICE_MEMORY
    BY <1>0, <2>3, Sizes
  <2> QED BY <1>1, <1>5, <1>8, <2>2, <2>4, <2>5, <2>6, <2>7, SMTT(30)
<1>10. CASE k = 0
  <2>1. pa \in 0 .. SIZE_1G - 1
    BY <1>0, <1>2, <1>10, Sizes
  <2>2. PICK q \in Index : pa = SIZE_2M * q + (pa % SIZE_2M) /\ pa % SIZE_2M \in 0 .. SIZE_2M - 1
    BY <2>1, Slot, Zenon
  <2>3. PICK off \in 0 .. SIZE_2M - 1 : off = pa % SIZE_2M
    BY <2>2, Zenon
  <2>4. PICK at \in Nat : at = SIZE_2M * q
    BY Sizes DEF Index
  <2>5. pa = at + off /\ off \in Nat /\ q \in Int
    BY <2>2, <2>3, <2>4, Sizes DEF Index
  <2>6. GET_L2_INDEX(va) = q
    <3>1. pa = SIZE_2M * q + off /\ pa \in Int
      BY <1>0, <2>4, <2>5
    <3> QED BY <1>1, <3>1, BlockIndex, Zenon
  <2>7. pa < PERIPHERAL_BASE <=> at < PERIPHERAL_BASE
    <3>1. ASSUME at < PERIPHERAL_BASE PROVE pa < PERIPHERAL_BASE
      <4>1. at % SIZE_2M = 0
        BY <2>4, <2>5, ProductMod, Sizes
      <4>2. ASSUME PERIPHERAL_BASE <= pa PROVE FALSE
        <5>1. PERIPHERAL_BASE < at + SIZE_2M
          BY <1>0, <2>3, <2>5, <4>2, Sizes
        <5>2. PERIPHERAL_BASE <= at
          BY <1>0, <4>1, <5>1, CloseMultiples, Sizes, at \in Int, PERIPHERAL_BASE \in Int, Zenon
        <5> QED BY <1>0, <3>1, <5>2
      <4> QED BY <1>0, <4>2
    <3> QED BY <1>0, <2>5, <3>1
  <2>8. PICK attr \in {0, 4} : attr = IF pa < PERIPHERAL_BASE THEN NORMAL_MEMORY ELSE DEVICE_MEMORY
    BY Zenon DEF NORMAL_MEMORY, DEVICE_MEMORY
  <2>9. PICK e \in BlockPtes : e = BlockPte(attr, at) /\ ent[boot_ttbr1_l2][q] = e
    BY <2>4, <2>7, <2>8, BootEntries, Zenon
  <2>10. GET_VA_OFFSET(2, va) = off
    <3>1. pa \in Int /\ pa = SIZE_2M * q + off /\ PTP_ENTRIES \in Int
      BY <1>0, <2>4, <2>5, Sizes
    <3>2. (KERNEL_VADDR + pa) % SIZE_2M = off
      BY <1>7, <2>5, <3>1, KernelOffset, Sizes, Zenon
    <3> QED BY <1>1, <1>7, <3>2, Zenon DEF GET_VA_OFFSET
  <2>11. Reach(ent, 2, KernelRoot, Ix(va), boot_ttbr1_l2)
    BY <1>5, <1>6, <1>10, BootEntries, Zenon DEF Reach, Reach2
  <2> QED BY <1>1, <1>5, <1>8, <2>5, <2>6, <2>8, <2>9, <2>10, <2>11, ZenonT(30)
<1> QED BY <1>9, <1>10, Zenon

(***************************************************************************)
(* The steps                                                               *)
(***************************************************************************)
\* PageCount rounds up.
LEMMA PageCounts ==
  ASSUME NEW len \in Nat
  PROVE  \E c \in Nat : /\ c = PageCount(len) /\ c * PAGE_SIZE >= len
                        /\ c >= 1 => (c - 1) * PAGE_SIZE < len
<1>1. PAGE_SIZE \in Nat \ {0} /\ len \in Int
  BY PageTableAssumption
<1>2. PICK q \in Int, r \in 0 .. PAGE_SIZE - 1 :
        q = len \div PAGE_SIZE /\ r = len % PAGE_SIZE /\ len = PAGE_SIZE * q + r
  BY <1>1, DivMod, Zenon
<1>3. PICK m \in Int : m = PAGE_SIZE * q
  BY <1>1
<1>4. q >= 0
  <2>1. ASSUME q < 0 PROVE FALSE
    <3>1. PAGE_SIZE * q <= PAGE_SIZE * (-1)
      BY <1>1, <2>1
    <3> QED BY <1>1, <1>2, <1>3, <3>1
  <2> QED BY <2>1
<1>5. CASE r > 0
  <2>1. PageCount(len) = q + 1
    BY <1>2, <1>5, Zenon DEF PageCount
  <2>2. (q + 1) * PAGE_SIZE = m + PAGE_SIZE /\ (q + 1 - 1) * PAGE_SIZE = m
    BY <1>1, <1>3
  <2>3. (q + 1) * PAGE_SIZE >= len /\ (q + 1 - 1) * PAGE_SIZE < len
    BY <1>1, <1>2, <1>3, <1>5, <2>2
  <2> QED BY <1>4, <2>1, <2>3
<1>6. CASE r = 0
  <2>1. PageCount(len) = q + 0
    BY <1>2, <1>6 DEF PageCount
  <2>2. q * PAGE_SIZE = m /\ (q - 1) * PAGE_SIZE = m - PAGE_SIZE
    BY <1>1, <1>3
  <2>3. q * PAGE_SIZE >= len /\ (q - 1) * PAGE_SIZE < len
    BY <1>1, <1>2, <1>3, <1>6, <2>2
  <2> QED BY <1>4, <2>1, <2>3
<1> QED BY <1>2, <1>5, <1>6

\* The arguments of the calls.
LEMMA RequestFields ==
  ASSUME NEW q \in Requests
  PROVE  /\ q.root \in Roots /\ q.va \in Nat /\ q.pa \in Nat /\ q.len \in Nat
         /\ q.va + q.len <= VA_END /\ q.flags \subseteq VMR /\ q.flags \cap {"READ", "WRITE"} # {}
         /\ PageCount(q.len) \in Nat
BY PageTableAssumption, PageCounts, Zenon

\* The page a call is at is one it was asked for.
LEMMA CallPage ==
  ASSUME Inv, pc \in {"walk", "fill"}
  PROVE  /\ call # NULL /\ call \in CallRecords
         /\ call.root \in Roots /\ call.va \in VPages /\ call.va \in Nat /\ call.va % PAGE_SIZE = 0
         /\ call.pa \in Nat /\ call.left \in Nat \ {0} /\ call.flags \subseteq VMR
         /\ call.asked \in Requests /\ call.va < call.asked.va + call.asked.len
         /\ Reach(ent, level, call.root, Ix(call.va), ptp)
<1>1. call # NULL /\ call \in CallRecords
  BY Zenon DEF Inv, CallInv
<1>2. /\ call.root \in Roots /\ call.va \in Nat /\ call.pa \in Nat /\ call.left \in Nat
      /\ call.flags \subseteq VMR /\ call.asked \in Requests
  BY <1>1, Zenon DEF CallRecords
<1>3. /\ call.va % PAGE_SIZE = 0 /\ call.left >= 1 /\ call.left <= PageCount(call.asked.len)
      /\ call.va = call.asked.va + (PageCount(call.asked.len) - call.left) * PAGE_SIZE
      /\ Reach(ent, level, call.root, Ix(call.va), ptp)
  BY <1>1, Zenon DEF Inv, CallInv
<1>4. PICK len \in Nat, a \in Nat : len = call.asked.len /\ a = call.asked.va /\ a + len <= VA_END
  BY <1>2, RequestFields, Zenon
<1>5. PICK c \in Nat : c = PageCount(len) /\ (c >= 1 => (c - 1) * PAGE_SIZE < len)
  BY PageCounts, Zenon
<1>6. PICK k \in Nat : k = call.left
  BY <1>2, Zenon
<1>7. (c - k) * PAGE_SIZE <= (c - 1) * PAGE_SIZE
  BY <1>3, <1>6, PageTableAssumption
<1>8. PICK x \in Int, y \in Int : x = (c - k) * PAGE_SIZE /\ y = (c - 1) * PAGE_SIZE
  BY PageTableAssumption, SMTT(30)
<1>9. y < len /\ x <= y
  BY <1>3, <1>4, <1>5, <1>6, <1>7, <1>8, SMTT(30)
<1>10. call.va = a + x
  BY <1>3, <1>4, <1>5, <1>6, <1>8, Zenon
<1>11. call.va < a + len
  BY <1>9, <1>10, SMTT(30)
<1>12. call.va \in VPages
  BY <1>2, <1>3, <1>4, <1>11, SpanOf, SMTT(30) DEF VPages
<1>13. call.left \in Nat \ {0}
  BY <1>2, <1>3
<1>14. call.va < call.asked.va + call.asked.len
  BY <1>4, <1>11, Zenon
<1> QED BY <1>1, <1>2, <1>3, <1>12, <1>13, <1>14, Zenon
=============================================================================
