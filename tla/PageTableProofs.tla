-------------------------- MODULE PageTableProofs --------------------------
(***************************************************************************)
(* Every step of a map call and of the hardware keeps the invariant of     *)
(* PageTable, and the properties and the refinement of AddressSpace follow.*)
(***************************************************************************)
EXTENDS PageTableInvariant

\* A walk depends on the indices of the levels it passes.
LEMMA ReachSame ==
  ASSUME NEW tb, NEW r, NEW ix, NEW jx, ix[0] = jx[0], ix[1] = jx[1], ix[2] = jx[2],
         NEW t, Reach(tb, 3, r, ix, t)
  PROVE  Reach(tb, 3, r, jx, t)
BY Zenon DEF Reach, Reach1, Reach2, Reach3

\* A step that leaves the tables alone.
LEMMA TablesKept ==
  ASSUME Inv, ent' = ent, pool' = pool PROVE TreeInv' /\ DirectInv'
<1>1. TreeInv'
  BY Zenon DEF Inv, TreeInv
<1>2. DirectInv'
  BY Zenon DEF Inv, DirectInv
<1> QED BY <1>1, <1>2, Zenon

\* A step that leaves tables and TLB alone leaves what ties them.
LEMMA TlbKept ==
  ASSUME Inv, ent' = ent, tlb' = tlb, remapped' = remapped PROVE TlbInv'
BY Zenon DEF Inv, TlbInv

\* A call starts.
LEMMA MapRangeStep == ASSUME Inv, NEW q \in Requests, MapRange(q) PROVE Inv'
<1>1. /\ q.root \in Roots /\ q.va \in Nat /\ q.pa \in Nat /\ q.flags \subseteq VMR /\ PageCount(q.len) \in Nat
  BY RequestFields, Zenon
<1>2. /\ pc' = IF q.va % PAGE_SIZE # 0 THEN "halt" ELSE IF PageCount(q.len) = 0 THEN "idle" ELSE "walk"
      /\ call' = [root |-> q.root, va |-> q.va, pa |-> q.pa, flags |-> q.flags, left |-> PageCount(q.len), asked |-> q]
      /\ level' = 0 /\ ptp' = q.root /\ calls < MaxCalls /\ calls' = calls + 1
      /\ ent' = ent /\ pool' = pool /\ ttbr0' = ttbr0 /\ tlb' = tlb /\ rss' = rss /\ remapped' = remapped
  BY Zenon DEF MapRange, hwVars
<1>3. TypeInv'
  <2>1. calls \in 0 .. MaxCalls /\ MaxCalls \in Nat
    BY PageTableAssumption, Zenon DEF Inv, TypeInv
  <2>2. calls' \in 0 .. MaxCalls
    BY <1>2, <2>1
  <2> QED BY <1>2, <2>2 DEF Inv, TypeInv
<1>4. TreeInv' /\ DirectInv' /\ TlbInv'
  BY <1>2, TablesKept, TlbKept, Zenon
<1>5. CallInv'
  <2>1. call' \in CallRecords
    BY <1>1, <1>2, Zenon DEF CallRecords
  <2>2. call' # NULL
    BY <2>1, NullAssumption, Zenon DEF CallRecords
  <2>3. /\ call'.root = q.root /\ call'.va = q.va /\ call'.pa = q.pa /\ call'.flags = q.flags
        /\ call'.left = PageCount(q.len) /\ call'.asked = q
    BY <1>2, Zenon
  <2>4. PICK c \in Nat : c = PageCount(q.len)
    BY <1>1, Zenon
  <2>5. q.va = q.va + (c - c) * PAGE_SIZE /\ q.pa = q.pa + (q.va - q.va)
    BY <1>1, PageTableAssumption
  <2>6. Reach(ent', 0, q.root, Ix(q.va), ptp')
    BY <1>2, Zenon DEF Reach
  <2>7. pc' # "halt" => q.va % PAGE_SIZE = 0
    BY <1>2, Zenon
  <2>8. (pc' = "idle" => c = 0) /\ pc' # "fill" /\ (pc' = "walk" => c >= 1) /\ level' \in 0 .. 2
    BY <1>2, <2>4
  <2> QED BY <1>2, <2>1, <2>2, <2>3, <2>4, <2>5, <2>6, <2>7, <2>8 DEF CallInv
<1> QED BY <1>3, <1>4, <1>5, Zenon DEF Inv

\* BUG_ON
LEMMA HaltStep == ASSUME Inv, pc = "walk", Halt PROVE Inv'
<1>1. /\ pc' = "halt" /\ ent' = ent /\ pool' = pool /\ ttbr0' = ttbr0 /\ tlb' = tlb /\ rss' = rss
      /\ call' = call /\ level' = level /\ ptp' = ptp /\ calls' = calls /\ remapped' = remapped
  BY Zenon DEF Halt, hwVars, walkVars
<1>2. TypeInv'
  BY <1>1, Zenon DEF Inv, TypeInv
<1>3. TreeInv' /\ DirectInv' /\ TlbInv'
  BY <1>1, TablesKept, TlbKept, Zenon
<1>4. call # NULL /\ call \in CallRecords /\ call.root = call.asked.root /\ call.flags = call.asked.flags
  BY Zenon DEF Inv, CallInv
<1>5. CallInv'
  BY <1>1, <1>4, Zenon DEF CallInv
<1> QED BY <1>2, <1>3, <1>5, Zenon DEF Inv

\* What the entry at which a walk above level 3 is can be.
LEMMA WalkEntry ==
  ASSUME NEW depth, NEW place, NEW own, NEW used, Trees(ent, used, depth, place, own),
         NEW r \in Roots, NEW va \in Nat, NEW l \in 0 .. 2, NEW t, Reach(ent, l, r, Ix(va), t),
         NEW i, i = Ix(va)[l], NEW pte, pte = ent[t][i]
  PROVE  /\ t \in used /\ depth[t] = l /\ own[t] = r /\ i \in Index /\ i = GET_INDEX(l, va)
         /\ IS_PTE_INVALID(pte) => pte = PTE_DESCRIPTOR_INVALID
         /\ ~IS_PTE_INVALID(pte) /\ IS_PTE_TABLE(pte) =>
              pte.addr \in used /\ pte = TablePte(pte.addr)
<1>1. Ix(va) \in [0 .. 3 -> Index]
  BY IxOf, Zenon
<1>2. t \in used /\ depth[t] = l /\ own[t] = r
  BY <1>1, Reached
<1>3. i \in Index /\ i = GET_INDEX(l, va)
  BY <1>1 DEF Ix
<1>4. \/ pte = PTE_DESCRIPTOR_INVALID
      \/ depth[t] \in {1, 2} /\ pte \in BlockPtes
      \/ depth[t] = 3 /\ pte \in PagePtes
      \/ \E s \in used : Linked(ent, depth, place, own, t, i, s)
  BY <1>2, <1>3, Zenon DEF Trees
<1>5. ASSUME NEW s \in used, Linked(ent, depth, place, own, t, i, s)
      PROVE  pte = TablePte(s) /\ ~IS_PTE_INVALID(pte) /\ pte.addr = s
  BY <1>5, PteKinds, Zenon DEF Linked
<1>6. pte \in BlockPtes => ~IS_PTE_INVALID(pte) /\ ~IS_PTE_TABLE(pte)
  BY PteKinds, Zenon
<1>7. IS_PTE_INVALID(PTE_DESCRIPTOR_INVALID)
  BY PteKinds, Zenon
<1> QED BY <1>2, <1>3, <1>4, <1>5, <1>6, <1>7

\* get_next_ptp finds a table: the walk is one level further down.
LEMMA DescendStep ==
  ASSUME Inv, pc = "walk", NEW pte, pte = Entry(ptp, level, call.va),
         ~IS_PTE_INVALID(pte), IS_PTE_TABLE(pte),
         ptp' = pte.addr, level' = level + 1, pc' = IF level = 2 THEN "fill" ELSE "walk",
         UNCHANGED <<ent, pool, hwVars, rss, call, calls, remapped>>
  PROVE  Inv'
<1>0. /\ ent' = ent /\ pool' = pool /\ ttbr0' = ttbr0 /\ tlb' = tlb /\ rss' = rss
      /\ call' = call /\ calls' = calls /\ remapped' = remapped
  BY Zenon DEF hwVars
<1>1. level \in 0 .. 2
  BY Zenon DEF Inv, CallInv
<1>2. TypeInv'
  BY <1>0, <1>1 DEF Inv, TypeInv
<1>3. TreeInv' /\ DirectInv' /\ TlbInv'
  BY <1>0, TablesKept, TlbKept, Zenon
<1>4. /\ call.root \in Roots /\ call.va \in Nat /\ call # NULL
      /\ Reach(ent, level, call.root, Ix(call.va), ptp)
  BY CallPage, Zenon
<1>5. PICK depth, place, own : Trees(ent, Tables \ pool, depth, place, own)
  BY Zenon DEF Inv, TreeInv
<1>6. PICK i : i = Ix(call.va)[level] /\ i = GET_INDEX(level, call.va)
  BY <1>1 DEF Ix
<1>7. pte = ent[ptp][i]
  BY <1>6, Zenon DEF Entry
<1>8. pte = TablePte(pte.addr)
  BY <1>1, <1>4, <1>5, <1>6, <1>7, WalkEntry
<1>9. Reach(ent, level + 1, call.root, Ix(call.va), pte.addr)
  BY <1>1, <1>4, <1>6, <1>7, <1>8, Descends, Zenon
<1>10. Reach(ent', level', call'.root, Ix(call'.va), ptp')
  BY <1>0, <1>9, Zenon
<1>11. (pc' = "walk" /\ level' \in 0 .. 2) \/ (pc' = "fill" /\ level' = 3)
  BY <1>1
<1>12. /\ call \in CallRecords /\ call.root = call.asked.root /\ call.flags = call.asked.flags
       /\ call.va % PAGE_SIZE = 0 /\ call.left <= PageCount(call.asked.len)
       /\ call.va = call.asked.va + (PageCount(call.asked.len) - call.left) * PAGE_SIZE
       /\ call.pa = call.asked.pa + (call.va - call.asked.va) /\ call.left >= 1
  BY <1>4, Zenon DEF Inv, CallInv
<1>13. CallInv'
  BY <1>0, <1>4, <1>10, <1>11, <1>12, Zenon DEF CallInv
<1> QED BY <1>2, <1>3, <1>13, Zenon DEF Inv

\* get_next_ptp allocates a table: the tree has one table more, under the entry
\* the walk is at, and no translation changes.
LEMMA LinkTables ==
  ASSUME Inv, pc = "walk", IS_PTE_INVALID(Entry(ptp, level, call.va)),
         NEW f \in pool, pool' = pool \ {f}, NewTable(f),
         NEW depth, NEW place, NEW own, Trees(ent, Tables \ pool, depth, place, own)
  PROVE  /\ Trees(ent', Tables \ pool', With(depth, f, depth[ptp] + 1),
                  With(place, f, <<ptp, GET_INDEX(level, call.va)>>), With(own, f, own[ptp]))
         /\ \A q \in Roots, x \in Nat : LeafAt(ent', q, Ix(x)) = LeafAt(ent, q, Ix(x))
         /\ Reach(ent', level + 1, call.root, Ix(call.va), f)
         /\ own[ptp] = call.root /\ ptp \in Tables \ pool
<1>1. level \in 0 .. 2 /\ pool \subseteq Frames /\ Frames \subseteq Tables
  BY Zenon DEF Inv, CallInv, TypeInv, Tables
<1>2. /\ call.root \in Roots /\ call.va \in Nat
      /\ Reach(ent, level, call.root, Ix(call.va), ptp)
  BY CallPage, Zenon
<1>3. PICK i : i = Ix(call.va)[level] /\ i = GET_INDEX(level, call.va)
  BY <1>1 DEF Ix
<1>4. PICK pte : pte = ent[ptp][i] /\ IS_PTE_INVALID(pte)
  BY <1>3, Zenon DEF Entry
<1>5. /\ ptp \in Tables \ pool /\ depth[ptp] = level /\ own[ptp] = call.root /\ i \in Index
      /\ pte = PTE_DESCRIPTOR_INVALID
  BY <1>1, <1>2, <1>3, <1>4, WalkEntry
<1>6. ent' = [ent EXCEPT ![f] = EmptyTable, ![ptp][i] = TablePte(f)]
  BY <1>3, Zenon DEF NewTable
<1>7. f \in Tables \ (Tables \ pool) /\ (Tables \ pool) \cup {f} = Tables \ pool'
  BY <1>1, Zenon
<1>8. /\ Trees(ent', (Tables \ pool) \cup {f}, With(depth, f, depth[ptp] + 1),
               With(place, f, <<ptp, i>>), With(own, f, own[ptp]))
      /\ SameLeaves(ent, ent') /\ LinksKept(ent, ent', Tables \ pool) /\ ent'[ptp][i] = TablePte(f)
  <2>1. depth[ptp] \in 0 .. 2 /\ ent[ptp][i] = PTE_DESCRIPTOR_INVALID
    BY <1>1, <1>4, <1>5, Zenon
  <2>2. PICK used : used = Tables \ pool
    BY Zenon
  <2>3. Trees(ent, used, depth, place, own) /\ NewTableAt(ent, ent', used, depth, ptp, i, f)
    BY <1>5, <1>6, <1>7, <2>1, <2>2, Zenon DEF NewTableAt
  <2>4. /\ Trees(ent', used \cup {f}, With(depth, f, depth[ptp] + 1),
                 With(place, f, <<ptp, i>>), With(own, f, own[ptp]))
        /\ SameLeaves(ent, ent') /\ LinksKept(ent, ent', used) /\ ent'[ptp][i] = TablePte(f)
    <3>1. Trees(ent', used \cup {f}, With(depth, f, depth[ptp] + 1), With(place, f, <<ptp, i>>), With(own, f, own[ptp]))
      BY <2>3, NewTableStep, Zenon
    <3>2. SameLeaves(ent, ent')
      BY <2>3, NewTableStep, Zenon
    <3>3. LinksKept(ent, ent', used)
      BY <2>3, NewTableStep, Zenon
    <3>4. ent'[ptp][i] = TablePte(f)
      <4>1. ent \in [Tables -> [Index -> Pte]] /\ ptp # f /\ ptp \in Tables
        BY <1>5, Zenon DEF Inv, TypeInv
      <4> QED BY <1>5, <1>6, <4>1, Zenon
    <3> QED BY <3>1, <3>2, <3>3, <3>4, Zenon
  <2> QED BY <2>2, <2>4, Zenon
<1>9. \A x \in Nat : Ix(x) \in [0 .. 3 -> Index]
  BY IxOf, Zenon
<1>10. Reach(ent', level, call.root, Ix(call.va), ptp)
  BY <1>2, <1>8, <1>9, ReachKept, Zenon
<1>11. Reach(ent', level + 1, call.root, Ix(call.va), f)
  BY <1>1, <1>3, <1>8, <1>10, Descends, Zenon
<1>12. \A q \in Roots, x \in Nat : LeafAt(ent', q, Ix(x)) = LeafAt(ent, q, Ix(x))
  BY <1>8, <1>9, Zenon DEF SameLeaves
<1> QED BY <1>3, <1>5, <1>7, <1>8, <1>11, <1>12, Zenon

\* get_next_ptp takes a page and links it.
LEMMA LinkStep ==
  ASSUME Inv, pc = "walk", IS_PTE_INVALID(Entry(ptp, level, call.va)),
         NEW f \in pool, pool' = pool \ {f}, NewTable(f),
         ptp' = f, level' = level + 1, pc' = IF level = 2 THEN "fill" ELSE "walk",
         UNCHANGED <<hwVars, call, calls, remapped>>, CountRss
  PROVE  Inv'
<1>0. /\ ttbr0' = ttbr0 /\ tlb' = tlb /\ call' = call /\ calls' = calls /\ remapped' = remapped
  BY Zenon DEF hwVars
<1>1. level \in 0 .. 2 /\ rss \in [UserRoots -> Nat] /\ PAGE_SIZE \in Nat
  BY PageTableAssumption, Zenon DEF Inv, CallInv, TypeInv
<1>2. PICK depth, place, own : Trees(ent, Tables \ pool, depth, place, own)
  BY Zenon DEF Inv, TreeInv
<1>3. PICK dp, pl, ow : Trees(ent', Tables \ pool', dp, pl, ow)
  BY <1>2, LinkTables, Zenon
<1>4. /\ \A q \in Roots, x \in Nat : LeafAt(ent', q, Ix(x)) = LeafAt(ent, q, Ix(x))
      /\ Reach(ent', level + 1, call.root, Ix(call.va), f)
  BY <1>2, LinkTables, Zenon
<1>5. TypeInv'
  <2>1. rss' \in [UserRoots -> Nat]
    BY <1>1 DEF CountRss
  <2>2. ent' \in [Tables -> [Index -> Pte]]
    BY <1>3, Zenon DEF Trees
  <2> QED BY <1>0, <1>1, <2>1, <2>2 DEF Inv, TypeInv
<1>6. TreeInv'
  BY <1>3, Zenon DEF TreeInv
<1>7. KernelRoot \in Roots /\ \A pa \in 0 .. PHYSMEM_END - 1 : KERNEL_VADDR + pa \in Nat
  BY BootLayoutAssumption DEF Roots
<1>8. DirectInv'
  BY <1>4, <1>7, Zenon DEF Inv, DirectInv
<1>9. ASSUME NEW r \in Roots, NEW v \in VPages PROVE Trans(ent', r, v) = Trans(ent, r, v)
  <2>1. v \in Nat
    BY SpanOf DEF VPages
  <2> QED BY <1>4, <2>1, Zenon DEF Trans
<1>10. TlbInv'
  BY <1>0, <1>9, Zenon DEF Inv, TlbInv
<1>11. Reach(ent', level', call'.root, Ix(call'.va), ptp')
  BY <1>0, <1>4, Zenon
<1>12. (pc' = "walk" /\ level' \in 0 .. 2) \/ (pc' = "fill" /\ level' = 3)
  BY <1>1
<1>13. call # NULL
  BY CallPage, Zenon
<1>14. /\ call \in CallRecords /\ call.root = call.asked.root /\ call.flags = call.asked.flags
       /\ call.va % PAGE_SIZE = 0 /\ call.left <= PageCount(call.asked.len)
       /\ call.va = call.asked.va + (PageCount(call.asked.len) - call.left) * PAGE_SIZE
       /\ call.pa = call.asked.pa + (call.va - call.asked.va) /\ call.left >= 1
  BY <1>13, Zenon DEF Inv, CallInv
<1>15. CallInv'
  BY <1>0, <1>11, <1>12, <1>13, <1>14, Zenon DEF CallInv
<1> QED BY <1>5, <1>6, <1>8, <1>10, <1>15, Zenon DEF Inv

\* get_next_ptp, with the BUG_ON that may follow it.
LEMMA GetNextPtpStep == ASSUME Inv, GetNextPtp PROVE Inv'
<1>1. PICK pte : pte = Entry(ptp, level, call.va)
  BY Zenon
<1>2. pc = "walk"
  BY Zenon DEF GetNextPtp
<1>3. CASE Halt
  BY <1>2, <1>3, HaltStep, Zenon
<1>4. ASSUME NEW f \in pool, IS_PTE_INVALID(Entry(ptp, level, call.va)), TakeFrame(f), NewTable(f),
             ptp' = f, level' = level + 1, pc' = IF level = 2 THEN "fill" ELSE "walk",
             UNCHANGED <<hwVars, call, calls, remapped>>, CountRss
      PROVE  Inv'
  <2>1. pool' = pool \ {f}
    BY <1>4, Zenon DEF TakeFrame
  <2> QED BY <1>2, <1>4, <2>1, LinkStep, Zenon
<1>5. ASSUME ~IS_PTE_INVALID(pte), IS_PTE_TABLE(pte),
             ptp' = pte.addr, level' = level + 1, pc' = IF level = 2 THEN "fill" ELSE "walk",
             UNCHANGED <<hwVars, call, calls, remapped>>, UNCHANGED <<ent, pool, rss>>
      PROVE  Inv'
  <2>1. UNCHANGED <<ent, pool, hwVars, rss, call, calls, remapped>>
    BY <1>5, Zenon
  <2> QED BY <1>1, <1>2, <1>5, <2>1, DescendStep, Zenon
<1> QED BY <1>1, <1>3, <1>4, <1>5, Zenon DEF GetNextPtp

\* What one iteration of the inner loop does to the tables.
LEMMA PageTables ==
  ASSUME Inv, MapPage, NEW e, e = PagePte(call.pa, call.flags, KIND(call.root)),
         NEW depth, NEW place, NEW own, Trees(ent, Tables \ pool, depth, place, own)
  PROVE  /\ Trees(ent', Tables \ pool, depth, place, own)
         /\ \A q \in Roots, v \in VPages :
              Trans(ent', q, v) = IF q = call.root /\ v = call.va THEN Leaf(e, call.pa) ELSE Trans(ent, q, v)
         /\ \A q \in Roots, x \in Nat, l \in {1, 2}, b \in BlockPtes :
              LeafAt(ent, q, Ix(x)) = <<l, b>> => LeafAt(ent', q, Ix(x)) = <<l, b>>
         /\ Reach(ent', 3, call.root, Ix(call.va), ptp)
         /\ e \in PagePtes
<1>1. pc = "fill" /\ level = 3
  BY Zenon DEF MapPage, Inv, CallInv
<1>2. /\ call.root \in Roots /\ call.va \in VPages /\ call.va \in Nat /\ call.pa \in Nat
      /\ Reach(ent, 3, call.root, Ix(call.va), ptp)
  BY <1>1, CallPage, Zenon
<1>3. e \in PagePtes /\ e.addr = call.pa
  BY <1>2, Zenon DEF PagePte, PagePtes, __vmr_prot_to_ap, DEVICE_MEMORY, NORMAL_MEMORY, NORMAL_MEMORY_NOCACHE
<1>4. StoredAt(ent, ent', ptp, GET_INDEX(3, call.va), e)
  BY Zenon DEF MapPage, StoredAt
<1>5. PICK used : used = Tables \ pool
  BY Zenon
<1>6. Trees(ent, used, depth, place, own)
  BY <1>5, Zenon
<1>7. /\ Trees(ent', used, depth, place, own) /\ LinksKept(ent, ent', used)
      /\ \A q \in Roots, v \in VPages :
           Trans(ent', q, v) = IF q = call.root /\ v = call.va THEN Leaf(e, e.addr) ELSE Trans(ent, q, v)
      /\ \A q \in Roots, x \in Nat, l \in {1, 2}, b \in BlockPtes :
           LeafAt(ent, q, Ix(x)) = <<l, b>> => LeafAt(ent', q, Ix(x)) = <<l, b>>
  BY <1>2, <1>3, <1>4, <1>6, PageTrans
<1>8. Ix(call.va) \in [0 .. 3 -> Index]
  BY <1>2, IxOf, Zenon
<1>9. Reach(ent', 3, call.root, Ix(call.va), ptp)
  BY <1>2, <1>6, <1>7, <1>8, ReachKept
<1> QED BY <1>3, <1>5, <1>7, <1>9, Zenon

\* map_range_in_pgtbl_common sets a level 3 entry and goes on to the next page.
LEMMA MapPageStep == ASSUME Inv, MapPage PROVE Inv'
<1> DEFINE va == call.va
           last == GET_INDEX(3, call.va) = PTP_ENTRIES - 1
<1>1. pc = "fill" /\ level = 3
  BY Zenon DEF MapPage, Inv, CallInv
<1>2. /\ pool' = pool /\ ttbr0' = ttbr0 /\ tlb' = tlb /\ calls' = calls
      /\ remapped' = IF Translate(call.root, va) = NULL THEN remapped ELSE remapped \cup {<<call.root, va>>}
      /\ call' = [call EXCEPT !.va = @ + PAGE_SIZE, !.pa = @ + PAGE_SIZE, !.left = @ - 1]
      /\ CountRss
  BY Zenon DEF MapPage, hwVars
<1>3. \/ (call.left = 1 /\ pc' = "idle" /\ level' = level)
      \/ (call.left # 1 /\ last /\ pc' = "walk" /\ level' = 0 /\ ptp' = call.root)
      \/ (call.left # 1 /\ ~last /\ pc' = "fill" /\ level' = level /\ ptp' = ptp)
  BY <1>1, Zenon DEF MapPage, walkVars
<1>4. /\ call # NULL /\ call \in CallRecords /\ call.root \in Roots /\ call.va \in VPages /\ call.va \in Nat
      /\ call.va % PAGE_SIZE = 0 /\ call.pa \in Nat /\ call.left \in Nat \ {0} /\ call.asked \in Requests
      /\ call.flags \subseteq VMR
  BY <1>1, CallPage, Zenon
<1>5. PAGE_SIZE \in Nat \ {0}
  BY PageTableAssumption, Zenon
<1>6. PICK depth, place, own : Trees(ent, Tables \ pool, depth, place, own)
  BY Zenon DEF Inv, TreeInv
<1>7. PICK e \in PagePtes :
        /\ Trees(ent', Tables \ pool, depth, place, own)
        /\ \A q \in Roots, v \in VPages :
              Trans(ent', q, v) = IF q = call.root /\ v = call.va THEN Leaf(e, call.pa) ELSE Trans(ent, q, v)
        /\ \A q \in Roots, x \in Nat, l \in {1, 2}, b \in BlockPtes :
             LeafAt(ent, q, Ix(x)) = <<l, b>> => LeafAt(ent', q, Ix(x)) = <<l, b>>
        /\ Reach(ent', 3, call.root, Ix(call.va), ptp)
  BY <1>6, PageTables, Zenon
<1>8. TypeInv'
  <2>1. rss' \in [UserRoots -> Nat]
    BY <1>2, <1>5 DEF CountRss, Inv, TypeInv
  <2>2. ent' \in [Tables -> [Index -> Pte]]
    BY <1>7, Zenon DEF Trees
  <2>3. remapped' \subseteq Roots \X VPages
    BY <1>2, <1>4 DEF Inv, TypeInv
  <2>4. pc' \in {"idle", "walk", "fill", "halt"} /\ level' \in 0 .. 3
    BY <1>1, <1>3
  <2> QED BY <1>2, <2>1, <2>2, <2>3, <2>4, Zenon DEF Inv, TypeInv
<1>9. TreeInv'
  BY <1>2, <1>7, Zenon DEF TreeInv
<1>10. DirectInv'
  <2>1. KernelRoot \in Roots /\ \A pa \in 0 .. PHYSMEM_END - 1 : KERNEL_VADDR + pa \in Nat
    BY BootLayoutAssumption DEF Roots
  <2> QED BY <1>7, <2>1, Zenon DEF Inv, DirectInv
<1>11. TlbInv'
  <2> SUFFICES ASSUME tlb # NULL
      PROVE  \E r \in Roots, u \in UserRoots, v \in VPages :
               /\ tlb.high = (r = KernelRoot) /\ tlb.va = v /\ tlb.asid = Asid[u]
               /\ r # KernelRoot => u = r
               /\ tlb.leaf # NULL
               /\ <<r, v>> \notin remapped' => tlb.leaf = Trans(ent', r, v)
    BY <1>2, Zenon DEF TlbInv
  <2>1. PICK r \in Roots, u \in UserRoots, v \in VPages :
          /\ tlb.high = (r = KernelRoot) /\ tlb.va = v /\ tlb.asid = Asid[u]
          /\ r # KernelRoot => u = r
          /\ tlb.leaf # NULL
          /\ <<r, v>> \notin remapped => tlb.leaf = Trans(ent, r, v)
    BY Zenon DEF Inv, TlbInv
  <2>2. ASSUME <<r, v>> \notin remapped' PROVE tlb.leaf = Trans(ent', r, v)
    <3>1. Translate(call.root, va) = Trans(ent, call.root, call.va)
      BY <1>4, LeafIs, Zenon
    <3>2. <<r, v>> \notin remapped
      BY <1>2, <2>2, Zenon
    <3>3. CASE r = call.root /\ v = call.va
      <4>1. Trans(ent, r, v) = NULL
        BY <1>2, <2>2, <3>1, <3>3, Zenon
      <4> QED BY <2>1, <3>2, <4>1, Zenon
    <3>4. CASE ~(r = call.root /\ v = call.va)
      BY <1>7, <2>1, <3>2, <3>4, Zenon
    <3> QED BY <3>3, <3>4, Zenon
  <2> QED BY <2>1, <2>2, Zenon
<1>12. CallInv'
  <2>1. /\ call.root = call.asked.root /\ call.flags = call.asked.flags
        /\ call.left <= PageCount(call.asked.len)
        /\ call.va = call.asked.va + (PageCount(call.asked.len) - call.left) * PAGE_SIZE
        /\ call.pa = call.asked.pa + (call.va - call.asked.va)
    BY <1>1, <1>4, Zenon DEF Inv, CallInv
  <2>2. call' = [root |-> call.root, va |-> call.va + PAGE_SIZE, pa |-> call.pa + PAGE_SIZE,
                 flags |-> call.flags, left |-> call.left - 1, asked |-> call.asked]
    BY <1>2, <1>4, Zenon DEF CallRecords
  <2>3. /\ call'.root = call.root /\ call'.va = call.va + PAGE_SIZE /\ call'.pa = call.pa + PAGE_SIZE
        /\ call'.flags = call.flags /\ call'.left = call.left - 1 /\ call'.asked = call.asked
    BY <2>2, Zenon
  <2>4. call' \in CallRecords
    <3>1. call.va + PAGE_SIZE \in Nat /\ call.pa + PAGE_SIZE \in Nat /\ call.left - 1 \in Nat
      BY <1>4, <1>5
    <3> QED BY <1>4, <2>2, <3>1, Zenon DEF CallRecords
  <2>5. call' # NULL
    BY <2>4, NullAssumption, Zenon DEF CallRecords
  <2>6. PICK wa \in Nat : wa = call.va + PAGE_SIZE
    BY <1>4, <1>5
  <2>7. wa % PAGE_SIZE = 0
    <3>1. PAGE_SIZE % PAGE_SIZE = 0
      BY <1>5
    <3>2. (call.va + PAGE_SIZE) % PAGE_SIZE = 0
      BY <1>4, <1>5, <3>1, SumMod, call.va \in Int, PAGE_SIZE \in Int, Zenon
    <3> QED BY <2>6, <3>2, Zenon
  <2>8. PICK c \in Nat, k \in Nat, a \in Nat, p \in Nat :
          c = PageCount(call.asked.len) /\ k = call.left /\ a = call.asked.va /\ p = call.asked.pa
    BY <1>4, RequestFields, Zenon
  <2>9. wa = a + (c - (k - 1)) * PAGE_SIZE
    <3>1. (c - (k - 1)) * PAGE_SIZE = (c - k) * PAGE_SIZE + PAGE_SIZE
      BY <1>5
    <3>2. PICK x \in Int : x = (c - k) * PAGE_SIZE
      BY <1>5
    <3>3. call.va = a + x
      BY <2>1, <2>8, <3>2, Zenon
    <3> QED BY <1>5, <2>6, <3>1, <3>2, <3>3
  <2>10. call.pa + PAGE_SIZE = p + (wa - a)
    BY <1>4, <1>5, <2>1, <2>6, <2>8, SMTT(30)
  <2>11. k - 1 <= c /\ k >= 1
    BY <1>4, <2>1, <2>8, SMTT(30)
  <2>12. CASE call.left = 1
    <3>1. pc' = "idle"
      BY <1>3, <2>12, Zenon
    <3>2. k - 1 = 0
      BY <2>8, <2>12, SMTT(30)
    <3> QED BY <2>1, <2>3, <2>4, <2>5, <2>6, <2>7, <2>8, <2>9, <2>10, <2>11, <3>1, <3>2, SMTT(30) DEF CallInv
  <2>13. CASE call.left # 1 /\ last
    <3>1. pc' = "walk" /\ level' = 0 /\ ptp' = call.root
      BY <1>3, <2>13, Zenon
    <3>2. k - 1 >= 1
      BY <1>4, <2>8, <2>13
    <3>3. Reach(ent', level', call.root, Ix(wa), ptp')
      BY <3>1, Zenon DEF Reach
    <3> QED BY <2>1, <2>3, <2>4, <2>5, <2>6, <2>7, <2>8, <2>9, <2>10, <2>11, <3>1, <3>2, <3>3, SMTT(30) DEF CallInv
  <2>14. CASE call.left # 1 /\ ~last
    <3>1. pc' = "fill" /\ level' = 3 /\ ptp' = ptp
      BY <1>1, <1>3, <2>14, Zenon
    <3>2. k - 1 >= 1
      BY <1>4, <2>8, <2>14
    <3>3. \A l \in 0 .. 2 : GET_INDEX(l, wa) = GET_INDEX(l, call.va)
      BY <1>4, <2>6, <2>14, IxNext, Zenon
    <3>4. Ix(call.va)[0] = Ix(wa)[0] /\ Ix(call.va)[1] = Ix(wa)[1] /\ Ix(call.va)[2] = Ix(wa)[2]
      BY <1>4, <3>3, IxOf, SMTT(30)
    <3>5. Reach(ent', level', call.root, Ix(wa), ptp')
      BY <1>7, <3>1, <3>4, ReachSame, Zenon
    <3> QED BY <2>1, <2>3, <2>4, <2>5, <2>6, <2>7, <2>8, <2>9, <2>10, <2>11, <3>1, <3>2, <3>5, SMTT(30) DEF CallInv
  <2> QED BY <2>12, <2>13, <2>14, Zenon
<1> QED BY <1>8, <1>9, <1>10, <1>11, <1>12, Zenon DEF Inv

\* The steps of the hardware, and the switch of ttbr0.
LEMMA SwitchStep == ASSUME Inv, NEW r \in UserRoots, set_page_table(r) PROVE Inv'
<1>1. /\ ttbr0' = r /\ ent' = ent /\ pool' = pool /\ tlb' = tlb /\ rss' = rss /\ remapped' = remapped
      /\ pc' = pc /\ call' = call /\ level' = level /\ ptp' = ptp /\ calls' = calls
  BY Zenon DEF set_page_table, callVars, walkVars
<1>2. TypeInv' /\ CallInv'
  BY <1>1, Zenon DEF Inv, TypeInv, CallInv
<1>3. TreeInv' /\ DirectInv' /\ TlbInv'
  BY <1>1, TablesKept, TlbKept, Zenon
<1> QED BY <1>2, <1>3, Zenon DEF Inv

\* The hardware walks the tables and keeps what it finds.
LEMMA TlbFillStep == ASSUME Inv, TlbFill PROVE Inv'
<1>1. /\ ttbr0' = ttbr0 /\ ent' = ent /\ pool' = pool /\ rss' = rss /\ remapped' = remapped
      /\ pc' = pc /\ call' = call /\ level' = level /\ ptp' = ptp /\ calls' = calls
  BY Zenon DEF TlbFill, callVars, walkVars
<1>2. TypeInv' /\ CallInv'
  BY <1>1, Zenon DEF Inv, TypeInv, CallInv
<1>3. TreeInv' /\ DirectInv'
  BY <1>1, TablesKept, Zenon
<1>4. PICK r \in Active, v \in VPages :
        /\ Translate(r, v) # NULL
        /\ tlb' = [high |-> r = KernelRoot, va |-> v,
                   asid |-> IF LeafEntry(r, v)[2].nG = 1 THEN Asid[ttbr0] ELSE NULL,
                   leaf |-> Translate(r, v)]
  BY Zenon DEF TlbFill
<1>5. r \in Roots /\ ttbr0 \in UserRoots /\ (r # KernelRoot => ttbr0 = r) /\ v \in Nat
  BY SpanOf DEF Active, Roots, VPages, Inv, TypeInv
<1>6. PICK depth, place, own : Trees(ent, Tables \ pool, depth, place, own)
  BY Zenon DEF Inv, TreeInv
<1>7. Ix(v) \in [0 .. 3 -> Index]
  BY <1>5, IxOf, Zenon
<1>8. PICK l \in 0 .. 3, t \in Tables \ pool, e \in Pte : EndsAt(ent, r, Ix(v), l, t, e)
  BY <1>5, <1>6, <1>7, Walks, Zenon
<1>9. Translate(r, v) = Trans(ent, r, v) /\ LeafEntry(r, v) = LeafAt(ent, r, Ix(v))
  BY <1>5, LeafIs, Zenon
<1>10. LeafEntry(r, v) = <<l, e>> /\ e.nG = 1
  BY <1>4, <1>5, <1>8, <1>9, TransEnds, Zenon
<1>11. tlb' = [high |-> r = KernelRoot, va |-> v, asid |-> Asid[ttbr0], leaf |-> Trans(ent, r, v)]
  BY <1>4, <1>9, <1>10, SMTT(30)
<1>12. /\ tlb'.high = (r = KernelRoot) /\ tlb'.va = v /\ tlb'.asid = Asid[ttbr0]
       /\ tlb'.leaf = Trans(ent', r, v) /\ tlb'.leaf # NULL
  BY <1>1, <1>4, <1>9, <1>11
<1>13. TlbInv'
  BY <1>5, <1>12, Zenon DEF TlbInv
<1> QED BY <1>2, <1>3, <1>13, Zenon DEF Inv

\* The hardware forgets a translation.
LEMMA TlbEvictStep == ASSUME Inv, TlbEvict PROVE Inv'
<1>1. /\ ttbr0' = ttbr0 /\ ent' = ent /\ pool' = pool /\ rss' = rss /\ remapped' = remapped /\ tlb' = NULL
      /\ pc' = pc /\ call' = call /\ level' = level /\ ptp' = ptp /\ calls' = calls
  BY Zenon DEF TlbEvict, callVars, walkVars
<1>2. TypeInv' /\ CallInv'
  BY <1>1, Zenon DEF Inv, TypeInv, CallInv
<1>3. TreeInv' /\ DirectInv' /\ TlbInv'
  BY <1>1, TablesKept, Zenon DEF TlbInv
<1> QED BY <1>2, <1>3, Zenon DEF Inv

\* Nothing happens.
LEMMA StutterStep == ASSUME Inv, UNCHANGED vars PROVE Inv'
<1>1. /\ ttbr0' = ttbr0 /\ ent' = ent /\ pool' = pool /\ rss' = rss /\ remapped' = remapped /\ tlb' = tlb
      /\ pc' = pc /\ call' = call /\ level' = level /\ ptp' = ptp /\ calls' = calls
  BY Zenon DEF vars, callVars, walkVars, hwVars
<1>2. TypeInv' /\ CallInv'
  BY <1>1, Zenon DEF Inv, TypeInv, CallInv
<1>3. TreeInv' /\ DirectInv' /\ TlbInv'
  BY <1>1, TablesKept, TlbKept, Zenon
<1> QED BY <1>2, <1>3, Zenon DEF Inv

\* The tables as init_kernel_pt leaves them satisfy the invariant.
LEMMA InitInv == ASSUME Init PROVE Inv
<1>1. TreeInv /\ DirectInv
  BY BootTrees, BootDirect, Zenon
<1>2. TypeInv
  <2>1. ent \in [Tables -> [Index -> Pte]]
    BY BootEntries, Zenon
  <2> QED BY <2>1, PageTableAssumption DEF Init, TypeInv
<1>3. TlbInv /\ CallInv
  BY Zenon DEF Init, TlbInv, CallInv
<1> QED BY <1>1, <1>2, <1>3, Zenon DEF Inv

\* Every step keeps the invariant.
LEMMA NextInv == ASSUME Inv, [Next]_vars PROVE Inv'
<1>1. ASSUME NEW q \in Requests, MapRange(q) PROVE Inv'
  BY <1>1, MapRangeStep, Zenon
<1>2. CASE GetNextPtp
  BY <1>2, GetNextPtpStep, Zenon
<1>3. CASE MapPage
  BY <1>3, MapPageStep, Zenon
<1>4. ASSUME NEW r \in UserRoots, set_page_table(r) PROVE Inv'
  BY <1>4, SwitchStep, Zenon
<1>5. CASE TlbFill
  BY <1>5, TlbFillStep, Zenon
<1>6. CASE TlbEvict
  BY <1>6, TlbEvictStep, Zenon
<1>7. CASE UNCHANGED vars
  BY <1>7, StutterStep, Zenon
<1> QED BY <1>1, <1>2, <1>3, <1>4, <1>5, <1>6, <1>7, Zenon DEF Next

\* The tables, the call under way, the TLB and the direct map stay in step.
THEOREM Invariance == Spec => []Inv
<1>1. Init => Inv
  BY InitInv, Zenon
<1>2. Inv /\ [Next]_vars => Inv'
  BY NextInv, Zenon
<1> QED BY <1>1, <1>2, PTL DEF Spec

(***************************************************************************)
(* What follows                                                            *)
(***************************************************************************)
\* TypeOK in every reachable state: every entry map_range_in_pgtbl_common and
\* init_kernel_pt store has one of the formats of pte_t, and the level of the
\* walk and the pages of the pool stay in range.
THEOREM TypeCorrect == Spec => []TypeOK
<1>1. Inv => TypeOK
  BY Zenon DEF Inv, TypeInv, TypeOK
<1> QED BY <1>1, Invariance, PTL

\* DirectMapIntact in every reachable state: whatever map_range_in_pgtbl_common
\* maps, the kernel finds physical memory where init_kernel_pt put it.
THEOREM DirectMapKept == Spec => []DirectMapIntact
<1>1. Inv => DirectMapIntact
  <2> SUFFICES ASSUME Inv, NEW pa \in 0 .. PHYSMEM_END - 1
               PROVE  Translate(KernelRoot, KERNEL_VADDR + pa) = DirectLeaf(pa)
    BY Zenon DEF DirectMapIntact, DirectLeaf
  <2>1. PICK l \in {1, 2}, e \in BlockPtes :
          /\ LeafAt(ent, KernelRoot, Ix(KERNEL_VADDR + pa)) = <<l, e>>
          /\ Leaf(e, e.addr + GET_VA_OFFSET(l, KERNEL_VADDR + pa)) = DirectLeaf(pa)
    BY Zenon DEF Inv, DirectInv
  <2>2. PICK va \in Nat : va = KERNEL_VADDR + pa
    BY BootLayoutAssumption
  <2>3. Translate(KernelRoot, va) = Trans(ent, KernelRoot, va)
    BY LeafIs, Zenon
  <2>4. <<l, e>> # NULL
    <3>1. e \in Pte
      BY Zenon DEF Pte, BlockPtes
    <3> QED BY <3>1, NullAssumption
  <2>5. Trans(ent, KernelRoot, va) = Leaf(e, e.addr + GET_VA_OFFSET(l, va))
    BY <2>1, <2>2, <2>4 DEF Trans
  <2> QED BY <2>1, <2>2, <2>3, <2>5, Zenon
<1> QED BY <1>1, Invariance, PTL

\* QueryFindsMapping in every reachable state: the software walk of
\* query_in_pgtbl agrees with the hardware's, for every address of every table,
\* also while a call is between two stores.
THEOREM QueryCorrect == Spec => []QueryFindsMapping
<1>1. Inv => QueryFindsMapping
  <2> SUFFICES ASSUME Inv, NEW r \in Roots, NEW va \in 0 .. VA_END - 1
               PROVE  query_in_pgtbl(r, va) = IF Translate(r, va) = NULL THEN NULL ELSE Translate(r, va).pa
    BY Zenon DEF QueryFindsMapping
  <2>0. va \in Nat
    BY SpanOf
  <2>1. PICK depth, place, own : Trees(ent, Tables \ pool, depth, place, own)
    BY Zenon DEF Inv, TreeInv
  <2>2. Ix(va) \in [0 .. 3 -> Index]
    BY <2>0, IxOf, Zenon
  <2>3. PICK l \in 0 .. 3, t \in Tables \ pool, e \in Pte : EndsAt(ent, r, Ix(va), l, t, e)
    BY <2>1, <2>2, Walks, Zenon
  <2>4. Translate(r, va) = Trans(ent, r, va)
    BY <2>0, LeafIs, Zenon
  <2>5. query_in_pgtbl(r, va) = IF e = PTE_DESCRIPTOR_INVALID THEN NULL ELSE e.addr + GET_VA_OFFSET(l, va)
    BY <2>0, <2>3, QueryEnds, Zenon
  <2>6. CASE e = PTE_DESCRIPTOR_INVALID
    BY <2>0, <2>3, <2>4, <2>5, <2>6, TransEnds, Zenon
  <2>7. CASE e # PTE_DESCRIPTOR_INVALID
    <3>1. Trans(ent, r, va) = Leaf(e, e.addr + GET_VA_OFFSET(l, va)) /\ Trans(ent, r, va) # NULL
      BY <2>0, <2>3, <2>7, TransEnds, Zenon
    <3>2. Trans(ent, r, va).pa = e.addr + GET_VA_OFFSET(l, va)
      BY <3>1 DEF Leaf
    <3> QED BY <2>4, <2>5, <2>7, <3>1, <3>2, Zenon
  <2> QED BY <2>6, <2>7, Zenon
<1> QED BY <1>1, Invariance, PTL

\* TlbCoherent in every reachable state: map_range_in_pgtbl_common and
\* set_page_table flush nothing, and what the TLB holds still is in the tables,
\* as long as no page is mapped twice.
THEOREM TlbCorrect == Spec => []TlbCoherent
<1>1. Inv => TlbCoherent
  <2> SUFFICES ASSUME Inv, NEW r \in Active, NEW v \in VPages, TlbHit(r, v), <<r, v>> \notin remapped
               PROVE  tlb.leaf = Translate(r, v)
    BY Zenon DEF TlbCoherent
  <2>1. PICK q \in Roots, u \in UserRoots, w \in VPages :
          /\ tlb.high = (q = KernelRoot) /\ tlb.va = w /\ tlb.asid = Asid[u]
          /\ q # KernelRoot => u = q
          /\ <<q, w>> \notin remapped => tlb.leaf = Trans(ent, q, w)
    BY Zenon DEF Inv, TlbInv, TlbHit
  <2>2. tlb.high = (r = KernelRoot) /\ tlb.va = v /\ tlb.asid \in {NULL, Asid[ttbr0]}
    BY Zenon DEF TlbHit
  <2>3. ttbr0 \in UserRoots /\ (r = KernelRoot \/ r = ttbr0)
    BY Zenon DEF Inv, TypeInv, Active
  <2>4. u = ttbr0
    BY <2>1, <2>2, <2>3, PageTableAssumption, NamesAssumption, Zenon
  <2>5. (q = KernelRoot) = (r = KernelRoot)
    BY <2>1, <2>2, Zenon
  <2>6. q = r /\ w = v
    BY <2>1, <2>2, <2>3, <2>4, <2>5, Zenon
  <2>7. v \in Nat
    BY SpanOf DEF VPages
  <2>8. Translate(r, v) = Trans(ent, r, v)
    BY <2>7, LeafIs, Zenon
  <2> QED BY <2>1, <2>6, <2>8, Zenon
<1> QED BY <1>1, Invariance, PTL

(***************************************************************************)
(* The refinement of AddressSpace                                          *)
(***************************************************************************)
\* The translations of tables tb.
MapOf(tb) == {m \in {<<r, v, Trans(tb, r, v)>> : r \in Roots, v \in VPages} : m[3] # NULL}

\* Mapping is MapOf of the entries, before and after a step.
LEMMA MappingIs == Mapping = MapOf(ent) /\ Mapping' = MapOf(ent')
<1>1. \A v \in VPages : v \in Nat
  BY SpanOf DEF VPages
<1>2. ASSUME NEW CONSTANT r \in Roots, NEW CONSTANT v \in VPages
      PROVE  Translate(r, v) = Trans(ent, r, v) /\ Translate(r, v)' = Trans(ent', r, v)
  BY <1>1, LeafIs, LeafIsNext, Zenon
<1>3. {<<r, v, Translate(r, v)>> : r \in Roots, v \in VPages} =
      {<<r, v, Trans(ent, r, v)>> : r \in Roots, v \in VPages}
  BY <1>2
<1>4. {<<r, v, Translate(r, v)'>> : r \in Roots, v \in VPages} =
      {<<r, v, Trans(ent', r, v)>> : r \in Roots, v \in VPages}
  BY <1>2
<1>5. Mapping = MapOf(ent)
  BY <1>3 DEF Mapping, MapOf
<1>6. Mapping' = MapOf(ent')
  BY <1>4 DEF Mapping, MapOf
<1> QED BY <1>5, <1>6, Zenon

\* No translation changes.
SameTrans(tb, tc) == \A r \in Roots, v \in VPages : Trans(tc, r, v) = Trans(tb, r, v)

\* Tables with the same translations have the same mapping.
LEMMA SameMap == ASSUME NEW tb, NEW tc, SameTrans(tb, tc) PROVE MapOf(tc) = MapOf(tb)
<1> USE DEF SameTrans
<1>1. {<<r, v, Trans(tc, r, v)>> : r \in Roots, v \in VPages} =
      {<<r, v, Trans(tb, r, v)>> : r \in Roots, v \in VPages}
  OBVIOUS
<1> QED BY <1>1 DEF MapOf

\* One translation changes.
OneChanged(tb, tc, q, w, leaf) ==
  /\ q \in Roots /\ w \in VPages /\ leaf # NULL
  /\ \A r \in Roots, v \in VPages : Trans(tc, r, v) = IF r = q /\ v = w THEN leaf ELSE Trans(tb, r, v)

\* Mapping map with translation leaf for page w of root q.
Remap(map, q, w, leaf) == {m \in map : m[1] # q \/ m[2] # w} \cup {<<q, w, leaf>>}

\* Changing one translation replaces what the mapping had for that page.
LEMMA OneMapped ==
  ASSUME NEW tb, NEW tc, NEW q, NEW w, NEW leaf, OneChanged(tb, tc, q, w, leaf)
  PROVE  MapOf(tc) = Remap(MapOf(tb), q, w, leaf)
<1> USE DEF OneChanged
<1>1. ASSUME NEW m \in MapOf(tc)
      PROVE  m \in {x \in MapOf(tb) : x[1] # q \/ x[2] # w} \cup {<<q, w, leaf>>}
  <2>1. PICK r \in Roots, v \in VPages : m = <<r, v, Trans(tc, r, v)>> /\ m[3] # NULL
    BY <1>1 DEF MapOf
  <2>2. m[1] = r /\ m[2] = v /\ m[3] = Trans(tc, r, v)
    BY <2>1, Zenon
  <2>3. CASE r = q /\ v = w
    BY <2>1, <2>3, Zenon
  <2>4. CASE r # q \/ v # w
    <3>1. Trans(tc, r, v) = Trans(tb, r, v)
      BY <2>4, Zenon
    <3>2. m = <<r, v, Trans(tb, r, v)>>
      BY <2>1, <3>1, Zenon
    <3>3. m \in MapOf(tb)
      BY <2>1, <3>2 DEF MapOf
    <3> QED BY <2>2, <2>4, <3>3, Zenon
  <2> QED BY <2>3, <2>4, Zenon
<1>2. ASSUME NEW m \in MapOf(tb), m[1] # q \/ m[2] # w PROVE m \in MapOf(tc)
  <2>1. PICK r \in Roots, v \in VPages : m = <<r, v, Trans(tb, r, v)>> /\ m[3] # NULL
    BY <1>2 DEF MapOf
  <2>2. m[1] = r /\ m[2] = v
    BY <2>1, Zenon
  <2>3. Trans(tc, r, v) = Trans(tb, r, v)
    BY <1>2, <2>2, Zenon
  <2>4. m = <<r, v, Trans(tc, r, v)>>
    BY <2>1, <2>3, Zenon
  <2> QED BY <2>1, <2>4 DEF MapOf
<1>3. <<q, w, leaf>> \in MapOf(tc)
  <2>1. Trans(tc, q, w) = leaf
    BY Zenon
  <2>2. PICK m : m = <<q, w, Trans(tc, q, w)>>
    BY Zenon
  <2>3. m[3] # NULL
    BY <2>1, <2>2, Zenon
  <2>4. m \in MapOf(tc)
    BY <2>2, <2>3 DEF MapOf
  <2> QED BY <2>1, <2>2, <2>4, Zenon
<1> QED BY <1>1, <1>2, <1>3, Zenon DEF Remap

\* A page table entry set_pte_flags wrote permits what the call asked for.
LEMMA PteAsAsked ==
  ASSUME NEW q \in Requests, NEW v \in Nat, NEW pa, pa = q.pa + (v - q.va),
         NEW e, e = PagePte(pa, q.flags, KIND(q.root))
  PROVE  Leaf(e, pa) = Want(q, v)
<1>1. q.flags \cap {"READ", "WRITE"} # {}
  BY RequestFields, Zenon
<1>2. e.AP \in {0, 1} <=> "WRITE" \in q.flags
  BY <1>1 DEF PagePte, __vmr_prot_to_ap
<1>3. e.PXN = 0 <=> ("EXEC" \in q.flags /\ q.root = KernelRoot)
  BY DEF PagePte, KIND
<1>4. e.UXN = 0 <=> ("EXEC" \in q.flags /\ q.root # KernelRoot)
  BY DEF PagePte, KIND
<1>5. e.attr_index = CASE "DEVICE" \in q.flags -> DEVICE_MEMORY
                       [] q.flags \cap {"DEVICE", "NOCACHE"} = {"NOCACHE"} -> NORMAL_MEMORY_NOCACHE
                       [] q.flags \cap {"DEVICE", "NOCACHE"} = {} -> NORMAL_MEMORY
  BY DEF PagePte, DEVICE_MEMORY, NORMAL_MEMORY_NOCACHE, NORMAL_MEMORY
<1>6. /\ (e.AP \in {0, 1}) = ("WRITE" \in q.flags)
      /\ (e.PXN = 0) = ("EXEC" \in q.flags /\ q.root = KernelRoot)
      /\ (e.UXN = 0) = ("EXEC" \in q.flags /\ q.root # KernelRoot)
  BY <1>2, <1>3, <1>4
<1> QED BY <1>5, <1>6, Zenon DEF Leaf, Want

\* The pages of a call from va on.
PagesFrom(q, va) == {<<q.root, v, Want(q, v)>> : v \in {x \in VPages : x >= va /\ x < q.va + q.len}}

\* Asked is PagesFrom of the call.
LEMMA AskedIs ==
  /\ call # NULL => Asked = PagesFrom(call.asked, call.va)
  /\ call' # NULL => Asked' = PagesFrom(call'.asked, call'.va)
BY Zenon DEF Asked, PagesFrom

\* Nothing is left of a call that is over.
LEMMA IdleAsksNothing == ASSUME Inv, pc = "idle" PROVE Asked = {}
<1>1. CASE call = NULL
  BY <1>1, Zenon DEF Asked
<1>2. CASE call # NULL
  <2>1. call.left = 0 /\ call \in CallRecords /\ call.va = call.asked.va + (PageCount(call.asked.len) - call.left) * PAGE_SIZE
    BY <1>2, Zenon DEF Inv, CallInv
  <2>2. call.asked \in Requests /\ call.va \in Nat
    BY <2>1, Zenon DEF CallRecords
  <2>3. PICK len \in Nat, a \in Nat : len = call.asked.len /\ a = call.asked.va
    BY <2>2, RequestFields, Zenon
  <2>4. PICK c \in Nat : c = PageCount(len) /\ c * PAGE_SIZE >= len
    BY PageCounts, Zenon
  <2>5. PICK x \in Int : x = c * PAGE_SIZE
    BY PageTableAssumption
  <2>6. call.va = a + x
    BY <2>1, <2>3, <2>4, <2>5
  <2>7. call.va >= a + len
    BY <2>4, <2>5, <2>6
  <2>8. ASSUME NEW v \in VPages, v >= call.va, v < call.asked.va + call.asked.len PROVE FALSE
    <3>1. v \in Nat
      BY SpanOf DEF VPages
    <3> QED BY <2>2, <2>3, <2>7, <2>8, <3>1, SMTT(30)
  <2>9. PagesFrom(call.asked, call.va) = {}
    BY <2>8, Zenon DEF PagesFrom
  <2> QED BY <1>2, <2>9, AskedIs, Zenon
<1> QED BY <1>1, <1>2, Zenon

\* A step of the inner loop takes one page off what is left.
LEMMA OneLess ==
  ASSUME NEW q \in Requests, NEW va \in VPages, va < q.va + q.len
  PROVE  /\ <<q.root, va, Want(q, va)>> \in PagesFrom(q, va)
         /\ PagesFrom(q, va + PAGE_SIZE) = PagesFrom(q, va) \ {<<q.root, va, Want(q, va)>>}
<1>1. PAGE_SIZE \in Nat \ {0} /\ q.va \in Nat /\ q.len \in Nat
  BY PageTableAssumption, RequestFields, Zenon
<1>2. \A v \in VPages : v \in Nat /\ v % PAGE_SIZE = 0
  BY SpanOf DEF VPages
<1>3. PICK wa \in Nat : wa = va + PAGE_SIZE
  BY <1>1, <1>2
<1>4. PICK end \in Nat : end = q.va + q.len
  BY <1>1
<1>5. wa % PAGE_SIZE = 0
  <2>1. PAGE_SIZE % PAGE_SIZE = 0
    BY <1>1, ProductMod, PAGE_SIZE = PAGE_SIZE * 1
  <2> QED BY <1>1, <1>2, <1>3, <2>1, SumMod, SMTT(30)
<1>6. ASSUME NEW v \in VPages PROVE v >= wa <=> (v >= va /\ v # va)
  <2>1. v > va => wa <= v
    <3>1. v \in Int /\ wa \in Int /\ v % PAGE_SIZE = 0
      BY <1>2
    <3>2. v > va => wa < v + PAGE_SIZE
      BY <1>1, <1>2, <1>3
    <3> QED BY <1>1, <1>5, <3>1, <3>2, CloseMultiples, Zenon
  <2> QED BY <1>1, <1>2, <1>3, <2>1
<1>7. \A x, y : <<q.root, x, Want(q, x)>> = <<q.root, y, Want(q, y)>> => x = y
  OBVIOUS
<1>8. va >= va /\ va < end
  BY <1>2, <1>4
<1>9. <<q.root, va, Want(q, va)>> \in PagesFrom(q, va)
  BY <1>4, <1>8, Zenon DEF PagesFrom
<1>10. ASSUME NEW m PROVE m \in PagesFrom(q, wa) <=> m \in PagesFrom(q, va) \ {<<q.root, va, Want(q, va)>>}
  <2>1. m \in PagesFrom(q, wa) <=>
          \E v \in VPages : v >= wa /\ v < q.va + q.len /\ m = <<q.root, v, Want(q, v)>>
    BY Zenon DEF PagesFrom
  <2>2. m \in PagesFrom(q, va) <=>
          \E v \in VPages : v >= va /\ v < q.va + q.len /\ m = <<q.root, v, Want(q, v)>>
    BY Zenon DEF PagesFrom
  <2> QED BY <1>6, <1>7, <2>1, <2>2, Zenon
<1> QED BY <1>3, <1>9, <1>10, Zenon

\* Linking a table changes no translation.
LEMMA LinkMapsNothing ==
  ASSUME Inv, pc = "walk", IS_PTE_INVALID(Entry(ptp, level, call.va)),
         NEW f \in pool, pool' = pool \ {f}, NewTable(f)
  PROVE  SameTrans(ent, ent')
<1>1. PICK depth, place, own : Trees(ent, Tables \ pool, depth, place, own)
  BY Zenon DEF Inv, TreeInv
<1>2. \A q \in Roots, x \in Nat : LeafAt(ent', q, Ix(x)) = LeafAt(ent, q, Ix(x))
  BY <1>1, LinkTables, Zenon
<1>3. \A v \in VPages : v \in Nat
  BY SpanOf DEF VPages
<1> QED BY <1>2, <1>3, Zenon DEF SameTrans, Trans

\* get_next_ptp maps nothing, whatever it finds.
LEMMA WalkMapsNothing == ASSUME Inv, GetNextPtp PROVE Mapping' = Mapping /\ Asked' = Asked
<1>1. call' = call
  BY Zenon DEF GetNextPtp, Halt
<1>2. Asked' = Asked
  BY <1>1, Zenon DEF Asked
<1>3. MapOf(ent') = MapOf(ent)
  <2>1. CASE ent' = ent
    BY <2>1, Zenon
  <2>2. CASE ent' # ent
    <3>1. PICK f \in pool : /\ pc = "walk" /\ IS_PTE_INVALID(Entry(ptp, level, call.va))
                            /\ pool' = pool \ {f} /\ NewTable(f)
      BY <2>2, Zenon DEF GetNextPtp, Halt, TakeFrame
    <3> QED BY <3>1, LinkMapsNothing, SameMap, Zenon
  <2> QED BY <2>1, <2>2, Zenon
<1> QED BY <1>2, <1>3, MappingIs, Zenon

\* A store of the inner loop maps the page the call is at, as it was asked for.
LEMMA MapPageMaps ==
  ASSUME Inv, MapPage
  PROVE  \E m \in Asked : /\ Mapping' = {x \in Mapping : x[1] # m[1] \/ x[2] # m[2]} \cup {m}
                          /\ Asked' = Asked \ {m}
                          /\ m = <<m[1], m[2], m[3]>>
<1>1. pc = "fill"
  BY Zenon DEF MapPage
<1>2. /\ call # NULL /\ call \in CallRecords /\ call.root \in Roots /\ call.va \in VPages /\ call.va \in Nat
      /\ call.pa \in Nat /\ call.left \in Nat \ {0} /\ call.asked \in Requests
      /\ call.va < call.asked.va + call.asked.len
  BY <1>1, CallPage, Zenon
<1>3. /\ call.root = call.asked.root /\ call.flags = call.asked.flags
      /\ call.pa = call.asked.pa + (call.va - call.asked.va)
  BY <1>1, <1>2, Zenon DEF Inv, CallInv
<1>4. call' # NULL /\ call'.va = call.va + PAGE_SIZE /\ call'.asked = call.asked
  <2>1. call' = [call EXCEPT !.va = @ + PAGE_SIZE, !.pa = @ + PAGE_SIZE, !.left = @ - 1]
    BY Zenon DEF MapPage
  <2>2. call.va + PAGE_SIZE \in Nat /\ call.pa + PAGE_SIZE \in Nat /\ call.left - 1 \in Nat
    BY <1>2, PageTableAssumption
  <2>3. call' \in CallRecords
    BY <1>2, <2>1, <2>2, Zenon DEF CallRecords
  <2>4. call' # NULL
    BY <2>3, NullAssumption, Zenon DEF CallRecords
  <2> QED BY <1>2, <2>1, <2>4, Zenon DEF CallRecords
<1>5. PICK q \in Requests, va \in VPages : q = call.asked /\ va = call.va
  BY <1>2, Zenon
<1>6. PICK e : e = PagePte(call.pa, call.flags, KIND(call.root))
  BY Zenon
<1>7. Leaf(e, call.pa) = Want(q, va)
  BY <1>2, <1>3, <1>5, <1>6, PteAsAsked
<1>8. PICK depth, place, own : Trees(ent, Tables \ pool, depth, place, own)
  BY Zenon DEF Inv, TreeInv
<1>9. /\ \A r \in Roots, v \in VPages :
           Trans(ent', r, v) = IF r = call.root /\ v = call.va THEN Leaf(e, call.pa) ELSE Trans(ent, r, v)
      /\ e \in PagePtes
  BY <1>6, <1>8, PageTables, Zenon
<1>10. Leaf(e, call.pa) # NULL
  BY <1>2, <1>9, LeafNotNull, Zenon
<1>11. MapOf(ent') = Remap(MapOf(ent), q.root, va, Want(q, va))
  <2>1. q.root \in Roots /\ Want(q, va) # NULL
    BY <1>2, <1>3, <1>5, <1>7, <1>10, Zenon
  <2>2. OneChanged(ent, ent', q.root, va, Want(q, va))
    BY <1>3, <1>5, <1>7, <1>9, <2>1, Zenon DEF OneChanged
  <2> QED BY <2>2, OneMapped
<1>12. /\ <<q.root, va, Want(q, va)>> \in PagesFrom(q, va)
       /\ PagesFrom(q, va + PAGE_SIZE) = PagesFrom(q, va) \ {<<q.root, va, Want(q, va)>>}
  BY <1>2, <1>5, OneLess, Zenon
<1>13. Asked = PagesFrom(q, va) /\ Asked' = PagesFrom(q, va + PAGE_SIZE)
  BY <1>2, <1>4, <1>5, AskedIs, Zenon
<1>14. PICK m : m = <<q.root, va, Want(q, va)>>
  BY Zenon
<1>15. m[1] = q.root /\ m[2] = va /\ m[3] = Want(q, va)
  BY <1>14, Zenon
<1>16. m \in Asked /\ Asked' = Asked \ {m}
  BY <1>12, <1>13, <1>14, Zenon
<1>17. Mapping' = {x \in Mapping : x[1] # m[1] \/ x[2] # m[2]} \cup {m}
  BY <1>11, <1>14, <1>15, MappingIs, Zenon DEF Remap
<1> QED BY <1>14, <1>15, <1>16, <1>17, Zenon

\* map_range_in_pgtbl does what AddressSpace promises: every step that is not one
\* of AddressSpace leaves translations and request alone.
THEOREM Refinement == Spec => ImplementsAddressSpace
<1>1. Init => AS!Init
  BY Zenon DEF Init, AS!Init, Asked
<1>2. Inv /\ [Next]_vars => [AS!Next]_<<Mapping, Asked>>
  <2> SUFFICES ASSUME Inv, [Next]_vars PROVE [AS!Next]_<<Mapping, Asked>>
    OBVIOUS
  <2>1. ASSUME NEW q \in Requests, MapRange(q) PROVE AS!Next
    <3>1. pc = "idle" /\ ent' = ent
      BY <2>1, Zenon DEF MapRange
    <3>2. Asked = {}
      BY <3>1, IdleAsksNothing, Zenon
    <3>3. Mapping' = Mapping
      BY <3>1, MappingIs, Zenon
    <3> QED BY <3>2, <3>3, Zenon DEF AS!Next, AS!Ask
  <2>2. CASE GetNextPtp
    BY <2>2, WalkMapsNothing, Zenon
  <2>3. CASE MapPage
    <3>1. PICK m \in Asked : /\ Mapping' = {x \in Mapping : x[1] # m[1] \/ x[2] # m[2]} \cup {m}
                             /\ Asked' = Asked \ {m}
                             /\ m = <<m[1], m[2], m[3]>>
      BY <2>3, MapPageMaps, Zenon
    <3>2. AS!MapPage(m[1], m[2], m[3])
      BY <3>1, Zenon DEF AS!MapPage
    <3> QED BY <3>1, <3>2, Zenon DEF AS!Next
  <2>4. CASE (ent' = ent /\ call' = call)
    BY <2>4, MappingIs, Zenon DEF Asked
  <2>5. ASSUME NEW r \in UserRoots, set_page_table(r) PROVE ent' = ent /\ call' = call
    BY <2>5, Zenon DEF set_page_table, callVars
  <2>6. ASSUME TlbFill \/ TlbEvict \/ UNCHANGED vars PROVE ent' = ent /\ call' = call
    BY <2>6, Zenon DEF TlbFill, TlbEvict, vars, callVars
  <2> QED BY <2>1, <2>2, <2>3, <2>4, <2>5, <2>6, SMTT(30) DEF Next
<1> QED BY <1>1, <1>2, Invariance, PTL DEF Spec, ImplementsAddressSpace, AS!Spec

(***************************************************************************)
(* The tables of a process                                                 *)
(***************************************************************************)
\* TablesOf of tables tb, when the pages free are.
Below(tb, free, S) ==
  {t \in Frames \ free : \E s \in S : \E i \in Index : tb[s][i].is_valid = 1 /\ tb[s][i].addr = t}
TreeOf(tb, free, r) ==
  Below(tb, free, {r}) \cup Below(tb, free, Below(tb, free, {r})) \cup
    Below(tb, free, Below(tb, free, Below(tb, free, {r})))

\* TablesOf is TreeOf of the entries, before and after a step.
LEMMA TreeOfIs ==
  ASSUME NEW CONSTANT r
  PROVE  TablesOf(r) = TreeOf(ent, pool, r) /\ TablesOf(r)' = TreeOf(ent', pool', r)
BY Zenon DEF TablesOf, TreeOf, Below

\* A valid entry that names a table is the link of the tree to that table.
LEMMA ValidLink ==
  ASSUME NEW tb, NEW used, NEW depth, NEW place, NEW own, Trees(tb, used, depth, place, own),
         NEW x \in used, NEW i \in Index, NEW t \in Tables,
         tb[x][i].is_valid = 1, tb[x][i].addr = t
  PROVE  t \in used /\ Linked(tb, depth, place, own, x, i, t)
<1>1. t \notin Nat
  BY NamesAssumption, Zenon
<1>2. tb[x][i] # PTE_DESCRIPTOR_INVALID
  BY DEF PTE_DESCRIPTOR_INVALID
<1>3. tb[x][i] \notin BlockPtes /\ tb[x][i] \notin PagePtes
  BY <1>1, PteKinds, Zenon
<1>4. PICK s \in used : Linked(tb, depth, place, own, x, i, s)
  BY <1>2, <1>3, Zenon DEF Trees
<1>5. tb[x][i] = TablePte(s)
  BY <1>4, Zenon DEF Linked
<1>6. s = t
  BY <1>5, PteKinds, Zenon
<1> QED BY <1>4, <1>6, Zenon

\* The tables of the tree under a process's root are the pages it owns.
LEMMA Owned ==
  ASSUME NEW tb, NEW free, NEW depth, NEW place, NEW own,
         Trees(tb, Tables \ free, depth, place, own), NEW r \in UserRoots
  PROVE  TreeOf(tb, free, r) = {t \in Frames \ free : own[t] = r}
<1> DEFINE used == Tables \ free
           Mine == {t \in Frames \ free : own[t] = r}
           At(d) == {t \in Mine : depth[t] = d}
<1>1. r \in Roots /\ r # KernelRoot /\ r \in used /\ depth[r] = 0 /\ own[r] = r
  BY NamesAssumption, Zenon DEF Roots, KernelRoot, Trees
<1>2. Frames \ free \subseteq used /\ Frames \cap Roots = {}
  BY NamesAssumption, Zenon DEF Tables
<1>3. ASSUME NEW S, S \subseteq Mine \cup {r} PROVE Below(tb, free, S) \subseteq Mine
  <2> SUFFICES ASSUME NEW t \in Below(tb, free, S) PROVE t \in Mine
    BY Zenon
  <2>1. PICK s \in S, i \in Index : tb[s][i].is_valid = 1 /\ tb[s][i].addr = t
    BY Zenon DEF Below
  <2>2. t \in Frames \ free /\ t \in Tables
    BY <1>2, Zenon DEF Below
  <2>3. s \in used /\ own[s] = r
    BY <1>1, <1>2, <1>3, <2>1, ZenonT(30)
  <2>4. Linked(tb, depth, place, own, s, i, t)
    BY <2>1, <2>2, <2>3, ValidLink
  <2> QED BY <2>2, <2>3, <2>4, Zenon DEF Linked
<1>4. ASSUME NEW t \in Mine
      PROVE  \E x \in used, i \in Index : /\ tb[x][i].is_valid = 1 /\ tb[x][i].addr = t
                                         /\ depth[t] = depth[x] + 1 /\ depth[x] \in 0 .. 3 /\ depth[t] \in 0 .. 3
                                         /\ (x = r \/ x \in Mine)
                                         /\ (depth[x] = 0 <=> x = r)
  <2>1. t \in used \ Roots
    BY <1>2, Zenon
  <2>2. PICK x \in used, i \in Index : Linked(tb, depth, place, own, x, i, t)
    BY <2>1, Zenon DEF Trees
  <2>3. tb[x][i].is_valid = 1 /\ tb[x][i].addr = t
    <3>1. tb[x][i] = TablePte(t)
      BY <2>2, Zenon DEF Linked
    <3> QED BY <3>1 DEF TablePte
  <2>4. depth[t] = depth[x] + 1 /\ own[x] = r
    BY <1>4, <2>2, Zenon DEF Linked
  <2>5. depth[x] \in 0 .. 3 /\ depth[t] \in 0 .. 3
    BY <2>1, <2>2, Zenon DEF Trees
  <2>6. CASE x \in Roots
    <3>1. x = r
      BY <2>4, <2>6, Zenon DEF Trees
    <3> QED BY <1>1, <2>3, <2>4, <2>5, <3>1, Zenon
  <2>7. CASE x \notin Roots
    <3>1. x \notin {boot_ttbr1_l1, boot_ttbr1_l2}
      BY <1>1, <2>4, Zenon DEF Trees
    <3>2. x \in Mine
      BY <2>2, <2>4, <2>7, <3>1, Zenon DEF Tables
    <3>3. PICK y \in used, j \in Index : Linked(tb, depth, place, own, y, j, x)
      BY <2>7, Zenon DEF Trees
    <3>4. depth[x] = depth[y] + 1 /\ depth[y] \in 0 .. 3
      BY <3>3, Zenon DEF Linked, Trees
    <3> QED BY <1>1, <2>3, <2>4, <2>5, <2>7, <3>2, <3>4, SMTT(30)
  <2> QED BY <2>6, <2>7, Zenon
<1>5. ASSUME NEW S, NEW t \in Mine, NEW x \in S, NEW i \in Index, tb[x][i].is_valid = 1, tb[x][i].addr = t
      PROVE  t \in Below(tb, free, S)
  BY <1>5, Zenon DEF Below
<1>6. PICK b1, b2, b3 : /\ b1 = Below(tb, free, {r}) /\ b2 = Below(tb, free, b1) /\ b3 = Below(tb, free, b2)
                        /\ TreeOf(tb, free, r) = b1 \cup b2 \cup b3
  BY Zenon DEF TreeOf
<1>7. b1 \subseteq Mine /\ b2 \subseteq Mine /\ b3 \subseteq Mine
  <2>1. b1 \subseteq Mine
    BY <1>3, <1>6, Zenon
  <2>2. b2 \subseteq Mine
    BY <1>3, <1>6, <2>1, Zenon
  <2> QED BY <1>3, <1>6, <2>1, <2>2, Zenon
<1>8. ASSUME NEW t \in Mine, depth[t] = 1 PROVE t \in b1
  <2>1. PICK x \in used, i \in Index : /\ tb[x][i].is_valid = 1 /\ tb[x][i].addr = t
                                       /\ depth[t] = depth[x] + 1 /\ depth[x] \in 0 .. 3
                                       /\ (x = r \/ x \in Mine)
                                       /\ (depth[x] = 0 <=> x = r)
    BY <1>4, SMTT(30)
  <2>2. x \in {r}
    BY <1>8, <2>1
  <2> QED BY <1>5, <1>6, <2>1, <2>2, Zenon
<1>9. ASSUME NEW t \in Mine, depth[t] = 2 PROVE t \in b2
  <2>1. PICK x \in used, i \in Index : /\ tb[x][i].is_valid = 1 /\ tb[x][i].addr = t
                                       /\ depth[t] = depth[x] + 1 /\ depth[x] \in 0 .. 3
                                       /\ (x = r \/ x \in Mine)
                                       /\ (depth[x] = 0 <=> x = r)
    BY <1>4
  <2>2. depth[x] = 1 /\ x # r
    BY <1>9, <2>1
  <2> QED BY <1>5, <1>6, <1>8, <2>1, <2>2, Zenon
<1>10. ASSUME NEW t \in Mine, depth[t] = 3 PROVE t \in b3
  <2>1. PICK x \in used, i \in Index : /\ tb[x][i].is_valid = 1 /\ tb[x][i].addr = t
                                       /\ depth[t] = depth[x] + 1 /\ depth[x] \in 0 .. 3
                                       /\ (x = r \/ x \in Mine)
                                       /\ (depth[x] = 0 <=> x = r)
    BY <1>4
  <2>2. depth[x] = 2 /\ x # r
    BY <1>10, <2>1
  <2> QED BY <1>5, <1>6, <1>9, <2>1, <2>2, ZenonT(30)
<1>11. ASSUME NEW t \in Mine PROVE depth[t] \in 1 .. 3
  <2>1. PICK x \in used : depth[t] = depth[x] + 1 /\ depth[x] \in 0 .. 3 /\ depth[t] \in 0 .. 3
    BY <1>4, Zenon
  <2> QED BY <2>1
<1>12. Mine \subseteq b1 \cup b2 \cup b3
  BY <1>8, <1>9, <1>10, <1>11, SMTT(30)
<1> QED BY <1>6, <1>7, <1>12, Zenon

(***************************************************************************)
(* Counting links and pages                                                *)
(***************************************************************************)
INSTANCE FiniteSetTheorems
\* TablesFormTree in every reachable state: get_next_ptp links a page get_pages
\* gave it once, and no root and no free page is ever linked.
THEOREM TreeCorrect == Spec => []TablesFormTree
<1>1. Inv => TablesFormTree
  <2> SUFFICES ASSUME Inv, NEW t \in Tables
               PROVE  Cardinality(LinksTo(t)) = IF t \in Roots \cup pool THEN 0 ELSE 1
    BY Zenon DEF TablesFormTree
  <2>1. PICK depth, place, own : Trees(ent, Tables \ pool, depth, place, own)
    BY Zenon DEF Inv, TreeInv
  <2>2. ASSUME NEW l \in LinksTo(t) PROVE l = place[t] /\ t \notin Roots /\ t \notin pool
    <3>1. PICK x \in Tables \ pool, i \in Index : l = <<x, i>>
      BY <2>2 DEF LinksTo
    <3>2. ent[x][i].is_valid = 1 /\ ent[x][i].addr = t
      BY <2>2, <3>1, ZenonT(30) DEF LinksTo
    <3>3. t \in Tables \ pool /\ Linked(ent, depth, place, own, x, i, t)
      BY <2>1, <3>2, ValidLink, SMTT(30)
    <3> QED BY <3>1, <3>3, Zenon DEF Linked
  <2>3. CASE t \in Roots \cup pool
    <3>1. LinksTo(t) = {}
      BY <2>2, <2>3, Zenon
    <3> QED BY <2>3, <3>1, FS_EmptySet, Zenon
  <2>4. CASE t \notin Roots \cup pool
    <3>1. PICK x \in Tables \ pool, i \in Index : Linked(ent, depth, place, own, x, i, t)
      BY <2>1, <2>4, ZenonT(30) DEF Trees
    <3>2. ent[x][i].is_valid = 1 /\ ent[x][i].addr = t
      BY <3>1 DEF Linked, TablePte
    <3>3. <<x, i>> \in LinksTo(t)
      BY <3>2, Zenon DEF LinksTo
    <3>4. LinksTo(t) = {place[t]}
      BY <2>2, <3>3, Zenon
    <3> QED BY <2>4, <3>4, FS_Singleton, Zenon
  <2> QED BY <2>3, <2>4, Zenon
<1> QED BY <1>1, Invariance, PTL

\* One element more.
LEMMA OneMore ==
  ASSUME NEW S, IsFiniteSet(S), NEW x, x \notin S
  PROVE  Cardinality(S \cup {x}) = Cardinality(S) + 1 /\ Cardinality(S) \in Nat
BY FS_AddElement, FS_CardinalityType, Zenon

\* A set of pages of the address space is finite.
LEMMA FinitePages == ASSUME NEW S, S \subseteq VPages PROVE IsFiniteSet(S)
<1>1. VA_END \in Nat
  BY SpanOf, Zenon
<1>2. IsFiniteSet(0 .. VA_END - 1)
  BY <1>1, FS_Interval, SMTT(30)
<1>3. S \in SUBSET (0 .. VA_END - 1)
  BY Zenon DEF VPages
<1> QED BY <1>2, <1>3, FS_Subset, ZenonT(30)

\* A set of pages taken for tables is finite.
LEMMA FiniteTables == ASSUME NEW S, S \subseteq Frames PROVE IsFiniteSet(S)
<1>1. IsFiniteSet(Frames) /\ S \in SUBSET Frames
  BY PageTableAssumption, Zenon
<1> QED BY <1>1, FS_Subset, Zenon

\* The pages tables tb map under root r.
Mapped(tb, r) == {v \in VPages : Trans(tb, r, v) # NULL}

\* PagesOf is Mapped of the entries, before and after a step.
LEMMA MappedIs ==
  ASSUME NEW CONSTANT r
  PROVE  PagesOf(r) = Mapped(ent, r) /\ PagesOf(r)' = Mapped(ent', r)
<1>1. \A v \in VPages : v \in Nat
  BY SpanOf DEF VPages
<1>2. ASSUME NEW CONSTANT v \in VPages
      PROVE  Translate(r, v) = Trans(ent, r, v) /\ Translate(r, v)' = Trans(ent', r, v)
  BY <1>1, LeafIs, LeafIsNext, Zenon
<1>3. PagesOf(r) = Mapped(ent, r)
  BY <1>2, Zenon DEF PagesOf, Mapped
<1>4. PagesOf(r)' = Mapped(ent', r)
  BY <1>2, Zenon DEF PagesOf, Mapped
<1> QED BY <1>3, <1>4, Zenon

\* RssExact for one process, with the sets it counts as arguments.
Rss(m, pages, tables) == m = PAGE_SIZE * (Cardinality(pages) + Cardinality(tables))

\* A page is counted when it is added.
LEMMA RssGrows ==
  ASSUME NEW m, NEW pages, NEW tables, Rss(m, pages, tables),
         pages \subseteq VPages, tables \subseteq Frames
  PROVE  /\ \A v : v \notin pages => Rss(m + PAGE_SIZE, pages \cup {v}, tables)
         /\ \A f : f \notin tables => Rss(m + PAGE_SIZE, pages, tables \cup {f})
<1>1. IsFiniteSet(pages) /\ IsFiniteSet(tables)
  BY FinitePages, FiniteTables, Zenon
<1>2. PICK a \in Nat, b \in Nat : a = Cardinality(pages) /\ b = Cardinality(tables)
  BY <1>1, FS_CardinalityType, Zenon
<1>3. PAGE_SIZE \in Nat
  BY PageTableAssumption, Zenon
<1>4. m = PAGE_SIZE * (a + b)
  BY <1>2, Zenon DEF Rss
<1>5. /\ m + PAGE_SIZE = PAGE_SIZE * ((a + 1) + b)
      /\ m + PAGE_SIZE = PAGE_SIZE * (a + (b + 1))
  BY <1>3, <1>4, SMTT(30)
<1>6. ASSUME NEW v, v \notin pages PROVE Rss(m + PAGE_SIZE, pages \cup {v}, tables)
  <2>1. Cardinality(pages \cup {v}) = a + 1
    BY <1>1, <1>2, <1>6, OneMore, SMTT(30)
  <2> QED BY <1>2, <1>5, <2>1, ZenonT(30) DEF Rss
<1>7. ASSUME NEW f, f \notin tables PROVE Rss(m + PAGE_SIZE, pages, tables \cup {f})
  <2>1. Cardinality(tables \cup {f}) = b + 1
    BY <1>1, <1>2, <1>7, OneMore, SMTT(30)
  <2> QED BY <1>2, <1>5, <2>1, ZenonT(30) DEF Rss
<1> QED BY <1>6, <1>7, Zenon

\* What a step does to the memory of process r: nothing, or it takes one page
\* more, for a table or for a mapping.
LEMMA RssStep ==
  ASSUME Inv, RssExact, [Next]_vars, NEW CONSTANT r \in UserRoots,
         \A v \in VPages : <<r, v>> \notin remapped'
  PROVE  Rss(rss'[r], PagesOf(r)', TablesOf(r)')
<1>1. r \in Roots /\ rss \in [UserRoots -> Nat]
  BY Zenon DEF Roots, Inv, TypeInv
<1>2. remapped \subseteq remapped'
  BY Zenon DEF Next, MapRange, GetNextPtp, MapPage, set_page_table, TlbFill, TlbEvict, Halt, vars
<1>3. Rss(rss[r], PagesOf(r), TablesOf(r))
  BY <1>2, Zenon DEF RssExact, Rss
<1>4. PICK depth, place, own : Trees(ent, Tables \ pool, depth, place, own)
  BY Zenon DEF Inv, TreeInv
<1>5. PICK pages, tables : /\ pages = Mapped(ent, r) /\ tables = {t \in Frames \ pool : own[t] = r}
  BY Zenon
<1>6. /\ pages \subseteq VPages /\ tables \subseteq Frames /\ tables \cap pool = {}
  BY <1>5, Zenon DEF Mapped
<1>7. PagesOf(r) = pages /\ TablesOf(r) = tables
  BY <1>4, <1>5, MappedIs, TreeOfIs, Owned, SMTT(30)
<1>8. Rss(rss[r], pages, tables)
  BY <1>3, <1>7, Zenon
<1>9. CASE (ent' = ent /\ pool' = pool /\ rss' = rss)
  <2>1. PagesOf(r)' = PagesOf(r) /\ TablesOf(r)' = TablesOf(r)
    BY <1>9, MappedIs, TreeOfIs, Zenon
  <2> QED BY <1>3, <1>9, <2>1, Zenon
<1>10. CASE MapPage
  <2>1. PICK e : e = PagePte(call.pa, call.flags, KIND(call.root))
    BY Zenon
  <2>2. /\ Trees(ent', Tables \ pool, depth, place, own)
        /\ \A q \in Roots, v \in VPages :
              Trans(ent', q, v) = IF q = call.root /\ v = call.va THEN Leaf(e, call.pa) ELSE Trans(ent, q, v)
        /\ e \in PagePtes
    BY <1>4, <1>10, <2>1, PageTables, SMTT(30)
  <2>3. pool' = pool /\ pc = "fill"
    BY <1>10, ZenonT(30) DEF MapPage
  <2>4. TablesOf(r)' = tables
    BY <1>5, <2>2, <2>3, TreeOfIs, Owned, SMTT(30)
  <2>5. call.va \in VPages /\ call.va \in Nat /\ call.pa \in Nat /\ call.root \in Roots
    BY <2>3, CallPage, ZenonT(30)
  <2>6. CASE r # call.root
    <3>1. Mapped(ent', r) = pages
      BY <1>1, <1>5, <2>2, <2>6, Zenon DEF Mapped
    <3>2. rss'[r] = rss[r]
      BY <1>10, <2>6, ZenonT(30) DEF MapPage, CountRss
    <3> QED BY <1>8, <2>4, <3>1, <3>2, MappedIs, ZenonT(30)
  <2>7. CASE r = call.root
    <3>1. rss'[r] = rss[r] + PAGE_SIZE
      BY <1>10, <2>7, Zenon DEF MapPage, CountRss
    <3>2. Translate(call.root, call.va) = NULL
      BY <1>10, <2>5, <2>7, ZenonT(30) DEF MapPage
    <3>3. Trans(ent, r, call.va) = NULL
      BY <2>5, <2>7, <3>2, LeafIs, SMTT(30)
    <3>4. call.va \notin pages
      BY <1>5, <3>3, Zenon DEF Mapped
    <3>5. Leaf(e, call.pa) # NULL
      BY <2>2, <2>5, LeafNotNull, SMTT(30)
    <3>6. Mapped(ent', r) = pages \cup {call.va}
      BY <1>1, <1>5, <2>2, <2>5, <2>7, <3>5, ZenonT(30) DEF Mapped
    <3>7. Rss(rss[r] + PAGE_SIZE, pages \cup {call.va}, tables)
      BY <1>6, <1>8, <3>4, RssGrows, SMTT(30)
    <3> QED BY <2>4, <3>1, <3>6, <3>7, MappedIs, SMTT(30)
  <2> QED BY <2>6, <2>7, Zenon
<1>11. ASSUME NEW f \in pool, pc = "walk", IS_PTE_INVALID(Entry(ptp, level, call.va)),
              pool' = pool \ {f}, NewTable(f), CountRss
       PROVE  Rss(rss'[r], PagesOf(r)', TablesOf(r)')
  <2>1. /\ Trees(ent', Tables \ pool', With(depth, f, depth[ptp] + 1),
                 With(place, f, <<ptp, GET_INDEX(level, call.va)>>), With(own, f, own[ptp]))
        /\ own[ptp] = call.root
    <3>1. Trees(ent', Tables \ pool', With(depth, f, depth[ptp] + 1),
                With(place, f, <<ptp, GET_INDEX(level, call.va)>>), With(own, f, own[ptp]))
      BY <1>4, <1>11, LinkTables, ZenonT(30)
    <3>2. call.root \in Roots /\ call.va \in Nat /\ Reach(ent, level, call.root, Ix(call.va), ptp)
      BY <1>11, CallPage, ZenonT(30)
    <3>3. Ix(call.va) \in [0 .. 3 -> Index]
      BY <3>2, IxOf, SMTT(30)
    <3>4. own[ptp] = call.root
      BY <1>4, <3>2, <3>3, Reached, SMTT(30)
    <3> QED BY <3>1, <3>4, ZenonT(30)
  <2>2. PICK ow : ow = With(own, f, own[ptp])
    BY ZenonT(30)
  <2>3. TablesOf(r)' = {t \in Frames \ pool' : ow[t] = r}
    BY <2>1, <2>2, TreeOfIs, Owned, SMTT(30)
  <2>4. Mapped(ent', r) = pages
    <3>1. SameTrans(ent, ent')
      BY <1>11, LinkMapsNothing, SMTT(30)
    <3> QED BY <1>1, <1>5, <3>1, ZenonT(30) DEF Mapped, SameTrans
  <2>5. /\ f \in Frames /\ f \in DOMAIN own
    BY <1>4, <1>11, SMTT(30) DEF Inv, TypeInv, Trees, Tables
  <2>6. ow[f] = call.root /\ \A t : t # f /\ t \in DOMAIN own => ow[t] = own[t]
    BY <2>1, <2>2, <2>5, SMTT(30) DEF With
  <2>7. Frames \subseteq DOMAIN own
    BY <1>4, SMTT(30) DEF Trees, Tables
  <2>8. CASE r # call.root
    <3>1. TablesOf(r)' = tables
      BY <1>5, <1>11, <2>3, <2>6, <2>7, <2>8, ZenonT(30)
    <3>2. rss'[r] = rss[r]
      BY <1>11, <2>8, ZenonT(30) DEF CountRss
    <3> QED BY <1>8, <2>4, <3>1, <3>2, MappedIs, SMTT(30)
  <2>9. CASE r = call.root
    <3>1. TablesOf(r)' = tables \cup {f}
      BY <1>5, <1>11, <2>3, <2>5, <2>6, <2>7, <2>9, SMTT(30)
    <3>2. f \notin tables
      BY <1>6, <1>11, Zenon
    <3>3. rss'[r] = rss[r] + PAGE_SIZE
      BY <1>11, <2>9, ZenonT(30) DEF CountRss
    <3>4. Rss(rss[r] + PAGE_SIZE, pages, tables \cup {f})
      BY <1>6, <1>8, <3>2, RssGrows, SMTT(30)
    <3> QED BY <2>4, <3>1, <3>3, <3>4, MappedIs, SMTT(30)
  <2> QED BY <2>8, <2>9, SMTT(30)
<1>12. CASE GetNextPtp
  BY <1>9, <1>11, <1>12, SMTT(30) DEF GetNextPtp, Halt, TakeFrame
<1>13. ASSUME NEW q \in Requests, MapRange(q) PROVE ent' = ent /\ pool' = pool /\ rss' = rss
  BY <1>13 DEF MapRange
<1>14. ASSUME NEW q \in UserRoots, set_page_table(q) PROVE ent' = ent /\ pool' = pool /\ rss' = rss
  BY <1>14, Zenon DEF set_page_table
<1>15. ASSUME TlbFill \/ TlbEvict \/ UNCHANGED vars PROVE ent' = ent /\ pool' = pool /\ rss' = rss
  BY <1>15, Zenon DEF TlbFill, TlbEvict, vars
<1> QED BY <1>9, <1>10, <1>12, <1>13, <1>14, <1>15, SMTT(30) DEF Next

\* RssExact in every reachable state: *rss of map_range_in_pgtbl_user is
\* PAGE_SIZE for every page mapped and for every table allocated.
THEOREM RssCorrect == Spec => []RssExact
<1>1. Init => RssExact
  <2> SUFFICES ASSUME Init, NEW r \in UserRoots
               PROVE  rss[r] = PAGE_SIZE * (Cardinality(PagesOf(r)) + Cardinality(TablesOf(r)))
    BY Zenon DEF RssExact
  <2>1. rss[r] = 0 /\ pool = Frames /\ r \in Tables /\ ent[r] = EmptyTable
    BY Zenon DEF Init, Tables, Roots
  <2>2. ASSUME NEW v \in VPages PROVE Translate(r, v) = NULL
    <3>1. v \in Nat
      BY SpanOf, SMTT(30) DEF VPages
    <3>2. Ix(v)[0] \in Index
      BY <3>1, IxOf, SMTT(30)
    <3>3. ent[r][Ix(v)[0]] = PTE_DESCRIPTOR_INVALID
      BY <2>1, <3>2, SMTT(30) DEF EmptyTable
    <3>4. EndsAt(ent, r, Ix(v), 0, r, PTE_DESCRIPTOR_INVALID)
      BY <3>3, Zenon DEF EndsAt, Reach, Ended
    <3>5. PTE_DESCRIPTOR_INVALID \in Pte
      BY Zenon DEF Pte
    <3>6. Trans(ent, r, v) = NULL
      BY <3>1, <3>4, <3>5, TransEnds, SMTT(30)
    <3> QED BY <3>1, <3>6, LeafIs, SMTT(30)
  <2>3. PagesOf(r) = {}
    BY <2>2, Zenon DEF PagesOf
  <2>4. TablesOf(r) = {}
    BY <2>1, ZenonT(30) DEF TablesOf
  <2>5. 0 = PAGE_SIZE * (0 + 0)
    BY PageTableAssumption
  <2> QED BY <2>1, <2>3, <2>4, <2>5, FS_EmptySet, SMTT(30)
<1>2. Inv /\ RssExact /\ [Next]_vars => RssExact'
  <2> SUFFICES ASSUME Inv, RssExact, [Next]_vars, NEW CONSTANT r \in UserRoots,
                      \A v \in VPages : <<r, v>> \notin remapped'
               PROVE  rss'[r] = PAGE_SIZE * (Cardinality(PagesOf(r)') + Cardinality(TablesOf(r)'))
    BY Zenon DEF RssExact
  <2> QED BY RssStep, Zenon DEF Rss
<1> QED BY <1>1, <1>2, Invariance, PTL DEF Spec
=============================================================================
