----------------------------- MODULE PageTable -----------------------------
(***************************************************************************)
(* The page tables of arch/aarch64/mm/page_table.c: four levels, tables    *)
(* that are allocated on the way down, 2 MB and 1 GB blocks left by        *)
(* init_kernel_pt, and beside them a TLB.                                  *)
(*                                                                         *)
(* map_range_in_pgtbl_common stores one entry per step, and the hardware   *)
(* may walk the tables between any two stores.  The TLB is one slot: it    *)
(* stands for whichever translation the hardware chose to keep.            *)
(***************************************************************************)
EXTENDS BootTables, FiniteSets

CONSTANTS
  PAGE_SIZE,
  UserRoots,   \* the L0 tables of processes
  Asid,        \* Asid[r]: the ASID set_page_table is given with table r
  Frames,      \* the pages get_pages(0) can return
  Requests,    \* the calls: [root, va, pa, len, flags]
  MaxCalls,    \* a bound on their number
  NULL

KernelRoot == boot_ttbr1_l0
Roots == UserRoots \cup {KernelRoot}
Tables == Roots \cup {boot_ttbr1_l1, boot_ttbr1_l2} \cup Frames
KIND(root) == IF root = KernelRoot THEN "KERNEL_PTE" ELSE "USER_PTE"

VMR == {"READ", "WRITE", "EXEC", "DEVICE", "NOCACHE"}

\* What the four levels of a table span.
VA_END == SIZE_1G * PTP_ENTRIES * PTP_ENTRIES

\* A range lies in the half its root translates, and a mapped page is always
\* readable, as the comment in set_pte_flags has it.
ASSUME PageTableAssumption ==
  /\ PAGE_SIZE \in Nat \ {0} /\ SIZE_2M = PAGE_SIZE * PTP_ENTRIES
  /\ \A q \in Requests :
       /\ q.root \in Roots
       /\ {q.va, q.pa, q.len} \subseteq Nat /\ q.va + q.len <= VA_END
       /\ q.flags \subseteq VMR /\ q.flags \cap {"READ", "WRITE"} # {}
  /\ \A r, t \in UserRoots : r # t => Asid[r] # Asid[t]
  /\ MaxCalls \in Nat /\ IsFiniteSet(Frames)

\* The tables are different pages; a table and an address a page is mapped to
\* are told apart, and so are NULL and what it is compared with.
ASSUME NamesAssumption ==
  /\ UserRoots \cap {boot_ttbr1_l0, boot_ttbr1_l1, boot_ttbr1_l2} = {}
  /\ Frames \cap (Roots \cup {boot_ttbr1_l1, boot_ttbr1_l2}) = {}
  /\ \A t \in Tables : t \notin Nat /\ t # NULL
  /\ \A r \in UserRoots : Asid[r] # NULL

VARIABLES
  ent,       \* ent[t]: the entries of the page table page t
  pool,      \* the pages get_pages can still return
  ttbr0,     \* the table ttbr0_el1 points to
  tlb,       \* the translation the TLB holds, or NULL
  rss,       \* *rss of each user table
  pc,        \* where the caller is in map_range_in_pgtbl_common
  call,      \* its root, va, pa, flags and total_page_cnt, and the arguments
  level,     \* the level of the table reached ...
  ptp,       \* ... and that table
  calls,     \* calls made so far
  remapped   \* pages mapped although they had a translation

walkVars == <<level, ptp>>
callVars == <<pc, call, walkVars, calls>>
hwVars == <<ttbr0, tlb>>
vars == <<ent, pool, hwVars, rss, callVars, remapped>>

(***************************************************************************)
(* Entries and indices                                                     *)
(***************************************************************************)
\* L0_PER_ENTRY_PAGES ... L3_PER_ENTRY_PAGES, in bytes: each level spans
\* PTP_ENTRIES times what the next one does.
EntrySize ==
  [l \in 0 .. 3 |-> CASE l = 0 -> SIZE_1G * PTP_ENTRIES [] l = 1 -> SIZE_1G
                      [] l = 2 -> SIZE_2M [] l = 3 -> PAGE_SIZE]
GET_INDEX(l, va) == (va \div EntrySize[l]) % PTP_ENTRIES
GET_VA_OFFSET(l, va) == va % EntrySize[l]

\* The formats of pte_t: nothing, a table, a block or a page.
Pte == {PTE_DESCRIPTOR_INVALID} \cup {TablePte(t) : t \in Tables} \cup
       [is_valid : {1}, is_table : {0, 1}, addr : Nat, AP : {0, 1, 3},
        PXN : {0, 1}, UXN : {0, 1}, nG : {0, 1}, attr_index : {0, 3, 4}]

__vmr_prot_to_ap(flags) ==
  IF "READ" \in flags /\ "WRITE" \notin flags THEN 3
  ELSE IF "WRITE" \in flags THEN 1 ELSE 0

\* Variant: nG is left 0.
PagePteGlobal(pa, flags, kind) ==
  [is_valid |-> 1, is_table |-> 1, addr |-> pa,
   AP |-> __vmr_prot_to_ap(flags),
   PXN |-> IF kind = "KERNEL_PTE" /\ "EXEC" \in flags THEN 0 ELSE 1,
   UXN |-> IF kind = "USER_PTE" /\ "EXEC" \in flags THEN 0 ELSE 1,
   nG |-> 0, attr_index |-> NORMAL_MEMORY]

\* A level 3 entry with the attributes of set_pte_flags.
PagePte(pa, flags, kind) ==
  [is_valid |-> 1, is_table |-> 1, addr |-> pa,
   AP |-> __vmr_prot_to_ap(flags),
   PXN |-> IF kind = "KERNEL_PTE" /\ "EXEC" \in flags THEN 0 ELSE 1,
   UXN |-> IF kind = "USER_PTE" /\ "EXEC" \in flags THEN 0 ELSE 1,
   nG |-> 1,
   attr_index |-> IF "DEVICE" \in flags THEN DEVICE_MEMORY
                  ELSE IF "NOCACHE" \in flags THEN NORMAL_MEMORY_NOCACHE
                  ELSE NORMAL_MEMORY]

Entry(table, l, va) == ent[table][GET_INDEX(l, va)]

(***************************************************************************)
(* The hardware: translation table walk and TLB                            *)
(***************************************************************************)
\* What the bits of a leaf entry permit (AP[2] forbids writing).
Leaf(pte, pa) ==
  [pa |-> pa, write |-> pte.AP \in {0, 1}, kernel_exec |-> pte.PXN = 0,
   user_exec |-> pte.UXN = 0, attr |-> pte.attr_index]

\* NULL, for a fault or for no call, is none of these.
ASSUME NullAssumption ==
  /\ NULL \notin (1 .. 3) \X Pte
  /\ NULL \notin [pa : Nat, write : BOOLEAN, kernel_exec : BOOLEAN,
                  user_exec : BOOLEAN, attr : {0, 3, 4}]
  /\ NULL \notin [root : Roots, va : Nat, pa : Nat, flags : SUBSET VMR,
                  left : Nat, asked : Requests]

\* The entry that ends the walk for va, with its level; NULL is a fault.
LeafEntry(root, va) ==
  LET e0 == Entry(root, 0, va)
      e1 == Entry(e0.addr, 1, va)
      e2 == Entry(e1.addr, 2, va)
      e3 == Entry(e2.addr, 3, va)
  IN  IF IS_PTE_INVALID(e0) \/ ~IS_PTE_TABLE(e0) \/ IS_PTE_INVALID(e1) THEN NULL
      ELSE IF ~IS_PTE_TABLE(e1) THEN <<1, e1>>
      ELSE IF IS_PTE_INVALID(e2) THEN NULL
      ELSE IF ~IS_PTE_TABLE(e2) THEN <<2, e2>>
      ELSE IF IS_PTE_INVALID(e3) \/ ~IS_PTE_TABLE(e3) THEN NULL ELSE <<3, e3>>

Translate(root, va) ==
  LET leaf == LeafEntry(root, va)
  IN  IF leaf = NULL THEN NULL
      ELSE Leaf(leaf[2], leaf[2].addr + GET_VA_OFFSET(leaf[1], va))

VPages == {va \in 0 .. VA_END - 1 : va % PAGE_SIZE = 0}

\* The root a walk of the upper or the lower half of the addresses starts from.
Active == {KernelRoot, ttbr0}

TlbFill ==
  /\ tlb = NULL
  /\ \E r \in Active, v \in VPages :
       /\ Translate(r, v) # NULL
       /\ tlb' = [high |-> r = KernelRoot, va |-> v,
                  asid |-> IF LeafEntry(r, v)[2].nG = 1 THEN Asid[ttbr0] ELSE NULL,
                  leaf |-> Translate(r, v)]
  /\ UNCHANGED <<ent, pool, ttbr0, rss, callVars, remapped>>

TlbEvict ==
  /\ tlb # NULL
  /\ tlb' = NULL
  /\ UNCHANGED <<ent, pool, ttbr0, rss, callVars, remapped>>

\* Does an access to va through root hit the slot?
TlbHit(root, va) ==
  /\ tlb # NULL
  /\ tlb.high = (root = KernelRoot) /\ tlb.va = va /\ tlb.asid \in {NULL, Asid[ttbr0]}

\* set_page_table: ttbr0_el1 is written, the TLB is left alone.
set_page_table(root) ==
  /\ ttbr0' = root
  /\ UNCHANGED <<ent, pool, tlb, rss, callVars, remapped>>

(***************************************************************************)
(* query_in_pgtbl: get_next_ptp without allocation, level by level         *)
(***************************************************************************)
\* Variant: a level 1 block is taken for a 2 MB block.
query_in_pgtblSmallBlock(root, va) ==
  LET e0 == Entry(root, 0, va)
      e1 == Entry(e0.addr, 1, va)
      e2 == Entry(e1.addr, 2, va)
      e3 == Entry(e2.addr, 3, va)
  IN  IF IS_PTE_INVALID(e0) \/ IS_PTE_INVALID(e1) THEN NULL
      ELSE IF ~IS_PTE_TABLE(e1) THEN e1.addr + GET_VA_OFFSET(2, va)
      ELSE IF IS_PTE_INVALID(e2) THEN NULL
      ELSE IF ~IS_PTE_TABLE(e2) THEN e2.addr + GET_VA_OFFSET(2, va)
      ELSE IF IS_PTE_INVALID(e3) THEN NULL
      ELSE e3.addr + GET_VA_OFFSET(3, va)

\* NULL stands for -ENOMEM.
query_in_pgtbl(root, va) ==
  LET e0 == Entry(root, 0, va)
      e1 == Entry(e0.addr, 1, va)
      e2 == Entry(e1.addr, 2, va)
      e3 == Entry(e2.addr, 3, va)
  IN  IF IS_PTE_INVALID(e0) \/ IS_PTE_INVALID(e1) THEN NULL
      ELSE IF ~IS_PTE_TABLE(e1) THEN e1.addr + GET_VA_OFFSET(1, va)
      ELSE IF IS_PTE_INVALID(e2) THEN NULL
      ELSE IF ~IS_PTE_TABLE(e2) THEN e2.addr + GET_VA_OFFSET(2, va)
      ELSE IF IS_PTE_INVALID(e3) THEN NULL
      ELSE e3.addr + GET_VA_OFFSET(3, va)

(***************************************************************************)
(* map_range_in_pgtbl_kernel and map_range_in_pgtbl_user                   *)
(***************************************************************************)
\* A page of get_pages holds what its last user left there: here, what
\* reads as blocks.
Garbage == [i \in Index |-> BlockPte(NORMAL_MEMORY, 0)]

Init ==
  /\ ent = [t \in Tables |->
              IF t \in UserRoots THEN EmptyTable
              ELSE IF t \in Frames THEN Garbage ELSE init_kernel_pt(t)]
  /\ pool = Frames
  /\ ttbr0 \in UserRoots
  /\ tlb = NULL
  /\ rss = [r \in UserRoots |-> 0]
  /\ pc = "idle" /\ call = NULL /\ level = 0 /\ ptp = NULL
  /\ calls = 0
  /\ remapped = {}

\* Variant: subtracted.
CountRssBack == rss' = [r \in UserRoots |-> IF r = call.root THEN rss[r] - PAGE_SIZE ELSE rss[r]]

\* Variant: pages are counted, not bytes.
CountRssPages == rss' = [r \in UserRoots |-> IF r = call.root THEN rss[r] + 1 ELSE rss[r]]

\* if (rss) *rss += PAGE_SIZE; a kernel call passes NULL.
CountRss == rss' = [r \in UserRoots |-> IF r = call.root THEN rss[r] + PAGE_SIZE ELSE rss[r]]

\* BUG_ON
Halt ==
  /\ pc' = "halt"
  /\ UNCHANGED <<ent, pool, hwVars, rss, call, walkVars, calls, remapped>>

PageCount(len) == len \div PAGE_SIZE + (IF len % PAGE_SIZE > 0 THEN 1 ELSE 0)

MapRange(q) ==
  /\ pc = "idle" /\ calls < MaxCalls
  /\ pc' = IF q.va % PAGE_SIZE # 0 THEN "halt"
           ELSE IF PageCount(q.len) = 0 THEN "idle" ELSE "walk"
  /\ call' = [root |-> q.root, va |-> q.va, pa |-> q.pa, flags |-> q.flags,
              left |-> PageCount(q.len), asked |-> q]
  /\ level' = 0 /\ ptp' = q.root
  /\ calls' = calls + 1
  /\ UNCHANGED <<ent, pool, hwVars, rss, remapped>>

\* Variant: the new table is linked without the memset.
NewTableUncleared(f) ==
  ent' = [ent EXCEPT ![ptp][GET_INDEX(level, call.va)] = TablePte(f)]

\* A new page table page is cleared and linked.
NewTable(f) ==
  ent' = [ent EXCEPT ![f] = EmptyTable,
                     ![ptp][GET_INDEX(level, call.va)] = TablePte(f)]

\* Variant: the page stays with the allocator.
TakeFrameKept(f) == f = (CHOOSE x \in pool : TRUE) /\ pool' = pool

\* get_pages(0): a page that is free.  Pages are alike and none comes back, so
\* it does not matter which.
TakeFrame(f) == f = (CHOOSE x \in pool : TRUE) /\ pool' = pool \ {f}

\* get_next_ptp with alloc, at levels 0 to 2, and the BUG_ON after it.
GetNextPtp ==
  LET pte == Entry(ptp, level, call.va)
      Descend(table) ==
        /\ ptp' = table
        /\ level' = level + 1
        /\ pc' = IF level = 2 THEN "fill" ELSE "walk"
        /\ UNCHANGED <<hwVars, call, calls, remapped>>
  IN  /\ pc = "walk"
      /\ \/ /\ IS_PTE_INVALID(pte) /\ pool = {}
            /\ Halt
         \/ /\ IS_PTE_INVALID(pte)
            /\ \E f \in pool : TakeFrame(f) /\ NewTable(f) /\ Descend(f)
            /\ CountRss
         \/ /\ ~IS_PTE_INVALID(pte) /\ ~IS_PTE_TABLE(pte)
            /\ Halt
         \/ /\ ~IS_PTE_INVALID(pte) /\ IS_PTE_TABLE(pte)
            /\ Descend(pte.addr)
            /\ UNCHANGED <<ent, pool, rss>>

\* One iteration of the inner loop.
MapPage ==
  /\ pc = "fill"
  /\ ent' = [ent EXCEPT ![ptp][GET_INDEX(3, call.va)] =
                           PagePte(call.pa, call.flags, KIND(call.root))]
  /\ remapped' = IF Translate(call.root, call.va) = NULL THEN remapped
                 ELSE remapped \cup {<<call.root, call.va>>}
  /\ call' = [call EXCEPT !.va = @ + PAGE_SIZE, !.pa = @ + PAGE_SIZE, !.left = @ - 1]
  /\ CountRss
  /\ IF call.left = 1 THEN pc' = "idle" /\ UNCHANGED walkVars
     ELSE IF GET_INDEX(3, call.va) = PTP_ENTRIES - 1
          THEN pc' = "walk" /\ level' = 0 /\ ptp' = call.root
          ELSE UNCHANGED <<pc, walkVars>>
  /\ UNCHANGED <<pool, hwVars, calls>>

Next ==
  \/ \E q \in Requests : MapRange(q)
  \/ GetNextPtp
  \/ MapPage
  \/ \E r \in UserRoots : set_page_table(r)
  \/ TlbFill \/ TlbEvict

Spec == Init /\ [][Next]_vars

(***************************************************************************)
(* Properties                                                              *)
(***************************************************************************)
\* Every entry is one of the formats of pte_t, and every local is in its range.
TypeOK ==
  /\ \A t \in Tables : DOMAIN ent[t] = Index /\ \A i \in Index : ent[t][i] \in Pte
  /\ pool \subseteq Frames
  /\ ttbr0 \in UserRoots
  /\ rss \in [UserRoots -> Nat]
  /\ pc \in {"idle", "walk", "fill", "halt"}
  /\ level \in 0 .. 3
  /\ calls \in 0 .. MaxCalls
  /\ remapped \subseteq Roots \X VPages

\* The entries that point to table t.
LinksTo(t) ==
  {l \in (Tables \ pool) \X Index :
     ent[l[1]][l[2]].is_valid = 1 /\ ent[l[1]][l[2]].addr = t}

\* A page get_pages gave is part of exactly one table tree, and at one place in
\* it; a root, or a page that is still free, is linked nowhere.
TablesFormTree ==
  \A t \in Tables :
    Cardinality(LinksTo(t)) = IF t \in Roots \cup pool THEN 0 ELSE 1

\* Whatever is mapped, the kernel finds all of physical memory at KBASE plus its
\* address, devices as device memory: no call can replace a boot block.
DirectMapIntact ==
  \A pa \in 0 .. PHYSMEM_END - 1 :
    Translate(KernelRoot, KERNEL_VADDR + pa) =
      [pa |-> pa, write |-> TRUE, kernel_exec |-> TRUE, user_exec |-> FALSE,
       attr |-> IF pa < PERIPHERAL_BASE THEN NORMAL_MEMORY ELSE DEVICE_MEMORY]

\* For every address of every table, in every state of a map call, the software
\* walk of query_in_pgtbl finds what the hardware's walk finds.
QueryFindsMapping ==
  \A r \in Roots, va \in 0 .. VA_END - 1 :
    LET found == Translate(r, va)
    IN  query_in_pgtbl(r, va) = IF found = NULL THEN NULL ELSE found.pa

\* "Since we are adding new mappings, there is no need to flush TLBs": a
\* translation the TLB still holds, from before any number of map calls and
\* switches of ttbr0, is the one in the tables, unless its page was mapped twice.
TlbCoherent ==
  \A r \in Active, v \in VPages :
    TlbHit(r, v) /\ <<r, v>> \notin remapped => tlb.leaf = Translate(r, v)

PagesOf(r) == {v \in VPages : Translate(r, v) # NULL}

\* The page table pages of the tree under root r.
TablesOf(r) ==
  LET below(S) == {t \in Frames \ pool : \E s \in S : \E i \in Index :
                     ent[s][i].is_valid = 1 /\ ent[s][i].addr = t}
      l1 == below({r})
      l2 == below(l1)
  IN  l1 \cup l2 \cup below(l2)

\* *rss is the memory the process takes, its page tables included, as long as it
\* maps no page twice, also after a call that ran out of page table pages.
RssExact ==
  \A r \in UserRoots :
    (\A v \in VPages : <<r, v>> \notin remapped) =>
      rss[r] = PAGE_SIZE * (Cardinality(PagesOf(r)) + Cardinality(TablesOf(r)))

\* The translation a call q asks for page v.
Want(q, v) ==
  [pa |-> q.pa + (v - q.va),
   write |-> "WRITE" \in q.flags,
   kernel_exec |-> "EXEC" \in q.flags /\ q.root = KernelRoot,
   user_exec |-> "EXEC" \in q.flags /\ q.root # KernelRoot,
   attr |-> CASE "DEVICE" \in q.flags -> DEVICE_MEMORY
              [] q.flags \cap {"DEVICE", "NOCACHE"} = {"NOCACHE"} ->
                   NORMAL_MEMORY_NOCACHE
              [] q.flags \cap {"DEVICE", "NOCACHE"} = {} -> NORMAL_MEMORY]

\* What the last call was asked for and has not yet come to.
Asked ==
  IF call = NULL THEN {} ELSE
  LET q == call.asked
  IN  {<<q.root, v, Want(q, v)>> : v \in {x \in VPages : x >= call.va /\ x < q.va + q.len}}

\* The translations in force.
Mapping ==
  {m \in {<<r, v, Translate(r, v)>> : r \in Roots, v \in VPages} : m[3] # NULL}

AS == INSTANCE AddressSpace WITH mapping <- Mapping, request <- Asked

\* map_range_in_pgtbl does what AddressSpace promises: linking a table, crossing
\* from one table to the next and running out of pages in the middle of a range
\* change no translation, and each step maps one page as it was asked for.
ImplementsAddressSpace == AS!Spec
=============================================================================
