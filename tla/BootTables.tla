---------------------------- MODULE BootTables ----------------------------
(***************************************************************************)
(* Page table entries (arch/mm/page_table.h) and the two page tables that  *)
(* init_kernel_pt of boot/raspi3/init/mmu.c builds before the MMU is on.   *)
(*                                                                         *)
(* An entry keeps the fields a translation depends on.  Addresses are in   *)
(* units the instance chooses; SIZE_2M is what an L2 entry spans.          *)
(***************************************************************************)
EXTENDS Integers, FiniteSetsExt

CONSTANTS
  PTP_ENTRIES,
  SIZE_2M,
  PERIPHERAL_BASE, SHARED_PERIPHERAL_END, PHYSMEM_END,
  KERNEL_VADDR,
  boot_ttbr0_l0, boot_ttbr0_l1, boot_ttbr0_l2,
  boot_ttbr1_l0, boot_ttbr1_l1, boot_ttbr1_l2

SIZE_1G == SIZE_2M * PTP_ENTRIES

\* The source: 512 entries, 1 GB of memory and shared peripherals mapped by one
\* L2 table, then local peripherals up to 4 GB by L1 blocks.
ASSUME BootLayoutAssumption ==
  /\ PTP_ENTRIES \in Nat /\ PTP_ENTRIES >= 2 /\ SIZE_2M \in Nat \ {0}
  /\ {PERIPHERAL_BASE, SHARED_PERIPHERAL_END, PHYSMEM_END, KERNEL_VADDR} \subseteq Nat
  /\ SIZE_2M <= PERIPHERAL_BASE /\ PERIPHERAL_BASE < SHARED_PERIPHERAL_END
  /\ PERIPHERAL_BASE % SIZE_2M = 0
  /\ SHARED_PERIPHERAL_END = SIZE_1G
  /\ PHYSMEM_END % SIZE_1G = 0 /\ PHYSMEM_END <= SIZE_1G * PTP_ENTRIES
  /\ KERNEL_VADDR % (SIZE_1G * PTP_ENTRIES) = 0

ASSUME TablesAssumption ==
  /\ boot_ttbr1_l0 \notin {boot_ttbr1_l1, boot_ttbr1_l2, boot_ttbr0_l0, boot_ttbr0_l1, boot_ttbr0_l2}
  /\ boot_ttbr1_l1 \notin {boot_ttbr1_l2, boot_ttbr0_l0, boot_ttbr0_l1, boot_ttbr0_l2}
  /\ boot_ttbr1_l2 \notin {boot_ttbr0_l0, boot_ttbr0_l1, boot_ttbr0_l2}
  /\ boot_ttbr0_l0 \notin {boot_ttbr0_l1, boot_ttbr0_l2} /\ boot_ttbr0_l1 # boot_ttbr0_l2

Index == 0 .. PTP_ENTRIES - 1

GET_L0_INDEX(va) == (va \div (SIZE_1G * PTP_ENTRIES)) % PTP_ENTRIES
GET_L1_INDEX(va) == (va \div SIZE_1G) % PTP_ENTRIES
GET_L2_INDEX(va) == (va \div SIZE_2M) % PTP_ENTRIES

\* Memory types: the indices into mair_el1.
DEVICE_MEMORY == 0
NORMAL_MEMORY_NOCACHE == 3
NORMAL_MEMORY == 4

PTE_DESCRIPTOR_INVALID == [is_valid |-> 0]

EmptyTable == [i \in Index |-> PTE_DESCRIPTOR_INVALID]

TablePte(table) == [is_valid |-> 1, is_table |-> 1, addr |-> table]

\* UXN | ACCESSED | NG | attr | IS_VALID, with every other bit 0.
BlockPte(attr, pa) ==
  [is_valid |-> 1, is_table |-> 0, addr |-> pa, AP |-> 0, PXN |-> 0, UXN |-> 1,
   nG |-> 1, attr_index |-> attr]

IS_PTE_INVALID(pte) == pte.is_valid = 0
IS_PTE_TABLE(pte) == pte.is_table = 1

\* for (vaddr = first; vaddr < end; vaddr += step)
Steps(first, end, step) ==
  {v \in first .. end - 1 : (v - first) % step = 0}

\* The entries Pte(v) that a loop over the addresses vs leaves in a table.
Filled(vs, IndexOf(_), Pte(_)) ==
  [i \in Index |->
     LET hits == {v \in vs : IndexOf(v) = i}
     IN  IF hits = {} THEN PTE_DESCRIPTOR_INVALID ELSE Pte(Max(hits))]

\* Variant: all of the first GB is mapped as memory.
ttbr1_l2AllNormal ==
  Filled(Steps(0, SHARED_PERIPHERAL_END, SIZE_2M),
         LAMBDA v : GET_L2_INDEX(v + KERNEL_VADDR),
         LAMBDA v : BlockPte(NORMAL_MEMORY, v))

\* 2 MB blocks for memory and for the shared peripherals.
ttbr1_l2 ==
  Filled(Steps(0, SHARED_PERIPHERAL_END, SIZE_2M),
         LAMBDA v : GET_L2_INDEX(v + KERNEL_VADDR),
         LAMBDA v : BlockPte(IF v < PERIPHERAL_BASE THEN NORMAL_MEMORY
                                                    ELSE DEVICE_MEMORY, v))

ttbr1_l1 ==
  [Filled(Steps(SHARED_PERIPHERAL_END, PHYSMEM_END, SIZE_1G),
          LAMBDA v : GET_L1_INDEX(v + KERNEL_VADDR),
          LAMBDA v : BlockPte(DEVICE_MEMORY, v))
     EXCEPT ![GET_L1_INDEX(KERNEL_VADDR)] = TablePte(boot_ttbr1_l2)]

\* The low map: the first 2 MB, where the boot code runs, and then devices.
ttbr0_l2 ==
  Filled(Steps(0, SHARED_PERIPHERAL_END, SIZE_2M), GET_L2_INDEX,
         LAMBDA v : BlockPte(IF v < SIZE_2M THEN NORMAL_MEMORY
                                            ELSE DEVICE_MEMORY, v))

\* The tables as init_kernel_pt leaves them.
init_kernel_pt(table) ==
  CASE table = boot_ttbr1_l0 ->
         [EmptyTable EXCEPT ![GET_L0_INDEX(KERNEL_VADDR)] = TablePte(boot_ttbr1_l1)]
    [] table = boot_ttbr1_l1 -> ttbr1_l1
    [] table = boot_ttbr1_l2 -> ttbr1_l2
    [] table = boot_ttbr0_l0 -> [EmptyTable EXCEPT ![0] = TablePte(boot_ttbr0_l1)]
    [] table = boot_ttbr0_l1 -> [EmptyTable EXCEPT ![0] = TablePte(boot_ttbr0_l2)]
    [] table = boot_ttbr0_l2 -> ttbr0_l2
=============================================================================
