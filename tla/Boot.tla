-------------------------------- MODULE Boot -------------------------------
(***************************************************************************)
(* From _start to main on every core: boot/raspi3/init (start.S, init.c,   *)
(* tools.S), head.S and main.c.  The tables are those of BootTables.       *)
(*                                                                         *)
(* An address is a multiple of SIZE_2M / 16, so that the sections of the   *)
(* image have addresses of their own.  Every core has the set of addresses *)
(* its next instructions use, and what the MMU makes of them depends on    *)
(* its registers, on its TLB and on the tables.                            *)
(***************************************************************************)
EXTENDS BootTables, Sequences

CONSTANTS
  Cores,                   \* 0, the primary, and the others
  TEXT_OFFSET, init_end,   \* where the image's init and kernel sections begin
  _bss_start,              \* cpu_stacks and empty_page are in .bss
  RASPI3_PL011,            \* the UART's registers
  KSTACK_BASE

ASSUME BootAssumption ==
  /\ 0 \in Cores /\ Cores \subseteq Nat
  /\ {TEXT_OFFSET, init_end, _bss_start, KSTACK_BASE} \subseteq Nat
  /\ boot_ttbr0_l0 \in 1 .. PHYSMEM_END - 1
  /\ SHARED_PERIPHERAL_END <= PHYSMEM_END /\ PHYSMEM_END <= KERNEL_VADDR
  /\ TEXT_OFFSET < init_end /\ init_end < _bss_start /\ _bss_start < SIZE_2M
  /\ RASPI3_PL011 \in PERIPHERAL_BASE .. SHARED_PERIPHERAL_END - 1
  /\ KSTACK_BASE > KERNEL_VADDR + PHYSMEM_END

VARIABLES
  core,       \* [pc, el, sp, mmu, ttbr0, tlb] of each core; its TLB may hold low addresses
  flag,       \* secondary_boot_flag
  spin,       \* the addresses of the firmware's spin table are written
  bss,        \* .bss: "garbage" or "zero"
  tables,     \* the page tables: "empty" or, after init_kernel_pt, "filled"
  kstack      \* KSTACKx_ADDR(0) is mapped to cpu_stacks[0]

bootVars == <<core, flag, spin, bss, tables, kstack>>

KBASE == KERNEL_VADDR
phys_to_virt(pa) == pa + KBASE
empty_page == phys_to_virt(_bss_start)

(***************************************************************************)
(* The program counters, in the order of the code                          *)
(***************************************************************************)
InitPcs == {"_start", "clear_bss", "early_uart_init", "wakeup_other_cores", "init_kernel_pt",
            "el1_mmu_activate", "call_start_kernel",
            "wait_until_smp_enabled", "secondary_init", "call_secondary_cpu_boot"}
MainPcs == <<"lock_init", "init_per_cpu_info", "mm_init", "map_kstack", "arch_interrupt_init",
             "timer_init", "pmu_init", "plat_poweroff">>
KernelPcs == {MainPcs[i] : i \in DOMAIN MainPcs} \cup {"kernel", "threads", "secondary_start"}
HeadPcs == {"start_kernel", "secondary_cpu_boot"}
Pcs == InitPcs \cup HeadPcs \cup KernelPcs \cup {"firmware"}

PRIMARY_FLAG == 65535

\* Variant: all flags are set when the image is loaded.
secondary_boot_flagAllSet == [c \in Cores |-> PRIMARY_FLAG]
\* In the init section, which clear_bss leaves alone.
secondary_boot_flag == [c \in Cores |-> IF c = 0 THEN PRIMARY_FLAG ELSE 0]

\* QEMU starts all cores at _start; on the board the others are held by the
\* firmware.  A core starts in EL1, EL2 or EL3.
BootInit ==
  /\ \E held \in BOOLEAN, el \in 1 .. 3 :
       core = [c \in Cores |->
                 [pc |-> IF c # 0 /\ held THEN "firmware" ELSE "_start", el |-> el,
                  sp |-> <<>>, mmu |-> "off", ttbr0 |-> 0, tlb |-> "empty"]]
  /\ flag = secondary_boot_flag
  /\ spin = FALSE /\ bss = "garbage" /\ tables = "empty" /\ kstack = FALSE

(***************************************************************************)
(* Address translation                                                     *)
(***************************************************************************)
Fault == <<-1, -1>>

\* The leaf that a walk from a root table reaches.
Walk(root, va) ==
  LET l0 == init_kernel_pt(root)[GET_L0_INDEX(va)]
      l1 == init_kernel_pt(l0.addr)[GET_L1_INDEX(va)]
      l2 == init_kernel_pt(l1.addr)[GET_L2_INDEX(va)]
  IN  IF IS_PTE_INVALID(l0) \/ IS_PTE_INVALID(l1) THEN Fault
      ELSE IF ~IS_PTE_TABLE(l1) THEN <<l1.addr + (va % SIZE_1G), l1.attr_index>>
      ELSE IF IS_PTE_INVALID(l2) THEN Fault
      ELSE <<l2.addr + (va % SIZE_2M), l2.attr_index>>

\* A low address goes through ttbr0_el1, or a TLB entry left from it.  Outside
\* physical memory there are no tables: a walk from there faults.
TranslateLow(c, va) ==
  IF tables = "filled" /\ (core[c].ttbr0 = boot_ttbr0_l0 \/ core[c].tlb = "low") THEN Walk(boot_ttbr0_l0, va) ELSE Fault

TranslateHigh(va) ==
  IF tables = "empty" THEN Fault
  ELSE IF va >= KSTACK_BASE THEN IF kstack THEN <<_bss_start + va - KSTACK_BASE, NORMAL_MEMORY>> ELSE Fault
  ELSE Walk(boot_ttbr1_l0, va)

TranslateOn(c, va) == IF va >= KBASE THEN TranslateHigh(va) ELSE TranslateLow(c, va)

\* What core c's access to an address is to reach: the address in memory, of the
\* type given.  Until the write of sctlr_el1 takes effect, it may or may not.
Reaches(c, va, pa, type) ==
  /\ core[c].mmu \in {"on", "pending"} => TranslateOn(c, va) = <<pa, type>>
  /\ core[c].mmu \in {"off", "pending"} => va = pa

StackMemory(sp) == IF sp[1] = "boot_cpu_stack" THEN TEXT_OFFSET ELSE _bss_start
StackAddress(sp) ==
  CASE sp[1] = "boot_cpu_stack" -> TEXT_OFFSET
    [] sp[1] = "cpu_stacks" -> phys_to_virt(_bss_start)
    [] sp[1] = "KSTACK" -> KSTACK_BASE

(***************************************************************************)
(* start.S and tools.S                                                     *)
(***************************************************************************)
At(c, pc) == core[c].pc = pc
Goto(c, pc) == core' = [core EXCEPT ![c].pc = pc]

\* The firmware's loop: wfe, then jump to the address in the spin table.
SpinTable(c) ==
  /\ At(c, "firmware") /\ spin
  /\ Goto(c, "_start")
  /\ UNCHANGED <<flag, spin, bss, tables, kstack>>

\* From EL3 the code falls through into the code for EL2; eret goes where the
\* spsr of its own level says, and from EL1 there is none.
arm64_elX_to_el1(el) ==
  LET spsr == [l \in {2, 3} |-> IF l = 2 \/ el = 3 THEN 1 ELSE l]
  IN  IF el = 1 THEN 1 ELSE spsr[el]

\* Variant: every core takes the first stack.
_startOneStack(c) ==
  /\ At(c, "_start")
  /\ core' = [core EXCEPT ![c].el = arm64_elX_to_el1(@), ![c].sp = <<"boot_cpu_stack", 0>>,
                          ![c].pc = IF c = 0 THEN "clear_bss" ELSE "wait_until_smp_enabled"]
  /\ UNCHANGED <<flag, spin, bss, tables, kstack>>

\* Whatever the level, to EL1 with SP_EL1, and a stack each.
_start(c) ==
  /\ At(c, "_start")
  /\ core' = [core EXCEPT ![c].el = arm64_elX_to_el1(@), ![c].sp = <<"boot_cpu_stack", c>>,
                          ![c].pc = IF c = 0 THEN "clear_bss" ELSE "wait_until_smp_enabled"]
  /\ UNCHANGED <<flag, spin, bss, tables, kstack>>

wait_until_smp_enabled(c) ==
  /\ At(c, "wait_until_smp_enabled") /\ flag[c] # 0
  /\ Goto(c, "secondary_init")
  /\ UNCHANGED <<flag, spin, bss, tables, kstack>>

\* Every TLB of the inner shareable domain is emptied; from the write of
\* sctlr_el1 on, the core's own may fill with what ttbr0_el1 maps.
el1_mmu_activate(c, next) ==
  /\ core' = [d \in Cores |->
                IF d = c THEN [core[d] EXCEPT !.pc = next, !.mmu = "pending", !.ttbr0 = boot_ttbr0_l0, !.tlb = "low"]
                ELSE [core[d] EXCEPT !.tlb = IF core[d].mmu # "off" /\ core[d].ttbr0 = boot_ttbr0_l0 THEN @ ELSE "empty"]]
  /\ UNCHANGED <<flag, spin, bss, tables, kstack>>

\* No isb follows the write of sctlr_el1; it takes effect some time later.
Sync(c) ==
  /\ core[c].mmu = "pending"
  /\ core' = [core EXCEPT ![c].mmu = "on"]
  /\ UNCHANGED <<flag, spin, bss, tables, kstack>>

(***************************************************************************)
(* init and secondary_init                                                 *)
(***************************************************************************)
clear_bss ==
  /\ At(0, "clear_bss") /\ Goto(0, "early_uart_init")
  /\ bss' = "zero"
  /\ UNCHANGED <<flag, spin, tables, kstack>>

early_uart_init ==
  /\ At(0, "early_uart_init") /\ Goto(0, "wakeup_other_cores")
  /\ UNCHANGED <<flag, spin, bss, tables, kstack>>

wakeup_other_cores ==
  /\ At(0, "wakeup_other_cores") /\ Goto(0, "init_kernel_pt")
  /\ spin' = TRUE
  /\ UNCHANGED <<flag, bss, tables, kstack>>

InitKernelPt ==
  /\ At(0, "init_kernel_pt") /\ Goto(0, "el1_mmu_activate")
  /\ tables' = "filled"
  /\ UNCHANGED <<flag, spin, bss, kstack>>

EnableMmu == At(0, "el1_mmu_activate") /\ el1_mmu_activate(0, "call_start_kernel")
secondary_init(c) == At(c, "secondary_init") /\ el1_mmu_activate(c, "call_secondary_cpu_boot")

(***************************************************************************)
(* head.S and main                                                         *)
(***************************************************************************)
\* start_kernel and secondary_cpu_boot: a stack in cpu_stacks, and ttbr0_el1 set
\* to what adrp gives, the virtual address of empty_page.  That the MMU is on by
\* the jump to a high address is assumed: no isb in the code ensures it.
EnterKernel(c, from, to) ==
  /\ At(c, from) /\ core[c].mmu = "on"
  /\ core' = [core EXCEPT ![c].pc = to, ![c].sp = <<"cpu_stacks", c>>, ![c].ttbr0 = empty_page]
  /\ UNCHANGED <<flag, spin, bss, tables, kstack>>

start_kernel == EnterKernel(0, "call_start_kernel", "start_kernel")
secondary_cpu_boot(c) == EnterKernel(c, "call_secondary_cpu_boot", "secondary_cpu_boot")

\* Variant: dsb and isb, but no tlbi.
flush_tlb_allNoTlbi(c) == Goto(c, IF c = 0 THEN MainPcs[1] ELSE "secondary_start")

\* This core's TLB is emptied, and the core goes on to main or secondary_start.
flush_tlb_all(c) ==
  core' = [core EXCEPT ![c].pc = IF c = 0 THEN MainPcs[1] ELSE "secondary_start", ![c].tlb = "empty"]

FlushTlb(c) ==
  /\ core[c].pc \in HeadPcs
  /\ flush_tlb_all(c)
  /\ UNCHANGED <<flag, spin, bss, tables, kstack>>

\* The calls of main up to plat_poweroff; the one that changes what is modelled
\* here is map_range_in_pgtbl_kernel.
main ==
  /\ \E i \in 1 .. Len(MainPcs) - 1 :
       /\ At(0, MainPcs[i]) /\ Goto(0, MainPcs[i + 1])
       /\ kstack' = (kstack \/ MainPcs[i] = "map_kstack")
  /\ UNCHANGED <<flag, spin, bss, tables>>

\* Nobody does this yet: a kernel that goes on after main's initialisation sets
\* the flag main was given, through the kernel's mapping, and cleans the line.
Release(c) ==
  /\ At(0, "kernel") /\ c # 0 /\ flag[c] = 0
  /\ flag' = [flag EXCEPT ![c] = 1]
  /\ UNCHANGED <<core, spin, bss, tables, kstack>>

Primary ==
  \/ _start(0) \/ clear_bss \/ early_uart_init \/ wakeup_other_cores \/ InitKernelPt
  \/ EnableMmu \/ Sync(0) \/ start_kernel \/ FlushTlb(0) \/ main

Secondary(c) ==
  \/ SpinTable(c) \/ _start(c) \/ wait_until_smp_enabled(c) \/ secondary_init(c) \/ Sync(c)
  \/ secondary_cpu_boot(c) \/ FlushTlb(c) \/ Release(c)

BootNext == Primary \/ \E c \in Cores \ {0} : Secondary(c)

(***************************************************************************)
(* Properties                                                              *)
(***************************************************************************)
Core ==
  [pc : Pcs, el : 1 .. 3,
   sp : {<<>>} \cup ({"boot_cpu_stack", "cpu_stacks"} \X Cores), mmu : {"off", "pending", "on"},
   ttbr0 : {0, boot_ttbr0_l0, empty_page}, tlb : {"empty", "low"}]

BootTypeOK ==
  /\ core \in [Cores -> Core]
  /\ flag \in [Cores -> {0, 1, PRIMARY_FLAG}]
  /\ bss \in {"garbage", "zero"} /\ tables \in {"empty", "filled"}
  /\ spin \in BOOLEAN /\ kstack \in BOOLEAN

\* Every core can fetch its next instruction, and reach its stack and the UART
\* where it uses them, as the right kind of memory, whichever of its own steps
\* the MMU's enabling falls into and whatever the other cores have done: the
\* tables are filled before any core uses them, the low map is the identity
\* wherever the init code runs, and no low address is used once it is gone.
AccessesMapped ==
  \A c \in Cores :
    LET low == core[c].pc \in InitPcs
        at(pa) == IF low THEN pa ELSE phys_to_virt(pa)
    IN  core[c].pc # "firmware" =>
          /\ Reaches(c, at(IF low THEN TEXT_OFFSET ELSE init_end), IF low THEN TEXT_OFFSET ELSE init_end, NORMAL_MEMORY)
          /\ c = 0 => Reaches(c, at(RASPI3_PL011), RASPI3_PL011, DEVICE_MEMORY)
          /\ core[c].sp # <<>> => Reaches(c, StackAddress(core[c].sp), StackMemory(core[c].sp), NORMAL_MEMORY)

\* Once a core runs main or secondary_start, no low address has a translation,
\* not even a stale one: a null pointer faults.
LowMapGone ==
  \A c \in Cores : core[c].pc \in KernelPcs =>
    /\ core[c].mmu = "on" /\ core[c].el = 1
    /\ \A va \in {0, TEXT_OFFSET, RASPI3_PL011} : TranslateOn(c, va) = Fault

\* No core's stack is cleared under it or used by another: .bss is cleared
\* before anyone runs on cpu_stacks, and all who run have stacks of their own.
StacksKept ==
  /\ \A c \in Cores : core[c].sp # <<>> /\ StackMemory(core[c].sp) = _bss_start => bss = "zero"
  /\ \A c, d \in Cores : c # d /\ core[c].sp # <<>> => core[c].sp # core[d].sp
=============================================================================
