----------------------------- MODULE Exceptions ----------------------------
(***************************************************************************)
(* Exception entry and return on one core (arch/aarch64/irq/irq_entry.S),  *)
(* with handle_sync and the system calls.  The saved program counter is    *)
(* the control state: whatever eret loads from a frame is what runs next.  *)
(*                                                                         *)
(* The kernel has no threads yet.  Threads that enter it are modelled from *)
(* what the entry code expects of them: an execution context in memory     *)
(* that cur_exec_ctx points to, started with __eret_to_thread.             *)
(*                                                                         *)
(* Memory is a row of places that hold one frame of ARCH_EXEC_CONT_SIZE    *)
(* bytes each; the stack pointer is the place last pushed.                 *)
(***************************************************************************)
EXTENDS Integers, Sequences, FiniteSets

CONSTANTS
  Threads,    \* 1 .. number of threads
  Room,       \* free places below a context, which irq_el0_64 uses as a stack
  MaxDepth    \* a bound on nested exceptions

ASSUME ExceptionsAssumption ==
  /\ Cardinality(Threads) \in Nat /\ Threads = 1 .. Cardinality(Threads)
  /\ MaxDepth \in Nat \ {0} /\ Room \in Nat /\ Room > 2 * MaxDepth

\* The registers, x1-x18 but x8 as one and x19-x28, which C functions preserve
\* and the entry code uses as scratch, as one.
Saved == {"x0", "x8", "x1_x18", "x19_x28", "x30", "sp_el0", "elr_el1", "spsr_el1"}

\* The exception classes of ESR_EL1 that each level can raise.
EcEL0 == {"UNKNOWN", "WFI_WFE", "ENFP", "ILLEGAL_EXEC", "SVC_64", "MRS_MSR_64",
          "IABT_LEL", "PC_ALIGN", "DABT_LEL", "SP_ALIGN", "FP_64"}
EcEL1 == {"UNKNOWN", "ILLEGAL_EXEC", "IABT_CEL", "PC_ALIGN", "DABT_CEL", "SP_ALIGN"}

VARIABLES
  regs,      \* the registers
  pc, mode,  \* the program counter, and "el0" or "el1h"
  masked,    \* PSTATE.I
  sp,        \* SP_EL1
  mem,       \* mem[a]: the frame at place a
  cur,       \* cur_exec_ctx of cpu_info, 0 if no thread runs
  want,      \* want[t]: the context thread t is to find when it runs again
  live,      \* the frames pushed and not yet popped: [at, frame, sp]
  due,       \* after an eret, and only then: the context that had to be restored
  halted

exceptionVars == <<regs, pc, mode, masked, sp, mem, cur, want, live, due, halted>>

(***************************************************************************)
(* Memory                                                                  *)
(***************************************************************************)
cpu_stack == 0                      \* the top of the CPU's stack
Ctx(t) == t * Room                  \* the context of thread t
Running == cur \div Room
Places == -3 * MaxDepth .. Room * Cardinality(Threads) + 1
AllSaved(value) == [r \in Saved |-> value]
Free == AllSaved(<<"free">>)         \* what is below the stack pointer is dead
IsCtx(a) == \E t \in Threads : a = Ctx(t)
CFrame(address) == [AllSaved(<<"C">>) EXCEPT !["elr_el1"] = address]

UserPc == {<<"user", 0>>, <<"user", 1>>}    \* two instructions of every thread
UserRegs(t) == [AllSaved(<<"thread", t, 0>>) EXCEPT !["elr_el1"] = <<"user", 0>>, !["spsr_el1"] = <<"el0">>]

\* init_per_cpu_info; the kernel runs on the CPU's stack with interrupts masked.
ExceptionsInit ==
  /\ regs = AllSaved(<<"kernel">>)
  /\ pc = <<"kernel">> /\ mode = "el1h" /\ masked = TRUE
  /\ sp = cpu_stack - 1
  /\ want = [t \in Threads |-> UserRegs(t)]
  /\ mem = [a \in Places |-> IF IsCtx(a) THEN want[a \div Room] ELSE Free]
  /\ cur = 0 /\ live = <<>> /\ due = <<>> /\ halted = FALSE

(***************************************************************************)
(* The processor and the macros                                            *)
(***************************************************************************)
Spsr == IF mode = "el0" THEN <<"el0">> ELSE <<"el1h", masked>>

\* Variant: spsr_el1 is not stored.
exception_enterNoSpsr == [regs EXCEPT !["elr_el1"] = pc]

\* The processor sets elr_el1 and spsr_el1; the macro stores all registers.
exception_enter == [regs EXCEPT !["elr_el1"] = pc, !["spsr_el1"] = Spsr]

\* Variant: sp is not moved before the registers are stored.
EnterNoSub(label, stack) ==
  /\ mem' = [mem EXCEPT ![sp] = exception_enter, ![stack - 1] = CFrame(pc)]
  /\ sp' = stack - 1
  /\ pc' = label /\ mode' = "el1h" /\ masked' = TRUE
  /\ regs' = [exception_enter EXCEPT !["x19_x28"] = <<"scratch">>, !["x0"] = <<"argument">>]
  /\ live' = Append(live, [at |-> sp - 1, frame |-> exception_enter, sp |-> sp])
  /\ want' = IF mode = "el0" THEN [want EXCEPT ![Running] = exception_enter] ELSE want
  /\ due' = <<>>
  /\ UNCHANGED <<cur, halted>>

\* A vector, exception_enter, and the call of a C function, which makes its own
\* frame, with the address it was given, at the place below stack.
Enter(label, stack) ==
  /\ mem' = [mem EXCEPT ![sp - 1] = exception_enter, ![stack - 1] = CFrame(pc)]
  /\ sp' = stack - 1
  /\ pc' = label /\ mode' = "el1h" /\ masked' = TRUE
  /\ regs' = [exception_enter EXCEPT !["x19_x28"] = <<"scratch">>, !["x0"] = <<"argument">>]
  /\ live' = Append(live, [at |-> sp - 1, frame |-> exception_enter, sp |-> sp])
  /\ want' = IF mode = "el0" THEN [want EXCEPT ![Running] = exception_enter] ELSE want
  /\ due' = <<>>
  /\ UNCHANGED <<cur, halted>>

\* Variant: sp_el0 is not loaded back.
exception_exitNoSpEL0(at, frame) ==
  /\ regs' = [frame EXCEPT !["sp_el0"] = regs["sp_el0"]]
  /\ pc' = frame["elr_el1"]
  /\ mode' = IF frame["spsr_el1"] = <<"el0">> THEN "el0" ELSE "el1h"
  /\ masked' = (frame["spsr_el1"] = <<"el1h", TRUE>>)
  /\ sp' = at + 1

\* Load every register from the frame at sp, pop it and eret.
exception_exit(at, frame) ==
  /\ regs' = frame
  /\ pc' = frame["elr_el1"]
  /\ mode' = IF frame["spsr_el1"] = <<"el0">> THEN "el0" ELSE "el1h"
  /\ masked' = (frame["spsr_el1"] = <<"el1h", TRUE>>)
  /\ sp' = at + 1

\* Return through the frame at a place, after storing a value in one register of
\* it; expected is what the interrupted code is to find.
Leave(at, reg, value, expected) ==
  LET frame == [mem[at] EXCEPT ![reg] = value]
  IN  /\ exception_exit(at, frame)
      /\ mem' = [mem EXCEPT ![sp] = Free, ![at] = IF IsCtx(at) THEN frame ELSE Free]
      /\ due' = <<[regs |-> expected, sp |-> live[Len(live)].sp]>>
      /\ live' = SubSeq(live, 1, Len(live) - 1)
      /\ UNCHANGED <<cur, want, halted>>

Interrupted == live[Len(live)].frame

Halt == halted' = TRUE /\ due' = <<>> /\ UNCHANGED <<regs, pc, mode, masked, sp, mem, cur, want, live>>

(***************************************************************************)
(* The handlers                                                            *)
(***************************************************************************)
\* handle_sync returns the address, fix_addr being always 0, or does not return.
handle_sync(type, ec) ==
  /\ type = "SYNC_EL1h" => ec = "DABT_CEL"
  /\ ec \in {"WFI_WFE", "IABT_LEL", "DABT_LEL", "DABT_CEL"}

switch_to_thread_ctx == cur

\* irq_el1h and irq_el0_64: the C code runs on the stack of the interrupted code.
TakeIrq == ~masked /\ Len(live) < MaxDepth /\ Enter(<<"handle_irq">>, sp - 1)

ReturnIrq ==
  /\ pc = <<"handle_irq">>
  /\ Leave(sp + 1, "x0", mem[sp + 1]["x0"], Interrupted)

SyncEL1 ==
  /\ mode = "el1h" /\ Len(live) < MaxDepth
  /\ \E ec \in EcEL1 :
       IF handle_sync("SYNC_EL1h", ec) THEN Enter(<<"sync_el1h">>, sp - 1) ELSE Halt

\* sync_el1h: the address returned replaces the saved elr_el1.
ReturnSyncEL1 ==
  /\ pc = <<"sync_el1h">>
  /\ Leave(sp + 1, "elr_el1", mem[sp]["elr_el1"], Interrupted)

\* sync_el0_64: on the CPU's stack; a system call goes through syscall_table.
SyncEL0 ==
  /\ mode = "el0" /\ Len(live) < MaxDepth
  /\ \E ec \in EcEL0 :
       IF ec = "SVC_64"
       THEN \E nr \in {"poweroff", "other"} : Enter(<<"syscall", nr>>, cpu_stack)
       ELSE IF handle_sync("SYNC_EL0_64", ec) THEN Enter(<<"sync_el0_64">>, cpu_stack) ELSE Halt

\* The address handle_sync returns is not stored: the saved one is used.
ReturnSyncEL0 ==
  /\ pc = <<"sync_el0_64">>
  /\ LET at == switch_to_thread_ctx IN Leave(at, "x0", mem[at]["x0"], Interrupted)

\* sys_null_placeholder's result is what the thread finds in x0; sys_poweroff has
\* none, and x0 is what it left there.
Result(nr) == IF nr = "poweroff" THEN <<"C">> ELSE <<"-EBADSYSCALL">>

ReturnSyscall(nr) ==
  /\ pc = <<"syscall", nr>>
  /\ Leave(switch_to_thread_ctx, "x0", Result(nr), [Interrupted EXCEPT !["x0"] = Result(nr)])

\* unexpected_handler, which all other vectors lead to, does not return.
Unexpected == Halt

(***************************************************************************)
(* Threads and the kernel around them                                      *)
(***************************************************************************)
\* Called by the kernel, or by an interrupt handler entered from a thread, with
\* the context of the thread to run.
__eret_to_thread(t) ==
  /\ pc = <<"kernel">> \/ (pc = <<"handle_irq">> /\ Len(live) = 1 /\ cur # 0)
  /\ cur' = Ctx(t)
  /\ exception_exit(Ctx(t), mem[Ctx(t)])
  /\ due' = <<[regs |-> want[t], sp |-> Ctx(t) + 1]>>
  /\ live' = <<>>
  /\ mem' = [mem EXCEPT ![sp] = Free]
  /\ UNCHANGED <<want, halted>>

SetMask(value) ==
  /\ pc = <<"kernel">> /\ masked = ~value
  /\ masked' = value /\ due' = <<>>
  /\ UNCHANGED <<regs, pc, mode, sp, mem, cur, want, live, halted>>

enable_irq == SetMask(FALSE)
disable_irq == SetMask(TRUE)

\* An instruction of the running thread.
User ==
  /\ mode = "el0"
  /\ \E p \in UserPc :
       pc' = p /\ regs' = [regs EXCEPT !["x0"] = <<"thread", Running, p[2]>>]
  /\ due' = <<>>
  /\ UNCHANGED <<mode, masked, sp, mem, cur, want, live, halted>>

ExceptionsNext ==
  \/ TakeIrq \/ SyncEL1 \/ SyncEL0 \/ Unexpected
  \/ ReturnIrq \/ ReturnSyncEL1 \/ ReturnSyncEL0 \/ ReturnSyscall("other")
  \/ \E t \in Threads : __eret_to_thread(t)
  \/ enable_irq \/ disable_irq \/ User

(***************************************************************************)
(* Properties                                                              *)
(***************************************************************************)
\* Type invariant; EL0 runs a thread's instructions and EL1 the kernel's.
ExceptionsTypeOK ==
  /\ DOMAIN regs = Saved /\ DOMAIN mem = Places
  /\ \A a \in Places : DOMAIN mem[a] = Saved
  /\ mode = IF pc \in UserPc THEN "el0" ELSE "el1h"
  /\ masked \in BOOLEAN /\ sp \in Places /\ halted \in BOOLEAN
  /\ cur \in {0} \cup {Ctx(t) : t \in Threads}
  /\ Len(live) <= MaxDepth /\ Len(due) <= 1

\* A saved context is not touched until it is restored: not by the frames of
\* nested exceptions, not by the C code that runs on the thread's own memory
\* after irq_el0_64 and on the CPU's stack after sync_el0_64, and not by the
\* entries of the other threads.
FramesIntact ==
  /\ \A i \in 1 .. Len(live) : mem[live[i].at] = live[i].frame
  /\ \A t \in Threads : (mode = "el0" /\ cur = Ctx(t)) \/ mem[Ctx(t)] = want[t]

\* After every eret the interrupted code finds all its registers, its program
\* counter and its stack pointer, except that a system call has put its result,
\* and nothing else, in x0; a thread always runs with the stack pointer at the
\* end of its own context, so that the next exception is saved there.
ContextRestored ==
  /\ due # <<>> => /\ regs = due[1].regs /\ sp = due[1].sp
                   /\ pc = regs["elr_el1"]
  /\ mode = "el0" => sp = cur + 1

=============================================================================
