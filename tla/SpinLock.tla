------------------------------ MODULE SpinLock ------------------------------
(***************************************************************************)
(* spin_lock and spin_unlock of include/arch/aarch64/arch/sync.h, one      *)
(* instruction per step.  The exclusive monitor and the event register of  *)
(* a CPU are the hardware's (Arm ARM, "Synchronization and semaphores" and *)
(* "Wait for Event"):                                                      *)
(*   - ldaxr sets the CPU's monitor; stxr stores only if it is still set;  *)
(*   - a store to the location clears the monitors of the other CPUs, and  *)
(*     clearing one so sets the event register of its CPU;                 *)
(*   - wfe waits for the event register and clears it;                     *)
(*   - the eret at the end of an interrupt clears the CPU's monitor and    *)
(*     sets its event register.                                            *)
(***************************************************************************)
EXTENDS Naturals

CONSTANTS CPUs, NULL

ASSUME NullNotACPU == NULL \notin CPUs

VARIABLES
  lock,     \* lock->lock
  pc,       \* the instruction each CPU is at
  monitor,  \* is the exclusive monitor of the CPU set?
  event     \* the event register of the CPU

vars == <<lock, pc, monitor, event>>

Init ==
  /\ lock = 0
  /\ pc = [c \in CPUs |-> "out"]
  /\ monitor = [c \in CPUs |-> FALSE]
  /\ event = [c \in CPUs |-> FALSE]

Goto(c, label) == pc' = [pc EXCEPT ![c] = label]

\* CPU c stores v: every other monitor is lost, with an event if it was set.
Store(c, v) ==
  /\ lock' = v
  /\ monitor' = [d \in CPUs |-> FALSE]
  /\ event' = [d \in CPUs |-> event[d] \/ (d # c /\ monitor[d])]

\* lock(&l) is called.
SpinLock(c) ==
  /\ pc[c] = "out"
  /\ Goto(c, "ldaxr")
  /\ UNCHANGED <<lock, monitor, event>>

\* Variant: a plain load in place of ldaxr once the lock was seen taken.
LdaxrNoMonitor(c) ==
  /\ pc[c] = "ldaxr"
  /\ monitor' = [monitor EXCEPT ![c] = lock = 0]
  /\ Goto(c, IF lock # 0 THEN "wfe" ELSE "stxr")
  /\ UNCHANGED <<lock, event>>

\* ldaxr, and the cbnz that follows it.
Ldaxr(c) ==
  /\ pc[c] = "ldaxr"
  /\ monitor' = [monitor EXCEPT ![c] = TRUE]
  /\ Goto(c, IF lock # 0 THEN "wfe" ELSE "stxr")
  /\ UNCHANGED <<lock, event>>

\* Variant: an ordinary store that does not look at the monitor.
StxrStoreAlways(c) ==
  /\ pc[c] = "stxr"
  /\ Store(c, 1)
  /\ Goto(c, "held")

\* Variant: the lock is counted up, as a fetch-and-add would.
StxrStoreCount(c) ==
  /\ pc[c] = "stxr"
  /\ Store(c, lock + 1)
  /\ Goto(c, "held")

\* stxr finds its monitor set.
StxrStore(c) ==
  /\ pc[c] = "stxr" /\ monitor[c]
  /\ Store(c, 1)
  /\ Goto(c, "held")

\* Variant: a failed stxr is taken for a successful one.
StxrFailIgnored(c) ==
  /\ pc[c] = "stxr"
  /\ monitor' = [monitor EXCEPT ![c] = FALSE]
  /\ Goto(c, "held")
  /\ UNCHANGED <<lock, event>>

\* stxr fails, as it must without the monitor and may at any time.
StxrFail(c) ==
  /\ pc[c] = "stxr"
  /\ monitor' = [monitor EXCEPT ![c] = FALSE]
  /\ Goto(c, "ldaxr")
  /\ UNCHANGED <<lock, event>>

\* Variant: after an event the CPU waits again and never retries.
WfeAgain(c) ==
  /\ pc[c] = "wfe" /\ event[c]
  /\ event' = [event EXCEPT ![c] = FALSE]
  /\ UNCHANGED <<lock, monitor, pc>>

Wfe(c) ==
  /\ pc[c] = "wfe" /\ event[c]
  /\ event' = [event EXCEPT ![c] = FALSE]
  /\ Goto(c, "ldaxr")
  /\ UNCHANGED <<lock, monitor>>

\* spin_unlock: one stlr.
SpinUnlock(c) ==
  /\ pc[c] = "held"
  /\ Store(c, 0)
  /\ Goto(c, "out")

\* An interrupt is taken and returned from, anywhere in the loop.
Interrupt(c) ==
  /\ monitor' = [monitor EXCEPT ![c] = FALSE]
  /\ event' = [event EXCEPT ![c] = TRUE]
  /\ UNCHANGED <<lock, pc>>

Step(c) ==
  \/ Ldaxr(c) \/ StxrStore(c) \/ StxrFail(c) \/ Wfe(c) \/ SpinUnlock(c)

Next == \E c \in CPUs : SpinLock(c) \/ Step(c) \/ Interrupt(c)

Spec == Init /\ [][Next]_vars

\* A CPU goes on executing, a holder calls unlock, and a store-exclusive that
\* can succeed again and again at last does: the architecture's guarantee for
\* a loop as tight as this one.
Fairness == \A c \in CPUs : WF_vars(Step(c)) /\ SF_vars(StxrStore(c))

FairSpec == Spec /\ Fairness

(***************************************************************************)
(* Properties                                                              *)
(***************************************************************************)
\* The lock word, the program counters, the monitors and the event registers
\* stay in their ranges.
TypeOK ==
  /\ lock \in {0, 1}
  /\ pc \in [CPUs -> {"out", "ldaxr", "stxr", "wfe", "held"}]
  /\ monitor \in [CPUs -> BOOLEAN]
  /\ event \in [CPUs -> BOOLEAN]

\* At most one CPU is between spin_lock and spin_unlock, whatever the order of
\* their loads and stores and wherever interrupts strike.
MutualExclusion ==
  \A c, d \in CPUs : pc[c] = "held" /\ pc[d] = "held" => c = d

\* The unlock between a CPU's load of a taken lock and its wfe is not missed: a
\* CPU at wfe has an event pending, or the lock is still taken and its monitor
\* is armed, so that the unlock will wake it.
NoLostWakeup ==
  \A c \in CPUs : pc[c] = "wfe" => event[c] \/ (lock = 1 /\ monitor[c])

Held == {c \in CPUs : pc[c] = "held"}

MX == INSTANCE Mutex
        WITH holder <- IF Held = {} THEN NULL ELSE CHOOSE c \in CPUs : c \in Held

\* The loop of exclusive loads and stores is the atomic lock of Mutex, which is
\* what the models of the allocators assume of lock() and unlock().
ImplementsMutex == MX!Spec

\* If CPUs keep trying, one of them gets the lock, again and again.
SomeoneGetsIn ==
  (\E c \in CPUs : pc[c] \in {"ldaxr", "stxr", "wfe"}) ~>
  (\E c \in CPUs : pc[c] = "held")
=============================================================================
