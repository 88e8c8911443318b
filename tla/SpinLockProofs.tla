--------------------------- MODULE SpinLockProofs ---------------------------
(***************************************************************************)
(* Proofs about SpinLock, for any set of CPUs.                             *)
(***************************************************************************)
EXTENDS SpinLock, TLAPS

\* The strengthening: the lock word is 1 exactly while some CPU holds the lock,
\* and a CPU whose stxr can still succeed saw a 0 that is still there.
IInv ==
  /\ TypeOK
  /\ MutualExclusion
  /\ NoLostWakeup
  /\ (\E c \in CPUs : pc[c] = "held") => lock = 1
  /\ lock = 1 => \E c \in CPUs : pc[c] = "held"
  /\ \A c \in CPUs : pc[c] = "stxr" /\ monitor[c] => lock = 0

\* The initial state: the lock word is 0 and no CPU is in the loop.
LEMMA InitInv == Init => IInv
  BY DEF Init, IInv, TypeOK, MutualExclusion, NoLostWakeup

\* Every instruction, interrupts included, preserves the strengthening.
LEMMA StepInv == IInv /\ [Next]_vars => IInv'
<1> SUFFICES ASSUME IInv, [Next]_vars PROVE IInv'
  OBVIOUS
<1> USE DEF IInv, TypeOK, MutualExclusion, NoLostWakeup
<1>1. ASSUME NEW c \in CPUs, SpinLock(c) PROVE IInv'
  BY <1>1 DEF SpinLock, Goto
<1>2. ASSUME NEW c \in CPUs, Ldaxr(c) PROVE IInv'
  BY <1>2 DEF Ldaxr, Goto
<1>3. ASSUME NEW c \in CPUs, StxrStore(c) PROVE IInv'
  BY <1>3 DEF StxrStore, Store, Goto
<1>4. ASSUME NEW c \in CPUs, StxrFail(c) PROVE IInv'
  BY <1>4 DEF StxrFail, Goto
<1>5. ASSUME NEW c \in CPUs, Wfe(c) PROVE IInv'
  BY <1>5 DEF Wfe, Goto
<1>6. ASSUME NEW c \in CPUs, SpinUnlock(c) PROVE IInv'
  BY <1>6 DEF SpinUnlock, Store, Goto
<1>7. ASSUME NEW c \in CPUs, Interrupt(c) PROVE IInv'
  BY <1>7 DEF Interrupt
<1>8. CASE UNCHANGED vars
  BY <1>8 DEF vars
<1> QED
  BY <1>1, <1>2, <1>3, <1>4, <1>5, <1>6, <1>7, <1>8 DEF Next, Step

\* The strengthening holds in every reachable state.
THEOREM InductiveInvariant == Spec => []IInv
  BY InitInv, StepInv, PTL DEF Spec

\* Type correctness, for any set of CPUs.
THEOREM TypeCorrect == Spec => []TypeOK
<1>1. IInv => TypeOK
  BY DEF IInv
<1> QED
  BY <1>1, InductiveInvariant, PTL

\* At most one CPU is between spin_lock and spin_unlock.
THEOREM Exclusive == Spec => []MutualExclusion
<1>1. IInv => MutualExclusion
  BY DEF IInv
<1> QED
  BY <1>1, InductiveInvariant, PTL

\* A CPU at wfe is woken, or will be by the unlock: no wakeup is lost.
THEOREM WakeupsArrive == Spec => []NoLostWakeup
<1>1. IInv => NoLostWakeup
  BY DEF IInv
<1> QED
  BY <1>1, InductiveInvariant, PTL

\* The holder the refinement shows to Mutex.
holder == IF Held = {} THEN NULL ELSE CHOOSE c \in CPUs : c \in Held

\* Under mutual exclusion a CPU that holds the lock is the holder.
LEMMA HolderIs ==
  ASSUME MutualExclusion, NEW c \in CPUs, pc[c] = "held"
  PROVE  holder = c
<1>1. c \in Held
  BY DEF Held
<1>2. \A d \in CPUs : d \in Held => d = c
  BY DEF Held, MutualExclusion
<1> QED
  BY <1>1, <1>2 DEF holder

\* The same after a step.
LEMMA HolderIsNext ==
  ASSUME MutualExclusion', NEW c \in CPUs, pc'[c] = "held"
  PROVE  holder' = c
<1>1. c \in Held'
  BY DEF Held
<1>2. \A d \in CPUs : d \in Held' => d = c
  BY DEF Held, MutualExclusion
<1> QED
  BY <1>1, <1>2 DEF holder

\* A step that leaves the set of holders alone leaves the holder alone.
LEMMA HolderSame == Held' = Held => holder' = holder
  BY DEF holder

\* The initial state maps to Mutex's.
LEMMA InitMaps == Init => MX!Init
  BY DEF Init, MX!Init, Held

\* Every instruction is a step of Mutex or leaves the holder alone.
LEMMA StepMaps == IInv /\ IInv' /\ [Next]_vars => [MX!Next]_holder
<1> SUFFICES ASSUME IInv, IInv', [Next]_vars PROVE [MX!Next]_holder
  OBVIOUS
<1> USE DEF IInv, TypeOK
<1>1. ASSUME NEW c \in CPUs, StxrStore(c) PROVE MX!Next
  <2>1. Held = {}
    BY <1>1 DEF StxrStore, Held
  <2>2. holder' = c
    BY <1>1, HolderIsNext DEF StxrStore, Goto
  <2>3. MX!Acquire(c)
    BY <2>1, <2>2 DEF MX!Acquire, holder
  <2> QED
    BY <2>3 DEF MX!Next
<1>2. ASSUME NEW c \in CPUs, SpinUnlock(c) PROVE MX!Next
  <2>1. holder = c
    BY <1>2, HolderIs DEF SpinUnlock
  <2>2. Held' = {}
    BY <1>2 DEF SpinUnlock, Goto, Held, MutualExclusion
  <2>3. MX!Release
    BY <2>1, <2>2, NullNotACPU, Zenon DEF MX!Release, holder
  <2> QED
    BY <2>3 DEF MX!Next
<1>3. ASSUME NEW c \in CPUs,
             SpinLock(c) \/ Ldaxr(c) \/ StxrFail(c) \/ Wfe(c) \/ Interrupt(c)
      PROVE  holder' = holder
  <2>1. Held' = Held
    BY <1>3 DEF SpinLock, Ldaxr, StxrFail, Wfe, Interrupt, Goto, Held
  <2> QED
    BY <2>1, HolderSame
<1>4. CASE UNCHANGED vars
  <2>1. Held' = Held
    BY <1>4 DEF vars, Held
  <2> QED
    BY <2>1, HolderSame
<1> QED
  BY <1>1, <1>2, <1>3, <1>4 DEF Next, Step

\* spin_lock and spin_unlock implement the atomic lock of Mutex.
THEOREM Refinement == Spec => ImplementsMutex
<1>1. Init => MX!Init
  BY InitMaps
<1>2. IInv /\ IInv' /\ [Next]_vars => [MX!Next]_holder
  BY StepMaps
<1> QED
  BY <1>1, <1>2, InductiveInvariant, PTL
  DEF Spec, ImplementsMutex, MX!Spec, holder
=============================================================================
