------------------------------- MODULE Mutex -------------------------------
(***************************************************************************)
(* What lock() and unlock() of include/common/lock.h promise: at most one  *)
(* CPU holds the lock.  Buddy and Slab use their locks in this form.       *)
(***************************************************************************)
CONSTANTS CPUs, NULL

VARIABLE holder   \* the CPU between lock() and unlock(), or NULL

Init == holder = NULL

Acquire(c) == holder = NULL /\ holder' = c

Release == holder # NULL /\ holder' = NULL

Next == Release \/ \E c \in CPUs : Acquire(c)

Spec == Init /\ [][Next]_holder
=============================================================================
