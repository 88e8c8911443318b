----------------------------- MODULE MCSpinLock -----------------------------
(* SpinLock for TLC.                                                       *)
EXTENDS SpinLock
=============================================================================
