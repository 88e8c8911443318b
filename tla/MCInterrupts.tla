---------------------------- MODULE MCInterrupts ---------------------------
(* Interrupts for TLC: a ring and FIFOs of three places.                   *)
EXTENDS Interrupts
=============================================================================
