------------------------------ MODULE MCBuddy ------------------------------
(* Buddy for TLC: MCBuddy.cfg gives a region of nine pages to two CPUs.    *)
EXTENDS Buddy
=============================================================================
