----------------------------- MODULE MCMachine -----------------------------
(* Machine for TLC, with the addresses of the board in units of 128 KB.    *)
EXTENDS Machine
=============================================================================
