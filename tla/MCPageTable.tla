---------------------------- MODULE MCPageTable ----------------------------
(* PageTable for TLC: two entries to a table, so that a call of three       *)
(* pages crosses tables on two levels, and pages of two bytes.              *)
EXTENDS PageTable

CONSTANTS u1, u2

Call(root, va, pa, len, flags) ==
  [root |-> root, va |-> va, pa |-> pa, len |-> len, flags |-> flags]

\* Ranges inside a table, across tables, into the boot blocks, across the end
\* of the lower half, not aligned, and empty.
MCRequests ==
  {Call(boot_ttbr1_l0, 0, 0, 2, {"READ", "WRITE"}),
   Call(boot_ttbr1_l0, 14, 2, 3, {"READ", "EXEC"}),
   Call(u1, 2, 8, 5, {"WRITE"}),
   Call(u1, 4, 4, 2, {"READ", "EXEC"}),
   Call(u2, 2, 12, 1, {"READ", "DEVICE", "NOCACHE"}),
   Call(u2, 28, 0, 4, {"READ", "WRITE", "NOCACHE"}),
   Call(u2, 1, 0, 2, {"READ"}),
   Call(u1, 0, 0, 0, {"READ"})}

MCAsid == [r \in UserRoots |-> IF r = u1 THEN 1 ELSE 2]
=============================================================================
