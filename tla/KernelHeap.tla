----------------------------- MODULE KernelHeap -----------------------------
(***************************************************************************)
(* What kmalloc and kfree promise: the memory of two live allocations      *)
(* never overlaps.  An allocation is <<chunk, 0, 0>>, a whole chunk, or    *)
(* <<chunk, i, o>>, the i-th block of a chunk cut into blocks of order o.  *)
(***************************************************************************)
EXTENDS Naturals

CONSTANTS
  Chunks,       \* the chunks of the page allocator
  BlockOrders,  \* the block sizes, as orders
  Total         \* Total[o]: how many blocks of order o fill a chunk

VARIABLE held   \* the live allocations

Overlap(x, y) ==
  /\ x[1] = y[1]
  /\ x[2] = y[2] \/ x[2] = 0 \/ y[2] = 0 \/ x[3] # y[3]

Allocations ==
  {<<s, 0, 0>> : s \in Chunks} \cup
  UNION {{<<s, i, o>> : s \in Chunks, i \in 1 .. Total[o] - 1} : o \in BlockOrders}

Init == held = {}

Alloc(x) ==
  /\ \A y \in held : ~Overlap(x, y)
  /\ held' = held \cup {x}

Free(x) == held' = held \ {x}

Next ==
  \/ \E x \in Allocations : Alloc(x)
  \/ \E x \in held : Free(x)

Spec == Init /\ [][Next]_held
=============================================================================
