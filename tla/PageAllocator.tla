--------------------------- MODULE PageAllocator ---------------------------
(***************************************************************************)
(* What buddy_get_pages and buddy_free_pages promise their callers: a      *)
(* chunk of the requested order, aligned to its size, inside the region    *)
(* and disjoint from every chunk still held; and chunks change hands only  *)
(* by these two calls.                                                     *)
(***************************************************************************)
EXTENDS Integers

CONSTANTS
  MaxOrder,  \* BUDDY_MAX_ORDER
  Start,     \* frame number of the first allocatable page
  End        \* frame number just above the last one

VARIABLE live  \* <<page, order>> of every chunk the callers hold

ChunkPages(x) == x[1] .. x[1] + 2 ^ x[2] - 1

Init == live = {}

Get(p, k) ==
  /\ p % 2 ^ k = 0
  /\ ChunkPages(<<p, k>>) \subseteq Start .. End - 1
  /\ \A x \in live : ChunkPages(x) \cap ChunkPages(<<p, k>>) = {}
  /\ live' = live \cup {<<p, k>>}

Free(x) == live' = live \ {x}

Next ==
  \/ \E p \in Start .. End - 1, k \in 0 .. MaxOrder - 1 : Get(p, k)
  \/ \E x \in live : Free(x)

Spec == Init /\ [][Next]_live
=============================================================================
