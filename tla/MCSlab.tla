------------------------------ MODULE MCSlab ------------------------------
(* Slab for TLC: two block sizes, with two and three blocks to a slab.     *)
EXTENDS Slab, TLC

\* Nothing tells one chunk from another.
ChunkSymmetry == Permutations(Chunks)

MCTotal == [o \in BlockOrders |-> IF o = 6 THEN 4 ELSE 3]
=============================================================================
