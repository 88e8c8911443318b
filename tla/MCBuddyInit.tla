---------------------------- MODULE MCBuddyInit ----------------------------
(* The raspi3 memory map; the image starts at 0x80000 and its size varies. *)
EXTENDS BuddyInit

MCImgEnds == {PAGE_SIZE * n : n \in 129 .. 400}
=============================================================================
