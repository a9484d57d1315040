-------------------------- MODULE MCSlabAllocator ---------------------------
(***************************************************************************)
(* Three slabs of 96 bytes, divided into five cells of 16 bytes or two of  *)
(* 32, and large requests, one where a slab has been or will be.           *)
(***************************************************************************)
EXTENDS SlabAllocator

MCSlabAt  == {96, 192, 288}
MCLargeAt == {300, 512}

\* No byte at all, a cell that is not filled, and a large request
MCCount == {0, 30, 33}

\* Bound on the users of small cells: they may fill one slab
MaxSmall == 5

FewSmall == Cardinality({ x \in live : x.n = 0 }) <= MaxSmall
=============================================================================
