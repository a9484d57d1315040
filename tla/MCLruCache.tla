----------------------------- MODULE MCLruCache -----------------------------
(* Caches of three and five elements.  One of the keys is the root's.      *)
EXTENDS LruCache, TLC

MCKeys == 1..(Capacity + 1)
NodeSymmetry == Permutations(Node)
=============================================================================
