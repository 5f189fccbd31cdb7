--------------------------- MODULE MCVfsJrnlMount ---------------------------
(* Instances of VfsJrnlMount for TLC. *)
EXTENDS VfsJrnlMountInv, TLC

Symmetric == Permutations(Paths)
=============================================================================
