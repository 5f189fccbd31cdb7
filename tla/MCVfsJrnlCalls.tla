--------------------------- MODULE MCVfsJrnlCalls ---------------------------
(* Instances of VfsJrnlCalls for TLC. *)
EXTENDS VfsJrnlCallsInv

AllOps == Wrapped \cup Bare
=============================================================================
