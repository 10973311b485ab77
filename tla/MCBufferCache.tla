--------------------------- MODULE MCBufferCache ---------------------------
(***************************************************************************)
(* BufferCacheProps for TLC.  The blocks are interchangeable, so the runs  *)
(* of safety properties use their permutations as a symmetry set; the      *)
(* liveness runs do not.                                                   *)
(***************************************************************************)
EXTENDS BufferCacheProps, TLC

BlockSymmetry == Permutations(Block)

=============================================================================
