------------------------------ MODULE MCSlabPool ------------------------------
(***************************************************************************)
(* Two slabs of the eight.  The first is asked for two sizes, so that a    *)
(* block can come back for a larger or smaller request than its first.     *)
(***************************************************************************)
EXTENDS SlabPool, TLC

Sizes    == <<32, 64>>
Asked    == {20, 32, 60, 100}
Symmetry == Permutations(Blocks)
=============================================================================
