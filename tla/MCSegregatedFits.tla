-------------------------- MODULE MCSegregatedFits --------------------------
(* Three size classes instead of five, small enough for a pool of a few     *)
(* blocks to have blocks of every class.                                    *)
EXTENDS SegregatedFits

Limits == <<8, 32, 64>>
=============================================================================
