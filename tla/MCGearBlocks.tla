---------------------------- MODULE MCGearBlocks ----------------------------
(***************************************************************************)
(* Instances of GearBlocks for TLC: a layout that fills the block to the   *)
(* last byte.                                                              *)
(***************************************************************************)
EXTENDS GearBlocks

\* No entry, part of a block, exactly one and two blocks, and one more.
MCTotals == 0 .. 7
=============================================================================
