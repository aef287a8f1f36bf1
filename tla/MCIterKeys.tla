----------------------------- MODULE MCIterKeys -----------------------------
(***************************************************************************)
(* Instances of IterKeys for TLC.                                          *)
(***************************************************************************)
EXTENDS IterKeys

\* No cell, a key that fits the inline buffer of two cells together with its
\* footer, one that fills it, and one that needs the heap.
MCUserKeys == {<< >>, << 1 >>, << 1, 2 >>, << 2, 1, 1 >>}
MCFooters == {<< 3 >>}
=============================================================================
