--------------------------- MODULE MCPinnableSlices ---------------------------
(***************************************************************************)
(* Instances of PinnableSlices for TLC.                                    *)
(***************************************************************************)
EXTENDS PinnableSlices

CONSTANTS p1, p2, h1, h2, s1, b1, b2, b3

\* Objects of one kind can be exchanged for each other.
Symmetry ==
  Permutations({p1, p2}) \cup Permutations({h1, h2}) \cup Permutations({b1, b2, b3})

\* Delegating registers the cleanups one after the other.
ASSUME DelegateRegistersEach ==
  \A from, to \in SeqOf({b1, b2, b3}, 3) : Delegate(from, to) = FoldLeft(Register, to, from)
=============================================================================
