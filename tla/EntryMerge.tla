----------------------------- MODULE EntryMerge -----------------------------
(***************************************************************************)
(* What a merger promises about the entries of its input files, before any *)
(* ordering or filtering: every entry comes out exactly once and nothing   *)
(* else does.  An entry is identified by its file and its place in it.     *)
(***************************************************************************)
EXTENDS Integers, Sequences

CONSTANT Entries   \* every entry an input file may hold

VARIABLES
  pending,   \* entries not yet handed to the arbitration
  emitted    \* entries handed to it, in order

merge_vars == << pending, emitted >>

Init ==
  /\ pending \in SUBSET Entries
  /\ emitted = << >>

Emit(e) ==
  /\ e \in pending
  /\ pending' = pending \ {e}
  /\ emitted' = Append(emitted, e)

Next == \E e \in pending : Emit(e)

Spec == Init /\ [][Next]_merge_vars

\* The pending entries and the emitted ones never overlap, and no entry is
\* emitted twice.
EachOnce ==
  /\ pending \subseteq Entries
  /\ emitted \in Seq(Entries)
  /\ \A k \in 1 .. Len(emitted) : emitted[k] \notin pending
  /\ \A k, l \in 1 .. Len(emitted) : emitted[k] = emitted[l] => k = l

\* No entry gets lost: what leaves the pending entries is emitted.
NothingLost ==
  [][\A e \in Entries :
       (e \in pending /\ e \notin pending') =>
         \E k \in 1 .. Len(emitted') : emitted'[k] = e]_merge_vars
=============================================================================
