--------------------------- MODULE MCGenerateFiles ---------------------------
(***************************************************************************)
(* Instances of GenerateFiles for TLC.                                     *)
(***************************************************************************)
EXTENDS GenerateFiles

Flags(d, t, e) == [distinct_num |-> d, bench_threads |-> t, entries_per_file |-> e]

\* One to three entries, one or two threads, tables of zero to two entries:
\* ranges that are a multiple of the table size, one more and one less, a zero
\* range (1 entry, 2 threads), and tables of no entry.
MCFlagSet ==
  {Flags(d, t, e) : d \in 1 .. 3, t \in 1 .. 2, e \in 0 .. 2} \cup {Flags(4, 1, 2), Flags(5, 2, 1)}

\* Command lines for which the phase is expected to end.
MCEndingFlagSet ==
  {f \in MCFlagSet \cup {Flags(5, 1, 2), Flags(4, 2, 2)} :
     f.distinct_num \div f.bench_threads > 0 /\ f.entries_per_file > 0}
=============================================================================
