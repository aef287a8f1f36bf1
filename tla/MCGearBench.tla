----------------------------- MODULE MCGearBench -----------------------------
(***************************************************************************)
(* Instances of GearBench for TLC.                                         *)
(***************************************************************************)
EXTENDS GearBench

Flags(d, t, e) == [distinct_num |-> d, bench_threads |-> t, entries_per_file |-> e]

\* Even flags with one and two threads, flags that leave a short file, one entry
\* too few, more names than files or more files than names, files longer than
\* the read limit, and flags that divide by zero.
MCFlagSet ==
  {Flags(2, 1, 2), Flags(4, 2, 2), Flags(3, 1, 2), Flags(2, 2, 1), Flags(2, 1, 1),
   Flags(2, 1, 3), Flags(3, 1, 3), Flags(1, 1, 0), Flags(2, 0, 2)}

MCBenchLists ==
  {<< "baseline_full" >>, << "baseline" >>, << "gear" >>,
   << "baseline_full", "baseline" >>, << "gear", "baseline" >>,
   << "gear_full", "baseline_full" >>, << "baseline", "gear" >>}

\* The command lines under which write() may be short.
MCShortWrites == {Flags(2, 1, 2)}
=============================================================================
