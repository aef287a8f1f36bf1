------------------------------ MODULE GearBench ------------------------------
(***************************************************************************)
(* The benchmark process: main walks through the comma separated list of   *)
(* benchmarks, each of which generates files, merges files, or both, over  *)
(* the directory db_path.  The directory outlives the process: processes   *)
(* with other flags and other lists run over it one after the other, and a *)
(* process may be killed at any step.                                      *)
(*                                                                         *)
(* GenerateFiles models the generation phase and BaselineMerger the merge; *)
(* this module composes them over the directory and the list of names that *)
(* Tables declares.  The merger's Disks, Inputs and Logics are not used:   *)
(* here a merge starts on what the process has made of the directory.      *)
(***************************************************************************)
EXTENDS GenerateFiles, BaselineMerger, FiniteSets

CONSTANTS
  BenchLists,   \* the values of the benchmark flag considered
  MaxRuns       \* bound: processes run over the directory

ASSUME RunsAssumption == MaxRuns \in Nat \ {0}

VARIABLES
  stage,      \* what main is doing
  bench,      \* the benchmarks left, the current one first
  runs,       \* processes started so far
  complete    \* history: flags and keys of the generation phase that last
              \* wrote the directory, file by file, if it was baseline_full and
              \* ran to its end

gen_locals == << format, pc, thread, values, next_, generated, i, key_list, file_number, written >>
merger_locals == << logic, mpc, loaded, cur, readed_entries, readed_len, heap, last_entry,
                    abandoned, popped >>
vars == << flags, gen_locals, input_files, disk, merger_locals, stage, bench, runs, complete >>

Incomplete == [flags |-> << >>, keys |-> << >>]

\* The divisions at the start of each benchmark: distinct_num / bench_threads
\* and, in merge-only, distinct_num / entries_per_file.
DividesByZero(b) ==
  flags.bench_threads = 0 \/ (b = "baseline" /\ flags.entries_per_file = 0)

-----------------------------------------------------------------------------
\* A new FileNameCreator, key generator and list of input files.
NewGenerator(fmt) ==
  /\ format' = fmt
  /\ pc' = "spawn"
  /\ thread' = 0
  /\ values' = << >>
  /\ next_' = 0
  /\ generated' = 0
  /\ i' = 0
  /\ key_list' = << >>
  /\ file_number' = 0
  /\ input_files' = << >>
  /\ written' = << >>

\* BaselineMerger merger(input_files, ...) and GenerateFilterArgs(kRemoveRedundant).
NewMerger ==
  /\ logic' = [kind |-> "kRemoveRedundant", prefix |-> {}, seq |-> 0]
  /\ mpc' = "idle"
  /\ loaded' = << >>
  /\ cur' = 1
  /\ readed_entries' = 0
  /\ readed_len' = 0
  /\ heap' = << >>
  /\ last_entry' = << >>
  /\ abandoned' = << >>
  /\ popped' = << >>

Init ==
  /\ flags \in FlagSet
  /\ bench \in BenchLists
  /\ format = "plain" /\ pc = "spawn" /\ thread = 0 /\ values = << >> /\ next_ = 0
  /\ generated = 0 /\ i = 0 /\ key_list = << >> /\ file_number = 0 /\ written = << >>
  /\ input_files = << >>
  /\ disk = << >>
  /\ logic = [kind |-> "kRemoveRedundant", prefix |-> {}, seq |-> 0]
  /\ Idle
  /\ stage = "main"
  /\ runs = 1
  /\ complete = Incomplete

Current(b) == bench # << >> /\ bench[1] = b

\* FPGAMerger: generate into the directory as it is, in the format of the
\* table_format flag.
StartGear ==
  /\ stage = "main"
  /\ Current("gear")
  /\ ~DividesByZero("gear")
  /\ \E fmt \in Formats : NewGenerator(fmt)
  /\ stage' = "generate"
  /\ complete' = Incomplete
  /\ UNCHANGED << flags, disk, merger_locals, bench, runs >>

\* Mutation: the old files are not removed.
StartFullKeepsFiles ==
  /\ stage = "main"
  /\ Current("baseline_full")
  /\ ~DividesByZero("baseline_full")
  /\ UNCHANGED disk
  /\ NewGenerator("plain")
  /\ stage' = "generate"
  /\ complete' = Incomplete
  /\ UNCHANGED << flags, merger_locals, bench, runs >>

\* BaselineMergeTask(false) up to the generation: rm -rf db_path first.
StartFull ==
  /\ stage = "main"
  /\ Current("baseline_full")
  /\ ~DividesByZero("baseline_full")
  /\ disk' = << >>
  /\ NewGenerator("plain")
  /\ stage' = "generate"
  /\ complete' = Incomplete
  /\ UNCHANGED << flags, merger_locals, bench, runs >>

\* Mutation: the files of one thread only.
MergeOnlyFilesPerThread ==
  (flags.distinct_num \div flags.bench_threads) \div flags.entries_per_file

\* Mutation: the last, short file is counted.
MergeOnlyFilesRoundedUp ==
  (flags.distinct_num + flags.entries_per_file - 1) \div flags.entries_per_file

\* BaselineMergeTask(true): the names only, as many as distinct_num /
\* entries_per_file.
MergeOnlyFiles == flags.distinct_num \div flags.entries_per_file

StartMergeOnly ==
  /\ stage = "main"
  /\ Current("baseline")
  /\ ~DividesByZero("baseline")
  /\ input_files' = [k \in 1 .. MergeOnlyFiles |-> k - 1]
  /\ file_number' = MergeOnlyFiles
  /\ NewMerger
  /\ stage' = "merge"
  /\ UNCHANGED << flags, format, pc, thread, values, next_, generated, i, key_list, written,
                  disk, bench, runs, complete >>

\* The division traps, in baseline_full after rm -rf has run.
DivisionTraps ==
  /\ stage = "main"
  /\ \E b \in {"gear", "baseline_full", "baseline"} :
       /\ Current(b)
       /\ DividesByZero(b)
       /\ disk' = IF b = "baseline_full" THEN << >> ELSE disk
       /\ complete' = IF b = "baseline_full" THEN Incomplete ELSE complete
  /\ stage' = "exit"
  /\ UNCHANGED << flags, gen_locals, input_files, merger_locals, bench, runs >>

\* main has no branch for any other name.
SkipUnknown ==
  /\ stage = "main"
  /\ bench # << >>
  /\ bench[1] \notin {"gear", "baseline_full", "baseline"}
  /\ bench' = Tail(bench)
  /\ UNCHANGED << flags, gen_locals, input_files, disk, merger_locals, stage, runs, complete >>

GenerateStep ==
  /\ stage = "generate"
  /\ GenNext
  /\ UNCHANGED << merger_locals, stage, bench, runs, complete >>

\* The keys a plain generation phase put on disk: what ToDiskFormat read of each
\* table, as far as write() stored it.
StoredKeys(w) ==
  SubSeq(w.seen, 1, (w.stored + EntryCells - 1) \div EntryCells)

WrittenKeys == [k \in 1 .. Len(written) |-> StoredKeys(written[k])]

\* FPGAMerger returns after generating.
FinishGear ==
  /\ stage = "generate"
  /\ GenDone
  /\ Current("gear")
  /\ stage' = "main"
  /\ bench' = Tail(bench)
  /\ UNCHANGED << flags, gen_locals, input_files, disk, merger_locals, runs, complete >>

\* BaselineMergeTask(false) goes on to merge the files it generated.
MergeGenerated ==
  /\ stage = "generate"
  /\ GenDone
  /\ Current("baseline_full")
  /\ NewMerger
  /\ stage' = "merge"
  /\ complete' = [flags |-> flags, keys |-> WrittenKeys]
  /\ UNCHANGED << flags, gen_locals, input_files, disk, bench, runs >>

MergeStep ==
  /\ stage = "merge"
  /\ MergerNext
  /\ UNCHANGED << flags, gen_locals, stage, bench, runs, complete >>

FinishMerge ==
  /\ stage = "merge"
  /\ mpc = "done"
  /\ stage' = "main"
  /\ bench' = Tail(bench)
  /\ UNCHANGED << flags, gen_locals, input_files, disk, merger_locals, runs, complete >>

\* The merger's constructor asserted, or an optimised build ran off the end of
\* DoCompaction, which has no return statement.
MergeDies ==
  /\ stage = "merge"
  /\ mpc \in {"abort", "done"}
  /\ stage' = "exit"
  /\ UNCHANGED << flags, gen_locals, input_files, disk, merger_locals, bench, runs, complete >>

MainReturns ==
  /\ stage = "main"
  /\ bench = << >>
  /\ stage' = "exit"
  /\ UNCHANGED << flags, gen_locals, input_files, disk, merger_locals, bench, runs, complete >>

\* The process is killed; what write() stored stays.
Killed ==
  /\ stage \in {"main", "generate", "merge"}
  /\ stage' = "exit"
  /\ UNCHANGED << flags, gen_locals, input_files, disk, merger_locals, bench, runs, complete >>

\* Another process over the same directory, with its own flags.
Restart ==
  /\ stage = "exit"
  /\ runs < MaxRuns
  /\ runs' = runs + 1
  /\ flags' \in FlagSet
  /\ bench' \in BenchLists
  /\ stage' = "main"
  /\ NewGenerator("plain")
  /\ NewMerger
  /\ UNCHANGED << disk, complete >>

ProcessStep ==
  \/ StartGear \/ StartFull \/ StartMergeOnly \/ DivisionTraps \/ SkipUnknown
  \/ GenerateStep \/ FinishGear \/ MergeGenerated
  \/ MergeStep \/ FinishMerge \/ MergeDies \/ MainReturns

Next == ProcessStep \/ Killed \/ Restart

Spec == Init /\ [][Next]_vars

\* The process keeps running until it exits; nobody has to start another one.
FairSpec == Spec /\ WF_vars(ProcessStep)

-----------------------------------------------------------------------------
\* The composition keeps the types of both components.  A merger exists while
\* its task runs.
TypeOK ==
  /\ GenTypeOK
  /\ stage = "merge" => MergerTypeOK
  /\ stage \in {"main", "generate", "merge", "exit"}
  /\ runs \in 1 .. MaxRuns

\* Two functions take each value equally often.
Count(g, v) == Cardinality({x \in DOMAIN g : g[x] = v})
SameBag(g, h) ==
  \A v \in {g[x] : x \in DOMAIN g} \cup {h[x] : x \in DOMAIN h} : Count(g, v) = Count(h, v)

PoppedKeys == [k \in 1 .. Len(popped) |-> KeyOf(popped[k])]

\* The entries that ReadFromDisk's limit leaves of a file of n entries.
Readable(n) ==
  LET most == (ReadLimit + EntryCells - 1) \div EntryCells
  IN  IF n < most THEN n ELSE most

\* The readable keys of the first n files, by file and place.
KeysOf(files, n) ==
  [p \in UNION {{f} \X (1 .. Readable(Len(files[f]))) : f \in 1 .. n} |-> files[p[1]][p[2]]]

\* baseline_full merges exactly the entries it generated and stored, up to the
\* read limit of each file, whatever earlier processes, killed or not, left in the
\* directory.  The variables of both phases keep their types.
FullMergesItsOwn ==
  /\ TypeOK
  /\ (stage = "merge" /\ Current("baseline_full")) =>
      /\ mpc # "abort"
      /\ mpc = "done" => SameBag(PoppedKeys, KeysOf(WrittenKeys, Len(written)))

\* The flags for which a generation phase fills each of its files and as many
\* files as merge-only asks for: each thread's range is a multiple of a table
\* of at least two entries.  (The default flags are of this kind.)
EvenFlags(f) ==
  /\ f.entries_per_file > 1
  /\ f.distinct_num % (f.bench_threads * f.entries_per_file) = 0

\* A process ends if it may, for flags whose generation phase ends.
ProcessEnds == (stage # "exit") ~> (stage = "exit")

\* baseline, run with any flags after baseline_full with the same ones, fails on
\* a missing file exactly if distinct_num / entries_per_file is more than the
\* files that were made (tables of one entry: generation stops one entry short),
\* and otherwise merges that many files, the first ones: a last, short file that
\* the division does not count is left out.  With even flags it merges every
\* entry that was generated.
MergeOnlyExact ==
  (stage = "merge" /\ Current("baseline") /\ complete.flags = flags) =>
    LET named == flags.distinct_num \div flags.entries_per_file
        made == Len(complete.keys)
    IN  /\ EvenFlags(flags) => named = made
        /\ mpc = "abort" => named > made
        /\ mpc = "done" => named <= made /\ SameBag(PoppedKeys, KeysOf(complete.keys, named))
=============================================================================
