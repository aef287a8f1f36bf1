---------------------------- MODULE GenerateFiles ----------------------------
(***************************************************************************)
(* The file generation phase of gear_bench_tool: the loop that starts one  *)
(* generate_files thread per bench_threads and joins it before the next,   *)
(* the FileNameCreator and the KeyGenerator (INCREMENTAL_RANDOM) that      *)
(* generate_files uses, and the tables it writes.                          *)
(*                                                                         *)
(* start_posi has bench_threads zeros before the loop pushes range_step to *)
(* its end, so every thread gets start_key = 0.                            *)
(***************************************************************************)
EXTENDS Tables

CONSTANTS
  FlagSet,    \* the command lines considered
  Garbage,    \* what a slice of freed memory may read as, besides its old key
  ShortWrites,\* the command lines for which write() may store a part of its data
  UInt64,     \* the number of values of uint64_t
  MaxFiles    \* bound: generate_files opens no more files than this

FlagType ==
  [distinct_num : Nat, bench_threads : Nat, entries_per_file : Nat]

ASSUME FlagAssumption ==
  /\ UInt64 \in Nat \ {0, 1}
  /\ FlagSet \subseteq FlagType
  /\ \A f \in FlagSet : f.distinct_num < UInt64
ASSUME GarbageAssumption == Garbage \subseteq Nat
ASSUME ShortWritesAssumption == ShortWrites \subseteq FlagType
ASSUME MaxFilesAssumption == MaxFiles \in Nat

VARIABLES
  flags,        \* the flags of this process
  format,       \* FLAGS_table_format_enum
  pc,           \* control of the generating thread
  thread,       \* number of generate_files calls joined so far
  values,       \* KeyGenerator::values_, sorted
  next_,        \* KeyGenerator::next_
  generated,    \* generated_entries
  i,            \* the for loop's counter
  key_list,     \* current_file->key_list: slices and whether they are valid
  file_number,  \* FileNameCreator::file_number: input_files holds the names handed out
  written       \* history: the tables written by this phase, in order

gen_vars == << flags, format, pc, thread, values, next_, generated, i, key_list,
               file_number, input_files, disk, written >>

\* "none" stands for the block based and cuckoo tables: their ToDiskFormat is a
\* stub that leaves the buffer empty.
Formats == {"plain", "gear", "none"}

\* MAX_ENTRY_IN_BLOCK, scaled down with the block.
MaxEntryInBlock == 2

range_step == flags.distinct_num \div flags.bench_threads

\* Mutation: signed arithmetic.
SubSigned(a, b) == a - b

Sub64(a, b) == (a - b) % UInt64

\* Mutation: the draws are not sorted.
UnsortedDraws(n) == [1 .. n -> 0 .. n - 1]

(***************************************************************************)
(* KeyGenerator(rand, INCREMENTAL_RANDOM, range, seed, 8, 0): range draws  *)
(* of rand->Next() % range, sorted.  Any sorted vector is the sort of some *)
(* draws.                                                                  *)
(***************************************************************************)
SortedDraws(n) ==
  {v \in [1 .. n -> 0 .. n - 1] : \A a, b \in 1 .. n : a <= b => v[a] <= v[b]}

\* NextString: values_[next_++] % distinct_num_.
NextKey == values[next_ + 1] % range_step

-----------------------------------------------------------------------------
\* The caller has divided by bench_threads.
GenInit ==
  /\ flags \in FlagSet
  /\ flags.bench_threads > 0
  /\ format \in Formats
  /\ pc = "spawn"
  /\ thread = 0
  /\ values = << >>
  /\ next_ = 0
  /\ generated = 0
  /\ i = 0
  /\ key_list = << >>
  /\ file_number = 0
  /\ input_files = << >>
  /\ disk = << >>
  /\ written = << >>

\* Mutation: one thread too many.
StartThreadUnbounded ==
  /\ pc = "spawn"
  /\ values' \in SortedDraws(range_step)
  /\ next_' = 0
  /\ generated' = 0
  /\ pc' = "open"
  /\ thread' = thread + 1
  /\ UNCHANGED << flags, format, i, key_list, file_number, input_files, disk, written >>

\* Mutation: every thread has a FileNameCreator of its own.
StartThreadOwnNames ==
  /\ pc = "spawn"
  /\ thread < flags.bench_threads
  /\ values' \in SortedDraws(range_step)
  /\ next_' = 0
  /\ generated' = 0
  /\ file_number' = 0
  /\ pc' = "open"
  /\ UNCHANGED << flags, format, thread, i, key_list, input_files, disk, written >>

\* std::thread t(generate_files, ...): the thread's locals are set up.
StartThread ==
  /\ pc = "spawn"
  /\ thread < flags.bench_threads
  /\ values' \in SortedDraws(range_step)
  /\ next_' = 0
  /\ generated' = 0
  /\ pc' = "open"
  /\ UNCHANGED << flags, format, thread, i, key_list, file_number, input_files,
                  disk, written >>

\* The head of while (true): next name, new table.
OpenFile ==
  /\ pc = "open"
  /\ file_number < MaxFiles
  /\ file_number' = file_number + 1
  /\ input_files' = Append(input_files, file_number)
  /\ disk' = OpenForWrite(disk, file_number)
  /\ key_list' = << >>
  /\ i' = 0
  /\ pc' = "fill"
  /\ UNCHANGED << flags, format, thread, values, next_, generated, written >>

\* Mutations: the break at the top of the body is gone; the loop runs once more.
MoreToFillNoBreak == i < flags.entries_per_file
MoreToFillInclusive == i <= flags.entries_per_file /\ generated < range_step

\* The for loop goes on: its condition and the break at the top of its body.
MoreToFill == i < flags.entries_per_file /\ generated < range_step

\* The body of the for loop up to the counter: ikey is built on the stack and
\* a slice of its storage is pushed.
PushEntry ==
  /\ pc = "fill"
  /\ MoreToFill
  /\ key_list' = Append(key_list, [key |-> NextKey, live |-> TRUE])
  /\ next_' = next_ + 1
  /\ generated' = generated + 1
  /\ pc' = "body"
  /\ UNCHANGED << flags, format, thread, values, i, file_number, input_files,
                  disk, written >>

\* The end of the for loop's body: ikey is destroyed and its storage freed.
EndBody ==
  /\ pc = "body"
  /\ key_list' = [key_list EXCEPT ![Len(key_list)].live = FALSE]
  /\ i' = i + 1
  /\ pc' = "fill"
  /\ UNCHANGED << flags, format, thread, values, next_, generated, file_number,
                  input_files, disk, written >>

\* What ToDiskFormat may read through key_list: the key where the storage is
\* still allocated, anything where it is not.
ReadableAs(list) ==
  {seen \in [1 .. Len(list) -> Garbage \cup {list[k].key : k \in 1 .. Len(list)}] :
     \A k \in 1 .. Len(list) :
       seen[k] = list[k].key \/ (~list[k].live /\ seen[k] \in Garbage)}

DiskFormat(keys) ==
  CASE format = "plain" -> PlainDiskFormat(keys)
    [] format = "gear" -> GearDiskFormat(keys, MaxEntryInBlock)
    [] format = "none" -> << >>

\* How much of n cells write() may store; -1 would abort at its assert, and
\* generate_files ignores the returned length.
Stored(n) == IF flags \in ShortWrites THEN 0 .. n ELSE {n}

\* Mutations: the while loop stops two entries early, or waits for one too many.
RangeCoveredEarly == generated >= Sub64(range_step, 2)
RangeCoveredLate == generated > range_step

\* if (generated_entries >= range - 1) break, in uint64_t.
RangeCovered == generated >= Sub64(range_step, 1)

\* The for loop is over: ToDiskFormat, WriteToDisk, delete, and the test that
\* ends the while loop (the thread returns and is joined).
WriteFile ==
  /\ pc = "fill"
  /\ ~MoreToFill
  /\ \E seen \in ReadableAs(key_list) : \E n \in Stored(Len(DiskFormat(seen))) :
       /\ disk' = WriteToDisk(disk, input_files[Len(input_files)],
                              SubSeq(DiskFormat(seen), 1, n))
       /\ written' = Append(written,
                     [thread |-> thread, seen |-> seen, stored |-> n,
                      keys |-> [k \in 1 .. Len(key_list) |-> key_list[k].key]])
  /\ IF RangeCovered
     THEN pc' = "spawn" /\ thread' = thread + 1
     ELSE pc' = "open" /\ UNCHANGED thread
  /\ UNCHANGED << flags, format, values, next_, generated, i, key_list,
                  file_number, input_files >>

GenNext == StartThread \/ OpenFile \/ PushEntry \/ EndBody \/ WriteFile

GenDone == pc = "spawn" /\ thread = flags.bench_threads

GenSpec == GenInit /\ [][GenNext]_gen_vars

\* The thread is never descheduled forever, and neither the disk nor the name
\* counter makes it wait.
GenFairSpec == GenSpec /\ WF_gen_vars(GenNext)

-----------------------------------------------------------------------------
KeySlice == [key : Nat, live : BOOLEAN]
WrittenType == [thread : Nat, seen : Seq(Nat), stored : Nat, keys : Seq(Nat)]

\* Every variable of generate_files keeps its C++ type.
GenTypeOK ==
  /\ flags \in FlagSet
  /\ format \in Formats
  /\ pc \in {"spawn", "open", "fill", "body"}
  /\ thread \in 0 .. flags.bench_threads
  /\ values \in Seq(Nat)
  /\ next_ \in Nat
  /\ generated \in Nat
  /\ i \in Nat
  /\ key_list \in Seq(KeySlice)
  /\ file_number \in Nat
  /\ input_files \in Seq(Nat)
  /\ DOMAIN disk \subseteq Nat
  /\ written \in Seq(WrittenType)

\* The assertion of KeyGenerator::Next (next_ < distinct_num_) holds whenever
\* the for loop is about to draw a key: the generator is never run dry. The
\* variables of generate_files keep their types, no thread beyond the last.
NextWithinValues ==
  /\ GenTypeOK
  /\ next_ <= Len(values)
  /\ (pc = "fill" /\ MoreToFill) => next_ < Len(values)

\* A joined thread has produced its whole range, or all of it but one entry:
\* the while loop stops one short of the range (range - 1).
CallTotal ==
  (pc = "spawn" /\ thread > 0 /\ range_step > 0) =>
    generated \in {range_step - 1, range_step}

\* Of the tables one thread writes only the last may hold fewer than
\* entries_per_file entries, unless its range is empty; none holds more.
OnlyLastFileShort ==
  \A k \in 1 .. Len(written) :
    /\ Len(written[k].keys) <= flags.entries_per_file
    /\ (range_step > 0 /\ k < Len(written) /\ written[k + 1].thread = written[k].thread) =>
         Len(written[k].keys) = flags.entries_per_file

\* FileNameCreator never hands out a name twice, in one thread or across the
\* threads that share it: the names are consecutive.
NamesUnique ==
  /\ Len(input_files) = file_number
  /\ \A k \in 1 .. Len(input_files) : input_files[k] = k - 1

\* The tables of one thread, read in the order they are written, are one
\* sorted run of keys below the thread's range.
SortedRun ==
  \A k, l \in 1 .. Len(written) :
    (k <= l /\ written[k].thread = written[l].thread) =>
      \A a \in 1 .. Len(written[k].keys), b \in 1 .. Len(written[l].keys) :
        (k < l \/ a <= b) =>
          /\ written[k].keys[a] <= written[l].keys[b]
          /\ written[l].keys[b] < range_step

\* In a directory that was empty, the file with the k-th name holds the stored
\* part of what the k-th ToDiskFormat read, to the end of the phase.
DiskHoldsWritten ==
  /\ DOMAIN disk = {input_files[k] : k \in 1 .. Len(input_files)}
  /\ \A k \in 1 .. Len(written) :
       disk[input_files[k]] = SubSeq(DiskFormat(written[k].seen), 1, written[k].stored)

\* A thread that writes empty tables never ends: with a zero range (fewer entries
\* than threads) range - 1 wraps to the largest uint64_t, and with tables of no
\* entry the count stays below it, unless one entry is all that is wanted.
EmptyTablesNeverJoin ==
  (range_step = 0 \/ (flags.entries_per_file = 0 /\ range_step > 1)) =>
    thread = 0 /\ generated = 0

\* In every other case the generation phase ends.
Terminates ==
  (range_step > 0 /\ (flags.entries_per_file > 0 \/ range_step = 1)) ~> GenDone

\* slice.h: a slice is not used after its storage is deallocated.  The for
\* loop is over and ToDiskFormat is about to read key_list.
NoSliceOutlivesItsKey ==
  (pc = "fill" /\ ~MoreToFill) =>
    \A k \in 1 .. Len(key_list) : key_list[k].live
=============================================================================
