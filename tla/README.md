# A TLA+ verification of compaction-test

compaction-test benchmarks the merge phase of an LSM compaction. One program,
`gear_bench_tool`, writes table files of sorted internal keys into a directory
and merges them through a priority queue. Around it stands a small library
taken from RocksDB and adapted: internal keys, slices and their cleanups,
integer coding and text encodings, statuses, a mutex. This directory holds a TLA+ model of the benchmark and
of the parts of the library that keep state, TLC runs over small instances, and
TLAPS proofs for every value of the constants.

## 1. Inventory

| Part | State | Operations | Interacts with | What is hard, and what makes it correct |
|---|---|---|---|---|
| File generation (`tools/gear_bench_tool.cc`, `gear_bench_classes`) | key generator (`values_`, `next_`), `generated_entries`, `key_list`, `file_number`, names | `generate_files`, started and joined once per thread | shared name creator, list of names, the directory | wrap of `range - 1`, two bounds that differ by one, slices of freed keys, short writes. The generator is never dry, names are unique, files hold what was written, the phase ends |
| Table files (`tables/`) | file descriptor, file contents | open, `WriteToDisk`, `ReadFromDisk`, `ToDiskFormat` | generation and merge, through the directory | no `O_TRUNC`, short writes, a read buffer that is longer than the file |
| Baseline merger (`include/stream_merger.cc`, `merger.cc`) | loaded files, read positions, priority queue, `last_entry`, `abandoned_entries` | constructor, `PrepareFiles`, `MergeEntries`, `Arbitration` | table files, `std::priority_queue` | a comparator that is no ordering, a read limit that is no multiple of an entry. Every entry is taken once |
| Benchmark process (`main`) | list of benchmarks, flags | `FPGAMerger`, `BaselineMergeTask` | composes the two phases; the directory outlives it | processes killed at any step, flags of zero that trap after the directory is emptied, merge-only that goes by names |
| Block formats (`on_board_format`, `gear_table.cc`, `table_builder.cc`) | buffers, block counts | `AddBlock`, `ComposeResults`, `FromOnBoardBlocks`, `ComposeEntryVector` | table files | unsigned padding, macros without parentheses, uninitialised counter. Every entry is at the offset its number gives |
| Internal keys (`db_format/dbformat`) | none | pack, parse, compare, seek keys, separators | all comparators | one total order, encoded or parsed |
| `IterKey` (`dbformat.h`) | inline and heap buffer, key pointer and size | set, trim and append, own, update, reserve | client memory | buffer exchange while the key points to it |
| `PinnableSlice`, `Cleanable` (`slice`, `cleanable`) | list of cleanups, own or outside string, data pointer | pin, delegate, move, reset, remove | clients' blocks | no cleanup runs twice, a slice loses none; data never dangles |
| `Mutex`, `CondVar` (`port/port_posix`) | pthread mutex, `locked_` | `Lock`, `Unlock`, `Wait`, `TimedWait`, `Signal`, `SignalAll` | threads | interleavings, lost and spurious wakeups, timeouts. To its users it is a monitor |
| `Status` (`include/status.h`) | code, subcode, severity, message buffer, `checked_` | factories, copies, moves, assignments, predicates, destructor | clients | one owner per message, a check that is due must travel with its error. To its users it is a value |
| Coding (`utils/coding`) | none (strings) | put and get of integers and slices | table and key formats | group boundaries, cut input |
| Byte keys and prefixes (`gear_bench_classes.cc`, `slice.h`, `slice.cc`) | none | key bytes of a number, comparison, prefix transforms | key order of the merge | the order of the bytes is the order of the numbers; a prefix is stable under appending |
| Texts (`string_util.cc`, `slice.cc`) | none | decimal, hexadecimal, escaped options, lists of integers | coding | overflow, ambiguous escapes, texts without a length that were cut |

Not modelled, with the reason:

- the base `Merger`, `FPGA_Stream_Merger` and `PipelineMerger`: abstract, nothing
  can instantiate them, so their filters and merge loops are not reached (and
  `DoFilter` starts with `back()` of an empty vector, which has no defined result);
- the FPGA interface, block based and cuckoo tables: stubs (the empty file the
  stubs write *is* modelled);
- `RWMutex`: each function is one pthread call and there is no state besides, so
  any property would be one of pthread; the CPU and memory helpers are wrappers;
- `Random` and `Random32` have no user; `Random64` is `std::mt19937_64`, and its
  users are modelled for any draw. (`GoodSeed`, `random.h:29`, lets a seed of
  `M` pass, which the comment at lines 45-47 excludes.)
- the key generators other than `INCREMENTAL_RANDOM`: no caller and no contract;
  what they share, `GenerateKeyFromInt`, is modelled;
- memory use: every input is loaded whole into 512 MiB (`table_builder.cc:28`);
- threads that share a `Status`: in the asserting build its const functions write
  `checked_` (`status.h:526`, against the comment at lines 12-15), but nothing here
  shares one;
- `Comparator` and its wrapper: an interface without an implementation here;
- of the string utilities, the formatting for people, which nothing reads back,
  and the `Parse...` functions that forward to `std::stoi` and its kin.

The benchmark calls none of `IterKey`, `PinnableSlice`, `CondVar`, `Status`, the
prefix transforms or the text encodings; these are modelled as libraries, under
every sequence of calls their contracts allow.

## 2. Modules

| Module | Models | State and actions |
|---|---|---|
| `Tables` | table files as sequences of cells | the directory `disk` and the list `input_files` that the phases share; operators: layouts, `OpenForWrite`, `WriteToDisk`, `ReadBuffer` |
| `GenerateFiles` | the generation phase | one action per part of the loops: `StartThread`, `OpenFile`, `PushEntry`, `EndBody` (where `ikey` dies), `WriteFile` (layout, write, delete and the test that ends the loop) |
| `BaselineMerger` | `BaselineMerger` from constructor to return | `OpenInputs`, `LoadFile`, `AllLoaded`, `QueueEntry`, `NextInput`, `AllQueued`, `PopEntry`, `Finish` |
| `StdHeap` | libstdc++'s `push_heap` and `pop_heap` (external) | operators; recursive functions, no heap contract assumed, since the comparator is not a strict order |
| `EntryMerge` | what a merge promises | `Emit`: one pending entry leaves, at the end of the output |
| `GearBench` | `main` and its benchmarks | the steps of `GenerateFiles` (`GenNext`) and `BaselineMerger` (`MergerNext`) over one directory and list of names, plus `StartGear`, `StartFull`, `StartMergeOnly`, `Killed`, `Restart`, ... |
| `GearBlocks` | block layout and the two readers | `AddBlock`, `DecodeTableBlock`, `DecodeVectorBlock`; a byte names its origin |
| `InternalKeys` | packing, orders, bounds | operators and laws; `SliceBytes` extends it |
| `IterKeys` | `IterKey` | one action per family of member functions |
| `PinnableSlices` | `PinnableSlice` and `Cleanable` | one action per member function |
| `PortMutex` | `Mutex` and `CondVar` in a debug build | each pthread call and each write of `locked_` is a step |
| `MonitorLock` | what they promise | a monitor: enter, leave, wait, wake, each one step |
| `Statuses` | `Status` | one action per family of member functions; message buffers are allocated and deleted; `asserting` says whether the build has `checked_` |
| `StatusValues` | what it promises | values without pointers: make, copy, move, destroy |
| `SliceBytes` | byte strings: fixed width integers, comparison, generated keys, encoded internal keys, prefix transforms | operators |
| `Texts` | hexadecimal, decimal, escaped and listed texts | operators; the characters that the code tells apart are constants |
| `Coding` | all of these encodings as a stream | one put per kind of item, a cut at any byte (`HandOver`), gets |

The chain is `InternalKeys`, `SliceBytes`, `Texts`, `Coding`, each extending the
one before. `GearBench` extends `GenerateFiles` and `BaselineMerger`, both of which
extend `Tables`: the two phases keep their own variables, and the directory and the
list of names are one. Their specifications are therefore named apart (`GenInit`,
`GenSpec`, `GenTypeOK`; `MergerInit`, `MergerSpec`, `MergerTypeOK`).
`BaselineMerger` implements `EntryMerge`, `PortMutex` implements `MonitorLock`,
`Statuses` implements `StatusValues`.

`MC...` modules and `.cfg` files instantiate them; `..._proofs` modules hold the
theorems. Definitions named after a bug ("Mutation: ...") stand before the
definition they vary; nothing else uses them. They show that each property
notices a plausible slip in the code. Each module has one type invariant:
part of the inductive invariant in `PortMutex`, and in the other modules a conjunct
of one of the safety invariants (`GenTypeOK` of `NextWithinValues`).

Abstractions. A plain entry (26 bytes) is two cells, key and value. A user key is
its rank. The generator's draws are any sorted vector: sorting makes each one
possible. Bytes of freed memory are the old key or `Garbage`. `write()` stores
any part of its data (under the flags in `ShortWrites`). A byte of a block is the triple of part,
entry and position it comes from. A byte in `Coding` has `2 * B` values and a
varint group `B`; the widths are constants. The message of a status is the error
it was made for, so that a lost or exchanged message shows. A process that ran off the end of
`DoCompaction` (which lacks a return statement) goes on or dies.

## 3. Runs

Passing runs:

| Run | Bounds and why they are enough | What it shows |
|---|---|---|
| `generate_files` | 1 to 5 entries, 1 or 2 threads, tables of 0 to 2 entries, at most 4 files, `uint64_t` of 16 values: ranges that are a multiple of the table, one more, one less, and zero | the generator is never dry; a joined thread produced its range or one less; only the last file of a thread is short; names are unique; the files of a thread are one sorted run; the directory holds what was written; a thread that writes empty tables is never joined; all other phases end |
| `baseline_merger` | two files of up to 5 entries (keys 0 to 3, two versions per user key), cut in the middle of an entry or longer than the read limit of 7 cells; a missing file | each entry is taken once (refinement of `EntryMerge` and its completion); slices leave the buffer only at the read limit; the merge ends |
| `gear_bench` | flag sets that are even, leave a short last file, stop one entry short, have one entry per table, no threads or empty tables; a read limit of 4 cells, which one flag set's files exceed; seven lists of benchmarks, two processes killed at any step, short writes for one of the even flag sets | `baseline_full` merges exactly what it generated and stored, up to the read limit, whatever was there before; `baseline` with the same even flags finds it all, and with any flags exactly the files it names, or none if it names one that was not made; processes end, by a trap if a flag is zero |
| `gear_blocks` | tables of 0 to 7 entries in blocks of 3 that leave no slack: empty, partial and full last block | whole blocks, entries in place, both readers find as many entries as were written |
| `iter_keys` | inline buffer of 2 cells, keys of 0 to 4: inline, exact fit, heap, growth | the key reads as what was set, every access is in bounds, no heap buffer leaks |
| `pinnable_slices` | two slices, two other cleanables, three blocks, one outside string, with symmetry | no cleanup runs or is held twice, and none that a slice holds is lost; list nodes are accounted for; data never dangles |
| `port_mutex` | three threads: a holder, a waiter and one in between | flag follows ownership, `AssertHeld` passes for the holder, whoever writes the flag owns the mutex, no signal sent under the mutex misses a waiter, all of it is a monitor, a timed wait returns |
| `coding` | bytes of 32 values, so that every character has its code, varints of up to 4 groups; two items, of boundary values, of 18 internal keys (three user keys across a byte's carry, two sequence numbers, three types up to the seek type) or of texts (the largest number and the next, every escape and its look-alike), cut at every byte | the reader gets what was written, of a cut text its beginning; lengths are as predicted; it stops exactly at the item that was cut or does not fit; keys read back compare as the numbers they were generated from, and lie within the bounds dbformat builds; prefixes are in range, stable and ordered |
| `status` | three objects, three buffers, two errors, with symmetry: a copy, its source and the one written over | one owner per message; a success has none; an object that an error comes into owes a check, and no copy, move or comparison settles one that nobody made; code, message and predicates survive copies and moves; objects are values |

Runs that end in a violation, each a place where code and text disagree:

| Run | Text | What the code does |
|---|---|---|
| `generate_dangling` | `slice.h:10-12`, storage must outlive a slice | `gear_bench_tool.cc:126` pushes a slice of a key destroyed at the end of the loop body |
| `merge_order` | `stream_merger.cc:209`, "Merge Sort" | a three way comparison used as a less-than (`:67`); the trace pops three keys that are in neither order, which a correct comparison would not explain whichever end of the heap is on top |
| `merge_filter` | `stream_merger.cc:160`, filtering inside the merge | `last_entry` is never assigned |

Where the departure is one of a library that nothing in the repository calls, a
theorem states it for every value of the constants, and the properties claim
nothing of the case:

| Theorem | Text | What the code does |
|---|---|---|
| `OverwritingLoses`, `OnlyOverwritingLoses` | `cleanable.h:29-30`, cleanups "will be invoked" | move assignment of a `Cleanable` (`cleanable.cc:16`) overwrites the target's list; nothing else loses one |
| `EndKeyNotFirst`, `TombstoneEndBounds` | `dbformat.h:641-643`, the end key is "less than any other internal-key with the same user-key" | a key with the largest sequence number and a larger type is less (`:648`), such as the seek key of every user key |
| `SeekKeysNeedFreshKey` | `dbformat.h:244-245`, `:251-252`, the setters "set" the key to a bound | they append to the key that the object held (`:247`, `:254`), where `Set` and `SetFrom` clear it |
| `StrayCounterFails`, `ZeroedCounterPasses` | `on_board_format.h:73`, the assertion on `total_entries` | `total_entries` (`:41`) has no initial value: the assertion holds if it happened to be 0 and fails otherwise |
| `AssignmentSwallows` | `status.h:70-72`, an error is swallowed only by an explicit call | assignment clears `checked_` (`:560`, `:590`) whatever it writes over |

The models follow the code elsewhere too; these places have neither:

- `distinct_num` ("number of distinct entries", `gear_bench_tool.cc:57-58`): fewer
  entries are written, as the loop stops at `range - 1` (`:135`) and the range is
  rounded down. `CallTotal` states what is written.
- Merge-only names `distinct_num / entries_per_file` files, but generation stops
  one entry short (`gear_bench_tool.cc:135`): with tables of one entry the last
  file named was never made, and the assertion that it opens
  (`table_builder.cc:16`) fails. `MergeOnlyExact` says when that is.
- `ComposeEntryVector` ("read the keys back forward", `on_board_format.h:67`)
  takes key slices behind the block's end: part of the header is consumed first,
  and `FULL_KEY_LENGTH` is an unparenthesised sum (`VectorSlices`).
- A slice move constructed from a pinned one has an uninitialised `buf_`
  (`slice.cc:210-212`), which it uses once it is reset; line 222 says it is no
  longer of use. `wild` records that use, and behaviours end there.
- `EncodeLengthPrefixedKey` does not set `key_size_` (`dbformat.h:502-509`), so
  `GetKey` (line 361) does not return the key it built.
- `SetInternalKey` of the key's own `GetUserKey()` frees its source when the buffer
  has to grow (`dbformat.h:465`).

Limits of the passing runs.

- `MergeOnlyExact` speaks of directories that a `baseline_full` completed; of a
  `baseline` after a killed one nothing is promised and nothing is stated.
- `ProcessEnds` holds whether the process runs off the end of `DoCompaction`, is
  trapped by a zero flag or returns: it says that none of this makes it hang.
- A missing input of the merger is the abort of the asserting build
  (`table_builder.cc:16`). A build with `NDEBUG` (`CMakeLists.txt` chooses one where
  there is no `.git`) goes on with the descriptor -1 and a `file_size` of
  2^64 - 1 and reads wild memory, which no property could be about.
- `HoldsValue` is silent between `Reserve` or `EncodeLengthPrefixedKey` and the next
  `Set`, and the slices of a behaviour are not followed beyond `wild`.
- A slice delegates its cleanups to another `Cleanable` only while it is not pinned;
  delegating those of a pinned one hands the lifetime of its bytes to the client.
- Of `TimedWait`, the value returned, and of all pthread calls the abort on an
  unexpected error, are left out: they touch neither the mutex nor the flag.
- `SeekKeysBound` and `KeysBounded` are about the seek keys as a fresh `InternalKey`
  holds them, and of a tombstone's end key they speak of other user keys only.
- `CountsAgree` is of the entries both readers push, not of `total_entries`.
- `ErrorsOwed` is of errors that come into an object and of flags that are set,
  not of what an assignment writes over.

Preconditions in the passing runs. In `IterKeys`, a client that converts the held
key through its own `GetUserKey()` has to see to it that the buffer is large
enough, and after `Reserve` and `EncodeLengthPrefixedKey` it sets the key anew
before it goes on from it. The last part of `MergeOnlyExact`
speaks of even flags: each thread's range is a multiple of a table of at least two entries, as with the
default flags. In `Coding`, the key space fits the bytes of a key, a delimiter is a
character that the text does not contain, and the reader asks for the kinds that
were written.

Deadlock is checked for `iter_keys` and `port_mutex`. The others
may stop: they model a phase, a process or a client that comes to its end.

## 4. Fairness

- `GenerateFiles`, `BaselineMerger`, `GearBench`: weak fairness of the program's
  steps. Each is one thread that never waits for another (the spawning thread
  only joins), so a step that can be taken is taken. `Killed` and `Restart` are
  not fair.
- `PortMutex`: weak fairness of a call that runs on, of a holder that lets go,
  and of the deadline of a timed wait; strong fairness of getting the mutex,
  the assumption about pthread that a thread asking again and again for a mutex
  that is released again and again is not starved. `TimedWaitReturns` rests on
  it: a timed wait has to get the mutex back after its deadline. No fairness is
  assumed of signals.

## 5. Proofs

All proofs are checked by TLAPS with no assumption beyond the named ASSUMEs of
the modules (which TLC evaluates in the runs) and, in two theorems about an
uninitialised word, hypotheses of their own on its value.

- `GearBench_proofs`, first part: the generation phase. `GenInv` adds to the type
  invariant: `next_` equals
  `generated` and stays within `Len(values)`, which is the range once a thread
  runs; `i` is the length of `key_list` between turns; the name list is
  `0, 1, ...`; a closed file of the current thread is full; a thread
  that writes empty tables is not joined. It is needed because the safety properties speak of files
  already written or of the state at a join, while only the relation between
  `i`, `generated`, `next_` and `key_list` is preserved step by step. From it:
  `TypeCorrect`, `GeneratorNeverDry`, `JoinedThreadTotal`, `ShortFileIsLast`,
  `NamesNeverRepeat`, `EmptyTablesDiverge`, for every set of flags, any width of
  `uint64_t`, any garbage.
  Two more invariants stand on it. `Ordered`: the draws are sorted, `key_list` is
  sorted, follows the tables that the thread has closed, and none of these keys
  exceeds a draw still to come; from it `ThreadsWriteSortedRuns`.
  `Directory`: the files are those named, the open one is empty, and every closed
  one holds the stored part of its layout; from it `DirectoryHoldsTables`.
- `GearBench_proofs`, second part: the processes. `FullMergesItsOwn` and
  `MergeOnlyExact` relate the end of a merge to a generation phase that may lie
  several processes back, so `BenchInv` carries the directory between them:
  whatever was killed, every file is a string of cells (`DiskTyped`); while
  `complete` says that a `baseline_full` wrote the directory last, the files are
  `0, 1, ...` and hold the keys it recorded, the last entry of a file perhaps cut,
  and for even flags there are as many as merge-only names (`Recorded`); a running
  phase keeps `GenInv`, in `baseline_full` also `Directory` (`Generating`); a
  running merger keeps `MergerInv` over the names its task gave it (`Merging`).
  Three arguments meet in it. *Counting*: with even flags every table is closed
  full, as the range is a multiple of the table and a loop that stops one entry
  short of such a range has reached it (`TableFull`, `RangeReached`); so the files
  times their entries are the entries generated (`Filled`, `EvenFilesMade`).
  *Reading*: the stored part of a plain table holds the keys of the entries it
  reaches into (`PlainKeys`), and the merger finds as many entries as the read
  limit leaves, each where it was laid out (`ReadKeys`). *Bags*: file and place of
  a popped slice give a bijection to the keys recorded, and a bijection that keeps
  values keeps how often each occurs (`MergedBag`, `BagByBijection`, from the
  library's theorems on finite sets). From it: `FullMergeIsExact` and
  `MergeOnlyIsExact`, for every set of flags, every list of benchmarks, any read
  limit and any number of processes, killed wherever they may be.
  The proof corrected the model's type invariant: the merger's locals are gone
  when its task ends, so that `cur` is bounded by the list of names only while it
  merges (a list such as `baseline,gear` makes a new list of names after it); and
  it made the two properties exact for files beyond the read limit, which they
  had left open.
- `BaselineMerger_proofs`. The comparator answers "less" both ways, so nothing can
  be taken from a heap's contract. What holds of `push_heap` and `pop_heap` for
  *any* comparator is that they rearrange: `SiftUpRearranges`, `PopRearranges` and
  `PushRearranges` say so with the permutation as a witness, which each turn of the
  loops changes by one exchange (`HoleMoves`). The loops are recursive functions;
  that these functions exist (`RecursiveFunction`) and what they compute is proved
  by induction from the library's well-founded minimum (`LeastElement`). `MergerInv`
  then says: what is loaded is what `ReadFromDisk` returns; `readed_len` is
  `readed_entries` entries, at most those of the file; the slices made are those of
  the earlier files and the first `readed_entries` of the current one; each is in
  the queue or in `popped`, once. From it: `EveryEntryEmitted`,
  `SlicesInsideContents` and the refinement `MergeImplements`. The lemmas
  `EmittedOnce` and `LeavesByEmission` say what `EntryMerge`'s promise is worth, and
  `MergerKeepsPromise` states it of the merger.
- `GearBlocks_proofs`. `IInv`: `i` is the number of blocks times the entries of a
  block (until the last one), `size` the number of blocks times the block size, the
  buffer is defined below `size`; every header holds its block's count; every entry
  laid out is in its place; the readers' counts are those of the blocks behind them.
  A block is laid out above `size`, so the earlier ones stay. From it:
  `FilesAreWholeBlocks`, `EntriesStayInPlace`, `ReadersCountAll`, for all lengths;
  and `ZeroedCounterPasses` and `StrayCounterFails`: for tables below 2^32 entries
  the assertion on `total_entries` holds if uninitialised words are 0 and fails if
  they are not.
- `IterKeys_proofs`. `IInv`: the shape of the object (which of the three memories
  the key is in, how long each is, that the heap buffer is there exactly while
  `buf_` points to it) and that `GetKey` is the value built. From it:
  `KeyIsWhatWasBuilt`, `CopiesStayInBounds`, `OneBufferOwned`, for any inline size
  and any user keys.
- `PinnableSlices_proofs`. `IInv`: every cleanup given is in one list once, has run
  once, or is in one dropped list (`Owned`); a pinned slice's own list holds the
  cleanup of the block it shows (`Shown`); a slice's buffer is its own and no other
  slice's (`OwnBuffer`). From it, for
  any numbers of objects, blocks and strings: `NeverCleanedTwice`; `SlicesLoseNothing`,
  an action property (the only list that a step overwrites is that of a plain
  `Cleanable`); `OverwritingLoses` and `OnlyOverwritingLoses`, which say
  what a move between plain Cleanables loses and that nothing else does; and `SlicesShowLiveData`. `Delegate`, a loop that registers one
  cleanup after the other, is written as the reversed list it amounts to; TLC
  checks that against the loop (`DelegateRegistersEach` in `MCPinnableSlices`).
  `Counted` adds that `nodes` is the sum of the lists' nodes; a fold over a set is
  shown to be such a sum, from which any element can be taken first (`SumsTake`), by
  induction over subsets. A list is never overwritten twice, since its cleanups are
  in one list only (`Owned`). From it: `NodesNeverLeak`.
- `Statuses_proofs`. `IInv`: one owner per buffer, and every
  object faithful to the factory call its error came from. From it:
  `MessagesOwnedOnce`, `ErrorsRecognised`, the action property `ChecksStayDue`,
  its counterpart `AssignmentSwallows`, and the refinement
  `StatusIsValue` of `StatusValues`, for any numbers of objects, buffers and errors.
- `Coding_proofs`, in three parts, for any widths, any base `B` and any values.
  *Keys.* The footer is a pair in base `TypeRange`; comparing footers is comparing
  pairs (`FooterCompare`). From it: `ParseInvertsEncode`, `ComparatorsAgree`,
  `TotalOrder`, `SeekKeysBound`, `TombstoneEndBounds`, `EndKeyNotFirst`, `SeparatorSeparates`,
  `KeySeqIsCoarser`; and of the bytes of a string, `TransformContract`.
  `SeekKeysNeedFreshKey` is a matter of lengths.
  *Encodings.* `Power` is a recursive function because the provers know no law of
  `^`. What it, the varint loops, `Decimal`, the escapes and the list parser
  compute is proved once for loops that count (`LinearRecursion`) and once for
  recursion by `\div` (`DigitRecursion`), both from the library's well-founded minimum.
  For each kind of item a lemma (`Fixed16Item` ... `IntsItem`) then shows
  `Understood`: the encoding is as long as predicted, its reader returns the value
  when at least the whole encoding is before it, and otherwise refuses it, or
  reads, as a text may, a beginning of it.
  *The stream.* `StreamInv` is inductive: each item is a value of its kind
  (`Stream`); the encodings lie one after the other in `dst`, each at the sum of
  the lengths before it (`Laid`); the reader's input is what is left from that sum
  to the cut, and what it got are the values put (`Reading`). It is needed because
  `ReadsWhatWasWritten` speaks only of `got`, while a reader depends on the bytes
  still before it. From it: `LengthIsPredicted`, `ReadersGetWhatWasPut`,
  `StopsOnlyAtTheCut`, `BuiltKeysBound`, `SlicesTransformStably` and
  `StoredOrderKept`, the last with the lemma that the leading bytes of two
  big-endian numbers differ first where the numbers do.
- `PortMutex_proofs`. `OwnerAndFlag` with the type invariant is inductive for any
  set of threads; `FlagFollowsOwner`, the action property `NoRaceOnFlag` (`writer` is
  the thread of the last write, also of one that changes nothing), and
  `AssertHeldHolds`, which `OwnerAndFlag` implies. `SignalsReachWaiters` adds that a thread past the call of `Wait`
  and not yet asleep owns the mutex. `MutexImplementsMonitor` is the refinement of
  `MonitorLock`: at most one thread is in `held`, so the chosen one is it, and each
  action is a monitor step or leaves `holder` and `asleep` alone.

The assumptions on the constants are those the code justifies: what stands for a
null pointer or for no buffer is not an object (`StatusAssumption`,
`DisjointAssumption`), a program has finitely many objects (`FiniteAssumption`),
a stray counter is a `uint32_t` (`StrayAssumption`), a user
key is a string of cells (`SizeAssumption`), the values put are values of their
C++ types (`ValueAssumption`), a number of the key space fits the bytes of a key
(`KeyAssumption`, without which `GenerateKeyFromInt` drops the leading bytes), and
the characters the text functions treat apart are distinct bytes (`TextAssumption`).

Only model-checked: the liveness properties `Terminates`, `Ends`, `ProcessEnds` and
`TimedWaitReturns`, which need ENABLED and fairness, out of these provers' reach;
and the three violations. Every invariant and every action property of a passing
run, and each of the three refinements, is a theorem.

## 6. Plan

1. (Done.) Generation, tables, merger, process; block formats; keys; the
   library classes with state; proofs of the generation phase, the key order
   and the mutex.
2. (Done.) `Status`; byte keys, prefix transforms and texts in the coding stream;
   zero flags and the exact files of merge-only in the process; the monitor that
   the mutex implements, with its proof.
3. (Done.) Proofs of the statuses and of their refinement, of the block formats,
   of `IterKey`, of the slices and cleanups, of the sorted runs and the directory
   of the generation phase, of the heap, the merge and its refinement, and of the
   whole coding stream: every encoding, the reader at a cut, the stored key order.
4. (Done.) Proofs of the composed process: what `baseline_full` and `baseline`
   merge, across both phases and any sequence of processes.
