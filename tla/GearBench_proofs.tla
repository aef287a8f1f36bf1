-------------------------- MODULE GearBench_proofs --------------------------
(***************************************************************************)
(* Proofs about the benchmark process, for every set of command lines,     *)
(* every list of benchmarks, every width of uint64_t, every read limit and *)
(* every behaviour of the freed keys and of write().  The first part is    *)
(* about the generation phase by itself, the second about the processes    *)
(* that generate and merge over one directory.                             *)
(***************************************************************************)
EXTENDS GearBench, BaselineMerger_proofs, FiniteSetTheorems

-----------------------------------------------------------------------------
\* Arithmetic of range_step and of the wrapping subtraction.
LEMMA DivFacts ==
  ASSUME NEW a \in Nat, NEW b \in Nat \ {0}
  PROVE  a \div b \in Nat /\ a \div b <= a
OBVIOUS

LEMMA ModSmall ==
  ASSUME NEW m \in Nat \ {0}, NEW a \in 0 .. m - 1
  PROVE  a % m = a
OBVIOUS

LEMMA ModMinusOne ==
  ASSUME NEW m \in Nat \ {0}
  PROVE  (0 - 1) % m = m - 1
OBVIOUS

\* range_step is a uint64_t.
LEMMA RangeStepType ==
  ASSUME flags \in FlagSet, flags.bench_threads > 0
  PROVE  /\ flags.bench_threads \in Nat \ {0}
         /\ flags.entries_per_file \in Nat
         /\ range_step \in Nat
         /\ range_step < UInt64
<1>1. flags \in FlagType /\ flags.distinct_num < UInt64
  BY FlagAssumption
<1>2. flags.distinct_num \in Nat /\ flags.bench_threads \in Nat \ {0} /\ flags.entries_per_file \in Nat
  BY <1>1 DEF FlagType
<1>3. range_step \in Nat /\ range_step <= flags.distinct_num
  BY <1>2, DivFacts DEF range_step
<1>. QED
  BY <1>1, <1>2, <1>3, FlagAssumption

\* The test that ends the while loop: it is one entry short of the range, and
\* for an empty range it compares with the largest uint64_t.
LEMMA RangeCoveredMeaning ==
  ASSUME flags \in FlagSet, flags.bench_threads > 0, generated \in Nat
  PROVE  /\ range_step > 0 => (RangeCovered <=> generated >= range_step - 1)
         /\ range_step = 0 => (RangeCovered <=> generated >= UInt64 - 1)
<1>1. range_step \in Nat /\ range_step < UInt64 /\ UInt64 \in Nat \ {0, 1}
  BY RangeStepType, FlagAssumption
<1>2. ASSUME range_step > 0
      PROVE  (range_step - 1) % UInt64 = range_step - 1
  <2>1. range_step - 1 \in 0 .. UInt64 - 1
    BY <1>1, <1>2
  <2>. QED
    BY <1>1, <2>1, ModSmall
<1>3. (0 - 1) % UInt64 = UInt64 - 1
  BY <1>1, ModMinusOne
<1>. QED
  BY <1>1, <1>2, <1>3 DEF RangeCovered, Sub64

\* Elements of key_list and of written.
LEMMA KeySliceOf ==
  ASSUME NEW list \in Seq(KeySlice)
  PROVE  Len(list) \in Nat /\ \A k \in 1 .. Len(list) : list[k] \in KeySlice /\ list[k].key \in Nat
<1>1. Len(list) \in Nat /\ \A k \in 1 .. Len(list) : list[k] \in KeySlice
  OBVIOUS
<1>2. \A s \in KeySlice : s.key \in Nat
  BY DEF KeySlice
<1>. QED
  BY <1>1, <1>2

LEMMA WrittenOf ==
  ASSUME NEW list \in Seq(WrittenType)
  PROVE  Len(list) \in Nat /\ \A k \in 1 .. Len(list) : list[k].thread \in Nat
<1>1. Len(list) \in Nat /\ \A k \in 1 .. Len(list) : list[k] \in WrittenType
  OBVIOUS
<1>2. \A w \in WrittenType : w.thread \in Nat
  BY DEF WrittenType
<1>. QED
  BY <1>1, <1>2

\* What ToDiskFormat may read is a sequence of keys as long as key_list.
LEMMA ReadableAsType ==
  ASSUME NEW list \in Seq(KeySlice), NEW seen \in ReadableAs(list)
  PROVE  seen \in Seq(Nat)
<1>1. Len(list) \in Nat /\ \A k \in 1 .. Len(list) : list[k].key \in Nat
  BY KeySliceOf
<1>2. Garbage \cup {list[k].key : k \in 1 .. Len(list)} \subseteq Nat
  BY <1>1, GarbageAssumption
<1>3. seen \in [1 .. Len(list) -> Nat]
  BY <1>2 DEF ReadableAs
<1>. QED
  BY <1>1, <1>3

-----------------------------------------------------------------------------
(***************************************************************************)
(* The inductive invariant.  Counting ties the generator, the entry count  *)
(* and the length of the current table together; Files says that while a   *)
(* thread is still running every table it has closed is full, which is     *)
(* what makes OnlyLastFileShort inductive.                                 *)
(***************************************************************************)
Counting ==
  /\ next_ = generated
  /\ generated <= range_step
  /\ (pc # "spawn" \/ thread > 0) => Len(values) = range_step
  /\ (pc = "spawn" /\ thread = 0) => generated = 0
  /\ pc # "spawn" => thread < flags.bench_threads
  /\ pc = "fill" => Len(key_list) = i /\ i <= flags.entries_per_file
  /\ pc = "body" => Len(key_list) = i + 1 /\ i < flags.entries_per_file

Files ==
  \A k \in 1 .. Len(written) :
    /\ written[k].thread <= thread
    /\ pc = "spawn" => written[k].thread < thread
    /\ (pc # "spawn" /\ range_step > 0 /\ written[k].thread = thread) =>
         Len(written[k].keys) = flags.entries_per_file

GenInv ==
  /\ GenTypeOK
  /\ flags.bench_threads > 0
  /\ Counting
  /\ CallTotal
  /\ NamesUnique
  /\ EmptyTablesNeverJoin
  /\ Files
  /\ OnlyLastFileShort

-----------------------------------------------------------------------------
\* A generation phase that is about to start, over any directory.
NewPhase ==
  /\ flags \in FlagSet
  /\ flags.bench_threads > 0
  /\ format \in Formats
  /\ pc = "spawn" /\ thread = 0 /\ values = << >> /\ next_ = 0 /\ generated = 0
  /\ i = 0 /\ key_list = << >> /\ file_number = 0 /\ input_files = << >> /\ written = << >>
  /\ DOMAIN disk \subseteq Nat

LEMMA NewPhaseGenInv == NewPhase => GenInv
<1>. SUFFICES ASSUME NewPhase PROVE GenInv
  OBVIOUS
<1>. USE DEF NewPhase
<1>1. flags.bench_threads \in Nat \ {0} /\ range_step \in Nat
  BY RangeStepType
<1>2. GenTypeOK
  BY <1>1 DEF GenTypeOK
<1>3. Counting /\ CallTotal /\ EmptyTablesNeverJoin
  BY <1>1 DEF Counting, CallTotal, EmptyTablesNeverJoin
<1>4. NamesUnique /\ Files /\ OnlyLastFileShort
  BY DEF NamesUnique, Files, OnlyLastFileShort
<1>. QED
  BY <1>2, <1>3, <1>4 DEF GenInv

LEMMA InitGenInv == GenInit => GenInv
BY NewPhaseGenInv DEF GenInit, NewPhase

\* range_step does not change: the flags are fixed for the process.
LEMMA RangeStepFixed == UNCHANGED flags => range_step' = range_step
BY DEF range_step

LEMMA StartThreadGenInv == GenInv /\ StartThread => GenInv'
<1>. SUFFICES ASSUME GenInv, StartThread PROVE GenInv'
  OBVIOUS
<1>. USE DEF GenInv, StartThread
<1>1. /\ flags.bench_threads \in Nat \ {0} /\ range_step \in Nat
      /\ range_step' = range_step
  BY RangeStepType, RangeStepFixed DEF GenTypeOK
<1>2. values' \in Seq(Nat) /\ Len(values') = range_step
  <2>1. values' \in [1 .. range_step -> 0 .. range_step - 1]
    BY DEF SortedDraws
  <2>2. values' \in [1 .. range_step -> Nat]
    BY <2>1, <1>1
  <2>. QED
    BY <2>2, <1>1
<1>3. GenTypeOK'
  BY <1>2 DEF GenTypeOK
<1>4. Counting' /\ CallTotal' /\ EmptyTablesNeverJoin'
  BY <1>1, <1>2 DEF GenTypeOK, Counting, CallTotal, EmptyTablesNeverJoin
<1>5. NamesUnique' /\ OnlyLastFileShort'
  BY <1>1 DEF NamesUnique, OnlyLastFileShort
<1>6. Files'
  BY <1>1, WrittenOf DEF Files, GenTypeOK
<1>. QED
  BY <1>3, <1>4, <1>5, <1>6

LEMMA OpenFileGenInv == GenInv /\ OpenFile => GenInv'
<1>. SUFFICES ASSUME GenInv, OpenFile PROVE GenInv'
  OBVIOUS
<1>. USE DEF GenInv, OpenFile
<1>1. /\ flags.bench_threads \in Nat \ {0} /\ flags.entries_per_file \in Nat
      /\ range_step \in Nat /\ range_step' = range_step
  BY RangeStepType, RangeStepFixed DEF GenTypeOK
<1>2. DOMAIN disk' \subseteq Nat
  BY DEF GenTypeOK, OpenForWrite
<1>3. GenTypeOK'
  BY <1>2 DEF GenTypeOK
<1>4. Counting' /\ CallTotal' /\ EmptyTablesNeverJoin'
  BY <1>1 DEF GenTypeOK, Counting, CallTotal, EmptyTablesNeverJoin
<1>5. NamesUnique'
  <2>1. /\ input_files \in Seq(Nat) /\ Len(input_files) = file_number /\ file_number \in Nat
        /\ \A k \in 1 .. Len(input_files) : input_files[k] = k - 1
        /\ input_files' = Append(input_files, file_number) /\ file_number' = file_number + 1
    BY DEF NamesUnique, GenTypeOK
  <2>. QED
    BY <2>1 DEF NamesUnique
<1>6. OnlyLastFileShort' /\ Files'
  BY <1>1 DEF OnlyLastFileShort, Files
<1>. QED
  BY <1>3, <1>4, <1>5, <1>6

LEMMA PushEntryGenInv == GenInv /\ PushEntry => GenInv'
<1>. SUFFICES ASSUME GenInv, PushEntry PROVE GenInv'
  OBVIOUS
<1>. USE DEF GenInv, PushEntry
<1>1. /\ flags.bench_threads \in Nat \ {0} /\ flags.entries_per_file \in Nat
      /\ range_step \in Nat /\ range_step' = range_step
  BY RangeStepType, RangeStepFixed DEF GenTypeOK
<1>2. NextKey \in Nat
  <2>1. next_ + 1 \in 1 .. Len(values) /\ range_step \in Nat \ {0}
    BY <1>1 DEF GenTypeOK, Counting, MoreToFill
  <2>2. values[next_ + 1] \in Nat
    BY <2>1 DEF GenTypeOK
  <2>. QED
    BY <2>1, <2>2 DEF NextKey
<1>3. /\ key_list' \in Seq(KeySlice)
      /\ Len(key_list') = Len(key_list) + 1
  BY <1>2 DEF GenTypeOK, KeySlice
<1>4. GenTypeOK'
  BY <1>3 DEF GenTypeOK
<1>5. Counting' /\ CallTotal' /\ EmptyTablesNeverJoin'
  BY <1>1, <1>3 DEF GenTypeOK, Counting, CallTotal, EmptyTablesNeverJoin, MoreToFill
<1>6. NamesUnique' /\ OnlyLastFileShort' /\ Files'
  BY <1>1 DEF NamesUnique, OnlyLastFileShort, Files
<1>. QED
  BY <1>4, <1>5, <1>6

LEMMA EndBodyGenInv == GenInv /\ EndBody => GenInv'
<1>. SUFFICES ASSUME GenInv, EndBody PROVE GenInv'
  OBVIOUS
<1>. USE DEF GenInv, EndBody
<1>1. /\ flags.bench_threads \in Nat \ {0} /\ flags.entries_per_file \in Nat
      /\ range_step \in Nat /\ range_step' = range_step
  BY RangeStepType, RangeStepFixed DEF GenTypeOK
<1>2. key_list' \in Seq(KeySlice) /\ Len(key_list') = Len(key_list)
  <2>1. key_list \in Seq(KeySlice)
    BY DEF GenTypeOK
  <2>2. \A s \in KeySlice : [s EXCEPT !.live = FALSE] \in KeySlice
    BY DEF KeySlice
  <2>3. Len(key_list) \in 1 .. Len(key_list) /\ key_list[Len(key_list)] \in KeySlice
    BY <2>1, KeySliceOf DEF GenTypeOK, Counting
  <2>4. key_list' = [key_list EXCEPT ![Len(key_list)] = [key_list[Len(key_list)] EXCEPT !.live = FALSE]]
    OBVIOUS
  <2>. QED
    BY <2>1, <2>2, <2>3, <2>4
<1>3. GenTypeOK'
  BY <1>2 DEF GenTypeOK
<1>4. Counting' /\ CallTotal' /\ EmptyTablesNeverJoin'
  BY <1>1, <1>2 DEF GenTypeOK, Counting, CallTotal, EmptyTablesNeverJoin
<1>5. NamesUnique' /\ OnlyLastFileShort' /\ Files'
  BY <1>1 DEF NamesUnique, OnlyLastFileShort, Files
<1>. QED
  BY <1>3, <1>4, <1>5

\* The table being closed is full, or the thread is about to be joined.
LEMMA ClosedFullOrLast ==
  ASSUME GenInv, pc = "fill", ~MoreToFill, range_step > 0, ~RangeCovered
  PROVE  Len(key_list) = flags.entries_per_file
BY RangeStepType, RangeCoveredMeaning DEF GenInv, GenTypeOK, Counting, MoreToFill

\* Whatever the format, ToDiskFormat returns a string, which has a length.
LEMMA DiskFormatLen ==
  ASSUME NEW keys \in Seq(Nat), format \in Formats
  PROVE  Len(DiskFormat(keys)) \in Nat
<1>1. CASE format = "plain"
  <2>1. EntryCells * Len(keys) \in Nat
    BY DEF EntryCells
  <2>2. Len(PlainDiskFormat(keys)) = EntryCells * Len(keys)
    BY <2>1 DEF PlainDiskFormat
  <2>. QED
    BY <1>1, <2>1, <2>2 DEF DiskFormat
<1>2. CASE format = "gear"
  <2>. DEFINE cells == ((Len(keys) + MaxEntryInBlock - 1) \div MaxEntryInBlock)
                         * GearBlockCells(MaxEntryInBlock)
  <2>1. cells \in Nat
    BY DEF MaxEntryInBlock, GearBlockCells, EntryCells
  <2>2. Len(GearDiskFormat(keys, MaxEntryInBlock)) = cells
    <3>. HIDE DEF cells
    <3>. QED BY <2>1 DEF GearDiskFormat, cells
  <2>. QED
    BY <1>2, <2>1, <2>2 DEF DiskFormat
<1>3. CASE format = "none"
  BY <1>3 DEF DiskFormat
<1>. QED
  BY <1>1, <1>2, <1>3 DEF Formats

LEMMA WriteFileGenInv == GenInv /\ WriteFile => GenInv'
<1>. SUFFICES ASSUME GenInv, WriteFile PROVE GenInv'
  OBVIOUS
<1>1. /\ flags.bench_threads \in Nat \ {0} /\ flags.entries_per_file \in Nat
      /\ range_step \in Nat /\ range_step' = range_step /\ range_step < UInt64
      /\ UInt64 \in Nat \ {0, 1}
  BY RangeStepType, RangeStepFixed, FlagAssumption DEF GenInv, GenTypeOK, WriteFile
<1>2. PICK seen \in ReadableAs(key_list) : \E n \in Stored(Len(DiskFormat(seen))) :
        /\ disk' = WriteToDisk(disk, input_files[Len(input_files)],
                               SubSeq(DiskFormat(seen), 1, n))
        /\ written' = Append(written,
                      [thread |-> thread, seen |-> seen, stored |-> n,
                       keys |-> [k \in 1 .. Len(key_list) |-> key_list[k].key]])
  BY DEF WriteFile
<1>3. PICK n \in Stored(Len(DiskFormat(seen))) :
        /\ disk' = WriteToDisk(disk, input_files[Len(input_files)],
                               SubSeq(DiskFormat(seen), 1, n))
        /\ written' = Append(written,
                      [thread |-> thread, seen |-> seen, stored |-> n,
                       keys |-> [k \in 1 .. Len(key_list) |-> key_list[k].key]])
  BY <1>2
<1>. DEFINE keys == [k \in 1 .. Len(key_list) |-> key_list[k].key]
            entry == [thread |-> thread, seen |-> seen, stored |-> n, keys |-> keys]
<1>4. keys \in Seq(Nat) /\ Len(keys) = Len(key_list) /\ Len(key_list) \in Nat
  <2>1. Len(key_list) \in Nat /\ \A k \in 1 .. Len(key_list) : key_list[k].key \in Nat
    BY KeySliceOf DEF GenInv, GenTypeOK
  <2>2. keys \in [1 .. Len(key_list) -> Nat]
    BY <2>1
  <2>. QED
    BY <2>1, <2>2
<1>5. n \in Nat /\ seen \in Seq(Nat)
  <2>1. seen \in Seq(Nat)
    BY ReadableAsType DEF GenInv, GenTypeOK
  <2>2. Len(DiskFormat(seen)) \in Nat
    BY <2>1, DiskFormatLen DEF GenInv, GenTypeOK
  <2>. QED
    BY <2>1, <2>2 DEF Stored
<1>6. entry \in WrittenType
  BY <1>4, <1>5 DEF WrittenType, GenInv, GenTypeOK
<1>. HIDE DEF keys
<1>7. written' = Append(written, entry)
  BY <1>3 DEF keys
<1>8. entry.thread = thread /\ entry.keys = keys
  OBVIOUS
<1>. HIDE DEF entry
<1>9. /\ written \in Seq(WrittenType) /\ written' \in Seq(WrittenType)
      /\ Len(written') = Len(written) + 1
      /\ written'[Len(written) + 1] = entry
      /\ \A k \in 1 .. Len(written) : written'[k] = written[k]
      /\ Len(written) \in Nat
  BY <1>6, <1>7 DEF GenInv, GenTypeOK
<1>10. DOMAIN disk' = DOMAIN disk
  BY <1>3 DEF WriteToDisk
<1>11. /\ thread \in Nat /\ thread < flags.bench_threads /\ pc = "fill" /\ ~MoreToFill
       /\ UNCHANGED << flags, format, values, next_, generated, i, key_list,
                       file_number, input_files >>
  BY <1>1 DEF GenInv, GenTypeOK, Counting, WriteFile
<1>12. \/ RangeCovered /\ pc' = "spawn" /\ thread' = thread + 1
       \/ ~RangeCovered /\ pc' = "open" /\ thread' = thread
  BY DEF WriteFile
<1>13. GenTypeOK'
  BY <1>1, <1>9, <1>10, <1>11, <1>12 DEF GenInv, GenTypeOK
<1>14. Counting' /\ CallTotal' /\ EmptyTablesNeverJoin'
  BY <1>1, <1>11, <1>12, RangeCoveredMeaning
     DEF GenInv, GenTypeOK, Counting, CallTotal, EmptyTablesNeverJoin
<1>15. NamesUnique'
  BY <1>11 DEF GenInv, NamesUnique
<1>16. Len(key_list) <= flags.entries_per_file
  BY <1>11 DEF GenInv, Counting
<1>17. Files'
  <2>. SUFFICES ASSUME NEW k \in 1 .. Len(written')
                PROVE  /\ written'[k].thread <= thread'
                       /\ pc' = "spawn" => written'[k].thread < thread'
                       /\ (pc' # "spawn" /\ range_step > 0 /\ written'[k].thread = thread') =>
                            Len(written'[k].keys) = flags.entries_per_file
    BY <1>1, <1>11 DEF Files
  <2>1. CASE k \in 1 .. Len(written)
    <3>1. written'[k] = written[k] /\ written[k].thread \in Nat
      BY <2>1, <1>9, WrittenOf
    <3>. QED
      BY <2>1, <3>1, <1>11, <1>12 DEF GenInv, Files
  <2>2. CASE k = Len(written) + 1
    <3>1. written'[k].thread = thread /\ written'[k].keys = keys
      BY <2>2, <1>8, <1>9
    <3>. QED
      BY <3>1, <1>4, <1>11, <1>12, ClosedFullOrLast
  <2>. QED
    BY <2>1, <2>2, <1>9
<1>18. OnlyLastFileShort'
  <2>. SUFFICES ASSUME NEW k \in 1 .. Len(written')
                PROVE  /\ Len(written'[k].keys) <= flags.entries_per_file
                       /\ (range_step > 0 /\ k < Len(written')
                           /\ written'[k + 1].thread = written'[k].thread) =>
                            Len(written'[k].keys) = flags.entries_per_file
    BY <1>1, <1>11 DEF OnlyLastFileShort
  <2>1. CASE k \in 1 .. Len(written) - 1
    <3>1. written'[k] = written[k] /\ written'[k + 1] = written[k + 1] /\ k < Len(written)
      BY <2>1, <1>9
    <3>. QED
      BY <2>1, <3>1, <1>9 DEF GenInv, OnlyLastFileShort
  <2>2. CASE k = Len(written) /\ k # 0
    <3>1. written'[k] = written[k] /\ written'[k + 1].thread = thread
      BY <2>2, <1>8, <1>9
    <3>. QED
      BY <2>2, <3>1, <1>9, <1>11 DEF GenInv, OnlyLastFileShort, Files
  <2>3. CASE k = Len(written) + 1
    <3>1. written'[k].keys = keys /\ ~(k < Len(written'))
      BY <2>3, <1>8, <1>9
    <3>. QED
      BY <3>1, <1>4, <1>16
  <2>. QED
    BY <2>1, <2>2, <2>3, <1>9
<1>. QED
  BY <1>11, <1>13, <1>14, <1>15, <1>17, <1>18 DEF GenInv

LEMMA NextGenInv == GenInv /\ [GenNext]_gen_vars => GenInv'
<1>. SUFFICES ASSUME GenInv, [GenNext]_gen_vars PROVE GenInv'
  OBVIOUS
<1>1. CASE StartThread
  BY <1>1, StartThreadGenInv
<1>2. CASE OpenFile
  BY <1>2, OpenFileGenInv
<1>3. CASE PushEntry
  BY <1>3, PushEntryGenInv
<1>4. CASE EndBody
  BY <1>4, EndBodyGenInv
<1>5. CASE WriteFile
  BY <1>5, WriteFileGenInv
<1>6. CASE UNCHANGED gen_vars
  BY <1>6 DEF gen_vars, GenInv, GenTypeOK, Counting, CallTotal, NamesUnique,
              EmptyTablesNeverJoin, Files, OnlyLastFileShort, range_step
<1>. QED
  BY <1>1, <1>2, <1>3, <1>4, <1>5, <1>6 DEF GenNext

\* The inductive invariant holds in every reachable state.
LEMMA GenInvariance == GenSpec => []GenInv
BY InitGenInv, NextGenInv, PTL DEF GenSpec

-----------------------------------------------------------------------------
(***************************************************************************)
(* The order of the keys.  What a thread has taken from the generator, in  *)
(* its current table or in one it has closed, is at most what it has yet   *)
(* to take: that is what makes SortedRun inductive.                        *)
(***************************************************************************)
Ahead(x) == \A c \in next_ + 1 .. range_step : x <= values[c]

Filling == pc \in {"fill", "body"}

TableOrdered ==
  Filling =>
    \A b \in 1 .. Len(key_list) :
      /\ key_list[b].key < range_step
      /\ Ahead(key_list[b].key)
      /\ \A a \in 1 .. b : key_list[a].key <= key_list[b].key

ClosedBefore ==
  pc # "spawn" =>
    \A k \in 1 .. Len(written) :
      written[k].thread = thread =>
        \A a \in 1 .. Len(written[k].keys) :
          /\ Ahead(written[k].keys[a])
          /\ Filling => \A b \in 1 .. Len(key_list) : written[k].keys[a] <= key_list[b].key

Ordered ==
  /\ pc # "spawn" => values \in SortedDraws(range_step)
  /\ TableOrdered
  /\ ClosedBefore
  /\ SortedRun

\* The table that WriteFile adds to the history, and to the directory.
LEMMA TableClosed ==
  ASSUME GenInv, WriteFile
  PROVE  \E w \in WrittenType :
           /\ w.thread = thread /\ Len(w.keys) = Len(key_list)
           /\ \A a \in 1 .. Len(key_list) : w.keys[a] = key_list[a].key
           /\ w.stored \in 0 .. Len(DiskFormat(w.seen))
           /\ disk' = WriteToDisk(disk, input_files[Len(input_files)],
                                  SubSeq(DiskFormat(w.seen), 1, w.stored))
           /\ written' = Append(written, w)
<1>1. PICK seen \in ReadableAs(key_list) : \E n \in Stored(Len(DiskFormat(seen))) :
        /\ disk' = WriteToDisk(disk, input_files[Len(input_files)],
                               SubSeq(DiskFormat(seen), 1, n))
        /\ written' = Append(written,
                      [thread |-> thread, seen |-> seen, stored |-> n,
                       keys |-> [k \in 1 .. Len(key_list) |-> key_list[k].key]])
  BY DEF WriteFile
<1>2. PICK n \in Stored(Len(DiskFormat(seen))) :
        /\ disk' = WriteToDisk(disk, input_files[Len(input_files)],
                               SubSeq(DiskFormat(seen), 1, n))
        /\ written' = Append(written,
                      [thread |-> thread, seen |-> seen, stored |-> n,
                       keys |-> [k \in 1 .. Len(key_list) |-> key_list[k].key]])
  BY <1>1
<1>. DEFINE keys == [k \in 1 .. Len(key_list) |-> key_list[k].key]
            w == [thread |-> thread, seen |-> seen, stored |-> n, keys |-> keys]
<1>3. Len(key_list) \in Nat /\ \A k \in 1 .. Len(key_list) : key_list[k].key \in Nat
  BY KeySliceOf DEF GenInv, GenTypeOK
<1>4. keys \in [1 .. Len(key_list) -> Nat]
  BY <1>3
<1>5. keys \in Seq(Nat) /\ Len(keys) = Len(key_list)
  BY <1>3, <1>4
<1>6. \A a \in 1 .. Len(key_list) : keys[a] = key_list[a].key
  OBVIOUS
<1>7. seen \in Seq(Nat)
  BY ReadableAsType DEF GenInv, GenTypeOK
<1>8. n \in 0 .. Len(DiskFormat(seen)) /\ n \in Nat
  BY <1>7, DiskFormatLen DEF Stored, GenInv, GenTypeOK
<1>. HIDE DEF keys
<1>9. w \in WrittenType
  <2>1. thread \in Nat
    BY RangeStepType DEF GenInv, GenTypeOK
  <2>. QED
    BY <1>5, <1>7, <1>8, <2>1 DEF WrittenType
<1>10. w.thread = thread /\ w.keys = keys /\ w.seen = seen /\ w.stored = n
  OBVIOUS
<1>11. written' = Append(written, w)
  BY <1>2 DEF keys
<1>. HIDE DEF w
<1>12. disk' = WriteToDisk(disk, input_files[Len(input_files)],
                           SubSeq(DiskFormat(w.seen), 1, w.stored))
  BY <1>2, <1>10
<1>. QED
  BY <1>5, <1>6, <1>8, <1>9, <1>10, <1>11, <1>12

\* A table of the history: it is Len(written) + 1 or an earlier one.
LEMMA HistoryGrows ==
  ASSUME NEW S, NEW s \in Seq(S), NEW w \in S
  PROVE  /\ Append(s, w) \in Seq(S) /\ Len(Append(s, w)) = Len(s) + 1 /\ Len(s) \in Nat
         /\ Append(s, w)[Len(s) + 1] = w
         /\ \A k \in 1 .. Len(s) : Append(s, w)[k] = s[k]
OBVIOUS

\* The next key is the next draw, which is below the range.
LEMMA NextKeyIsDraw ==
  ASSUME GenInv, Ordered, pc = "fill", MoreToFill
  PROVE  /\ next_ + 1 \in 1 .. range_step /\ range_step \in Nat
         /\ NextKey = values[next_ + 1] /\ NextKey \in 0 .. range_step - 1
         /\ \A c \in next_ + 1 .. range_step : NextKey <= values[c]
<1>1. range_step \in Nat /\ next_ \in Nat /\ next_ = generated /\ generated < range_step
  BY RangeStepType DEF GenInv, GenTypeOK, Counting, MoreToFill
<1>2. values \in SortedDraws(range_step)
  BY DEF Ordered
<1>3. next_ + 1 \in 1 .. range_step
  BY <1>1
<1>4. values[next_ + 1] \in 0 .. range_step - 1
  BY <1>2, <1>3 DEF SortedDraws
<1>5. NextKey = values[next_ + 1]
  <2>1. range_step \in Nat \ {0}
    BY <1>1
  <2>. QED
    BY <1>4, <2>1, ModSmall DEF NextKey
<1>6. \A c \in next_ + 1 .. range_step : values[next_ + 1] <= values[c]
  <2>. SUFFICES ASSUME NEW c \in next_ + 1 .. range_step
                PROVE  values[next_ + 1] <= values[c]
    OBVIOUS
  <2>1. c \in 1 .. range_step /\ next_ + 1 <= c
    BY <1>1
  <2>. QED
    BY <1>2, <1>3, <2>1 DEF SortedDraws
<1>. QED
  BY <1>1, <1>3, <1>4, <1>5, <1>6

LEMMA StartThreadOrdered ==
  ASSUME GenInv, Ordered, StartThread
  PROVE  Ordered'
<1>1. range_step' = range_step
  BY RangeStepFixed DEF StartThread
<1>2. values' \in SortedDraws(range_step)' /\ pc' = "open" /\ pc = "spawn"
  BY <1>1 DEF StartThread, SortedDraws
<1>3. written' = written /\ thread' = thread
  BY DEF StartThread
<1>4. SortedRun'
  BY <1>1, <1>3 DEF Ordered, SortedRun
<1>5. \A k \in 1 .. Len(written) : written[k].thread # thread
  <2>1. flags.bench_threads \in Nat /\ thread \in Nat /\ written \in Seq(WrittenType)
    BY RangeStepType DEF GenInv, GenTypeOK
  <2>2. \A k \in 1 .. Len(written) : written[k].thread \in Nat
    BY <2>1, WrittenOf
  <2>. QED
    BY <1>2, <2>1, <2>2 DEF GenInv, Files
<1>6. ClosedBefore'
  BY <1>3, <1>5 DEF ClosedBefore
<1>7. TableOrdered'
  BY <1>2 DEF TableOrdered, Filling
<1>. QED
  BY <1>2, <1>4, <1>6, <1>7 DEF Ordered

\* The draws, the range and the closed tables stay as they are, and no draw is
\* taken.
LEMMA DrawsKept ==
  ASSUME Ordered, pc # "spawn", pc' # "spawn",
         UNCHANGED << flags, values, next_, written, thread >>
  PROVE  /\ range_step' = range_step
         /\ values' \in SortedDraws(range_step)'
         /\ SortedRun'
         /\ \A x : Ahead(x)' = Ahead(x)
<1>1. range_step' = range_step
  BY RangeStepFixed
<1>2. values' \in SortedDraws(range_step)'
  BY <1>1 DEF Ordered, SortedDraws
<1>3. SortedRun'
  BY <1>1, SMTT(30) DEF Ordered, SortedRun
<1>4. \A x : Ahead(x)' = Ahead(x)
  BY <1>1 DEF Ahead
<1>. QED
  BY <1>1, <1>2, <1>3, <1>4

LEMMA OpenFileOrdered ==
  ASSUME GenInv, Ordered, OpenFile
  PROVE  Ordered'
<1>1. /\ pc = "open" /\ pc' = "fill" /\ key_list' = << >>
      /\ UNCHANGED << flags, values, next_, written, thread >>
  BY DEF OpenFile
<1>2. values' \in SortedDraws(range_step)' /\ SortedRun' /\ \A x : Ahead(x)' = Ahead(x)
  BY <1>1, DrawsKept
<1>3. TableOrdered'
  BY <1>1 DEF TableOrdered
<1>4. ClosedBefore'
  BY <1>1, <1>2 DEF Ordered, ClosedBefore
<1>. QED
  BY <1>2, <1>3, <1>4 DEF Ordered

\* The storage of the last key is freed; its value is what it was.
LEMMA EndBodyOrdered ==
  ASSUME GenInv, Ordered, EndBody
  PROVE  Ordered'
<1>1. /\ pc = "body" /\ pc' = "fill"
      /\ UNCHANGED << flags, values, next_, written, thread >>
      /\ key_list' = [key_list EXCEPT ![Len(key_list)] = [key_list[Len(key_list)] EXCEPT !.live = FALSE]]
  BY DEF EndBody
<1>2. values' \in SortedDraws(range_step)' /\ SortedRun' /\ \A x : Ahead(x)' = Ahead(x)
      /\ range_step' = range_step
  BY <1>1, DrawsKept
<1>3. /\ Len(key_list') = Len(key_list) /\ Len(key_list) \in Nat
      /\ \A b \in 1 .. Len(key_list) : key_list'[b].key = key_list[b].key
  <2>1. key_list \in Seq(KeySlice) /\ Len(key_list) \in Nat
        /\ \A b \in 1 .. Len(key_list) : key_list[b] \in KeySlice
    BY KeySliceOf DEF GenInv, GenTypeOK
  <2>2. \A s \in KeySlice : [s EXCEPT !.live = FALSE].key = s.key
    BY DEF KeySlice
  <2>3. Len(key_list) \in 1 .. Len(key_list)
    BY <1>1, <2>1 DEF GenInv, GenTypeOK, Counting
  <2>4. \A b \in 1 .. Len(key_list) : key_list'[b].key = key_list[b].key
    BY <1>1, <2>1, <2>2, <2>3
  <2>5. Len(key_list') = Len(key_list)
    BY <1>1, <2>1
  <2>. QED
    BY <2>1, <2>4, <2>5
<1>4. TableOrdered'
  <2>1. TableOrdered /\ Filling
    BY <1>1 DEF Ordered, Filling
  <2>2. ASSUME NEW b \in 1 .. Len(key_list)
        PROVE  /\ key_list'[b].key < range_step'
               /\ Ahead(key_list[b].key)'
               /\ \A a \in 1 .. b : key_list'[a].key <= key_list'[b].key
    <3>1. \A a \in 1 .. b : a \in 1 .. Len(key_list)
      BY <1>3
    <3>2. Ahead(key_list[b].key)' <=> Ahead(key_list[b].key)
      <4>1. key_list'[b].key = key_list[b].key
        BY <1>3
      <4>. QED
        BY <1>1, <1>2, <4>1 DEF Ahead
    <3>. QED
      BY <1>2, <1>3, <2>1, <3>1, <3>2 DEF TableOrdered
  <2>. QED
    BY <1>3, <2>2 DEF TableOrdered
<1>5. ClosedBefore'
  <2>1. ClosedBefore /\ Filling /\ pc # "spawn"
    BY <1>1 DEF Ordered, Filling
  <2>. QED
    BY <1>1, <1>2, <1>3, <2>1 DEF ClosedBefore
<1>. QED
  BY <1>2, <1>4, <1>5 DEF Ordered

\* A draw is taken: everything taken so far is at most it, and it is at most
\* what is left.
LEMMA PushEntryOrdered ==
  ASSUME GenInv, Ordered, PushEntry
  PROVE  Ordered'
<1>. DEFINE n == Len(key_list)
<1>1. /\ pc = "fill" /\ pc' = "body" /\ MoreToFill /\ next_' = next_ + 1
      /\ UNCHANGED << flags, values, written, thread >>
      /\ key_list' = Append(key_list, [key |-> NextKey, live |-> TRUE])
  BY DEF PushEntry
<1>2. range_step' = range_step
  BY <1>1, RangeStepFixed
<1>3. /\ next_ + 1 \in 1 .. range_step /\ range_step \in Nat /\ next_ \in Nat
      /\ NextKey = values[next_ + 1] /\ NextKey \in 0 .. range_step - 1
      /\ \A c \in next_ + 1 .. range_step : NextKey <= values[c]
  BY <1>1, NextKeyIsDraw DEF GenInv, GenTypeOK
<1>4. values' \in SortedDraws(range_step)' /\ SortedRun'
  BY <1>1, <1>2, SMTT(30) DEF Ordered, SortedDraws, SortedRun
<1>5. /\ n \in Nat /\ Len(key_list') = n + 1
      /\ \A b \in 1 .. n : key_list'[b].key = key_list[b].key
      /\ key_list'[n + 1].key = NextKey
  <2>1. key_list \in Seq(KeySlice) /\ [key |-> NextKey, live |-> TRUE] \in KeySlice
    BY <1>3 DEF GenInv, GenTypeOK, KeySlice
  <2>2. /\ Len(key_list') = n + 1 /\ n \in Nat
        /\ key_list'[n + 1] = [key |-> NextKey, live |-> TRUE]
        /\ \A b \in 1 .. n : key_list'[b] = key_list[b]
    BY <1>1, <2>1, HistoryGrows
  <2>. QED
    BY <2>2
<1>. HIDE DEF n
<1>6. /\ \A x : Ahead(x) => x <= NextKey
      /\ \A x : Ahead(x) => \A c \in next_' + 1 .. range_step : x <= values[c]
      /\ \A c \in next_' + 1 .. range_step : NextKey <= values[c]
  <2>1. next_ + 1 \in next_ + 1 .. range_step
    BY <1>3
  <2>2. next_' + 1 .. range_step \subseteq next_ + 1 .. range_step
    BY <1>1, <1>3
  <2>. QED
    BY <1>3, <2>1, <2>2 DEF Ahead
<1>7. TableOrdered'
  <2>. SUFFICES ASSUME NEW b \in 1 .. n + 1
                PROVE  /\ key_list'[b].key < range_step
                       /\ \A c \in next_' + 1 .. range_step : key_list'[b].key <= values[c]
                       /\ \A a \in 1 .. b : key_list'[a].key <= key_list'[b].key
    BY <1>1, <1>2, <1>5 DEF TableOrdered, Ahead
  <2>1. \A a \in 1 .. n : /\ key_list[a].key < range_step /\ Ahead(key_list[a].key)
                          /\ \A d \in 1 .. a : key_list[d].key <= key_list[a].key
    BY <1>1 DEF Ordered, TableOrdered, Filling, n
  <2>2. CASE b \in 1 .. n
    <3>1. \A a \in 1 .. b : a \in 1 .. n
      BY <1>5, <2>2
    <3>. QED
      BY <1>5, <1>6, <2>1, <2>2, <3>1
  <2>3. CASE b = n + 1
    <3>1. key_list'[b].key = NextKey
      BY <1>5, <2>3
    <3>2. NextKey < range_step /\ NextKey <= NextKey
      BY <1>3
    <3>3. \A a \in 1 .. b : a \in 1 .. n \/ a = n + 1
      BY <1>5, <2>3
    <3>. QED
      BY <1>5, <1>6, <2>1, <3>1, <3>2, <3>3
  <2>. QED
    BY <1>5, <2>2, <2>3
<1>8. ClosedBefore'
  <2>. SUFFICES ASSUME NEW k \in 1 .. Len(written), written[k].thread = thread,
                       NEW a \in 1 .. Len(written[k].keys)
                PROVE  /\ \A c \in next_' + 1 .. range_step : written[k].keys[a] <= values[c]
                       /\ \A b \in 1 .. n + 1 : written[k].keys[a] <= key_list'[b].key
    BY <1>1, <1>2, <1>5, SMTT(30) DEF ClosedBefore, Ahead
  <2>1. /\ Ahead(written[k].keys[a])
        /\ \A b \in 1 .. n : written[k].keys[a] <= key_list[b].key
    BY <1>1 DEF Ordered, ClosedBefore, Filling, n
  <2>2. \A b \in 1 .. n + 1 : b \in 1 .. n \/ b = n + 1
    BY <1>5
  <2>. QED
    BY <1>5, <1>6, <2>1, <2>2
<1>. QED
  BY <1>4, <1>7, <1>8 DEF Ordered

\* The table is closed behind the other tables of its thread.
LEMMA WriteFileOrdered ==
  ASSUME GenInv, Ordered, WriteFile
  PROVE  Ordered'
<1>. DEFINE n == Len(written)
<1>1. /\ pc = "fill" /\ pc' \in {"spawn", "open"}
      /\ UNCHANGED << flags, values, next_, key_list >>
      /\ pc' # "spawn" => thread' = thread
  BY DEF WriteFile
<1>2. range_step' = range_step
  BY <1>1, RangeStepFixed
<1>3. PICK w \in WrittenType :
        /\ w.thread = thread /\ Len(w.keys) = Len(key_list)
        /\ \A a \in 1 .. Len(key_list) : w.keys[a] = key_list[a].key
        /\ written' = Append(written, w)
  BY TableClosed
<1>4. /\ Len(written') = n + 1 /\ n \in Nat /\ written'[n + 1] = w
      /\ \A k \in 1 .. n : written'[k] = written[k]
  BY <1>3, HistoryGrows DEF GenInv, GenTypeOK
<1>. HIDE DEF n
<1>5. /\ values \in SortedDraws(range_step)
      /\ \A b \in 1 .. Len(key_list) :
           /\ key_list[b].key < range_step /\ Ahead(key_list[b].key)
           /\ \A a \in 1 .. b : key_list[a].key <= key_list[b].key
      /\ \A k \in 1 .. n : written[k].thread = thread =>
           \A a \in 1 .. Len(written[k].keys) :
             /\ Ahead(written[k].keys[a])
             /\ \A b \in 1 .. Len(key_list) : written[k].keys[a] <= key_list[b].key
  BY <1>1 DEF Ordered, TableOrdered, ClosedBefore, Filling, n
<1>6. \A k \in 1 .. n + 1 : k \in 1 .. n \/ k = n + 1
  BY <1>4
<1>7. TableOrdered'
  BY <1>1 DEF TableOrdered, Filling
<1>8. ClosedBefore'
  <2>. SUFFICES ASSUME pc' = "open", NEW k \in 1 .. n + 1, written'[k].thread = thread,
                       NEW a \in 1 .. Len(written'[k].keys)
                PROVE  \A c \in next_ + 1 .. range_step : written'[k].keys[a] <= values[c]
    BY <1>1, <1>2, <1>4 DEF ClosedBefore, Filling, Ahead
  <2>1. CASE k \in 1 .. n
    BY <1>4, <1>5, <2>1 DEF Ahead
  <2>2. CASE k = n + 1
    BY <1>3, <1>4, <1>5, <2>2 DEF Ahead
  <2>. QED
    BY <1>6, <2>1, <2>2
<1>9. SortedRun'
  <2>. SUFFICES ASSUME NEW k \in 1 .. n + 1, NEW l \in 1 .. n + 1, k <= l,
                       written'[k].thread = written'[l].thread,
                       NEW a \in 1 .. Len(written'[k].keys), NEW b \in 1 .. Len(written'[l].keys),
                       k < l \/ a <= b
                PROVE  /\ written'[k].keys[a] <= written'[l].keys[b]
                       /\ written'[l].keys[b] < range_step
    BY <1>2, <1>4 DEF SortedRun
  <2>1. CASE l \in 1 .. n
    <3>1. k \in 1 .. n /\ written'[k] = written[k] /\ written'[l] = written[l]
      BY <1>4, <2>1
    <3>. QED
      BY <2>1, <3>1 DEF Ordered, SortedRun, n
  <2>2. CASE l = n + 1 /\ k \in 1 .. n
    <3>1. /\ written'[k] = written[k] /\ written'[l] = w /\ b \in 1 .. Len(key_list)
          /\ written[k].thread = thread
      BY <1>3, <1>4, <2>2
    <3>. QED
      BY <1>3, <1>5, <2>2, <3>1
  <2>3. CASE l = n + 1 /\ k = n + 1
    <3>1. /\ written'[k] = w /\ written'[l] = w
          /\ a \in 1 .. Len(key_list) /\ b \in 1 .. Len(key_list)
      BY <1>3, <1>4, <2>3
    <3>2. a <= b /\ a \in 1 .. b
      BY <1>4, <2>3, <3>1
    <3>. QED
      BY <1>3, <1>5, <3>1, <3>2
  <2>. QED
    BY <1>6, <2>1, <2>2, <2>3
<1>10. pc' # "spawn" => values' \in SortedDraws(range_step)'
  BY <1>1, <1>2, <1>5 DEF SortedDraws
<1>. QED
  BY <1>7, <1>8, <1>9, <1>10 DEF Ordered

LEMMA NextOrdered == GenInv /\ Ordered /\ [GenNext]_gen_vars => Ordered'
<1>. SUFFICES ASSUME GenInv, Ordered, [GenNext]_gen_vars PROVE Ordered'
  OBVIOUS
<1>1. CASE StartThread
  BY <1>1, StartThreadOrdered
<1>2. CASE OpenFile
  BY <1>2, OpenFileOrdered
<1>3. CASE PushEntry
  BY <1>3, PushEntryOrdered
<1>4. CASE EndBody
  BY <1>4, EndBodyOrdered
<1>5. CASE WriteFile
  BY <1>5, WriteFileOrdered
<1>6. CASE UNCHANGED gen_vars
  BY <1>6 DEF gen_vars, Ordered, TableOrdered, ClosedBefore, SortedRun, SortedDraws, Ahead,
              Filling, range_step
<1>. QED
  BY <1>1, <1>2, <1>3, <1>4, <1>5, <1>6 DEF GenNext

-----------------------------------------------------------------------------
(***************************************************************************)
(* The directory.  File k - 1 belongs to the k-th table; the file being    *)
(* filled is still empty, so writing it leaves nothing behind the data.    *)
(***************************************************************************)
Directory ==
  /\ DOMAIN disk = 0 .. file_number - 1
  /\ file_number = Len(written) + (IF Filling THEN 1 ELSE 0)
  /\ Filling => disk[file_number - 1] = << >>
  /\ \A k \in 1 .. Len(written) :
       disk[k - 1] = SubSeq(DiskFormat(written[k].seen), 1, written[k].stored)

\* A function on 1 .. n is a sequence of its values.
LEMMA FunctionIsSeq ==
  ASSUME NEW n \in Nat, NEW f, f = [c \in 1 .. n |-> f[c]]
  PROVE  f \in Seq({f[c] : c \in 1 .. n}) /\ Len(f) = n
<1>. DEFINE S == {f[c] : c \in 1 .. n}
<1>1. \A c \in 1 .. n : f[c] \in S
  OBVIOUS
<1>. HIDE DEF S
<1>2. f \in [1 .. n -> S]
  BY <1>1
<1>3. f \in Seq(S) /\ Len(f) = n
  BY <1>2
<1>. QED
  BY <1>3 DEF S

\* ToDiskFormat returns a string.
LEMMA DiskFormatSeq ==
  ASSUME NEW keys \in Seq(Nat), format \in Formats
  PROVE  \E S : DiskFormat(keys) \in Seq(S)
<1>1. CASE format = "plain"
  <2>. DEFINE f == PlainDiskFormat(keys)
              n == EntryCells * Len(keys)
  <2>1. n \in Nat
    BY DEF EntryCells
  <2>2. f = [c \in 1 .. n |-> f[c]]
    BY DEF PlainDiskFormat
  <2>3. DiskFormat(keys) = f
    BY <1>1 DEF DiskFormat
  <2>. HIDE DEF f, n
  <2>. QED
    BY <2>1, <2>2, <2>3, FunctionIsSeq
<1>2. CASE format = "gear"
  <2>. DEFINE f == GearDiskFormat(keys, MaxEntryInBlock)
              n == ((Len(keys) + MaxEntryInBlock - 1) \div MaxEntryInBlock)
                     * GearBlockCells(MaxEntryInBlock)
  <2>1. n \in Nat
    BY DEF MaxEntryInBlock, GearBlockCells, EntryCells
  <2>2. f = [c \in 1 .. n |-> f[c]]
    BY DEF GearDiskFormat
  <2>3. DiskFormat(keys) = f
    BY <1>2 DEF DiskFormat
  <2>. HIDE DEF f, n
  <2>. QED
    BY <2>1, <2>2, <2>3, FunctionIsSeq
<1>3. CASE format = "none"
  <2>1. DiskFormat(keys) = << >>
    BY <1>3 DEF DiskFormat
  <2>2. << >> \in Seq({})
    OBVIOUS
  <2>. QED
    BY <2>1, <2>2
<1>. QED
  BY <1>1, <1>2, <1>3 DEF Formats

\* write() to an empty file leaves exactly its data.
LEMMA OverwriteEmpty ==
  ASSUME NEW S, NEW f \in Seq(S), NEW n \in 0 .. Len(f)
  PROVE  Overwrite(<< >>, SubSeq(f, 1, n)) = SubSeq(f, 1, n)
<1>. DEFINE d == SubSeq(f, 1, n)
<1>1. d \in Seq(S) /\ Len(d) = n /\ n \in Nat /\ d = [c \in 1 .. n |-> d[c]]
  OBVIOUS
<1>. HIDE DEF d
<1>2. ~(Len(<< >>) > Len(d))
  BY <1>1
<1>3. Overwrite(<< >>, d) = [c \in 1 .. n |-> d[c]]
  BY <1>1, <1>2 DEF Overwrite
<1>. QED
  BY <1>1, <1>3 DEF d

LEMMA InitDirectory == GenInit => Directory
BY DEF GenInit, Directory, Filling

LEMMA OpenFileDirectory ==
  ASSUME GenInv, Directory, OpenFile
  PROVE  Directory'
<1>1. /\ pc = "open" /\ pc' = "fill" /\ file_number' = file_number + 1
      /\ disk' = OpenForWrite(disk, file_number)
      /\ UNCHANGED << written, format >> /\ file_number \in Nat
  BY DEF OpenFile, GenInv, GenTypeOK
<1>2. /\ DOMAIN disk = 0 .. file_number - 1 /\ file_number = Len(written)
      /\ Len(written) \in Nat
  BY <1>1 DEF Directory, Filling, GenInv, GenTypeOK
<1>3. file_number \notin DOMAIN disk
  BY <1>1, <1>2
<1>4. disk' = [n \in DOMAIN disk \cup {file_number} |-> IF n = file_number THEN << >> ELSE disk[n]]
  BY <1>1, <1>3 DEF OpenForWrite
<1>5. DOMAIN disk' = 0 .. file_number' - 1
  <2>1. DOMAIN disk' = DOMAIN disk \cup {file_number}
    BY <1>4
  <2>2. (0 .. file_number - 1) \cup {file_number} = 0 .. (file_number + 1) - 1
    BY <1>1
  <2>. QED
    BY <1>1, <1>2, <2>1, <2>2
<1>6. disk'[file_number' - 1] = << >>
  <2>1. file_number' - 1 = file_number
    BY <1>1
  <2>. QED
    BY <1>4, <2>1
<1>7. ASSUME NEW k \in 1 .. Len(written)
      PROVE  disk'[k - 1] = SubSeq(DiskFormat(written[k].seen), 1, written[k].stored)
  <2>1. k - 1 \in DOMAIN disk /\ k - 1 # file_number
    BY <1>1, <1>2
  <2>2. disk'[k - 1] = disk[k - 1]
    BY <1>4, <2>1
  <2>. QED
    BY <2>2 DEF Directory
<1>8. \A k : DiskFormat(k)' = DiskFormat(k)
  BY <1>1 DEF DiskFormat
<1>. QED
  BY <1>1, <1>2, <1>5, <1>6, <1>7, <1>8 DEF Directory, Filling

LEMMA WriteFileDirectory ==
  ASSUME GenInv, Directory, WriteFile
  PROVE  Directory'
<1>. DEFINE n == Len(written)
<1>1. /\ pc = "fill" /\ pc' \in {"spawn", "open"}
      /\ UNCHANGED << format, file_number, input_files >> /\ file_number \in Nat
      /\ format \in Formats
  BY DEF WriteFile, GenInv, GenTypeOK
<1>2. PICK w \in WrittenType :
        /\ w.stored \in 0 .. Len(DiskFormat(w.seen))
        /\ disk' = WriteToDisk(disk, input_files[Len(input_files)],
                               SubSeq(DiskFormat(w.seen), 1, w.stored))
        /\ written' = Append(written, w)
  BY TableClosed
<1>. DEFINE d == SubSeq(DiskFormat(w.seen), 1, w.stored)
<1>3. /\ Len(written') = n + 1 /\ n \in Nat /\ written'[n + 1] = w
      /\ \A k \in 1 .. n : written'[k] = written[k]
  BY <1>2, HistoryGrows DEF GenInv, GenTypeOK
<1>. HIDE DEF n
<1>4. /\ DOMAIN disk = 0 .. file_number - 1 /\ file_number = n + 1
      /\ disk[n] = << >>
  BY <1>1, <1>3 DEF Directory, Filling, n
<1>5. input_files[Len(input_files)] = n
  BY <1>3, <1>4 DEF GenInv, NamesUnique
<1>6. Overwrite(<< >>, d) = d
  <2>1. w.seen \in Seq(Nat)
    BY DEF WrittenType
  <2>2. PICK S : DiskFormat(w.seen) \in Seq(S)
    BY <1>1, <2>1, DiskFormatSeq
  <2>. QED
    BY <1>2, <2>2, OverwriteEmpty
<1>. HIDE DEF d
<1>7. disk' = [disk EXCEPT ![n] = d]
  <2>1. disk' = [disk EXCEPT ![n] = Overwrite(disk[n], d)]
    BY <1>2, <1>5 DEF WriteToDisk, d
  <2>. QED
    BY <1>4, <1>6, <2>1
<1>8. DOMAIN disk' = 0 .. file_number' - 1
  BY <1>1, <1>4, <1>7
<1>9. \A k : DiskFormat(k)' = DiskFormat(k)
  BY <1>1 DEF DiskFormat
<1>10. ASSUME NEW k \in 1 .. n + 1
       PROVE  disk'[k - 1] = SubSeq(DiskFormat(written'[k].seen), 1, written'[k].stored)
  <2>1. CASE k \in 1 .. n
    <3>1. k - 1 \in DOMAIN disk /\ k - 1 # n
      BY <1>3, <1>4, <2>1
    <3>2. disk'[k - 1] = disk[k - 1] /\ written'[k] = written[k]
      BY <1>3, <1>7, <2>1, <3>1
    <3>. QED
      BY <2>1, <3>2 DEF Directory, n
  <2>2. CASE k = n + 1
    <3>1. k - 1 = n /\ n \in DOMAIN disk
      BY <1>3, <1>4, <2>2
    <3>2. disk'[k - 1] = d /\ written'[k] = w
      BY <1>3, <1>7, <2>2, <3>1
    <3>. QED
      BY <3>2 DEF d
  <2>. QED
    BY <1>3, <2>1, <2>2
<1>11. \A k \in 1 .. Len(written') :
         disk'[k - 1] = SubSeq(DiskFormat(written[k].seen)', 1, written'[k].stored)
  BY <1>1, <1>3, <1>10 DEF DiskFormat
<1>. QED
  BY <1>1, <1>3, <1>4, <1>8, <1>11 DEF Directory, Filling

LEMMA NextDirectory == GenInv /\ Directory /\ [GenNext]_gen_vars => Directory'
<1>. SUFFICES ASSUME GenInv, Directory, [GenNext]_gen_vars PROVE Directory'
  OBVIOUS
<1>1. CASE OpenFile
  BY <1>1, OpenFileDirectory
<1>2. CASE WriteFile
  BY <1>2, WriteFileDirectory
<1>3. CASE StartThread \/ PushEntry \/ EndBody \/ UNCHANGED gen_vars
  <2>1. UNCHANGED << disk, file_number, written, format >> /\ (Filling' <=> Filling)
    BY <1>3 DEF StartThread, PushEntry, EndBody, gen_vars, Filling
  <2>2. \A k : DiskFormat(k)' = DiskFormat(k)
    BY <2>1 DEF DiskFormat
  <2>. QED
    BY <2>1, <2>2 DEF Directory
<1>. QED
  BY <1>1, <1>2, <1>3 DEF GenNext

-----------------------------------------------------------------------------
(***************************************************************************)
(* The results.                                                            *)
(***************************************************************************)

\* generate_files keeps every variable within its type.
THEOREM TypeCorrect == GenSpec => []GenTypeOK
<1>1. GenInv => GenTypeOK
  BY DEF GenInv
<1>. QED
  BY <1>1, GenInvariance, PTL

\* The assertion of KeyGenerator::Next never fails in generate_files, whose
\* variables keep their types.
THEOREM GeneratorNeverDry == GenSpec => []NextWithinValues
<1>1. GenInv => next_ <= Len(values) /\ ((pc = "fill" /\ MoreToFill) => next_ < Len(values))
  BY RangeStepType DEF GenInv, GenTypeOK, Counting, MoreToFill
<1>2. GenInv => NextWithinValues
  BY <1>1 DEF GenInv, NextWithinValues
<1>. QED
  BY <1>2, GenInvariance, PTL

\* A joined thread has generated its range, or its range less one entry.
THEOREM JoinedThreadTotal == GenSpec => []CallTotal
<1>1. GenInv => CallTotal
  BY DEF GenInv
<1>. QED
  BY <1>1, GenInvariance, PTL

\* Only the last table of a thread is short.
THEOREM ShortFileIsLast == GenSpec => []OnlyLastFileShort
<1>1. GenInv => OnlyLastFileShort
  BY DEF GenInv
<1>. QED
  BY <1>1, GenInvariance, PTL

\* No file name is handed out twice.
THEOREM NamesNeverRepeat == GenSpec => []NamesUnique
<1>1. GenInv => NamesUnique
  BY DEF GenInv
<1>. QED
  BY <1>1, GenInvariance, PTL

\* A thread that writes empty tables is never joined.
THEOREM EmptyTablesDiverge == GenSpec => []EmptyTablesNeverJoin
<1>1. GenInv => EmptyTablesNeverJoin
  BY DEF GenInv
<1>. QED
  BY <1>1, GenInvariance, PTL

\* The tables of one thread, in the order generate_files writes them, are one
\* sorted run: no table boundary, and no thread before it, disturbs the order
\* of the draws.
THEOREM ThreadsWriteSortedRuns == GenSpec => []SortedRun
<1>1. GenInit => Ordered
  BY DEF GenInit, Ordered, TableOrdered, ClosedBefore, SortedRun, Filling
<1>2. Ordered => SortedRun
  BY DEF Ordered
<1>. QED
  BY <1>1, <1>2, NextOrdered, GenInvariance, PTL DEF GenSpec

\* The file with the k-th name holds the part that write() stored of the k-th
\* table, and no other file is in the directory, to the end of the phase.
THEOREM DirectoryHoldsTables == GenSpec => []DiskHoldsWritten
<1>1. GenInv /\ Directory => DiskHoldsWritten
  <2>. SUFFICES ASSUME GenInv, Directory PROVE DiskHoldsWritten
    OBVIOUS
  <2>1. /\ Len(input_files) = file_number /\ file_number \in Nat /\ Len(written) \in Nat
        /\ \A k \in 1 .. file_number : input_files[k] = k - 1
        /\ Len(written) <= file_number
    BY DEF GenInv, NamesUnique, GenTypeOK, Directory
  <2>2. 0 .. file_number - 1 = {input_files[k] : k \in 1 .. file_number}
    <3>1. ASSUME NEW x \in 0 .. file_number - 1
          PROVE  \E k \in 1 .. file_number : x = input_files[k]
      <4>1. x + 1 \in 1 .. file_number /\ (x + 1) - 1 = x
        BY <2>1
      <4>. QED
        BY <2>1, <4>1
    <3>2. \A k \in 1 .. file_number : input_files[k] \in 0 .. file_number - 1
      BY <2>1
    <3>. QED
      BY <3>1, <3>2
  <2>3. \A k \in 1 .. Len(written) : input_files[k] = k - 1
    BY <2>1
  <2>. QED
    BY <2>1, <2>2, <2>3 DEF Directory, DiskHoldsWritten
<1>. QED
  BY <1>1, InitDirectory, NextDirectory, GenInvariance, PTL DEF GenSpec

-----------------------------------------------------------------------------
(***************************************************************************)
(* Even flags: every table is full, so each thread makes as many as its    *)
(* range holds.  The tables closed and the one being filled hold what the  *)
(* joined threads and the running one have generated.                      *)
(***************************************************************************)
OpenEntries == IF Filling THEN Len(key_list) ELSE 0
OwnEntries == IF pc = "spawn" THEN 0 ELSE generated

Filled ==
  (EvenFlags(flags) /\ range_step > 0) =>
    /\ flags.entries_per_file * Len(written) + OpenEntries = thread * range_step + OwnEntries
    /\ \E c \in Nat : /\ OwnEntries = flags.entries_per_file * c + OpenEntries
                      /\ flags.entries_per_file * c < range_step

\* Products.
LEMMA TimesNat ==
  ASSUME NEW a \in Nat, NEW b \in Nat
  PROVE  a * b \in Nat
OBVIOUS

LEMMA TimesSucc ==
  ASSUME NEW a \in Nat, NEW b \in Nat
  PROVE  a * (b + 1) = a * b + a /\ (b + 1) * a = b * a + a
OBVIOUS

LEMMA TimesMonotone ==
  ASSUME NEW e \in Nat, NEW a \in Nat, NEW b \in Nat, a <= b
  PROVE  e * a <= e * b
<1>. DEFINE d == b - a
<1>1. d \in Nat /\ b = a + d
  OBVIOUS
<1>2. e * d \in Nat /\ e * a \in Nat
  BY <1>1, TimesNat
<1>. HIDE DEF d
<1>3. e * (a + d) = e * a + e * d
  BY <1>1
<1>. QED
  BY <1>1, <1>2, <1>3

\* Of two different multiples of e the larger one is larger by e at least.
LEMMA NextMultiple ==
  ASSUME NEW e \in Nat, NEW a \in Nat, NEW b \in Nat, e * a < e * b
  PROVE  a < b /\ e * a + e <= e * b
<1>1. e * a \in Nat /\ e * b \in Nat
  BY TimesNat
<1>2. ~(b <= a)
  BY <1>1, TimesMonotone
<1>3. a + 1 \in Nat /\ a + 1 <= b
  BY <1>2
<1>4. e * (a + 1) <= e * b /\ e * (a + 1) = e * a + e
  BY <1>3, TimesMonotone, TimesSucc
<1>. QED
  BY <1>2, <1>4

\* A product divided by one of its factors.
LEMMA DivExact ==
  ASSUME NEW t \in Nat \ {0}, NEW x \in Nat
  PROVE  (t * x) \div t = x
<1>. DEFINE q == (t * x) \div t
<1>1. t * x \in Nat
  BY TimesNat
<1>2. q \in Nat /\ t * q <= t * x /\ t * x < t * q + t
  BY <1>1
<1>. HIDE DEF q
<1>3. t * q \in Nat
  BY <1>2, TimesNat
<1>4. ~(t * q < t * x)
  BY <1>1, <1>2, <1>3, NextMultiple
<1>5. t * q = t * x
  BY <1>1, <1>2, <1>3, <1>4
<1>6. ~(q < x) /\ ~(x < q)
  <2>1. ASSUME NEW a \in Nat, NEW b \in Nat, a < b PROVE t * a < t * b
    <3>1. t * (a + 1) <= t * b /\ t * (a + 1) = t * a + t /\ t * a \in Nat /\ t * b \in Nat
      BY <2>1, TimesMonotone, TimesSucc, TimesNat
    <3>. QED
      BY <3>1
  <2>. QED
    BY <1>1, <1>2, <1>3, <1>5, <2>1
<1>7. q = x
  BY <1>2, <1>6
<1>. QED
  BY <1>7 DEF q

\* With even flags the range of a thread is a number of whole tables.
LEMMA EvenRange ==
  ASSUME flags \in FlagSet, flags.bench_threads > 0, EvenFlags(flags)
  PROVE  \E m \in Nat : /\ range_step = flags.entries_per_file * m
                        /\ flags.distinct_num =
                             flags.bench_threads * (flags.entries_per_file * m)
<1>. DEFINE d == flags.distinct_num
            t == flags.bench_threads
            e == flags.entries_per_file
<1>1. d \in Nat /\ t \in Nat \ {0} /\ e \in Nat /\ e > 1
  BY FlagAssumption DEF FlagType, EvenFlags
<1>2. d % (t * e) = 0 /\ range_step = d \div t
  BY DEF EvenFlags, range_step
<1>. HIDE DEF d, t, e
<1>3. t * e \in Nat /\ t * e > 0
  <2>1. t * e \in Nat /\ t * 1 <= t * e
    BY <1>1, TimesNat, TimesMonotone
  <2>. QED
    BY <1>1, <2>1
<1>. DEFINE b == t * e
            m == d \div b
<1>4. m \in Nat /\ d = b * m
  <2>. HIDE DEF b
  <2>. QED
    BY <1>1, <1>2, <1>3 DEF b
<1>5. e * m \in Nat
  BY <1>1, <1>4, TimesNat
<1>6. b * m = t * (e * m)
  <2>. HIDE DEF m
  <2>. QED
    BY <1>1, <1>4
<1>. HIDE DEF m, b
<1>7. range_step = e * m
  BY <1>1, <1>2, <1>4, <1>5, <1>6, DivExact
<1>. QED
  BY <1>4, <1>6, <1>7 DEF d, t, e

\* A table is closed when it is full: the range ends with a full table too.
LEMMA TableFull ==
  ASSUME NEW e \in Nat, NEW m \in Nat, NEW c \in Nat, NEW k \in Nat, NEW g \in Nat,
         e > 1, g = e * c + k, e * c < e * m, k <= e, k = e \/ g = e * m
  PROVE  k = e
<1>1. e * c + e <= e * m /\ e * c \in Nat /\ e * m \in Nat
  BY NextMultiple, TimesNat
<1>. QED
  BY <1>1

\* The thread that stops one entry short of its range has reached it.
LEMMA RangeReached ==
  ASSUME NEW e \in Nat, NEW m \in Nat, NEW c \in Nat,
         e > 1, e * c < e * m, e * c + e >= e * m - 1
  PROVE  e * c + e = e * m
<1>1. /\ e * c + e <= e * m /\ e * c \in Nat /\ e * m \in Nat
      /\ e * (c + 1) = e * c + e /\ c + 1 \in Nat
  BY NextMultiple, TimesNat, TimesSucc
<1>2. ~(e * (c + 1) < e * m)
  <2>1. e * (c + 1) < e * m => e * (c + 1) + e <= e * m
    BY <1>1, NextMultiple
  <2>. QED
    BY <1>1, <2>1
<1>. QED
  BY <1>1, <1>2

\* Before the first thread nothing is generated.
LEMMA InitFilled ==
  ASSUME flags \in FlagSet, flags.bench_threads > 0, pc = "spawn", thread = 0, written = << >>
  PROVE  Filled
<1>1. flags.entries_per_file \in Nat /\ range_step \in Nat
  BY RangeStepType
<1>2. OpenEntries = 0 /\ OwnEntries = 0
  BY DEF OpenEntries, OwnEntries, Filling
<1>3. flags.entries_per_file * 0 = 0 /\ 0 * range_step = 0
  BY <1>1
<1>. QED
  BY <1>1, <1>2, <1>3 DEF Filled

\* The steps that close no table: an entry counts in the table and in the thread.
LEMMA FillingFilled ==
  ASSUME GenInv, Filled, StartThread \/ OpenFile \/ PushEntry \/ EndBody
  PROVE  Filled'
<1>. DEFINE e == flags.entries_per_file
            n == Len(written)
<1>1. /\ e \in Nat /\ range_step \in Nat /\ n \in Nat /\ thread \in Nat /\ generated \in Nat
      /\ flags.bench_threads \in Nat /\ key_list \in Seq(KeySlice) /\ Len(key_list) \in Nat
  BY RangeStepType DEF GenInv, GenTypeOK
<1>2. flags' = flags /\ written' = written /\ thread' = thread /\ range_step' = range_step
  BY RangeStepFixed DEF StartThread, OpenFile, PushEntry, EndBody
<1>3. EvenFlags(flags)' = EvenFlags(flags)
  BY <1>2 DEF EvenFlags
<1>. SUFFICES ASSUME EvenFlags(flags), range_step > 0
              PROVE  /\ e * n + OpenEntries' = thread * range_step + OwnEntries'
                     /\ \E c \in Nat : OwnEntries' = e * c + OpenEntries' /\ e * c < range_step
  BY <1>2, <1>3 DEF Filled
<1>4. /\ e * n + OpenEntries = thread * range_step + OwnEntries
      /\ \E c \in Nat : OwnEntries = e * c + OpenEntries /\ e * c < range_step
  BY DEF Filled
<1>5. \/ OpenEntries' = OpenEntries /\ OwnEntries' = OwnEntries
      \/ OpenEntries' = OpenEntries + 1 /\ OwnEntries' = OwnEntries + 1
  <2>1. CASE StartThread
    BY <2>1 DEF StartThread, OpenEntries, OwnEntries, Filling
  <2>2. CASE OpenFile
    BY <2>2 DEF OpenFile, OpenEntries, OwnEntries, Filling
  <2>3. CASE PushEntry
    <3>1. Len(key_list') = Len(key_list) + 1
      BY <1>1, <2>3, SMTT(30) DEF PushEntry
    <3>. QED
      BY <2>3, <3>1 DEF PushEntry, OpenEntries, OwnEntries, Filling
  <2>4. CASE EndBody
    <3>1. Len(key_list') = Len(key_list)
      BY <1>1, <2>4 DEF EndBody
    <3>. QED
      BY <2>4, <3>1 DEF EndBody, OpenEntries, OwnEntries, Filling
  <2>. QED
    BY <2>1, <2>2, <2>3, <2>4
<1>6. /\ OpenEntries \in Nat /\ OwnEntries \in Nat /\ e * n \in Nat /\ thread * range_step \in Nat
      /\ \A c \in Nat : e * c \in Nat
  BY <1>1, TimesNat DEF OpenEntries, OwnEntries
<1>. HIDE DEF e, n
<1>. QED
  BY <1>4, <1>5, <1>6

\* A table is closed full, and the thread joined when its range is covered.
LEMMA WriteFileFilled ==
  ASSUME GenInv, Filled, WriteFile
  PROVE  Filled'
<1>. DEFINE e == flags.entries_per_file
            n == Len(written)
            k == Len(key_list)
<1>1. /\ e \in Nat /\ range_step \in Nat /\ n \in Nat /\ thread \in Nat /\ generated \in Nat
      /\ flags.bench_threads \in Nat /\ k \in Nat
      /\ generated <= range_step /\ k = i /\ i <= e
  BY RangeStepType DEF GenInv, GenTypeOK, Counting, WriteFile
<1>2. /\ flags' = flags /\ generated' = generated /\ range_step' = range_step
      /\ pc = "fill" /\ ~MoreToFill
      /\ \/ RangeCovered /\ pc' = "spawn" /\ thread' = thread + 1
         \/ ~RangeCovered /\ pc' = "open" /\ thread' = thread
  BY RangeStepFixed DEF WriteFile
<1>3. Len(written') = n + 1
  BY TableClosed, HistoryGrows DEF GenInv, GenTypeOK
<1>4. EvenFlags(flags)' = EvenFlags(flags)
  BY <1>2 DEF EvenFlags
<1>. SUFFICES ASSUME EvenFlags(flags), range_step > 0
              PROVE  /\ e * (n + 1) + OpenEntries' = thread' * range_step + OwnEntries'
                     /\ \E c \in Nat : OwnEntries' = e * c + OpenEntries' /\ e * c < range_step
  BY <1>2, <1>3, <1>4 DEF Filled
<1>5. OpenEntries = k /\ OwnEntries = generated
  BY <1>2 DEF OpenEntries, OwnEntries, Filling
<1>6. e * n + k = thread * range_step + generated
  BY <1>5 DEF Filled
<1>7. PICK c \in Nat : generated = e * c + k /\ e * c < range_step
  BY <1>5 DEF Filled
<1>8. PICK m \in Nat : range_step = e * m
  BY EvenRange DEF GenInv, GenTypeOK
<1>9. e > 1
  BY DEF EvenFlags
<1>10. k = e \/ generated = range_step
  BY <1>1, <1>2 DEF MoreToFill
<1>. HIDE DEF e, n, k
<1>11. k = e
  BY <1>1, <1>7, <1>8, <1>9, <1>10, TableFull
<1>12. /\ e * (n + 1) = e * n + e /\ (thread + 1) * range_step = thread * range_step + range_step
       /\ e * (c + 1) = e * c + e
       /\ e * n \in Nat /\ thread * range_step \in Nat /\ e * c \in Nat
  BY <1>1, TimesSucc, TimesNat
<1>13. OpenEntries' = 0
  BY <1>2 DEF OpenEntries, Filling
<1>14. CASE RangeCovered
  <2>1. generated = range_step
    <3>1. generated >= range_step - 1
      BY <1>1, <1>14, RangeCoveredMeaning DEF GenInv, GenTypeOK
    <3>2. e * c + e >= e * m - 1 /\ e * c < e * m
      BY <1>7, <1>8, <1>11, <3>1
    <3>3. e * c + e = e * m
      BY <1>1, <1>9, <3>2, RangeReached
    <3>. QED
      BY <1>7, <1>8, <1>11, <3>3
  <2>2. OwnEntries' = 0 /\ thread' = thread + 1
    BY <1>2, <1>14 DEF OwnEntries
  <2>3. e * (n + 1) + 0 = (thread + 1) * range_step + 0
    BY <1>1, <1>6, <1>11, <1>12, <2>1
  <2>4. 0 = e * 0 + 0 /\ e * 0 < range_step
    BY <1>1
  <2>. QED
    BY <1>13, <2>2, <2>3, <2>4
<1>15. CASE ~RangeCovered
  <2>1. OwnEntries' = generated /\ thread' = thread
    BY <1>2, <1>15 DEF OwnEntries
  <2>2. generated < range_step
    BY <1>1, <1>15, RangeCoveredMeaning DEF GenInv, GenTypeOK
  <2>3. e * (n + 1) + 0 = thread * range_step + generated
    BY <1>1, <1>6, <1>11, <1>12
  <2>4. generated = e * (c + 1) + 0 /\ e * (c + 1) < range_step /\ c + 1 \in Nat
    BY <1>1, <1>7, <1>11, <1>12, <2>2
  <2>. QED
    BY <1>13, <2>1, <2>3, <2>4
<1>. QED
  BY <1>14, <1>15

\* Every step of the generation phase keeps the count.
LEMMA NextFilled ==
  ASSUME GenInv, Filled, GenNext
  PROVE  Filled'
BY FillingFilled, WriteFileFilled DEF GenNext

\* When the phase is over, even flags have made as many files as merge-only names.
LEMMA EvenFilesMade ==
  ASSUME GenInv, Filled, GenDone, EvenFlags(flags)
  PROVE  Len(written) = flags.distinct_num \div flags.entries_per_file
<1>. DEFINE e == flags.entries_per_file
            t == flags.bench_threads
            n == Len(written)
<1>1. /\ e \in Nat \ {0} /\ range_step \in Nat /\ n \in Nat /\ t \in Nat \ {0}
      /\ pc = "spawn" /\ thread = t
  BY RangeStepType DEF GenInv, GenTypeOK, GenDone, EvenFlags
<1>2. range_step > 0
  BY <1>1 DEF GenInv, EmptyTablesNeverJoin
<1>3. e * n + 0 = t * range_step + 0
  BY <1>1, <1>2 DEF Filled, OpenEntries, OwnEntries, Filling
<1>4. PICK m \in Nat : range_step = e * m /\ flags.distinct_num = t * (e * m)
  BY EvenRange DEF GenInv, GenTypeOK
<1>. HIDE DEF e, t, n
<1>5. e * n \in Nat /\ t * range_step \in Nat
  BY <1>1, TimesNat
<1>6. flags.distinct_num = e * n
  BY <1>3, <1>4, <1>5
<1>7. flags.distinct_num \div e = n
  BY <1>1, <1>6, DivExact
<1>. QED
  BY <1>7 DEF e, n

(***************************************************************************)
(* What the generation phase leaves in the directory.                      *)
(***************************************************************************)
\* Whatever was killed, a file of the directory is a string of cells.
DiskTyped == DOMAIN disk \subseteq Nat /\ \A n \in DOMAIN disk : disk[n] \in Seq(Cells)

\* The keys of a plain file, the last entry of which may be cut.
HoldsKeys(file, keys) ==
  /\ keys \in Seq(Nat)
  /\ Len(keys) = (Len(file) + EntryCells - 1) \div EntryCells
  /\ \A e \in 1 .. Len(keys) : file[EntryStart(e - 1)] = keys[e]

\* write() never stores more than it is given.
StoredParts ==
  \A k \in 1 .. Len(written) : written[k].stored <= Len(DiskFormat(written[k].seen))

LEMMA NextStoredParts ==
  ASSUME GenInv, StoredParts, GenNext
  PROVE  StoredParts'
<1>1. format' = format /\ \A s : DiskFormat(s)' = DiskFormat(s)
  BY DEF GenNext, StartThread, OpenFile, PushEntry, EndBody, WriteFile, DiskFormat
<1>2. CASE WriteFile
  <2>1. PICK w \in WrittenType :
          /\ w.stored \in 0 .. Len(DiskFormat(w.seen))
          /\ written' = Append(written, w)
    BY <1>2, TableClosed
  <2>2. w.stored <= Len(DiskFormat(w.seen))
    <3>1. w.seen \in Seq(Nat) /\ format \in Formats
      BY DEF WrittenType, GenInv, GenTypeOK
    <3>2. Len(DiskFormat(w.seen)) \in Nat
      BY <3>1, DiskFormatLen
    <3>. QED
      BY <2>1, <3>2
  <2>3. /\ Len(written') = Len(written) + 1 /\ Len(written) \in Nat
        /\ written'[Len(written) + 1] = w
        /\ \A k \in 1 .. Len(written) : written'[k] = written[k]
    BY <2>1, HistoryGrows DEF GenInv, GenTypeOK
  <2>4. ASSUME NEW k \in 1 .. Len(written')
        PROVE  written'[k].stored <= Len(DiskFormat(written'[k].seen))
    <3>1. CASE k \in 1 .. Len(written)
      BY <2>3, <3>1 DEF StoredParts
    <3>2. CASE k = Len(written) + 1
      BY <2>2, <2>3, <3>2
    <3>. QED
      BY <2>3, <3>1, <3>2
  <2>5. \A s : Len(DiskFormat(s))' = Len(DiskFormat(s))
    BY <1>1
  <2>. QED
    BY <1>1, <2>4 DEF StoredParts, DiskFormat
<1>3. CASE ~WriteFile
  <2>1. written' = written
    BY <1>3 DEF GenNext, StartThread, OpenFile, PushEntry, EndBody
  <2>. QED
    BY <1>1, <2>1 DEF StoredParts
<1>. QED
  BY <1>2, <1>3

\* A key's place in a gear block, counted from the end of the block.
LEMMA GearKeyPlace ==
  ASSUME NEW L \in Nat, NEW a \in Nat, a < L, NEW o \in 0 .. 5, NEW n,
         n = IF L - a < 2 THEN L - a ELSE 2, ~(o < 6 - n)
  PROVE  a + (6 - o) \in 1 .. L
OBVIOUS

\* ToDiskFormat makes cells, whatever the format.
LEMMA DiskFormatCells ==
  ASSUME NEW keys \in Seq(Nat), format \in Formats
  PROVE  DiskFormat(keys) \in Seq(Cells)
<1>. DEFINE L == Len(keys)
<1>1. L \in Nat /\ \A k \in 1 .. L : keys[k] \in Nat
  OBVIOUS
<1>2. Nat \subseteq Cells /\ ValueCell \in Cells /\ HeaderCell \in Cells /\ PaddingCell \in Cells
  BY DEF Cells
<1>3. CASE format = "plain"
  <2>. DEFINE cell(c) == IF c % EntryCells = 1 THEN keys[(c + 1) \div EntryCells] ELSE ValueCell
              size == EntryCells * L
  <2>1. size \in Nat
    BY <1>1 DEF EntryCells
  <2>2. ASSUME NEW c \in 1 .. size PROVE cell(c) \in Cells
    <3>1. c % EntryCells = 1 => (c + 1) \div EntryCells \in 1 .. L
      BY <1>1 DEF EntryCells
    <3>. QED
      BY <1>1, <1>2, <3>1
  <2>3. DiskFormat(keys) = [c \in 1 .. size |-> cell(c)]
    BY <1>3 DEF DiskFormat, PlainDiskFormat
  <2>. HIDE DEF size, cell
  <2>4. [c \in 1 .. size |-> cell(c)] \in [1 .. size -> Cells]
    BY <2>2
  <2>. QED
    BY <2>1, <2>3, <2>4
<1>4. CASE format = "gear"
  <2>. DEFINE first(c) == ((c - 1) \div 6) * 2
              off(c) == (c - 1) % 6
              n(c) == IF L - first(c) < 2 THEN L - first(c) ELSE 2
              cell(c) == IF off(c) = 0 THEN HeaderCell
                         ELSE IF off(c) <= n(c) THEN ValueCell
                         ELSE IF off(c) < 6 - n(c) THEN PaddingCell
                         ELSE keys[first(c) + (6 - off(c))]
              size == ((L + 1) \div 2) * 6
  <2>1. size \in Nat
    BY <1>1
  <2>2. ASSUME NEW c \in 1 .. size PROVE cell(c) \in Cells
    <3>1. /\ first(c) \in Nat /\ off(c) \in 0 .. 5 /\ first(c) < L
      BY <1>1
    <3>2. ~(off(c) < 6 - n(c)) => first(c) + (6 - off(c)) \in 1 .. L
      <4>1. n(c) = IF L - first(c) < 2 THEN L - first(c) ELSE 2
        OBVIOUS
      <4>. HIDE DEF first, off, n, L
      <4>. QED
        BY <1>1, <3>1, <4>1, GearKeyPlace
    <3>. HIDE DEF first, off, n
    <3>. QED
      BY <1>1, <1>2, <3>2
  <2>3. DiskFormat(keys) = [c \in 1 .. size |-> cell(c)]
    <3>1. /\ MaxEntryInBlock = 2 /\ GearBlockCells(MaxEntryInBlock) = 6
          /\ L + MaxEntryInBlock - 1 = L + 1
      BY <1>1 DEF MaxEntryInBlock, GearBlockCells, EntryCells
    <3>2. DiskFormat(keys) = GearDiskFormat(keys, 2)
      BY <1>4, <3>1 DEF DiskFormat
    <3>3. GearBlockCells(2) = 6 /\ L + 2 - 1 = L + 1
      BY <1>1 DEF GearBlockCells, EntryCells
    <3>. QED
      BY <3>2, <3>3 DEF GearDiskFormat
  <2>. HIDE DEF size, cell
  <2>4. [c \in 1 .. size |-> cell(c)] \in [1 .. size -> Cells]
    BY <2>2
  <2>. QED
    BY <2>1, <2>3, <2>4
<1>5. CASE format = "none"
  BY <1>5 DEF DiskFormat
<1>. QED
  BY <1>3, <1>4, <1>5 DEF Formats

\* write() over an older file leaves cells.
LEMMA OverwriteCells ==
  ASSUME NEW old \in Seq(Cells), NEW data \in Seq(Cells)
  PROVE  Overwrite(old, data) \in Seq(Cells)
<1>. DEFINE n == IF Len(old) > Len(data) THEN Len(old) ELSE Len(data)
<1>1. n \in Nat /\ \A c \in 1 .. n : (IF c <= Len(data) THEN data[c] ELSE old[c]) \in Cells
  OBVIOUS
<1>2. Overwrite(old, data) = [c \in 1 .. n |-> IF c <= Len(data) THEN data[c] ELSE old[c]]
  BY DEF Overwrite
<1>. HIDE DEF n
<1>3. Overwrite(old, data) \in [1 .. n -> Cells]
  BY <1>1, <1>2
<1>. QED
  BY <1>1, <1>3

\* A stored part of a plain table has the keys of the entries it reaches into.
LEMMA PlainKeys ==
  ASSUME NEW seen \in Seq(Nat), NEW n \in Nat, n <= Len(PlainDiskFormat(seen))
  PROVE  HoldsKeys(SubSeq(PlainDiskFormat(seen), 1, n),
                   SubSeq(seen, 1, (n + EntryCells - 1) \div EntryCells))
<1>. DEFINE L == Len(seen)
            size == EntryCells * L
            m == (n + EntryCells - 1) \div EntryCells
            file == PlainDiskFormat(seen)
<1>1. L \in Nat /\ size \in Nat /\ size = 2 * L
  BY DEF EntryCells
<1>2. /\ Len(file) = size
      /\ \A c \in 1 .. size : file[c] = IF c % EntryCells = 1 THEN seen[(c + 1) \div EntryCells]
                                        ELSE ValueCell
      /\ file = [c \in 1 .. size |-> file[c]]
  BY <1>1 DEF PlainDiskFormat
<1>3. n <= size /\ m \in 0 .. L /\ m = (n + 1) \div 2
  BY <1>1, <1>2 DEF EntryCells
<1>. HIDE DEF file, size, L, m
<1>4. /\ Len(SubSeq(file, 1, n)) = n
      /\ \A c \in 1 .. n : SubSeq(file, 1, n)[c] = file[c]
  <2>1. PICK S : file \in Seq(S)
    BY <1>1, <1>2, FunctionIsSeq
  <2>. QED
    BY <1>1, <1>2, <1>3, <2>1
<1>5. /\ SubSeq(seen, 1, m) \in Seq(Nat) /\ Len(SubSeq(seen, 1, m)) = m
      /\ \A e \in 1 .. m : SubSeq(seen, 1, m)[e] = seen[e]
  BY <1>1, <1>3 DEF L
<1>6. ASSUME NEW e \in 1 .. m
      PROVE  SubSeq(file, 1, n)[EntryStart(e - 1)] = SubSeq(seen, 1, m)[e]
  <2>. DEFINE c == 2 * e - 1
  <2>1. c = EntryStart(e - 1) /\ c \in 1 .. n /\ c \in 1 .. size
    BY <1>1, <1>3 DEF EntryStart, EntryCells
  <2>2. c % 2 = 1 /\ (c + 1) \div 2 = e
    BY <1>3
  <2>. HIDE DEF c
  <2>3. file[c] = seen[e]
    BY <1>2, <2>1, <2>2 DEF EntryCells
  <2>. QED
    BY <1>4, <1>5, <2>1, <2>3
<1>. QED
  BY <1>3, <1>4, <1>5, <1>6 DEF HoldsKeys, EntryCells, m, file

\* The files of a plain generation phase hold the keys that it recorded.
LEMMA WrittenHeld ==
  ASSUME GenInv, Directory, StoredParts, format = "plain", NEW k \in 1 .. Len(written)
  PROVE  HoldsKeys(disk[k - 1], WrittenKeys[k])
<1>1. written[k] \in WrittenType
  BY DEF GenInv, GenTypeOK
<1>2. written[k].seen \in Seq(Nat) /\ written[k].stored \in Nat
  BY <1>1 DEF WrittenType
<1>3. \A s : DiskFormat(s) = PlainDiskFormat(s)
  BY DEF DiskFormat
<1>4. disk[k - 1] = SubSeq(PlainDiskFormat(written[k].seen), 1, written[k].stored)
  BY <1>3 DEF Directory
<1>5. written[k].stored <= Len(PlainDiskFormat(written[k].seen))
  BY <1>3 DEF StoredParts
<1>6. WrittenKeys[k] = SubSeq(written[k].seen, 1,
                              (written[k].stored + EntryCells - 1) \div EntryCells)
  BY DEF WrittenKeys, StoredKeys
<1>. QED
  BY <1>2, <1>4, <1>5, <1>6, PlainKeys

\* Every step of the generation phase keeps the files strings of cells.
LEMMA NextDiskTyped ==
  ASSUME GenInv, DiskTyped, GenNext
  PROVE  DiskTyped'
<1>1. CASE OpenFile
  <2>1. disk' = OpenForWrite(disk, file_number) /\ file_number \in Nat
    BY <1>1 DEF OpenFile, GenInv, GenTypeOK
  <2>2. << >> \in Seq(Cells)
    OBVIOUS
  <2>. QED
    BY <2>1, <2>2 DEF OpenForWrite, DiskTyped
<1>2. CASE WriteFile
  <2>1. PICK w \in WrittenType :
          /\ w.stored \in 0 .. Len(DiskFormat(w.seen))
          /\ disk' = WriteToDisk(disk, input_files[Len(input_files)],
                                 SubSeq(DiskFormat(w.seen), 1, w.stored))
    BY <1>2, TableClosed
  <2>. DEFINE data == SubSeq(DiskFormat(w.seen), 1, w.stored)
              name == input_files[Len(input_files)]
  <2>2. data \in Seq(Cells)
    <3>1. w.seen \in Seq(Nat) /\ format \in Formats
      BY DEF WrittenType, GenInv, GenTypeOK
    <3>2. DiskFormat(w.seen) \in Seq(Cells)
      BY <3>1, DiskFormatCells
    <3>. QED
      BY <2>1, <3>2
  <2>. HIDE DEF data, name
  <2>3. disk' = [disk EXCEPT ![name] = Overwrite(disk[name], data)]
    BY <2>1 DEF WriteToDisk, data, name
  <2>4. ASSUME NEW n \in DOMAIN disk PROVE disk'[n] \in Seq(Cells)
    <3>1. CASE n = name
      BY <2>2, <2>3, <2>4, <3>1, OverwriteCells DEF DiskTyped
    <3>2. CASE n # name
      BY <2>3, <2>4, <3>2 DEF DiskTyped
    <3>. QED
      BY <3>1, <3>2
  <2>. QED
    BY <2>3, <2>4 DEF DiskTyped
<1>3. CASE ~OpenFile /\ ~WriteFile
  BY <1>3 DEF GenNext, StartThread, PushEntry, EndBody, DiskTyped
<1>. QED
  BY <1>1, <1>2, <1>3

-----------------------------------------------------------------------------
(***************************************************************************)
(* What a merge of files that hold keys gives to Arbitration.              *)
(***************************************************************************)
\* Two functions whose arguments correspond one to one take each value equally
\* often.
LEMMA BagByBijection ==
  ASSUME NEW g, NEW h, NEW phi \in Bijection(DOMAIN g, DOMAIN h), IsFiniteSet(DOMAIN g),
         \A x \in DOMAIN g : g[x] = h[phi[x]]
  PROVE  SameBag(g, h)
<1>. SUFFICES ASSUME NEW v PROVE Count(g, v) = Count(h, v)
  BY DEF SameBag
<1>. DEFINE S == {x \in DOMAIN g : g[x] = v}
            T == {y \in DOMAIN h : h[y] = v}
            psi == [x \in S |-> phi[x]]
<1>1. /\ phi \in [DOMAIN g -> DOMAIN h]
      /\ \A x, y \in DOMAIN g : phi[x] = phi[y] => x = y
      /\ \A y \in DOMAIN h : \E x \in DOMAIN g : phi[x] = y
  BY DEF Bijection, Injection, Surjection, IsInjective
<1>2. IsFiniteSet(S)
  BY FS_Subset
<1>3. psi \in [S -> T] /\ \A x \in S : psi[x] = phi[x]
  BY <1>1
<1>4. \A x, y \in S : psi[x] = psi[y] => x = y
  BY <1>1, <1>3
<1>5. ASSUME NEW y \in T PROVE \E x \in S : psi[x] = y
  <2>1. PICK x \in DOMAIN g : phi[x] = y
    BY <1>1
  <2>2. x \in S
    BY <2>1
  <2>. QED
    BY <1>3, <2>1, <2>2
<1>. HIDE DEF S, T, psi
<1>6. psi \in Bijection(S, T)
  BY <1>3, <1>4, <1>5 DEF Bijection, Injection, Surjection, IsInjective
<1>7. Cardinality(T) = Cardinality(S)
  BY <1>2, <1>6, FS_Bijection DEF ExistsBijection
<1>. QED
  BY <1>7 DEF Count, S, T

\* A file that holds keys has as many entries for the merger as keys that the
\* read limit leaves, and each is read where NextEntry looks for it.
LEMMA ReadKeys ==
  ASSUME NEW file \in Seq(Cells), NEW keys, HoldsKeys(file, keys)
  PROVE  /\ EntriesOf(file) = Readable(Len(keys))
         /\ EntriesOf(file) \in Nat
         /\ EntriesOf(file) <= Len(keys)
         /\ \A e \in 0 .. EntriesOf(file) - 1 :
              ReadBuffer(file, ReadLimit)[EntryStart(e)] = keys[e + 1]
<1>. DEFINE n == Len(file)
            m == (n + 1) \div 2
            r == IF n < ReadLimit THEN n ELSE ReadLimit
            most == (ReadLimit + 1) \div 2
<1>1. n \in Nat /\ ReadLimit \in Nat \ {0} /\ Len(keys) \in Nat
  BY ReadAssumption DEF HoldsKeys
<1>2. EntriesOf(file) = (r + 1) \div 2
  BY <1>1 DEF EntriesOf, ReadLength, EntryCells
<1>3. Len(keys) = m
  BY <1>1 DEF HoldsKeys, EntryCells
<1>4. Readable(m) = IF m < most THEN m ELSE most
  BY <1>1 DEF Readable, EntryCells
<1>5. (r + 1) \div 2 = (IF m < most THEN m ELSE most) /\ (r + 1) \div 2 \in Nat
      /\ (r + 1) \div 2 <= m
  <2>. HIDE DEF n
  <2>. QED
    BY <1>1
<1>6. ASSUME NEW e \in 0 .. EntriesOf(file) - 1
      PROVE  ReadBuffer(file, ReadLimit)[EntryStart(e)] = keys[e + 1]
  <2>. DEFINE c == EntryStart(e)
  <2>1. c = 2 * e + 1
    BY DEF EntryStart, EntryCells
  <2>2. c \in 1 .. n /\ c \in 1 .. ReadLimit
    <3>. HIDE DEF n, c
    <3>. QED
      BY <1>1, <1>2, <2>1
  <2>3. e + 1 \in 1 .. Len(keys) /\ (e + 1) - 1 = e
    <3>. DEFINE q == EntriesOf(file)
    <3>1. q \in Nat /\ q <= Len(keys)
      BY <1>2, <1>3, <1>5
    <3>. HIDE DEF q
    <3>2. e \in 0 .. q - 1
      BY DEF q
    <3>. QED
      BY <1>1, <3>1, <3>2
  <2>4. file[c] = keys[e + 1]
    BY <2>3 DEF HoldsKeys
  <2>. HIDE DEF c
  <2>5. ReadBuffer(file, ReadLimit)[c] = file[c]
    BY <1>1, <2>2 DEF ReadBuffer
  <2>. QED
    BY <2>4, <2>5 DEF c
<1>. QED
  BY <1>2, <1>3, <1>4, <1>5, <1>6

\* When DoCompaction has returned, Arbitration has had the readable keys of
\* every input, each as often as the inputs hold it.
LEMMA MergedBag ==
  ASSUME MergerInv, mpc = "done", NEW files,
         \A f \in 1 .. Len(input_files) : HoldsKeys(File(f), files[f])
  PROVE  SameBag(PoppedKeys, KeysOf(files, Len(input_files)))
<1>. DEFINE N == Len(input_files)
            P == Len(popped)
            D == UNION {{f} \X (1 .. Readable(Len(files[f]))) : f \in 1 .. N}
            phi == [k \in 1 .. P |-> << popped[k].file, popped[k].entry + 1 >>]
<1>1. /\ N \in Nat /\ P \in Nat /\ popped \in Seq(Slices)
      /\ \A k \in 1 .. P : /\ popped[k] \in Slices
                           /\ popped[k].file \in Nat /\ popped[k].entry \in Nat
                           /\ popped[k] = [file |-> popped[k].file, entry |-> popped[k].entry]
  <2>1. popped \in Seq(Slices) /\ input_files \in Seq(Nat)
    BY DEF MergerInv, Typed
  <2>2. \A s \in Slices : s.file \in Nat /\ s.entry \in Nat
                          /\ s = [file |-> s.file, entry |-> s.entry]
    BY DEF Slices
  <2>. QED
    BY <2>1, <2>2
<1>2. /\ \A s : s \in Slices /\ s.file \in 1 .. N /\ s.entry < EntriesOf(File(s.file)) <=>
                \E k \in 1 .. P : popped[k] = s
      /\ \A k, l \in 1 .. P : popped[k] = popped[l] => k = l
  <2>1. cur - 1 = N /\ readed_entries = 0 /\ heap = << >>
    BY DEF MergerInv, Queueing, Typed
  <2>2. Elements(popped) = Made
    BY <2>1 DEF MergerInv, InOnePlace, Elements
  <2>3. Elements(popped) = {popped[k] : k \in 1 .. P}
    BY DEF Elements
  <2>4. \A s : s \in Made <=>
                 s \in Slices /\ s.file \in 1 .. N /\ s.entry < EntriesOf(File(s.file))
    <3>1. \A s \in Slices : ~(s.entry < 0)
      BY DEF Slices
    <3>. QED
      BY <2>1, <3>1 DEF Made
  <2>5. \A k, l \in 1 .. P : popped[k] = popped[l] => k = l
    BY DEF MergerInv, InOnePlace, Distinct
  <2>. QED
    BY <2>2, <2>3, <2>4, <2>5
<1>3. ASSUME NEW f \in 1 .. N
      PROVE  /\ EntriesOf(File(f)) = Readable(Len(files[f]))
             /\ EntriesOf(File(f)) \in Nat
             /\ loaded[f].content = ReadBuffer(File(f), ReadLimit)
             /\ \A e \in 0 .. EntriesOf(File(f)) - 1 :
                  ReadBuffer(File(f), ReadLimit)[EntryStart(e)] = files[f][e + 1]
  <2>1. File(f) \in Seq(Cells)
    BY InputsAreFiles DEF MergerInv
  <2>2. loaded[f].content = ReadBuffer(File(f), ReadLimit)
    <3>1. Len(loaded) = N
      BY DEF MergerInv, Loading
    <3>2. loaded[f] = [content |-> ReadBuffer(File(f), ReadLimit),
                       size |-> ReadLength(File(f), ReadLimit)]
      BY <3>1 DEF MergerInv, Loading
    <3>. QED
      BY <3>2
  <2>. QED
    BY <2>1, <2>2, ReadKeys
<1>4. ASSUME NEW p
      PROVE  p \in D <=> \E f \in 1 .. N : \E e \in 1 .. Readable(Len(files[f])) : p = << f, e >>
  OBVIOUS
<1>. HIDE DEF D
<1>5. ASSUME NEW k \in 1 .. P
      PROVE  /\ popped[k].file \in 1 .. N
             /\ popped[k].entry \in 0 .. EntriesOf(File(popped[k].file)) - 1
             /\ popped[k].entry + 1 \in 1 .. Readable(Len(files[popped[k].file]))
             /\ phi[k] = << popped[k].file, popped[k].entry + 1 >>
             /\ phi[k] \in D
             /\ KeyOf(popped[k]) = files[popped[k].file][popped[k].entry + 1]
  <2>1. popped[k].file \in 1 .. N /\ popped[k].entry < EntriesOf(File(popped[k].file))
    BY <1>2
  <2>2. /\ popped[k].entry \in 0 .. EntriesOf(File(popped[k].file)) - 1
        /\ popped[k].entry + 1 \in 1 .. Readable(Len(files[popped[k].file]))
    <3>. DEFINE a == EntriesOf(File(popped[k].file))
    <3>1. a \in Nat /\ a = Readable(Len(files[popped[k].file])) /\ popped[k].entry < a
          /\ popped[k].entry \in Nat
      BY <1>1, <1>3, <2>1
    <3>. HIDE DEF a
    <3>2. popped[k].entry \in 0 .. a - 1 /\ popped[k].entry + 1 \in 1 .. a
      BY <3>1
    <3>. QED
      BY <3>1, <3>2 DEF a
  <2>3. phi[k] = << popped[k].file, popped[k].entry + 1 >>
    OBVIOUS
  <2>4. phi[k] \in D
    BY <1>4, <2>1, <2>2, <2>3
  <2>5. KeyOf(popped[k]) = files[popped[k].file][popped[k].entry + 1]
    BY <1>3, <2>1, <2>2 DEF KeyOf
  <2>. QED
    BY <2>1, <2>2, <2>3, <2>4, <2>5
<1>6. phi \in [1 .. P -> D]
  BY <1>5
<1>. HIDE DEF phi
<1>7. ASSUME NEW k \in 1 .. P, NEW l \in 1 .. P, phi[k] = phi[l] PROVE k = l
  <2>1. popped[k].file = popped[l].file /\ popped[k].entry + 1 = popped[l].entry + 1
    BY <1>5, <1>7
  <2>2. popped[k].entry = popped[l].entry
    <3>1. \A a, b \in Nat : a + 1 = b + 1 => a = b
      OBVIOUS
    <3>2. popped[k].entry \in Nat /\ popped[l].entry \in Nat
      BY <1>1
    <3>. QED
      BY <2>1, <3>1, <3>2
  <2>3. popped[k] = popped[l]
    BY <1>1, <2>1, <2>2
  <2>. QED
    BY <1>2, <2>3
<1>8. ASSUME NEW p \in D PROVE \E k \in 1 .. P : phi[k] = p
  <2>1. PICK f \in 1 .. N : \E e \in 1 .. Readable(Len(files[f])) : p = << f, e >>
    BY <1>4
  <2>6. PICK e \in 1 .. Readable(Len(files[f])) : p = << f, e >>
    BY <2>1
  <2>. DEFINE s == [file |-> f, entry |-> e - 1]
  <2>2. e - 1 \in Nat /\ e - 1 < EntriesOf(File(f)) /\ (e - 1) + 1 = e
    <3>1. EntriesOf(File(f)) = Readable(Len(files[f])) /\ EntriesOf(File(f)) \in Nat
      BY <1>3
    <3>. QED
      BY <3>1
  <2>3. s \in Slices /\ s.file = f /\ s.entry = e - 1
    BY <1>1, <2>2 DEF Slices
  <2>4. PICK k \in 1 .. P : popped[k] = s
    BY <1>2, <2>2, <2>3
  <2>5. phi[k] = << f, e >>
    BY <1>5, <2>2, <2>3, <2>4
  <2>. QED
    BY <2>5, <2>6
<1>9. phi \in Bijection(1 .. P, D)
  BY <1>6, <1>7, <1>8 DEF Bijection, Injection, Surjection, IsInjective
<1>10. DOMAIN PoppedKeys = 1 .. P /\ \A k \in 1 .. P : PoppedKeys[k] = KeyOf(popped[k])
  BY DEF PoppedKeys
<1>11. /\ DOMAIN KeysOf(files, N) = D
       /\ \A p \in D : KeysOf(files, N)[p] = files[p[1]][p[2]]
  BY DEF KeysOf, D
<1>12. ASSUME NEW k \in 1 .. P PROVE PoppedKeys[k] = KeysOf(files, N)[phi[k]]
  <2>1. phi[k] \in D /\ phi[k][1] = popped[k].file /\ phi[k][2] = popped[k].entry + 1
    BY <1>5
  <2>. QED
    BY <1>5, <1>10, <1>11, <2>1
<1>13. IsFiniteSet(1 .. P)
  BY <1>1, FS_Interval
<1>. QED
  BY <1>9, <1>10, <1>11, <1>12, <1>13, BagByBijection

-----------------------------------------------------------------------------
(***************************************************************************)
(* The inductive invariant of the processes.                               *)
(***************************************************************************)
\* While the history says so, the directory holds what baseline_full stored.
Recorded ==
  complete # Incomplete =>
    /\ complete.flags \in FlagSet
    /\ DOMAIN disk = 0 .. Len(complete.keys) - 1
    /\ Len(complete.keys) \in Nat
    /\ \A k \in 1 .. Len(complete.keys) : HoldsKeys(disk[k - 1], complete.keys[k])
    /\ EvenFlags(complete.flags) =>
         Len(complete.keys) = complete.flags.distinct_num \div complete.flags.entries_per_file

Generating ==
  stage = "generate" =>
    /\ GenInv
    /\ Filled
    /\ complete = Incomplete
    /\ Current("baseline_full") => format = "plain" /\ Directory /\ StoredParts

\* The merger's inputs are the files that its task named.
Merging ==
  stage = "merge" =>
    /\ MergerInv
    /\ mpc = "abort" => \E k \in 1 .. Len(input_files) : input_files[k] \notin DOMAIN disk
    /\ \A k \in 1 .. Len(input_files) : input_files[k] = k - 1
    /\ Current("baseline_full") =>
         /\ complete = [flags |-> flags, keys |-> WrittenKeys]
         /\ Len(input_files) = Len(written)
    /\ Current("baseline") =>
         /\ flags.entries_per_file > 0
         /\ Len(input_files) = MergeOnlyFiles

ProcessTyped ==
  /\ GenTypeOK
  /\ stage \in {"main", "generate", "merge", "exit"}
  /\ runs \in 1 .. MaxRuns

BenchInv == ProcessTyped /\ DiskTyped /\ Recorded /\ Generating /\ Merging

-----------------------------------------------------------------------------
\* A phase that is about to start, with the facts of the whole phase.
LEMMA PhaseStarts ==
  NewPhase => /\ GenInv /\ Filled /\ StoredParts
              /\ disk = << >> => Directory
<1>. SUFFICES ASSUME NewPhase
              PROVE  GenInv /\ Filled /\ StoredParts /\ (disk = << >> => Directory)
  OBVIOUS
<1>1. GenInv
  BY NewPhaseGenInv
<1>2. Filled
  BY InitFilled DEF NewPhase
<1>3. StoredParts
  BY DEF NewPhase, StoredParts
<1>4. disk = << >> => Directory
  BY DEF NewPhase, Directory, Filling
<1>. QED
  BY <1>1, <1>2, <1>3, <1>4

LEMMA NextPhaseStarts ==
  NewPhase' => /\ GenInv' /\ Filled' /\ StoredParts'
               /\ (disk = << >>)' => Directory'
BY PhaseStarts, PTL

\* A merger that is about to start.
LEMMA MergerStarts ==
  Idle /\ input_files \in Seq(Nat) /\ DiskTyped => MergerInv
BY IdleMergerInv DEF DiskTyped

LEMMA NextMergerStarts ==
  Idle' /\ (input_files \in Seq(Nat))' /\ DiskTyped' => MergerInv'
BY MergerStarts, PTL

\* flags is no empty record.
LEMMA FlagsAreFlags ==
  ASSUME NEW f \in FlagSet
  PROVE  /\ f.distinct_num \in Nat /\ f.bench_threads \in Nat /\ f.entries_per_file \in Nat
         /\ f # << >>
<1>1. f \in FlagType
  BY FlagAssumption
<1>2. DOMAIN f = {"distinct_num", "bench_threads", "entries_per_file"}
  BY <1>1 DEF FlagType
<1>3. DOMAIN << >> = {}
  OBVIOUS
<1>. QED
  BY <1>1, <1>2, <1>3 DEF FlagType

LEMMA InitBenchInv == Init => BenchInv
<1>. SUFFICES ASSUME Init PROVE BenchInv
  OBVIOUS
<1>. USE DEF Init
<1>1. flags.bench_threads \in Nat
  BY FlagsAreFlags
<1>2. GenTypeOK
  BY <1>1 DEF GenTypeOK, Formats
<1>3. ProcessTyped
  BY <1>2, RunsAssumption DEF ProcessTyped
<1>4. DiskTyped /\ Recorded /\ Generating /\ Merging
  BY DEF DiskTyped, Recorded, Generating, Merging
<1>. QED
  BY <1>3, <1>4 DEF BenchInv

(***************************************************************************)
(* One step of a process.                                                  *)
(***************************************************************************)
\* The types of what a step leaves alone.
LEMMA TypesKept ==
  ASSUME GenTypeOK, UNCHANGED << flags, gen_locals, input_files, disk >>
  PROVE  GenTypeOK'
BY DEF GenTypeOK, gen_locals

LEMMA RecordKept ==
  ASSUME Recorded, UNCHANGED << disk, complete >>
  PROVE  Recorded'
BY DEF Recorded

\* A step from one task to the next, or out of the process, changes no file.
LEMMA BetweenTasks ==
  ASSUME BenchInv, stage' \in {"main", "exit"},
         UNCHANGED << flags, gen_locals, input_files, disk, merger_locals, runs, complete >>
  PROVE  BenchInv'
<1>1. ProcessTyped'
  BY TypesKept DEF BenchInv, ProcessTyped
<1>2. DiskTyped' /\ Recorded'
  BY RecordKept DEF BenchInv, DiskTyped
<1>3. Generating' /\ Merging'
  BY DEF Generating, Merging
<1>. QED
  BY <1>1, <1>2, <1>3 DEF BenchInv

\* gear and baseline_full start a generation phase of their own.
LEMMA StartGenerating ==
  ASSUME BenchInv, StartGear \/ StartFull
  PROVE  BenchInv'
<1>1. /\ stage' = "generate" /\ complete' = Incomplete /\ flags' = flags /\ bench' = bench
      /\ runs' = runs /\ flags \in FlagSet
      /\ \E fmt \in Formats : NewGenerator(fmt)
  BY DEF StartGear, StartFull, Formats, BenchInv, ProcessTyped, GenTypeOK
<1>2. flags.bench_threads > 0
  BY <1>1, FlagsAreFlags DEF StartGear, StartFull, DividesByZero
<1>3. DiskTyped'
  BY DEF StartGear, StartFull, BenchInv, DiskTyped
<1>4. NewPhase'
  BY <1>1, <1>2, <1>3 DEF NewPhase, NewGenerator, DiskTyped
<1>5. GenInv' /\ Filled' /\ StoredParts' /\ ((disk = << >>)' => Directory')
  BY <1>4, NextPhaseStarts
<1>6. ProcessTyped'
  BY <1>1, <1>5 DEF GenInv, ProcessTyped, BenchInv
<1>7. Recorded' /\ Merging'
  BY <1>1 DEF Recorded, Merging, Incomplete
<1>8. Current("baseline_full")' => (format = "plain")' /\ Directory'
  <2>1. CASE StartGear
    BY <2>1 DEF StartGear, Current
  <2>2. CASE StartFull
    BY <1>5, <2>2 DEF StartFull, NewGenerator
  <2>. QED
    BY <2>1, <2>2
<1>9. Generating'
  BY <1>1, <1>5, <1>8 DEF Generating, Incomplete
<1>. QED
  BY <1>3, <1>6, <1>7, <1>9 DEF BenchInv

\* baseline starts a merger over the names it counts.
LEMMA StartMergeOnlyBenchInv ==
  ASSUME BenchInv, StartMergeOnly
  PROVE  BenchInv'
<1>. DEFINE M == MergeOnlyFiles
<1>1. /\ stage' = "merge" /\ Current("baseline") /\ flags.entries_per_file # 0
      /\ input_files' = [k \in 1 .. M |-> k - 1] /\ file_number' = M /\ NewMerger
      /\ UNCHANGED << flags, format, pc, thread, values, next_, generated, i, key_list, written,
                      disk, bench, runs, complete >>
  BY DEF StartMergeOnly, DividesByZero
<1>2. flags.distinct_num \in Nat /\ flags.entries_per_file \in Nat \ {0}
  BY <1>1, FlagsAreFlags DEF BenchInv, ProcessTyped, GenTypeOK
<1>3. M \in Nat
  BY <1>2, DivFacts DEF MergeOnlyFiles
<1>4. MergeOnlyFiles' = M
  BY <1>1 DEF MergeOnlyFiles
<1>. HIDE DEF M
<1>5. input_files' \in Seq(Nat) /\ Len(input_files') = M
      /\ \A k \in 1 .. M : input_files'[k] = k - 1
  <2>1. input_files' \in [1 .. M -> Nat]
    BY <1>1, <1>3
  <2>. QED
    BY <1>1, <1>3, <2>1
<1>6. ProcessTyped'
  BY <1>1, <1>3, <1>5 DEF ProcessTyped, BenchInv, GenTypeOK
<1>7. DiskTyped' /\ Recorded'
  BY <1>1, RecordKept DEF BenchInv, DiskTyped
<1>8. Idle'
  BY <1>1 DEF NewMerger, Idle, NoEntry
<1>9. MergerInv'
  BY <1>5, <1>7, <1>8, NextMergerStarts
<1>10. Current("baseline")' /\ ~Current("baseline_full")'
  BY <1>1 DEF Current
<1>11. Merging'
  <2>1. mpc' = "idle" /\ flags'.entries_per_file > 0
    BY <1>1, <1>2, <1>8 DEF Idle
  <2>. QED
    BY <1>4, <1>5, <1>9, <1>10, <2>1 DEF Merging
<1>12. Generating'
  BY <1>1 DEF Generating
<1>. QED
  BY <1>6, <1>7, <1>11, <1>12 DEF BenchInv

\* The trap of a division; rm -rf may have emptied the directory before.
LEMMA DivisionTrapsBenchInv ==
  ASSUME BenchInv, DivisionTraps
  PROVE  BenchInv'
<1>1. /\ stage' = "exit" /\ UNCHANGED << flags, gen_locals, input_files, merger_locals, runs >>
      /\ \/ UNCHANGED << disk, complete >>
         \/ disk' = << >> /\ complete' = Incomplete
  BY DEF DivisionTraps
<1>2. CASE UNCHANGED << disk, complete >>
  BY <1>1, <1>2, BetweenTasks
<1>3. CASE disk' = << >> /\ complete' = Incomplete
  <2>1. DiskTyped' /\ Recorded'
    BY <1>3 DEF DiskTyped, Recorded, Incomplete
  <2>2. GenTypeOK'
    BY <1>1, <1>3 DEF BenchInv, ProcessTyped, GenTypeOK, gen_locals
  <2>3. ProcessTyped'
    BY <1>1, <2>2 DEF BenchInv, ProcessTyped
  <2>4. Generating' /\ Merging'
    BY <1>1 DEF Generating, Merging
  <2>. QED
    BY <2>1, <2>3, <2>4 DEF BenchInv
<1>. QED
  BY <1>1, <1>2, <1>3

\* A step of generate_files.
LEMMA GenerateStepBenchInv ==
  ASSUME BenchInv, GenerateStep
  PROVE  BenchInv'
<1>1. /\ stage = "generate" /\ stage' = "generate" /\ GenNext
      /\ bench' = bench /\ runs' = runs /\ complete' = complete
  BY DEF GenerateStep
<1>2. GenInv /\ Filled /\ complete = Incomplete /\ DiskTyped
  BY <1>1 DEF BenchInv, Generating
<1>3. GenInv' /\ Filled' /\ DiskTyped'
  BY <1>1, <1>2, NextGenInv, NextFilled, NextDiskTyped
<1>4. ProcessTyped'
  BY <1>1, <1>3 DEF BenchInv, ProcessTyped, GenInv
<1>5. Recorded' /\ Merging'
  BY <1>1, <1>2 DEF Recorded, Merging, Incomplete
<1>6. format' = format
  BY <1>1 DEF GenNext, StartThread, OpenFile, PushEntry, EndBody, WriteFile
<1>7. Current("baseline_full")' => (format = "plain")' /\ Directory' /\ StoredParts'
  <2>. SUFFICES ASSUME Current("baseline_full")'
                PROVE  (format = "plain")' /\ Directory' /\ StoredParts'
    OBVIOUS
  <2>1. Current("baseline_full")
    BY <1>1 DEF Current
  <2>2. format = "plain" /\ Directory /\ StoredParts
    BY <1>1, <2>1 DEF BenchInv, Generating
  <2>. QED
    BY <1>1, <1>2, <1>6, <2>2, NextDirectory, NextStoredParts
<1>8. Generating'
  BY <1>1, <1>2, <1>3, <1>7 DEF Generating, Incomplete
<1>. QED
  BY <1>3, <1>4, <1>5, <1>8 DEF BenchInv

\* baseline_full goes on to merge: the directory is what it has just written.
LEMMA MergeGeneratedBenchInv ==
  ASSUME BenchInv, MergeGenerated
  PROVE  BenchInv'
<1>1. /\ stage = "generate" /\ stage' = "merge" /\ GenDone /\ NewMerger
      /\ Current("baseline_full")
      /\ complete' = [flags |-> flags, keys |-> WrittenKeys]
      /\ UNCHANGED << flags, gen_locals, input_files, disk, bench, runs >>
  BY DEF MergeGenerated
<1>2. /\ GenInv /\ Filled /\ DiskTyped
      /\ format = "plain" /\ Directory /\ StoredParts
  BY <1>1 DEF BenchInv, Generating
<1>3. ProcessTyped'
  BY <1>1, TypesKept DEF BenchInv, ProcessTyped
<1>4. DiskTyped'
  BY <1>1, <1>2 DEF DiskTyped
<1>5. /\ Len(written) \in Nat /\ file_number = Len(written) /\ Len(input_files) = file_number
      /\ input_files \in Seq(Nat) /\ flags \in FlagSet
      /\ \A k \in 1 .. Len(input_files) : input_files[k] = k - 1
      /\ DOMAIN disk = 0 .. file_number - 1
  BY <1>1, <1>2 DEF GenInv, GenTypeOK, Directory, GenDone, Filling, NamesUnique
<1>6. Len(WrittenKeys) = Len(written)
  BY <1>5 DEF WrittenKeys
<1>7. \A k \in 1 .. Len(written) : HoldsKeys(disk[k - 1], WrittenKeys[k])
  BY <1>2, WrittenHeld
<1>8. EvenFlags(flags) => Len(written) = flags.distinct_num \div flags.entries_per_file
  BY <1>1, <1>2, EvenFilesMade
<1>9. complete'.flags = flags /\ complete'.keys = WrittenKeys /\ disk' = disk
  BY <1>1
<1>10. Recorded'
  BY <1>5, <1>6, <1>7, <1>8, <1>9 DEF Recorded
<1>11. Idle' /\ (input_files \in Seq(Nat))'
  BY <1>1, <1>5 DEF NewMerger, Idle, NoEntry
<1>12. MergerInv'
  BY <1>4, <1>11, NextMergerStarts
<1>13. written' = written /\ WrittenKeys' = WrittenKeys
  BY <1>1 DEF WrittenKeys, gen_locals
<1>14. ~Current("baseline")'
  BY <1>1 DEF Current
<1>15. Merging'
  BY <1>1, <1>5, <1>11, <1>12, <1>13, <1>14 DEF Merging, Idle
<1>16. Generating'
  BY <1>1 DEF Generating
<1>. QED
  BY <1>3, <1>4, <1>10, <1>15, <1>16 DEF BenchInv

\* A step of DoCompaction writes no file.
LEMMA MergeStepBenchInv ==
  ASSUME BenchInv, MergeStep
  PROVE  BenchInv'
<1>1. /\ stage = "merge" /\ stage' = "merge" /\ MergerNext
      /\ UNCHANGED << flags, gen_locals, bench, runs, complete >>
  BY DEF MergeStep
<1>2. UNCHANGED << disk, input_files >>
  BY <1>1 DEF MergerNext, OpenInputs, LoadFile, AllLoaded, QueueEntry, NextInput, AllQueued,
              PopEntry, Finish
<1>3. ProcessTyped'
  BY <1>1, <1>2, TypesKept DEF BenchInv, ProcessTyped
<1>4. DiskTyped' /\ Recorded' /\ Generating'
  BY <1>1, <1>2, RecordKept DEF BenchInv, DiskTyped, Generating
<1>5. MergerInv'
  BY <1>1, NextMergerInv DEF BenchInv, Merging
<1>6. mpc' = "abort" => \E k \in 1 .. Len(input_files) : input_files[k] \notin DOMAIN disk
  BY <1>1 DEF MergerNext, OpenInputs, LoadFile, AllLoaded, QueueEntry, NextInput, AllQueued,
              PopEntry, Finish
<1>7. /\ WrittenKeys' = WrittenKeys /\ MergeOnlyFiles' = MergeOnlyFiles /\ written' = written
      /\ (Current("baseline")' <=> Current("baseline"))
      /\ (Current("baseline_full")' <=> Current("baseline_full"))
  BY <1>1 DEF WrittenKeys, MergeOnlyFiles, Current, gen_locals
<1>8. Merging'
  BY <1>1, <1>2, <1>5, <1>6, <1>7 DEF BenchInv, Merging
<1>. QED
  BY <1>3, <1>4, <1>8 DEF BenchInv

\* Another process starts over the directory as it is.
LEMMA RestartBenchInv ==
  ASSUME BenchInv, Restart
  PROVE  BenchInv'
<1>1. /\ stage' = "main" /\ flags' \in FlagSet /\ runs' = runs + 1 /\ runs < MaxRuns
      /\ NewGenerator("plain") /\ UNCHANGED << disk, complete >>
  BY DEF Restart
<1>2. flags'.bench_threads \in Nat
  BY <1>1, FlagsAreFlags
<1>3. GenTypeOK'
  BY <1>1, <1>2 DEF NewGenerator, GenTypeOK, Formats, BenchInv, ProcessTyped
<1>4. ProcessTyped'
  BY <1>1, <1>3, RunsAssumption DEF ProcessTyped, BenchInv
<1>5. DiskTyped' /\ Recorded'
  BY <1>1, RecordKept DEF BenchInv, DiskTyped
<1>6. Generating' /\ Merging'
  BY <1>1 DEF Generating, Merging
<1>. QED
  BY <1>4, <1>5, <1>6 DEF BenchInv

\* A step that changes nothing.
LEMMA StutterBenchInv ==
  ASSUME BenchInv, UNCHANGED vars
  PROVE  BenchInv'
<1>1. /\ UNCHANGED << flags, gen_locals, input_files, disk >> /\ UNCHANGED gen_vars
      /\ UNCHANGED merger_vars /\ UNCHANGED << stage, bench, runs, complete, written, format >>
  BY DEF vars, gen_locals, merger_locals, gen_vars, merger_vars
<1>2. ProcessTyped' /\ DiskTyped' /\ Recorded'
  BY <1>1, TypesKept, RecordKept DEF BenchInv, ProcessTyped, DiskTyped
<1>3. Current("baseline")' = Current("baseline")
      /\ Current("baseline_full")' = Current("baseline_full")
  BY <1>1 DEF Current
<1>4. Generating'
  <2>. SUFFICES ASSUME stage = "generate"
                PROVE  /\ GenInv' /\ Filled' /\ (complete = Incomplete)'
                       /\ Current("baseline_full") =>
                            (format = "plain")' /\ Directory' /\ StoredParts'
    BY <1>1, <1>3 DEF Generating
  <2>1. GenInv' /\ (complete = Incomplete)'
    BY <1>1, NextGenInv DEF BenchInv, Generating, Incomplete
  <2>2. Filled'
    <3>1. /\ range_step' = range_step /\ EvenFlags(flags)' = EvenFlags(flags)
          /\ OpenEntries' = OpenEntries /\ OwnEntries' = OwnEntries
      BY <1>1 DEF gen_vars, range_step, EvenFlags, OpenEntries, OwnEntries, Filling
    <3>. QED
      BY <1>1, <3>1 DEF gen_vars, Filled, BenchInv, Generating
  <2>3. ASSUME Current("baseline_full")
        PROVE  (format = "plain")' /\ Directory' /\ StoredParts'
    <3>1. GenInv /\ format = "plain" /\ Directory /\ StoredParts
      BY <2>3 DEF BenchInv, Generating
    <3>2. Directory'
      BY <1>1, <3>1, NextDirectory
    <3>3. StoredParts'
      BY <1>1, <3>1 DEF StoredParts, DiskFormat
    <3>. QED
      BY <1>1, <3>1, <3>2, <3>3
  <2>. QED
    BY <2>1, <2>2, <2>3
<1>5. Merging'
  <2>1. stage = "merge" => MergerInv'
    BY <1>1, NextMergerInv DEF BenchInv, Merging
  <2>2. WrittenKeys' = WrittenKeys /\ MergeOnlyFiles' = MergeOnlyFiles /\ mpc' = mpc
    BY <1>1 DEF WrittenKeys, MergeOnlyFiles, merger_vars
  <2>. QED
    BY <1>1, <1>3, <2>1, <2>2 DEF Merging, BenchInv
<1>. QED
  BY <1>2, <1>4, <1>5 DEF BenchInv

LEMMA NextBenchInv == BenchInv /\ [Next]_vars => BenchInv'
<1>. SUFFICES ASSUME BenchInv, [Next]_vars PROVE BenchInv'
  OBVIOUS
<1>1. CASE StartGear \/ StartFull
  BY <1>1, StartGenerating
<1>2. CASE StartMergeOnly
  BY <1>2, StartMergeOnlyBenchInv
<1>3. CASE DivisionTraps
  BY <1>3, DivisionTrapsBenchInv
<1>4. CASE SkipUnknown \/ FinishGear \/ FinishMerge \/ MergeDies \/ MainReturns \/ Killed
  <2>1. /\ stage' \in {"main", "exit"}
        /\ UNCHANGED << flags, gen_locals, input_files, disk, merger_locals, runs, complete >>
    BY <1>4 DEF SkipUnknown, FinishGear, FinishMerge, MergeDies, MainReturns, Killed
  <2>. QED
    BY <2>1, BetweenTasks
<1>5. CASE GenerateStep
  BY <1>5, GenerateStepBenchInv
<1>6. CASE MergeGenerated
  BY <1>6, MergeGeneratedBenchInv
<1>7. CASE MergeStep
  BY <1>7, MergeStepBenchInv
<1>8. CASE Restart
  BY <1>8, RestartBenchInv
<1>9. CASE UNCHANGED vars
  BY <1>9, StutterBenchInv
<1>. QED
  BY <1>1, <1>2, <1>3, <1>4, <1>5, <1>6, <1>7, <1>8, <1>9 DEF Next, ProcessStep

-----------------------------------------------------------------------------
(***************************************************************************)
(* The results about the processes.                                        *)
(***************************************************************************)
LEMMA BenchInvariance == Spec => []BenchInv
BY InitBenchInv, NextBenchInv, PTL DEF Spec

\* The composition keeps the types of both phases.
LEMMA BenchTypes == BenchInv => TypeOK
BY MergerInvTypes DEF BenchInv, ProcessTyped, Merging, TypeOK

\* A merge of the files that baseline_full recorded: as many of them as are named
\* and exist, and all that they hold.
LEMMA RecordedMerge ==
  ASSUME BenchInv, stage = "merge", complete # Incomplete
  PROVE  LET named == Len(input_files)
             made == Len(complete.keys)
         IN  /\ mpc = "abort" => named > made
             /\ mpc = "done" => /\ named <= made
                                /\ SameBag(PoppedKeys, KeysOf(complete.keys, named))
<1>. DEFINE named == Len(input_files)
            made == Len(complete.keys)
<1>1. /\ DOMAIN disk = 0 .. made - 1 /\ made \in Nat
      /\ \A k \in 1 .. made : HoldsKeys(disk[k - 1], complete.keys[k])
  BY DEF BenchInv, Recorded
<1>2. /\ MergerInv
      /\ mpc = "abort" => \E k \in 1 .. named : input_files[k] \notin DOMAIN disk
      /\ \A k \in 1 .. named : input_files[k] = k - 1
  BY DEF BenchInv, Merging
<1>3. named \in Nat
  BY <1>2 DEF MergerInv, Typed
<1>4. mpc = "done" => \A k \in 1 .. named : input_files[k] \in DOMAIN disk
  BY <1>2 DEF MergerInv, Loading
<1>. HIDE DEF named, made
<1>5. mpc = "abort" => named > made
  <2>. SUFFICES ASSUME mpc = "abort" PROVE named > made
    OBVIOUS
  <2>1. PICK k \in 1 .. named : k - 1 \notin 0 .. made - 1
    BY <1>1, <1>2
  <2>. QED
    BY <1>1, <1>3, <2>1
<1>6. ASSUME mpc = "done" PROVE named <= made
  <2>1. named > 0 => named - 1 \in 0 .. made - 1
    BY <1>1, <1>2, <1>3, <1>4, <1>6
  <2>. QED
    BY <1>1, <1>3, <2>1
<1>7. ASSUME mpc = "done" PROVE SameBag(PoppedKeys, KeysOf(complete.keys, named))
  <2>1. ASSUME NEW f \in 1 .. named PROVE HoldsKeys(File(f), complete.keys[f])
    <3>1. File(f) = disk[f - 1] /\ f \in 1 .. made
      BY <1>1, <1>2, <1>3, <1>6, <1>7 DEF File
    <3>. QED
      BY <1>1, <3>1
  <2>. QED
    BY <1>2, <1>7, <2>1, MergedBag DEF named
<1>. QED
  BY <1>5, <1>6, <1>7 DEF named, made

\* baseline_full merges exactly the entries that it generated and stored, up to
\* the read limit, whatever earlier processes left in the directory and wherever
\* they were killed: rm -rf and the names it shares with its own generation
\* phase leave it nothing else to read and nothing missing.
THEOREM FullMergeIsExact == Spec => []FullMergesItsOwn
<1>1. BenchInv => FullMergesItsOwn
  <2>. SUFFICES ASSUME BenchInv, stage = "merge", Current("baseline_full")
                PROVE  /\ mpc # "abort"
                       /\ mpc = "done" => SameBag(PoppedKeys, KeysOf(WrittenKeys, Len(written)))
    BY BenchTypes DEF FullMergesItsOwn
  <2>1. /\ complete = [flags |-> flags, keys |-> WrittenKeys]
        /\ Len(input_files) = Len(written)
        /\ flags \in FlagSet /\ Len(written) \in Nat
    BY DEF BenchInv, Merging, ProcessTyped, GenTypeOK
  <2>2. complete.flags = flags /\ complete.keys = WrittenKeys
    BY <2>1
  <2>3. complete # Incomplete
    <3>1. Incomplete.flags = << >>
      BY DEF Incomplete
    <3>. QED
      BY <2>1, <2>2, <3>1, FlagsAreFlags
  <2>4. Len(WrittenKeys) = Len(written)
    BY <2>1 DEF WrittenKeys
  <2>5. ~(Len(input_files) > Len(WrittenKeys))
    BY <2>1, <2>4
  <2>. QED
    BY <2>1, <2>2, <2>3, <2>5, RecordedMerge
<1>. QED
  BY <1>1, BenchInvariance, PTL

\* baseline, with the flags of the baseline_full that last wrote the directory,
\* fails exactly if it names more files than were made, and otherwise merges all
\* that the files it names hold; with even flags it names every file.
THEOREM MergeOnlyIsExact == Spec => []MergeOnlyExact
<1>1. BenchInv => MergeOnlyExact
  <2>. DEFINE named == flags.distinct_num \div flags.entries_per_file
              made == Len(complete.keys)
  <2>. SUFFICES ASSUME BenchInv, stage = "merge", Current("baseline"), complete.flags = flags
                PROVE  /\ EvenFlags(flags) => named = made
                       /\ mpc = "abort" => named > made
                       /\ mpc = "done" => /\ named <= made
                                          /\ SameBag(PoppedKeys, KeysOf(complete.keys, named))
    BY DEF MergeOnlyExact
  <2>1. flags \in FlagSet /\ Len(input_files) = named
    BY DEF BenchInv, Merging, ProcessTyped, GenTypeOK, MergeOnlyFiles
  <2>2. complete # Incomplete
    <3>1. Incomplete.flags = << >>
      BY DEF Incomplete
    <3>. QED
      BY <2>1, <3>1, FlagsAreFlags
  <2>3. EvenFlags(flags) => named = made
    BY <2>2 DEF BenchInv, Recorded
  <2>. QED
    BY <2>1, <2>2, <2>3, RecordedMerge
<1>. QED
  BY <1>1, BenchInvariance, PTL
=============================================================================
