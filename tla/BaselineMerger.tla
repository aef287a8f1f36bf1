--------------------------- MODULE BaselineMerger ---------------------------
(***************************************************************************)
(* BaselineMerger::DoCompaction over the files of the directory disk: open *)
(* every input, load it, queue a slice of every entry in one priority      *)
(* queue, and take the queue's top until it is empty, asking Arbitration   *)
(* about each entry.                                                       *)
(*                                                                         *)
(* A slice is [file, entry]: its bytes are those of that entry in the      *)
(* loaded contents of that input.  An internal key is one cell: user key,  *)
(* sequence number and type packed as a number.                            *)
(***************************************************************************)
EXTENDS Tables

CONSTANTS
  ReadLimit,      \* the cells ReadFromDisk asks for (512 MiB)
  SeqRange,       \* sequence numbers per user key
  TypeRange,      \* types per sequence number
  SmallUserKey,   \* user keys below this have a zero first byte (2^56)
  Disks,          \* the directories considered
  Inputs,         \* the lists of input names considered
  Logics          \* the filter logics considered

ASSUME ReadAssumption == ReadLimit \in Nat \ {0}
ASSUME InputAssumption ==
  /\ \A d \in Disks : \A n \in DOMAIN d : d[n] \in Seq(Cells)
  /\ Inputs \subseteq Seq(Nat)
ASSUME KeyAssumption ==
  /\ SeqRange \in Nat \ {0}
  /\ TypeRange \in Nat \ {0}
  /\ SmallUserKey \in Nat

VARIABLES
  logic,           \* logic_ and bound_, set by GenerateFilterArgs
  mpc,             \* control of DoCompaction
  loaded,          \* the inputs read so far: file_content and file_size
  cur,             \* the input being queued
  readed_entries,  \* its readed_entries
  readed_len,      \* the local readed_len
  heap,            \* the priority queue of slices
  last_entry,      \* the member last_entry
  abandoned,       \* abandoned_entries
  popped           \* history: the slices given to Arbitration, in order

merger_vars == << disk, input_files, logic, mpc, loaded, cur, readed_entries,
                  readed_len, heap, last_entry, abandoned, popped >>

NoEntry == << >>

-----------------------------------------------------------------------------
(***************************************************************************)
(* Keys.                                                                   *)
(***************************************************************************)
UserKey(c) == c \div (SeqRange * TypeRange)
Sequence(c) == (c \div TypeRange) % SeqRange
ValueType(c) == c % TypeRange

\* The result of KeyComparor::operator(): increasing user key, decreasing
\* sequence number, decreasing type.
CompareKeys(a, b) ==
  CASE UserKey(a) < UserKey(b) -> -1
    [] UserKey(a) > UserKey(b) -> 1
    [] Sequence(a) # Sequence(b) -> IF Sequence(a) > Sequence(b) THEN -1 ELSE 1
    [] OTHER -> IF ValueType(a) > ValueType(b) THEN -1
                ELSE IF ValueType(a) < ValueType(b) THEN 1 ELSE 0

\* The key a slice points at.  loaded[f].content is always ReadLimit cells long.
KeyOf(s) == loaded[s.file].content[EntryStart(s.entry)]

\* KeyComparor::operator() used as the queue's less-than: an int where a bool
\* is expected, so any difference is "less".
Less(s, t) == CompareKeys(KeyOf(s), KeyOf(t)) # 0

\* std::priority_queue with that comparator.
Queue == INSTANCE StdHeap WITH less <- Less

\* Arbitration(currenct_entry.data(), ...) builds its Slice with strlen: it is
\* empty when the first byte of the big-endian user key is zero.
EmptyAsCString(c) == UserKey(c) >= 0 /\ UserKey(c) < SmallUserKey

(***************************************************************************)
(* BaselineMerger::Arbitration: the entries it adds to abandoned_entries.  *)
(* A prefix is a set of user keys.                                         *)
(***************************************************************************)
DeleteLast(last, current) ==
  CASE logic.kind = "kRemoveRedundant" -> UserKey(last) = UserKey(current)
    [] logic.kind = "kDeletePrefix" -> UserKey(last) \in logic.prefix
    [] logic.kind = "kDeleteVersion" ->
         /\ UserKey(last) \in logic.prefix
         /\ UserKey(last) = UserKey(current)
         /\ Sequence(last) < logic.seq

Arbitration(current) ==
  IF EmptyAsCString(current) \/ last_entry = NoEntry THEN << >>
  ELSE IF DeleteLast(last_entry[1], current) THEN last_entry
  ELSE << >>

-----------------------------------------------------------------------------
Idle ==
  /\ mpc = "idle"
  /\ loaded = << >>
  /\ cur = 1
  /\ readed_entries = 0
  /\ readed_len = 0
  /\ heap = << >>
  /\ last_entry = NoEntry
  /\ abandoned = << >>
  /\ popped = << >>

\* The constructor opens every input read-only; the assertion of Table's
\* constructor ends the process when one is missing.  A build without assertions
\* goes on with the descriptor -1, reads -1 bytes of it, takes that for a
\* file_size of 2^64 - 1 and queues slices beyond the contents; that outcome is
\* not modelled.
OpenInputs ==
  /\ mpc = "idle"
  /\ mpc' = IF \A k \in 1 .. Len(input_files) : input_files[k] \in DOMAIN disk
            THEN "load" ELSE "abort"
  /\ UNCHANGED << disk, input_files, logic, loaded, cur, readed_entries, readed_len,
                  heap, last_entry, abandoned, popped >>

\* One turn of the loading loop: the contents are padded to ReadLimit.
LoadFile ==
  /\ mpc = "load"
  /\ Len(loaded) < Len(input_files)
  /\ LET file == disk[input_files[Len(loaded) + 1]]
     IN  loaded' = Append(loaded, [content |-> ReadBuffer(file, ReadLimit),
                                   size |-> ReadLength(file, ReadLimit)])
  /\ UNCHANGED << disk, input_files, logic, mpc, cur, readed_entries, readed_len,
                  heap, last_entry, abandoned, popped >>

AllLoaded ==
  /\ mpc = "load"
  /\ Len(loaded) = Len(input_files)
  /\ mpc' = "queue"
  /\ UNCHANGED << disk, input_files, logic, loaded, cur, readed_entries, readed_len,
                  heap, last_entry, abandoned, popped >>

\* Mutation: one entry beyond the end.
MoreInFileInclusive == readed_len <= loaded[cur].size

\* readed_len < file_size
MoreInFile == readed_len < loaded[cur].size

\* One turn of the queueing loop: NextEntry and merger.emplace.
QueueEntry ==
  /\ mpc = "queue"
  /\ cur <= Len(input_files)
  /\ MoreInFile
  /\ heap' = Queue!Push(heap, [file |-> cur, entry |-> readed_entries])
  /\ readed_entries' = readed_entries + 1
  /\ readed_len' = EntryEnd(readed_entries)
  /\ UNCHANGED << disk, input_files, logic, mpc, loaded, cur, last_entry, abandoned,
                  popped >>

\* Mutation: readed_len is declared outside the loop over the files.
NextInputStaleLength ==
  /\ mpc = "queue"
  /\ cur <= Len(input_files)
  /\ ~MoreInFile
  /\ cur' = cur + 1
  /\ readed_entries' = 0
  /\ UNCHANGED << disk, input_files, logic, mpc, loaded, readed_len, heap, last_entry,
                  abandoned, popped >>

\* The current input is exhausted; readed_len starts at 0 for the next.
NextInput ==
  /\ mpc = "queue"
  /\ cur <= Len(input_files)
  /\ ~MoreInFile
  /\ cur' = cur + 1
  /\ readed_entries' = 0
  /\ readed_len' = 0
  /\ UNCHANGED << disk, input_files, logic, mpc, loaded, heap, last_entry, abandoned,
                  popped >>

\* Mutation: waits for an entry even if every input is empty.
AllQueuedNonempty ==
  /\ mpc = "queue"
  /\ cur > Len(input_files)
  /\ heap # << >>
  /\ mpc' = "drain"
  /\ UNCHANGED << disk, input_files, logic, loaded, cur, readed_entries, readed_len,
                  heap, last_entry, abandoned, popped >>

AllQueued ==
  /\ mpc = "queue"
  /\ cur > Len(input_files)
  /\ mpc' = "drain"
  /\ UNCHANGED << disk, input_files, logic, loaded, cur, readed_entries, readed_len,
                  heap, last_entry, abandoned, popped >>

\* Mutation: the last pop() is left out, so the last entry comes twice.
PopEntryLeavesLast ==
  /\ mpc = "drain"
  /\ heap # << >>
  /\ abandoned' = abandoned \o Arbitration(KeyOf(Queue!Top(heap)))
  /\ popped' = Append(popped, Queue!Top(heap))
  /\ heap' = IF Len(heap) = 1 /\ Len(popped) < 4 THEN heap ELSE Queue!Pop(heap)
  /\ UNCHANGED << disk, input_files, logic, mpc, loaded, cur, readed_entries,
                  readed_len, last_entry >>

\* One turn of the draining loop: top, Arbitration, pop.
PopEntry ==
  /\ mpc = "drain"
  /\ heap # << >>
  /\ abandoned' = abandoned \o Arbitration(KeyOf(Queue!Top(heap)))
  /\ popped' = Append(popped, Queue!Top(heap))
  /\ heap' = Queue!Pop(heap)
  /\ UNCHANGED << disk, input_files, logic, mpc, loaded, cur, readed_entries,
                  readed_len, last_entry >>

Finish ==
  /\ mpc = "drain"
  /\ heap = << >>
  /\ mpc' = "done"
  /\ UNCHANGED << disk, input_files, logic, loaded, cur, readed_entries, readed_len,
                  heap, last_entry, abandoned, popped >>

MergerNext ==
  \/ OpenInputs \/ LoadFile \/ AllLoaded
  \/ QueueEntry \/ NextInput \/ AllQueued
  \/ PopEntry \/ Finish

MergerInit ==
  /\ Idle
  /\ disk \in Disks
  /\ input_files \in Inputs
  /\ logic \in Logics

MergerSpec == MergerInit /\ [][MergerNext]_merger_vars

\* DoCompaction runs in the main thread and never waits.
MergerFairSpec == MergerSpec /\ WF_merger_vars(MergerNext)

-----------------------------------------------------------------------------
Slices == [file : Nat, entry : Nat]

\* Every variable of the merger keeps its type.
MergerTypeOK ==
  /\ mpc \in {"idle", "load", "queue", "drain", "done", "abort"}
  /\ \A k \in 1 .. Len(loaded) :
       Len(loaded[k].content) = ReadLimit /\ loaded[k].size \in 0 .. ReadLimit
  /\ cur \in 1 .. Len(input_files) + 1
  /\ readed_entries \in Nat
  /\ readed_len \in Nat
  /\ heap \in Seq(Slices)
  /\ popped \in Seq(Slices)

(***************************************************************************)
(* The entries of the input files: a trailing part of an entry counts as   *)
(* one, and what lies beyond the read limit does not count.                *)
(***************************************************************************)
EntriesOf(file) == (ReadLength(file, ReadLimit) + EntryCells - 1) \div EntryCells

OnDisk ==
  UNION {{[file |-> f, entry |-> e] : e \in 0 .. EntriesOf(disk[input_files[f]]) - 1} :
           f \in {g \in 1 .. Len(input_files) : input_files[g] \in DOMAIN disk}}

Pending == OnDisk \ {popped[k] : k \in 1 .. Len(popped)}

\* The merger takes every entry of its inputs once and invents none.
Merge == INSTANCE EntryMerge WITH Entries <- Slices, pending <- Pending, emitted <- popped
MergesEntries == Merge!Spec

\* When DoCompaction returns, no entry of an input is left, in whatever order
\* the comparator made the queue give them.
AllEmitted == mpc = "done" => Pending = {} /\ Merge!EachOnce

\* A queued slice ends inside the loaded contents, except the last slice of a
\* file that reaches the read limit: the limit is no multiple of an entry.  The
\* variables keep their types.
OverrunOnlyAtLimit ==
  /\ MergerTypeOK
  /\ \A k \in 1 .. Len(heap) :
     LET s == heap[k]
     IN \/ EntryEnd(s.entry) <= Len(loaded[s.file].content)
        \/ /\ Len(disk[input_files[s.file]]) >= ReadLimit
           /\ s.entry = EntriesOf(disk[input_files[s.file]]) - 1
           /\ EntryStart(s.entry) <= ReadLimit

\* DoCompaction ends: with every input merged, or at the constructor's
\* assertion.
Ends == <>(mpc \in {"done", "abort"})

\* MergeEntries reports its queueing as "Merge Sort": the entries leave the queue
\* sorted by their keys, in the one direction or in the other.
PoppedSorted ==
  LET key == [k \in 1 .. Len(popped) |-> KeyOf(popped[k])]
  IN  \/ \A k \in 1 .. Len(popped) - 1 : CompareKeys(key[k], key[k + 1]) <= 0
      \/ \A k \in 1 .. Len(popped) - 1 : CompareKeys(key[k], key[k + 1]) >= 0

\* "The filtering of arbitration is inside the merge process": after merging
\* two versions of a user key with kRemoveRedundant, one of them is abandoned.
RedundantAbandoned ==
  (mpc = "done" /\ logic.kind = "kRemoveRedundant") =>
    \A k, l \in 1 .. Len(popped) :
      (k # l /\ UserKey(KeyOf(popped[k])) = UserKey(KeyOf(popped[l]))) => abandoned # << >>
=============================================================================
