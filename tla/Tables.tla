------------------------------- MODULE Tables -------------------------------
(***************************************************************************)
(* The table files of the benchmark: what ToDiskFormat lays out, what      *)
(* WriteToDisk and ReadFromDisk do to a file, and how NextEntry cuts the   *)
(* loaded bytes into entries.                                              *)
(*                                                                         *)
(* A file is a sequence of cells.  A plain entry is EntryCells = 2 cells:  *)
(* the internal key (a natural number) and the value.  The value is the    *)
(* same string in every entry, so one negative number stands for it, and   *)
(* two more stand for a gear block's header and for its padding.           *)
(***************************************************************************)
EXTENDS Integers, Sequences

\* Shared by the generation phase and the merge.
VARIABLES
  disk,         \* the directory db_path: file number -> cells
  input_files   \* the names of the tables, in order

EntryCells == 2
ValueCell == -1
HeaderCell == -2
PaddingCell == -3

\* What a byte of a freshly allocated read buffer holds when read() did not
\* fill it: it is not a cell of any file.
UnreadCell == -4

Cells == Nat \cup {ValueCell, HeaderCell, PaddingCell}

(***************************************************************************)
(* PlainTable::ToDiskFormat: key, value, key, value, ...                   *)
(***************************************************************************)
PlainDiskFormat(keys) ==
  [c \in 1 .. EntryCells * Len(keys) |->
     IF c % EntryCells = 1 THEN keys[(c + 1) \div EntryCells] ELSE ValueCell]

(***************************************************************************)
(* GearTable::ToDiskFormat: blocks of at most maxEntry entries.  A block   *)
(* is one header cell, the values in order, the padding and the keys in    *)
(* reverse order; every block has the same number of cells.                *)
(***************************************************************************)
GearBlockCells(maxEntry) == EntryCells * maxEntry + 2

GearDiskFormat(keys, maxEntry) ==
  LET blocks == (Len(keys) + maxEntry - 1) \div maxEntry
      size == GearBlockCells(maxEntry)
      cell(b, o) ==
        LET first == b * maxEntry
            n == IF Len(keys) - first < maxEntry THEN Len(keys) - first ELSE maxEntry
        IN  IF o = 0 THEN HeaderCell
            ELSE IF o <= n THEN ValueCell
            ELSE IF o < size - n THEN PaddingCell
            ELSE keys[first + (size - o)]
  IN  [c \in 1 .. blocks * size |-> cell((c - 1) \div size, (c - 1) % size)]

(***************************************************************************)
(* Table::Table(fname, read = false): O_CREAT | O_WRONLY creates a missing *)
(* file and leaves the contents of an existing one alone (no O_TRUNC).     *)
(***************************************************************************)
OpenForWrite(dir, name) ==
  IF name \in DOMAIN dir THEN dir
  ELSE [n \in DOMAIN dir \cup {name} |-> IF n = name THEN << >> ELSE dir[n]]

(***************************************************************************)
(* Table::WriteToDisk: one write() at offset 0.  What the file held beyond *)
(* the new data stays.                                                     *)
(***************************************************************************)
Overwrite(old, data) ==
  [c \in 1 .. (IF Len(old) > Len(data) THEN Len(old) ELSE Len(data)) |->
     IF c <= Len(data) THEN data[c] ELSE old[c]]

WriteToDisk(dir, name, data) ==
  [dir EXCEPT ![name] = Overwrite(@, data)]

(***************************************************************************)
(* Table::ReadFromDisk(buffer, limit): reads at most limit cells and       *)
(* returns their number; the buffer is a string of limit cells whatever    *)
(* was read.                                                               *)
(***************************************************************************)
ReadLength(file, limit) == IF Len(file) < limit THEN Len(file) ELSE limit

\* Mutation: the buffer is only as long as what was read.
ReadBufferExact(file, limit) == SubSeq(file, 1, ReadLength(file, limit))

ReadBuffer(file, limit) ==
  [c \in 1 .. limit |-> IF c <= Len(file) THEN file[c] ELSE UnreadCell]

(***************************************************************************)
(* NextEntry: the slice of entry number n (from 0) of a loaded file.  Only *)
(* its key is ever looked at.                                              *)
(***************************************************************************)
EntryStart(n) == n * EntryCells + 1
EntryEnd(n) == (n + 1) * EntryCells
=============================================================================
