----------------------------- MODULE GearBlocks -----------------------------
(***************************************************************************)
(* The block formats.  A table of total entries is laid out in blocks of   *)
(* at most MaxEntryInBlock entries, by GearTable::ToDiskFormat (GearBlock) *)
(* or by Table::ToOnBoardFormat (OnBoardBlock), and read back by           *)
(* Table::FromOnBoardBlocks or by ComposeEntryVector.                      *)
(*                                                                         *)
(* A buffer is a function from byte offsets.  A byte says where it comes   *)
(* from: << part, number, position >>, for byte `position' of the key or   *)
(* the value of entry `number', or of the header of a block of `number'    *)
(* entries.                                                                *)
(***************************************************************************)
EXTENDS Integers, Sequences

CONSTANTS
  BlockSize, HeaderLength, KeyLength, ValueLength, MaxEntryInBlock,
  UInt32,       \* the number of values of uint32_t
  Totals,       \* the table sizes considered
  Stray         \* what an uninitialised uint32_t, or four bytes that are no
                \* header, may hold

ASSUME LayoutAssumption ==
  /\ {BlockSize, HeaderLength, KeyLength, ValueLength, MaxEntryInBlock} \subseteq Nat \ {0}
  /\ HeaderLength + MaxEntryInBlock * (KeyLength + ValueLength) <= BlockSize
  /\ UInt32 \in Nat
  /\ BlockSize < UInt32
ASSUME TotalsAssumption == Totals \subseteq Nat
ASSUME StrayAssumption == Stray \subseteq 0 .. UInt32 - 1 /\ Stray # {}

VARIABLES
  total,          \* key_list.size() = value_list.size()
  encoder,        \* "gear" or "onboard"
  i,              \* the encoding loop's index
  buffer,         \* disk_format_buffer or result_buffer: offset -> byte
  size,           \* its length
  phase,          \* "encode", "table" (FromOnBoardBlocks), "vector", "done" or
                  \* "failed"
  decoder,        \* which decoder reads the buffer
  pos,            \* the decoding loop's index
  num_of_blocks,  \* Table::num_of_blocks
  decoded,        \* offsets of the key and value slices pushed, in order
  total_entries   \* ComposeEntryVector's local

vars == << total, encoder, i, buffer, size, phase, decoder, pos, num_of_blocks, decoded,
           total_entries >>

-----------------------------------------------------------------------------

\* Mutation: the header is not counted.
PlaceholderNoHeader(n) == (BlockSize - (n * KeyLength + n * ValueLength)) % UInt32

(***************************************************************************)
(* One block of n entries, the first of which is entry number first.       *)
(* AddBlock appends the keys last to first and the values first to last;   *)
(* ComposeResults puts header, values, padding and keys together.          *)
(***************************************************************************)
Placeholder(n) == (BlockSize - (HeaderLength + n * KeyLength + n * ValueLength)) % UInt32

\* OnBoardBlock::ComposeResults builds the padding and does not append it.
Padding(enc, n) == IF enc = "gear" THEN Placeholder(n) ELSE 0

BlockLength(enc, n) == HeaderLength + n * ValueLength + Padding(enc, n) + n * KeyLength

KeysAt(enc, n) == HeaderLength + n * ValueLength + Padding(enc, n)

\* Mutation: the keys first to last.
BlockByteForward(enc, first, n, o) ==
  CASE o < HeaderLength -> << "header", n, o >>
    [] o >= HeaderLength /\ o < HeaderLength + n * ValueLength ->
         << "value", first + (o - HeaderLength) \div ValueLength,
            (o - HeaderLength) % ValueLength >>
    [] o >= HeaderLength + n * ValueLength /\ o < KeysAt(enc, n) -> << "padding", 0, 0 >>
    [] o >= KeysAt(enc, n) ->
         << "key", first + (o - KeysAt(enc, n)) \div KeyLength,
            (o - KeysAt(enc, n)) % KeyLength >>

BlockByte(enc, first, n, o) ==
  CASE o < HeaderLength -> << "header", n, o >>
    [] o >= HeaderLength /\ o < HeaderLength + n * ValueLength ->
         << "value", first + (o - HeaderLength) \div ValueLength,
            (o - HeaderLength) % ValueLength >>
    [] o >= HeaderLength + n * ValueLength /\ o < KeysAt(enc, n) -> << "padding", 0, 0 >>
    [] o >= KeysAt(enc, n) ->
         << "key", first + (n - 1 - (o - KeysAt(enc, n)) \div KeyLength),
            (o - KeysAt(enc, n)) % KeyLength >>

\* The entries of the block that starts at entry i.
BlockEntries ==
  (IF i + MaxEntryInBlock > total THEN total ELSE i + MaxEntryInBlock) - i

-----------------------------------------------------------------------------
Init ==
  /\ total \in Totals
  /\ encoder \in {"gear", "onboard"}
  /\ decoder \in {"table", "vector"}
  /\ i = 0
  /\ buffer = [o \in {} |-> 0]
  /\ size = 0
  /\ phase = "encode"
  /\ pos = 0
  /\ num_of_blocks = 0
  /\ decoded = << >>
  /\ total_entries \in Stray

\* Mutation: the length counts whole blocks whatever was appended.
AddBlockWholeSize ==
  /\ phase = "encode"
  /\ i < total
  /\ LET n == BlockEntries
         len == BlockLength(encoder, n)
     IN  buffer' = [o \in 0 .. size + len - 1 |->
                      IF o < size THEN buffer[o] ELSE BlockByte(encoder, i, n, o - size)]
  /\ size' = size + BlockSize
  /\ i' = i + MaxEntryInBlock
  /\ UNCHANGED << total, encoder, phase, decoder, pos, num_of_blocks, decoded, total_entries >>

\* One turn of the encoding loop.
AddBlock ==
  /\ phase = "encode"
  /\ i < total
  /\ LET n == BlockEntries
         len == BlockLength(encoder, n)
     IN  /\ buffer' = [o \in 0 .. size + len - 1 |->
                         IF o < size THEN buffer[o] ELSE BlockByte(encoder, i, n, o - size)]
         /\ size' = size + len
  /\ i' = i + MaxEntryInBlock
  /\ UNCHANGED << total, encoder, phase, decoder, pos, num_of_blocks, decoded, total_entries >>

EncodingDone ==
  /\ phase = "encode"
  /\ i >= total
  /\ phase' = decoder
  /\ UNCHANGED << total, encoder, i, buffer, size, decoder, pos, num_of_blocks, decoded,
                  total_entries >>

\* GetFixed32 of the second header word at offset pos: the entry count if a
\* header starts there, else some number.
CountsAt(p) ==
  IF p \in DOMAIN buffer /\ buffer[p][1] = "header" /\ buffer[p][3] = 0
  THEN {buffer[p][2]} ELSE Stray

\* Mutation: j <= *last.
TableSlicesInclusive(n) ==
  [j \in 1 .. n + 1 |->
     [key |-> BlockSize - (j - 1) * KeyLength, value |-> (j - 1) * ValueLength]]

\* FromOnBoardBlocks: offsets from the start of the data pack, whatever the
\* block; key j starts j keys before the end of the first block.
TableSlices(n) ==
  [j \in 1 .. n |-> [key |-> BlockSize - (j - 1) * KeyLength, value |-> (j - 1) * ValueLength]]

DecodeTableBlock ==
  /\ phase = "table"
  /\ pos < size
  /\ num_of_blocks' = num_of_blocks + 1
  /\ \E n \in CountsAt(pos) : decoded' = decoded \o TableSlices(n)
  /\ pos' = pos + BlockSize
  /\ UNCHANGED << total, encoder, i, buffer, size, phase, decoder, total_entries >>

\* ComposeEntryVector: twelve of the sixteen header words are consumed, and
\* FULL_KEY_LENGTH, an unparenthesised sum of two halves, multiplies only its
\* first half.
HeaderRead == (HeaderLength * 12) \div 16
VectorSlices(n) ==
  [j \in 1 .. n |->
     [key |-> pos + HeaderRead + BlockSize - (j - 1) * (KeyLength \div 2) + KeyLength \div 2,
      value |-> pos + HeaderRead + (j - 1) * ValueLength]]

DecodeVectorBlock ==
  /\ phase = "vector"
  /\ pos < size
  /\ \E n \in CountsAt(pos) :
       /\ decoded' = decoded \o VectorSlices(n)
       /\ total_entries' = (total_entries + n) % UInt32
  /\ pos' = pos + BlockSize
  /\ UNCHANGED << total, encoder, i, buffer, size, phase, decoder, num_of_blocks >>

TableDone ==
  /\ phase = "table"
  /\ pos >= size
  /\ phase' = "done"
  /\ UNCHANGED << total, encoder, i, buffer, size, decoder, pos, num_of_blocks, decoded,
                  total_entries >>

\* assert(key_array->size() == total_entries).  "failed" is an abort where
\* assertions are compiled in, and a return like any other where they are not.
VectorDone ==
  /\ phase = "vector"
  /\ pos >= size
  /\ phase' = IF Len(decoded) = total_entries THEN "done" ELSE "failed"
  /\ UNCHANGED << total, encoder, i, buffer, size, decoder, pos, num_of_blocks, decoded,
                  total_entries >>

Next ==
  \/ AddBlock \/ EncodingDone
  \/ DecodeTableBlock \/ DecodeVectorBlock \/ TableDone \/ VectorDone

Spec == Init /\ [][Next]_vars

-----------------------------------------------------------------------------
\* The variables keep their types.
TypeOK ==
  /\ total \in Totals
  /\ encoder \in {"gear", "onboard"}
  /\ i \in Nat
  /\ size \in Nat
  /\ DOMAIN buffer = 0 .. size - 1

\* The number of entries and of blocks laid out so far.
Laid == IF i < total THEN i ELSE total
BlocksLaid == i \div MaxEntryInBlock

\* The gear file is a whole number of blocks of exactly BLOCK_SIZE bytes: the
\* padding never underflows, not even in a full block.  The variables keep their
\* types: the length is that of the buffer.
WholeBlocks == TypeOK /\ (encoder = "gear" => size = BlocksLaid * BlockSize)

\* Every entry laid out is where its number says, in every later state: key j of
\* a block ends j keys before the block's end, value j is j values after the
\* header, and no later block overwrites it.
EntriesInPlace ==
  encoder = "gear" =>
    \A e \in 0 .. Laid - 1 :
      LET base == (e \div MaxEntryInBlock) * BlockSize
          j == e % MaxEntryInBlock
      IN  /\ \A x \in 0 .. KeyLength - 1 :
               buffer[base + BlockSize - (j + 1) * KeyLength + x] = << "key", e, x >>
          /\ \A x \in 0 .. ValueLength - 1 :
               buffer[base + HeaderLength + j * ValueLength + x] = << "value", e, x >>

\* Both readers deliver every entry of a gear file, over all its blocks, and
\* FromOnBoardBlocks counts the blocks too; whether ComposeEntryVector returns or
\* fails its assertion, the arrays are complete.
CountsAgree ==
  (phase \in {"done", "failed"} /\ encoder = "gear") =>
    /\ Len(decoded) = total
    /\ decoder = "table" => num_of_blocks = BlocksLaid

\* The assertion at the end of ComposeEntryVector holds for every gear file: as
\* many keys were pushed as total_entries has counted.  Whether it does depends on
\* the value that total_entries started with.
AssertionHolds == encoder = "gear" => phase # "failed"
=============================================================================
