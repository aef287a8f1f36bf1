------------------------------- MODULE Coding -------------------------------
(***************************************************************************)
(* The encodings of utils/coding, dbformat, slice.cc and string_util as a  *)
(* stream: a writer appends items to a string (fixed width integers,       *)
(* varints, zigzag, length prefixed slices, internal keys, and texts that  *)
(* end with a delimiter), the string is cut at any byte (a short write),   *)
(* and a reader that knows the kinds of the items takes them from the      *)
(* front.                                                                  *)
(***************************************************************************)
EXTENDS Texts

CONSTANTS
  Bytes16, Bytes32,     \* sizeof(uint16_t), sizeof(uint32_t)
  Groups32, Groups64,   \* bytes of the longest varints, 5 and 10
  Values16, Values32, Values64, Signed64, Contents, Keys,   \* the values written
  Numbers, Options, IntVectors,   \* and the values written as text
  Paddings,             \* the values of pad_sz
  NumKeys, KeySize,     \* the key generator's key space and key length
  PrefixLengths,        \* the lengths given to the prefix transforms
  MaxItems              \* bound: items written

UInt16 == Bits(Bytes16)
UInt32 == Bits(Bytes32)

Strings == Seq(0 .. ByteRange - 1)

ASSUME WidthAssumption ==
  /\ {Bytes16, Bytes32, Groups32, Groups64} \subseteq Nat \ {0}
  /\ Power(B, Groups32 - 1) < UInt32 /\ UInt32 <= Power(B, Groups32)
  /\ Power(B, Groups64 - 1) < UInt64 /\ UInt64 <= Power(B, Groups64)
ASSUME ValueAssumption ==
  /\ Values16 \subseteq 0 .. UInt16 - 1
  /\ Values32 \subseteq 0 .. UInt32 - 1
  /\ Values64 \subseteq 0 .. UInt64 - 1
  /\ Signed64 \subseteq Int
  /\ \A v \in Signed64 : -UInt64 <= 2 * v /\ 2 * v < UInt64
  /\ Contents \cup Options \subseteq Strings
  /\ \A s \in Contents : Len(s) < UInt32
  /\ Numbers \subseteq Nat
  /\ IntVectors \subseteq Seq(Int)
  /\ \A vec \in IntVectors : \A k \in 1 .. Len(vec) : -UInt64 < vec[k] /\ vec[k] < UInt64
  /\ Paddings \subseteq 0 .. UInt32 - 1
  /\ PrefixLengths \subseteq Nat
  /\ MaxItems \in Nat
\* The key space fits the bytes of a key, and the footer fits 64 bits.
ASSUME KeyAssumption ==
  /\ {NumKeys, KeySize} \subseteq Nat \ {0}
  /\ NumKeys <= Bits(Min({KeySize, Bytes64}))
  /\ Keys \subseteq ParsedInternalKey
  /\ \A p \in Keys : p.user_key < NumKeys
  /\ PackSequenceAndType(kMaxSequenceNumber, TypeRange - 1) < UInt64
  /\ KeySize + Bytes64 < UInt32

-----------------------------------------------------------------------------
(***************************************************************************)
(* Encoders.                                                               *)
(***************************************************************************)

\* Mutation: the bytes are not masked.
EncodeVarint32Unmasked(v) ==
  IF v < B THEN << v >> ELSE << v + B, v \div B >>

\* EncodeVarint32: unrolled, the number of bytes by comparison.
EncodeVarint32(v) ==
  LET n == CHOOSE m \in 1 .. Groups32 :
             /\ v < Power(B, m) \/ m = Groups32
             /\ \A l \in 1 .. m - 1 : v >= Power(B, l)
  IN  [k \in 1 .. n |-> IF k < n THEN ((v \div Power(B, k - 1)) % B) + B
                       ELSE v \div Power(B, n - 1)]

\* EncodeVarint64 and VarintLength: loops that shift the value.
EncodeVarint64[v \in Nat] ==
  IF v < B THEN << v >> ELSE << (v % B) + B >> \o EncodeVarint64[v \div B]

VarintLength[v \in Nat] == IF v < B THEN 1 ELSE 1 + VarintLength[v \div B]

\* Mutation: the complement is left out.
zigzagNegated(n) == IF n % 2 = 0 THEN n \div 2 ELSE -(n \div 2)

\* i64ToZigzag and zigzagToI64, in 64 bit arithmetic.
i64ToZigzag(l) == IF l >= 0 THEN (2 * l) % UInt64 ELSE UInt64 - 1 - ((2 * l) % UInt64)
zigzagToI64(n) == IF n % 2 = 0 THEN n \div 2 ELSE -(n \div 2) - 1

\* Mutation: the length does not cover the padding.
LengthWithoutPad(content, pad) ==
  EncodeVarint32(Len(content) % UInt32) \o content \o [k \in 1 .. pad |-> 0]

\* PutLengthPrefixedSliceParts(WithPadding): the length covers the padding.
LengthPrefixed(content, pad) ==
  EncodeVarint32((Len(content) + pad) % UInt32) \o content \o [k \in 1 .. pad |-> 0]

\* The key that a table stores for the number of a user key: its generated bytes.
KeyOf(p) == [p EXCEPT !.user_key = GenerateKeyFromInt(@, NumKeys, KeySize)]

\* InternalKey's setters of the seek keys append to what the object holds.
SetMinPossibleForUserKey(rep, u) == rep \o AppendInternalKey(KeyOf(MinPossible(u)))
SetMaxPossibleForUserKey(rep, u) == rep \o AppendInternalKey(KeyOf(MaxPossible(u)))

-----------------------------------------------------------------------------
(***************************************************************************)
(* Decoders: a value and the number of bytes it took, or Failed.           *)
(***************************************************************************)
Failed == [ok |-> FALSE]

\* The answer of a parser, and the number of bytes that were taken for it.
Taking(r, n) ==
  IF r.ok THEN [ok |-> TRUE, value |-> r.value, used |-> n] ELSE [ok |-> FALSE, used |-> n]

\* Mutation: one byte too many is asked for.
GetFixedStrict(s, n) ==
  IF Len(s) <= n THEN Failed ELSE [ok |-> TRUE, value |-> DecodeFixed(s, n), used |-> n]

GetFixed(s, n) ==
  IF Len(s) < n THEN Failed ELSE [ok |-> TRUE, value |-> DecodeFixed(s, n), used |-> n]

\* GetVarint32Ptr with its fallback, and GetVarint64Ptr: up to `groups' bytes,
\* the first without the flag bit ends the value; excess bits are shifted out.
GetVarint(s, groups, modulus) ==
  LET limit == Min({Len(s), groups})
      ends == {k \in 1 .. limit : s[k] < B}
      last == Min(ends)
      sum[k \in 0 .. limit] ==
        IF k = 0 THEN 0 ELSE sum[k - 1] + (s[k] % B) * Power(B, k - 1)
  IN  IF ends = {} THEN Failed
      ELSE [ok |-> TRUE, value |-> sum[last] % modulus, used |-> last]

GetVarint32(s) == GetVarint(s, Groups32, UInt32)
GetVarint64(s) == GetVarint(s, Groups64, UInt64)

GetVarsignedint64(s) ==
  LET u == GetVarint64(s)
  IN  IF u.ok THEN [u EXCEPT !.value = zigzagToI64(@)] ELSE Failed

\* On failure after the length was read, the length is already consumed.
GetLengthPrefixedSlice(s) ==
  LET len == GetVarint32(s)
  IN  IF ~len.ok THEN Failed
      ELSE IF Len(s) - len.used < len.value THEN [ok |-> FALSE, used |-> len.used]
      ELSE [ok |-> TRUE, value |-> SubSeq(s, len.used + 1, len.used + len.value),
            used |-> len.used + len.value]

\* ParseInternalKey: false if the slice is shorter than a footer or the type is
\* not one IsExtendedValueType accepts.
ParseInternalKey(s) ==
  IF Len(s) < Bytes64 THEN Failed
  ELSE LET p == Parse([user_key |-> ExtractUserKey(s), footer |-> ExtractInternalKeyFooter(s)])
       IN  [ok |-> p.type \in ValueTypes, value |-> p]

\* The slice is consumed, then parsed.
GetInternalKey(s) ==
  LET slice == GetLengthPrefixedSlice(s)
  IN  IF slice.ok THEN Taking(ParseInternalKey(slice.value), slice.used) ELSE slice

\* Texts up to a delimiter.
GetDecimal(s) ==
  LET n == ConsumeDecimalNumber(s)
      rest == SubSeq(s, n.used + 1, Len(s))
  IN  IF n.ok THEN [n EXCEPT !.used = @ + GetSliceUntil(rest, Colon).used] ELSE n

GetHex(s) ==
  LET text == GetSliceUntil(s, Colon) IN Taking(DecodeHex(text.value), text.used)

GetOption(s) ==
  LET text == GetSliceUntil(s, LF)
  IN  [ok |-> TRUE, value |-> UnescapeOptionString(text.value), used |-> text.used]

GetInts(s) ==
  LET text == GetSliceUntil(s, LF) IN Taking(ParseVectorInt(text.value), text.used)

-----------------------------------------------------------------------------
VARIABLES
  dst,      \* the string written
  items,    \* history: the kinds and values put
  phase,    \* "write", "read", "stop"
  given,    \* history: the number of bytes handed over
  input,    \* the reader's slice
  got       \* the values read

vars == << dst, items, phase, given, input, got >>

Init ==
  /\ dst = << >>
  /\ items = << >>
  /\ phase = "write"
  /\ given = 0
  /\ input = << >>
  /\ got = << >>

Put(kind, v, bytes) ==
  /\ phase = "write"
  /\ Len(items) < MaxItems
  /\ dst' = dst \o bytes
  /\ items' = Append(items, [kind |-> kind, value |-> v])
  /\ UNCHANGED << phase, given, input, got >>

PutFixed16(v) == Put("fixed16", v, EncodeFixed(v, Bytes16))
PutFixed32(v) == Put("fixed32", v, EncodeFixed(v, Bytes32))
PutFixed64(v) == Put("fixed64", v, EncodeFixed(v, Bytes64))
\* A big endian integer, as EndianSwapValue is for.
PutSwapped64(v) == Put("swapped64", v, EncodeFixed(EndianSwapValue(v, Bytes64), Bytes64))
PutVarint32(v) == Put("varint32", v, EncodeVarint32(v))
PutVarint64(v) == Put("varint64", v, EncodeVarint64[v])
PutVarsignedint64(v) == Put("signed64", v, EncodeVarint64[i64ToZigzag(v)])

\* The reader sees the content with its padding.
PutLengthPrefixedSlice(s, pad) ==
  /\ Len(s) + pad < UInt32
  /\ Put("slice", s \o [k \in 1 .. pad |-> 0], LengthPrefixed(s, pad))

PutInternalKey(p) == Put("key", p, LengthPrefixed(AppendInternalKey(KeyOf(p)), 0))

\* The texts, each with a delimiter that it does not contain.
PutDecimal(n) == Put("decimal", n, Decimal[n] \o << Colon >>)
PutHex(s) == Put("hex", s, HexText(s) \o << Colon >>)
PutOption(s) == Put("option", s, EscapeOptionString(s) \o << LF >>)
PutInts(vec) == Put("ints", vec, SerializeIntVector(vec) \o << LF >>)

\* The string is handed over, up to its first n bytes.
HandOver(n) ==
  /\ phase = "write"
  /\ items # << >>
  /\ given' = n
  /\ input' = SubSeq(dst, 1, n)
  /\ phase' = "read"
  /\ UNCHANGED << dst, items, got >>

Decode(kind, s) ==
  CASE kind = "fixed16" -> GetFixed(s, Bytes16)
    [] kind = "fixed32" -> GetFixed(s, Bytes32)
    [] kind = "fixed64" -> GetFixed(s, Bytes64)
    [] kind = "swapped64" -> LET r == GetFixed(s, Bytes64)
                             IN  IF r.ok THEN [r EXCEPT !.value = EndianSwapValue(@, Bytes64)] ELSE r
    [] kind = "varint32" -> GetVarint32(s)
    [] kind = "varint64" -> GetVarint64(s)
    [] kind = "signed64" -> GetVarsignedint64(s)
    [] kind = "slice" -> GetLengthPrefixedSlice(s)
    [] kind = "key" -> GetInternalKey(s)
    [] kind = "decimal" -> GetDecimal(s)
    [] kind = "hex" -> GetHex(s)
    [] kind = "option" -> GetOption(s)
    [] kind = "ints" -> GetInts(s)

\* One Get call for the next item: true, or false and the reader stops.
Get ==
  /\ phase = "read"
  /\ Len(got) < Len(items)
  /\ LET r == Decode(items[Len(got) + 1].kind, input)
         used == IF "used" \in DOMAIN r THEN r.used ELSE 0
     IN  /\ input' = SubSeq(input, used + 1, Len(input))
         /\ IF r.ok THEN got' = Append(got, r.value) /\ UNCHANGED phase
            ELSE phase' = "stop" /\ UNCHANGED got
  /\ UNCHANGED << dst, items, given >>

Next ==
  \/ \E v \in Values16 : PutFixed16(v)
  \/ \E v \in Values32 : PutFixed32(v) \/ PutVarint32(v)
  \/ \E v \in Values64 : PutFixed64(v) \/ PutSwapped64(v) \/ PutVarint64(v)
  \/ \E v \in Signed64 : PutVarsignedint64(v)
  \/ \E s \in Contents, pad \in Paddings : PutLengthPrefixedSlice(s, pad)
  \/ \E p \in Keys : PutInternalKey(p)
  \/ \E n \in Numbers : PutDecimal(n)
  \/ \E s \in Contents : PutHex(s)
  \/ \E s \in Options : PutOption(s)
  \/ \E vec \in IntVectors : PutInts(vec)
  \/ \E n \in 0 .. Len(dst) : HandOver(n)
  \/ Get

Spec == Init /\ [][Next]_vars

-----------------------------------------------------------------------------
TypeOK ==
  /\ dst \in Strings
  /\ phase \in {"write", "read", "stop"}
  /\ given \in 0 .. Len(dst)
  /\ Len(input) <= given
  /\ Len(got) <= Len(items)

TextKinds == {"decimal", "hex", "option", "ints"}

\* The number of bytes of an item, as VarintLength and the fixed widths say.
ItemLength(it) ==
  CASE it.kind = "fixed16" -> Bytes16
    [] it.kind = "fixed32" -> Bytes32
    [] it.kind \in {"fixed64", "swapped64"} -> Bytes64
    [] it.kind \in {"varint32", "varint64"} -> VarintLength[it.value]
    [] it.kind = "signed64" -> VarintLength[i64ToZigzag(it.value)]
    [] it.kind = "slice" -> VarintLength[Len(it.value)] + Len(it.value)
    [] it.kind = "key" -> VarintLength[KeySize + Bytes64] + KeySize + Bytes64
    [] it.kind = "decimal" -> Len(Decimal[it.value]) + 1
    [] it.kind = "hex" -> 2 * Len(it.value) + 1
    [] it.kind = "option" ->
         Len(it.value) + Cardinality({k \in 1 .. Len(it.value) : IsSpecialChar(it.value[k])}) + 1
    [] it.kind = "ints" -> Len(SerializeIntVector(it.value)) + 1

BytesUpTo(n) ==
  LET sum[k \in 0 .. n] == IF k = 0 THEN 0 ELSE sum[k - 1] + ItemLength(items[k])
  IN  sum[n]

\* Item k was handed over whole, but for the delimiter of a text.
Whole(k) ==
  BytesUpTo(k) <= given + (IF items[k].kind \in TextKinds THEN 1 ELSE 0)

\* What a text kind writes of a value, in the form in which cutting it shows.
Written(kind, v) ==
  CASE kind = "decimal" -> Decimal[v]
    [] kind = "ints" -> SerializeIntVector(v)
    [] kind \in {"hex", "option"} -> v

\* Whatever was cut off, the values read are the first values written: a cut
\* item is never taken for a shorter one, and one item's bytes never run into
\* the next.  Only a text, which has no length, can be read when its end is
\* missing, and then as a beginning of what was written, never as garbage; a
\* number that does not fit 64 bits is never read as another one.
ReadsWhatWasWritten ==
  \A k \in 1 .. Len(got) :
    LET it == items[k]
        value == IF it.kind = "key" THEN KeyOf(it.value) ELSE it.value
    IN  IF Whole(k) THEN got[k] = value
        ELSE it.kind \in TextKinds /\ IsPrefix(Written(it.kind, got[k]), Written(it.kind, value))

\* VarintLength and the fixed widths predict the string's length exactly, as
\* callers that reserve space for it rely on, and the variables keep their types:
\* each byte of it fits a byte.
LengthPredicted == TypeOK /\ Len(dst) = BytesUpTo(Len(items))

\* The reader stops exactly at the first item whose last byte was cut off, or
\* at a number that is too large, and it has then consumed nothing of the item
\* (or the length of a slice or key whose content is missing, or the text).
StopsAtTheCut ==
  [][ (phase = "read" /\ phase' = "stop") =>
        LET it == items[Len(got) + 1]
        IN  /\ Len(input) < ItemLength(it) \/ (it.kind = "decimal" /\ it.value >= UInt64)
            /\ input' = input
               \/ (it.kind \in {"slice", "key"} \cup TextKinds /\ Len(input') < Len(input)) ]_vars

\* The positions of the items of a kind that were read whole.
ReadBack(kind) == {k \in 1 .. Len(got) : items[k].kind = kind}

\* The stored keys read back compare, as slices and parsed, as the numbers they
\* were generated from did, and only equal keys compare equal: the merge of
\* stored tables sees the order in which they were sorted.
KeyOrderKept ==
  \A k, l \in ReadBack("key") :
    LET p == items[k].value
        q == items[l].value
    IN  /\ CompareSlices(AppendInternalKey(got[k]), AppendInternalKey(got[l])) = CompareParsed(p, q)
        /\ RoundTrip(p) /\ EncodedAgrees(p, q) /\ Antisymmetric(p, q) /\ KeySeqCoarser(p, q)

\* The keys that dbformat builds for seeking, for separating two keys and for
\* the end of a range tombstone bound the keys read back as they should.
KeysBounded ==
  \A k, l \in ReadBack("key") :
    LET p == items[k].value
        q == items[l].value
    IN  /\ SeekBounds(p)
        /\ EndKeyBounds(p, q.user_key)
        /\ \A tmp \in 0 .. q.user_key, shorter \in BOOLEAN : SeparatorBetween(p, q, tmp, shorter)

\* The contract of SliceTransform on the slices read back: a prefix is in its
\* range; SameResultWhenAppended is answered yes only if no appended bytes
\* change the prefix, so that one prefix may be looked up for the other; and
\* prefixes are in the order of the slices.
TransformsStable ==
  \A k, l \in ReadBack("slice"), tr \in Transforms, n \in PrefixLengths :
    LET s == got[k]
        t == got[l]
    IN  /\ InDomain(tr, n, s) => InRange(tr, n, Transform(tr, n, s))
        /\ SameResultWhenAppended(tr, n, s) => Transform(tr, n, s \o t) = Transform(tr, n, s)
        /\ (InDomain(tr, n, s) /\ InDomain(tr, n, t) /\ CompareBytes(s, t) <= 0) =>
             CompareBytes(Transform(tr, n, s), Transform(tr, n, t)) <= 0
=============================================================================
