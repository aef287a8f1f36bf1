----------------------------- MODULE SliceBytes -----------------------------
(***************************************************************************)
(* Byte strings as slices hold them: their comparison, the user keys that  *)
(* the benchmark generates from numbers, the parts of an encoded internal  *)
(* key, and the prefix transforms.                                         *)
(*                                                                         *)
(* A byte is a number below ByteRange; B = ByteRange / 2 is the flag bit   *)
(* of a varint's byte.                                                     *)
(***************************************************************************)
EXTENDS InternalKeys, SequencesExt

CONSTANTS
  B,          \* 128
  Bytes64,    \* sizeof(uint64_t)
  Char0       \* the code of '0'

\* b to the power of n, as a recursive function: the provers know no law of ^.
PowersOf(b) == LET power[n \in Nat] == IF n = 0 THEN 1 ELSE b * power[n - 1] IN power
Power(b, n) == PowersOf(b)[n]

ByteRange == 2 * B
Bits(n) == Power(ByteRange, n)
UInt64 == Bits(Bytes64)

ASSUME ByteAssumption ==
  /\ {B, Bytes64} \subseteq Nat \ {0}
  /\ Char0 \in 0 .. ByteRange - 1

-----------------------------------------------------------------------------
\* EncodeFixed16/32/64 and their inverses: little endian on every platform.
EncodeFixed(v, n) == [k \in 1 .. n |-> (v \div Bits(k - 1)) % ByteRange]

DecodeFixed(s, n) ==
  LET sum[k \in 0 .. n] == IF k = 0 THEN 0 ELSE sum[k - 1] + s[k] * Bits(k - 1)
  IN  sum[n]

\* EndianSwapValue of an integer of n bytes.
EndianSwapValue(v, n) == DecodeFixed(Reverse(EncodeFixed(v, n)), n)

\* The first position at which two strings differ, and Slice::compare: memcmp of
\* the common length, then the lengths.
DifferenceOffset(a, b) ==
  LET len == Min({Len(a), Len(b)})
  IN  Min({k \in 1 .. len : a[k] # b[k]} \cup {len + 1})

CompareBytes(a, b) ==
  LET d == DifferenceOffset(a, b)
  IN  IF d <= Min({Len(a), Len(b)}) THEN Sign(a[d], b[d]) ELSE Sign(Len(a), Len(b))

\* Mutation: the bytes as they lie in memory.
GenerateKeyLittleEndian(v, num_keys, key_size) == EncodeFixed(v % num_keys, key_size)

\* KeyGenerator::GenerateKeyFromInt: at most eight bytes, the highest first, then
\* the character 0.
GenerateKeyFromInt(v, num_keys, key_size) ==
  LET filled == Min({key_size, Bytes64})
      number == v % num_keys
  IN  [k \in 1 .. key_size |->
         IF k <= filled THEN (number \div Bits(filled - k)) % ByteRange ELSE Char0]

-----------------------------------------------------------------------------
(***************************************************************************)
(* Encoded internal keys.                                                  *)
(***************************************************************************)

\* AppendInternalKey of a parsed key whose user key is a string.
AppendInternalKey(p) ==
  p.user_key \o EncodeFixed(PackSequenceAndType(p.sequence, p.type), Bytes64)

ExtractUserKey(s) == SubSeq(s, 1, Len(s) - Bytes64)
ExtractInternalKeyFooter(s) == DecodeFixed(SubSeq(s, Len(s) - Bytes64 + 1, Len(s)), Bytes64)

\* Mutation: the footers are compared as bytes.
CompareSlicesBytewise(a, b) == CompareBytes(a, b)

\* InternalKeyComparator::Compare(Slice, Slice) with the bytewise user comparator.
CompareSlices(a, b) ==
  LET r == CompareBytes(ExtractUserKey(a), ExtractUserKey(b))
  IN  IF r # 0 THEN r
      ELSE Descending(ExtractInternalKeyFooter(a), ExtractInternalKeyFooter(b))

-----------------------------------------------------------------------------
(***************************************************************************)
(* SliceTransform: fixed and capped prefixes of n bytes, and none.         *)
(***************************************************************************)
Transforms == {"fixed", "capped", "noop"}

InDomain(tr, n, s) == tr = "fixed" => Len(s) >= n

Transform(tr, n, s) == IF tr = "noop" THEN s ELSE SubSeq(s, 1, Min({n, Len(s)}))

InRange(tr, n, s) ==
  CASE tr = "fixed" -> Len(s) = n
    [] tr = "capped" -> Len(s) <= n
    [] tr = "noop" -> TRUE

\* Mutation: the capped transform answers like the fixed one's domain.
SameWhenInDomain(tr, n, s) == tr # "noop" /\ InDomain(tr, n, s)

SameResultWhenAppended(tr, n, s) == tr # "noop" /\ Len(s) >= n
=============================================================================
