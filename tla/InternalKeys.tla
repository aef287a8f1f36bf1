----------------------------- MODULE InternalKeys -----------------------------
(***************************************************************************)
(* Internal keys of dbformat: a user key, a sequence number and a value    *)
(* type.  In memory they are parsed records; on disk the last two are      *)
(* packed into one 64 bit footer.  Every ordering of the program is one of *)
(* the comparisons below.                                                  *)
(*                                                                         *)
(* User keys are numbers standing for their rank in the user comparator's  *)
(* order, so user_comparator_.Compare is the order of the numbers.         *)
(***************************************************************************)
EXTENDS Integers

CONSTANTS
  TypeRange,            \* 2^8: the footer's low byte holds the type
  kMaxSequenceNumber    \* 2^56 - 1

\* The value types that dbformat tells from the others.
kTypeMerge == 2
kTypeSingleDeletion == 7
kTypeRangeDeletion == 15
kTypeBlobIndex == 17
kTypeDeletionWithTimestamp == 20
kValueTypeForSeek == kTypeDeletionWithTimestamp

ASSUME TypeAssumption ==
  /\ TypeRange \in Nat /\ kValueTypeForSeek < TypeRange
  /\ kMaxSequenceNumber \in Nat

IsValueType(t) ==
  t <= kTypeMerge \/ t \in {kTypeSingleDeletion, kTypeBlobIndex, kTypeDeletionWithTimestamp}
IsExtendedValueType(t) == IsValueType(t) \/ t = kTypeRangeDeletion

\* The types a record may carry, as PackSequenceAndType asserts.
ValueTypes == {t \in 0 .. TypeRange - 1 : IsExtendedValueType(t)}
SequenceNumbers == 0 .. kMaxSequenceNumber

ParsedInternalKey == [user_key : Nat, sequence : SequenceNumbers, type : ValueTypes]

PackSequenceAndType(seq, t) == seq * TypeRange + t

UnPackSequence(packed) == packed \div TypeRange
UnPackType(packed) == packed % TypeRange

\* AppendInternalKey and ParseInternalKey.
Encode(p) == [user_key |-> p.user_key, footer |-> PackSequenceAndType(p.sequence, p.type)]
Parse(e) == [user_key |-> e.user_key, sequence |-> UnPackSequence(e.footer),
             type |-> UnPackType(e.footer)]

\* A three way comparison of two numbers, and its reverse.
Sign(a, b) == IF a < b THEN -1 ELSE IF a > b THEN 1 ELSE 0
Descending(a, b) == IF a > b THEN -1 ELSE IF a < b THEN 1 ELSE 0

\* InternalKeyComparator::Compare(ParsedInternalKey, ParsedInternalKey), and the
\* KeyComparor classes of the mergers, which repeat it.
CompareParsed(a, b) ==
  LET r == Sign(a.user_key, b.user_key)
      s == Descending(a.sequence, b.sequence)
  IN  IF r # 0 THEN r ELSE IF s # 0 THEN s ELSE Descending(a.type, b.type)

\* Mutation: the footers ascend.
CompareEncodedAscending(a, b) ==
  LET r == Sign(a.user_key, b.user_key)
  IN  IF r # 0 THEN r ELSE Sign(a.footer, b.footer)

\* InternalKeyComparator::Compare(Slice, Slice): the footers are compared whole.
CompareEncoded(a, b) ==
  LET r == Sign(a.user_key, b.user_key)
  IN  IF r # 0 THEN r ELSE Descending(a.footer, b.footer)

\* CompareKeySeq: the type is shifted out.
CompareKeySeq(a, b) ==
  LET r == Sign(a.user_key, b.user_key)
  IN  IF r # 0 THEN r ELSE Descending(UnPackSequence(a.footer), UnPackSequence(b.footer))

\* Mutation: the wrong end of the type range.
MaxPossibleWithSeekType(u) == [user_key |-> u, sequence |-> 0, type |-> kValueTypeForSeek]

\* The keys that InternalKey::SetMinPossibleForUserKey and
\* SetMaxPossibleForUserKey encode, and the end key of a RangeTombstone.
MinPossible(u) == [user_key |-> u, sequence |-> kMaxSequenceNumber, type |-> kValueTypeForSeek]
MaxPossible(u) == [user_key |-> u, sequence |-> 0, type |-> 0]
SerializeEndKey(u) == [user_key |-> u, sequence |-> kMaxSequenceNumber, type |-> kTypeRangeDeletion]

\* InternalKeyComparator::FindShortestSeparator and FindShortSuccessor, given
\* the user key tmp that the user comparator shortened the start to and whether
\* it is no longer than the start.
Shortened(start, tmp, shorter) ==
  IF shorter /\ Sign(start.user_key, tmp) < 0
  THEN [user_key |-> tmp, footer |-> PackSequenceAndType(kMaxSequenceNumber, kValueTypeForSeek)]
  ELSE start

-----------------------------------------------------------------------------
(***************************************************************************)
(* The laws.  Coding checks them of the keys it reads back, and            *)
(* Coding_proofs proves them of all keys.                                  *)
(***************************************************************************)

\* Packing loses nothing: parsing an encoded key gives the key back.
RoundTrip(p) == Parse(Encode(p)) = p

\* The comparator on encoded keys and the one on parsed keys are one order.
EncodedAgrees(p, q) == CompareEncoded(Encode(p), Encode(q)) = CompareParsed(p, q)

\* The order is total and antisymmetric: the two directions have opposite
\* signs, and only equal keys compare equal.
Antisymmetric(p, q) ==
  /\ CompareParsed(p, q) = 0 - CompareParsed(q, p)
  /\ CompareParsed(p, q) = 0 => p = q

\* The order is transitive, as sorting needs.
Transitive(p, q, r) ==
  (CompareParsed(p, q) < 0 /\ CompareParsed(q, r) < 0) => CompareParsed(p, r) < 0

\* CompareKeySeq is coarser than the order, never contrary to it.
KeySeqCoarser(p, q) ==
  LET c == CompareKeySeq(Encode(p), Encode(q))
  IN  c # 0 => c = CompareParsed(p, q)

\* Every internal key of a user key lies between the two keys that InternalKey
\* encodes for it, if it encodes them into an object that was empty.
SeekBounds(p) ==
  /\ CompareParsed(MinPossible(p.user_key), p) <= 0
  /\ CompareParsed(p, MaxPossible(p.user_key)) <= 0

\* The assertions of FindShortestSeparator: the separator is after start (or
\* start itself) and before limit, if the user comparator returned a user key
\* in [start, limit).
SeparatorBetween(p, q, tmp, shorter) ==
  (p.user_key <= tmp /\ tmp < q.user_key) =>
    LET sep == Shortened(Encode(p), tmp, shorter)
    IN  /\ sep = Encode(p) \/ CompareEncoded(Encode(p), sep) < 0
        /\ CompareEncoded(sep, Encode(q)) < 0

\* RangeTombstone::SerializeEndKey(u): after every key of a smaller user key, which
\* the tombstone may cover, and before every key of a larger one.
EndKeyBounds(p, u) ==
  LET end == SerializeEndKey(u)
  IN  /\ p.user_key < u => CompareParsed(p, end) < 0
      /\ p.user_key > u => CompareParsed(end, p) < 0
=============================================================================
