------------------------------- MODULE Texts -------------------------------
(***************************************************************************)
(* The textual encodings of slice.cc and string_util: hexadecimal strings, *)
(* decimal numbers, escaped option strings and lists of integers.  A text  *)
(* is a string of character codes; only the characters that these          *)
(* functions tell apart have a code of their own.                          *)
(***************************************************************************)
EXTENDS SliceBytes

CONSTANTS
  CharA,               \* the code of 'A': the hexadecimal digits go on there
  LF, CR, Charn, Charr, Backslash, Hash, Colon, Minus,
  NibbleRange          \* 16: the values of a hexadecimal digit

ASSUME TextAssumption ==
  /\ {CharA, LF, CR, Charn, Charr, Backslash, Hash, Colon, Minus} \subseteq 0 .. ByteRange - 1
  /\ {LF, CR, Charn, Charr, Backslash, Hash, Colon, Minus} \cap (Char0 .. Char0 + 9) = {}
  /\ {LF, CR, Charn, Charr, Backslash, Hash, Colon, Minus} \cap (CharA .. CharA + 5) = {}
  /\ (Char0 .. Char0 + 9) \cap (CharA .. CharA + 5) = {}
  /\ Char0 + 9 < ByteRange /\ CharA + 5 < ByteRange
  /\ NibbleRange \in 1 .. 16 /\ ByteRange <= NibbleRange * NibbleRange
  /\ LF \notin {CR, Charn, Charr, Backslash, Hash, Colon, Minus}
  /\ {Charn, Charr} \cap {Backslash, Hash, Colon} = {} /\ Charn # Charr /\ Minus # Colon

IsDigit(c) == c \in Char0 .. Char0 + 9

\* The least position of c in s, or one past the end.
PositionOf(s, c) == Min({k \in 1 .. Len(s) : s[k] = c} \cup {Len(s) + 1})

\* Mutation: the delimiter stays in the input.
SliceUntilKeepsDelimiter(s, c) ==
  [value |-> SubSeq(s, 1, PositionOf(s, c) - 1), used |-> PositionOf(s, c) - 1]

\* GetSliceUntil: up to the delimiter, which is taken from the input too, or to
\* the end.
GetSliceUntil(s, c) ==
  LET p == PositionOf(s, c)
  IN  [value |-> SubSeq(s, 1, p - 1), used |-> Min({p, Len(s)})]

-----------------------------------------------------------------------------
\* Slice::ToString(true) and Slice::DecodeHex.
ToHex(v) == IF v <= 9 THEN Char0 + v ELSE CharA + v - 10

\* fromHex: -1 for other characters.  Lower case digits, which ToString never
\* writes, are not distinguished from the capitals.
FromHex(c) ==
  CASE IsDigit(c) -> c - Char0
    [] c \in CharA .. CharA + 5 -> c - CharA + 10
    [] OTHER -> -1

HexText(s) ==
  [k \in 1 .. 2 * Len(s) |->
     LET c == s[(k + 1) \div 2]
     IN  ToHex(IF k % 2 = 1 THEN c \div NibbleRange ELSE c % NibbleRange)]

DecodeHex(s) ==
  [ok |-> Len(s) % 2 = 0 /\ \A k \in 1 .. Len(s) : FromHex(s[k]) >= 0,
   value |-> [k \in 1 .. Len(s) \div 2 |->
                FromHex(s[2 * k - 1]) * NibbleRange + FromHex(s[2 * k])]]

-----------------------------------------------------------------------------
\* AppendNumberTo: the decimal digits.
Decimal[n \in Nat] ==
  IF n < 10 THEN << Char0 + n >> ELSE Append(Decimal[n \div 10], Char0 + (n % 10))

\* Mutation: the last digit is not looked at.
FitsWithoutDigit(v, digit) == v <= (UInt64 - 1) \div 10

\* ConsumeDecimalNumber: whether v * 10 + digit is a uint64_t.
FitsUint64(v, digit) ==
  \/ v < (UInt64 - 1) \div 10
  \/ v = (UInt64 - 1) \div 10 /\ digit <= (UInt64 - 1) % 10

\* It takes digits while there are any; on overflow it stops before the digit.
ConsumeDecimalNumber(s) ==
  LET digits == Min({k \in 1 .. Len(s) : ~IsDigit(s[k])} \cup {Len(s) + 1}) - 1
      take[k \in 0 .. digits] ==
        IF k = 0 THEN [fits |-> TRUE, value |-> 0, used |-> 0]
        ELSE LET before == take[k - 1]
                 digit == s[k] - Char0
             IN  IF ~before.fits \/ ~FitsUint64(before.value, digit)
                 THEN [before EXCEPT !.fits = FALSE]
                 ELSE [fits |-> TRUE, value |-> (before.value * 10 + digit) % UInt64, used |-> k]
  IN  [ok |-> take[digits].fits /\ digits > 0,
       value |-> take[digits].value, used |-> take[digits].used]

-----------------------------------------------------------------------------
IsSpecialChar(c) == c \in {Backslash, Hash, Colon, CR, LF}

EscapeChar(c) == IF c = LF THEN Charn ELSE IF c = CR THEN Charr ELSE c
UnescapeChar(c) == IF c = Charr THEN CR ELSE IF c = Charn THEN LF ELSE c

\* Mutation: the line break itself goes behind the backslash.
EscapeKeepsBreak(s) ==
  FlattenSeq([k \in 1 .. Len(s) |-> IF IsSpecialChar(s[k]) THEN << Backslash, s[k] >> ELSE << s[k] >>])

EscapeOptionString(s) ==
  FlattenSeq([k \in 1 .. Len(s) |->
                IF IsSpecialChar(s[k]) THEN << Backslash, EscapeChar(s[k]) >> ELSE << s[k] >>])

\* A backslash at the end is dropped.
UnescapeOptionString(s) ==
  LET take[k \in 0 .. Len(s)] ==
        IF k = 0 THEN [escaped |-> FALSE, output |-> << >>]
        ELSE LET before == take[k - 1]
             IN  IF before.escaped
                 THEN [escaped |-> FALSE, output |-> Append(before.output, UnescapeChar(s[k]))]
                 ELSE IF s[k] = Backslash THEN [before EXCEPT !.escaped = TRUE]
                 ELSE [before EXCEPT !.output = Append(@, s[k])]
  IN  take[Len(s)].output

-----------------------------------------------------------------------------
\* std::to_string and std::stoi, which throws on a text without a number.
ToText(n) == IF n < 0 THEN << Minus >> \o Decimal[-n] ELSE Decimal[n]

StoI(s) ==
  LET negative == s # << >> /\ s[1] = Minus
      digits == IF negative THEN Tail(s) ELSE s
      n == ConsumeDecimalNumber(digits)
  IN  [ok |-> n.ok, value |-> IF negative THEN -n.value ELSE n.value]

\* SerializeIntVector, and ParseVectorInt of what it writes: no letter follows a
\* number, so ParseInt's units do not arise.
SerializeIntVector(vec) ==
  FlattenSeq([k \in 1 .. Len(vec) |->
                IF k > 1 THEN << Colon >> \o ToText(vec[k]) ELSE ToText(vec[k])])

ParseVectorInt(s) ==
  LET parse[from \in 1 .. Len(s) + 2] ==
        IF from > Len(s) THEN [ok |-> TRUE, value |-> << >>]
        ELSE LET rest == SubSeq(s, from, Len(s))
                 part == GetSliceUntil(rest, Colon).value
                 n == StoI(part)
             IN  IF ~n.ok THEN [ok |-> FALSE, value |-> << >>]
                 ELSE LET tail == parse[from + Len(part) + 1]
                      IN  [tail EXCEPT !.value = << n.value >> \o @]
  IN  parse[1]
=============================================================================
