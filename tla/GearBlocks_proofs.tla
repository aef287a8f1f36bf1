-------------------------- MODULE GearBlocks_proofs --------------------------
(***************************************************************************)
(* The gear layout is right for every block geometry that fits the block   *)
(* and for every number of entries.                                        *)
(***************************************************************************)
EXTENDS GearBlocks, TLAPS

-----------------------------------------------------------------------------
(***************************************************************************)
(* Arithmetic.                                                             *)
(***************************************************************************)
LEMMA Product ==
  ASSUME NEW a \in Nat, NEW k \in Nat
  PROVE  a * k \in Nat /\ (a + 1) * k = a * k + k
OBVIOUS

LEMMA Difference ==
  ASSUME NEW a \in Nat, NEW b \in Nat, NEW k \in Nat, b <= a
  PROVE  (a - b) * k = a * k - b * k
OBVIOUS

\* A whole step lies between the multiples of different numbers.
LEMMA Multiples ==
  ASSUME NEW a \in Nat, NEW b \in Nat, NEW k \in Nat, a < b
  PROVE  a * k + k <= b * k
OBVIOUS

LEMMA Quotient ==
  ASSUME NEW a \in Nat, NEW k \in Nat \ {0}, NEW r \in 0 .. k - 1
  PROVE  (a * k + r) \div k = a /\ (a * k + r) % k = r
OBVIOUS

LEMMA DivMod ==
  ASSUME NEW a \in Nat, NEW k \in Nat \ {0}
  PROVE  a = (a \div k) * k + (a % k) /\ a % k \in 0 .. k - 1 /\ a \div k \in Nat
OBVIOUS

\* Sums of uint32_t may be reduced early.
LEMMA SumModulo ==
  ASSUME NEW a \in Nat, NEW b \in Nat, NEW m \in Nat \ {0}
  PROVE  ((a % m) + b) % m = (a + b) % m
<1>. DEFINE q == a \div m
            r == a % m
            p == (r + b) \div m
            t == (r + b) % m
<1>1. a = q * m + r /\ r \in 0 .. m - 1 /\ q \in Nat
  BY DivMod
<1>2. r + b \in Nat
  BY <1>1
<1>3. r + b = p * m + t /\ t \in 0 .. m - 1 /\ p \in Nat
  BY <1>2, DivMod
<1>. HIDE DEF q, r, p, t
<1>4. a + b = q * m + (p * m + t)
  BY <1>1, <1>3
<1>5. q * m + p * m = (q + p) * m
  BY <1>1, <1>3
<1>6. a + b = (q + p) * m + t
  <2>1. q * m \in Nat /\ p * m \in Nat /\ t \in Nat
    BY <1>1, <1>3, Product
  <2>. QED
    BY <1>4, <1>5, <2>1
<1>7. (a + b) % m = t
  <2>1. q + p \in Nat
    BY <1>1, <1>3
  <2>2. ((q + p) * m + t) % m = t
    BY <1>3, <2>1, Quotient
  <2>. QED
    BY <1>6, <2>2
<1>. QED
  BY <1>7 DEF t, r

LEMMA Appended ==
  ASSUME NEW S, NEW s \in Seq(S), NEW t \in Seq(S)
  PROVE  s \o t \in Seq(S) /\ Len(s \o t) = Len(s) + Len(t) /\ Len(s) \in Nat
OBVIOUS

-----------------------------------------------------------------------------
(***************************************************************************)
(* One block.                                                              *)
(***************************************************************************)

\* The entries of a block fit: the padding does not underflow, and the block is
\* exactly BlockSize long.
LEMMA BlockFits ==
  ASSUME NEW n \in 0 .. MaxEntryInBlock
  PROVE  /\ n * KeyLength \in Nat /\ n * ValueLength \in Nat
         /\ HeaderLength + n * ValueLength <= BlockSize - n * KeyLength
         /\ KeysAt("gear", n) = BlockSize - n * KeyLength
         /\ BlockLength("gear", n) = BlockSize
<1>. USE LayoutAssumption
<1>1. n * KeyLength \in Nat /\ n * ValueLength \in Nat /\ n \in Nat
  BY Product
<1>2. n * KeyLength + n * ValueLength = n * (KeyLength + ValueLength)
  OBVIOUS
<1>3. n * (KeyLength + ValueLength) <= MaxEntryInBlock * (KeyLength + ValueLength)
  OBVIOUS
<1>. DEFINE keys == n * KeyLength
            values == n * ValueLength
            pad == BlockSize - (HeaderLength + keys + values)
<1>4. keys \in Nat /\ values \in Nat /\ pad \in 0 .. UInt32 - 1
  <2>1. MaxEntryInBlock * (KeyLength + ValueLength) \in Nat
    BY Product
  <2>. QED
    BY <1>1, <1>2, <1>3, <2>1
<1>5. Placeholder(n) = pad % UInt32
  BY DEF Placeholder
<1>6. pad % UInt32 = pad
  <2>. HIDE DEF pad
  <2>. QED
    BY <1>4
<1>7. Padding("gear", n) = pad
  BY <1>5, <1>6 DEF Padding
<1>. QED
  BY <1>4, <1>7 DEF KeysAt, BlockLength

\* Byte x of key j and of value j of a block, and the header's first byte.
LEMMA BytesOfBlock ==
  ASSUME NEW n \in 0 .. MaxEntryInBlock, NEW first \in Nat, NEW j \in 0 .. n - 1
  PROVE  /\ \A x \in 0 .. KeyLength - 1 :
              /\ BlockSize - (j + 1) * KeyLength + x \in 0 .. BlockSize - 1
              /\ BlockByte("gear", first, n, BlockSize - (j + 1) * KeyLength + x)
                   = << "key", first + j, x >>
         /\ \A x \in 0 .. ValueLength - 1 :
              /\ HeaderLength + j * ValueLength + x \in 0 .. BlockSize - 1
              /\ BlockByte("gear", first, n, HeaderLength + j * ValueLength + x)
                   = << "value", first + j, x >>
<1>. USE LayoutAssumption
<1>1. /\ n * KeyLength \in Nat /\ n * ValueLength \in Nat
      /\ HeaderLength + n * ValueLength <= BlockSize - n * KeyLength
      /\ KeysAt("gear", n) = BlockSize - n * KeyLength
  BY BlockFits
<1>2. ASSUME NEW x \in 0 .. KeyLength - 1
      PROVE  /\ BlockSize - (j + 1) * KeyLength + x \in 0 .. BlockSize - 1
             /\ BlockByte("gear", first, n, BlockSize - (j + 1) * KeyLength + x)
                  = << "key", first + j, x >>
  <2>. DEFINE o == BlockSize - (j + 1) * KeyLength + x
              r == n - (j + 1)
  <2>1. r \in Nat /\ r * KeyLength = n * KeyLength - (j + 1) * KeyLength
    BY Difference
  <2>2. (j + 1) * KeyLength \in Nat /\ r * KeyLength \in Nat /\ (j + 1) * KeyLength >= KeyLength
    BY <2>1, Product
  <2>3. o - KeysAt("gear", n) = r * KeyLength + x
    <3>. HIDE DEF r
    <3>. QED BY <1>1, <2>1, <2>2
  <2>4. (o - KeysAt("gear", n)) \div KeyLength = r /\ (o - KeysAt("gear", n)) % KeyLength = x
    <3>. HIDE DEF r, o
    <3>1. (r * KeyLength + x) \div KeyLength = r /\ (r * KeyLength + x) % KeyLength = x
      BY <2>1, Quotient
    <3>. QED BY <2>3, <3>1
  <2>5. o \in 0 .. BlockSize - 1 /\ o >= KeysAt("gear", n) /\ o \in Int
    <3>. HIDE DEF r
    <3>. QED BY <1>1, <2>1, <2>2
  <2>6. ~(o < HeaderLength) /\ ~(o < HeaderLength + n * ValueLength) /\ ~(o < KeysAt("gear", n))
    <3>. HIDE DEF o
    <3>. QED BY <1>1, <2>5
  <2>7. first + (n - 1 - r) = first + j
    OBVIOUS
  <2>8. BlockByte("gear", first, n, o) = << "key", first + (n - 1 - r), x >>
    <3>. HIDE DEF o, r
    <3>. QED BY <2>4, <2>5, <2>6 DEF BlockByte
  <2>. QED
    BY <2>5, <2>7, <2>8
<1>3. ASSUME NEW x \in 0 .. ValueLength - 1
      PROVE  /\ HeaderLength + j * ValueLength + x \in 0 .. BlockSize - 1
             /\ BlockByte("gear", first, n, HeaderLength + j * ValueLength + x)
                  = << "value", first + j, x >>
  <2>. DEFINE o == HeaderLength + j * ValueLength + x
  <2>1. j * ValueLength \in Nat /\ j * ValueLength + ValueLength <= n * ValueLength
    BY Product, Multiples
  <2>2. o - HeaderLength = j * ValueLength + x
    BY <2>1
  <2>3. (o - HeaderLength) \div ValueLength = j /\ (o - HeaderLength) % ValueLength = x
    <3>. HIDE DEF o
    <3>1. (j * ValueLength + x) \div ValueLength = j /\ (j * ValueLength + x) % ValueLength = x
      <4>1. j \in Nat /\ ValueLength \in Nat \ {0}
        OBVIOUS
      <4>. QED BY <4>1, Quotient
    <3>. QED BY <2>2, <3>1
  <2>4. /\ o \in 0 .. BlockSize - 1
        /\ ~(o < HeaderLength) /\ o >= HeaderLength /\ o < HeaderLength + n * ValueLength
        /\ ~(o >= HeaderLength + n * ValueLength) /\ ~(o >= KeysAt("gear", n))
    BY <1>1, <2>1
  <2>5. BlockByte("gear", first, n, o) = << "value", first + j, x >>
    <3>. HIDE DEF o
    <3>1. BlockByte("gear", first, n, o)
            = << "value", first + (o - HeaderLength) \div ValueLength, (o - HeaderLength) % ValueLength >>
      BY ONLY <2>4 DEF BlockByte
    <3>. QED BY <2>3, <3>1
  <2>. QED
    BY <2>4, <2>5
<1>. QED
  BY <1>2, <1>3

LEMMA HeaderOfBlock ==
  ASSUME NEW n \in 0 .. MaxEntryInBlock, NEW first \in Nat
  PROVE  BlockByte("gear", first, n, 0) = << "header", n, 0 >>
<1>. DEFINE o == 0
<1>1. /\ o < HeaderLength /\ ~(o >= HeaderLength)
      /\ ~(o >= HeaderLength + n * ValueLength) /\ ~(o >= KeysAt("gear", n))
  <2>1. /\ n * ValueLength \in Nat /\ n * KeyLength \in Nat
        /\ HeaderLength + n * ValueLength <= KeysAt("gear", n)
        /\ KeysAt("gear", n) = BlockSize - n * KeyLength
    BY BlockFits
  <2>. QED
    BY <2>1, LayoutAssumption
<1>2. BlockByte("gear", first, n, o) = << "header", n, o >>
  <2>. HIDE DEF o
  <2>. QED BY ONLY <1>1 DEF BlockByte
<1>. QED
  BY <1>2

-----------------------------------------------------------------------------
(***************************************************************************)
(* The inductive invariant.  The encoder stands between two blocks; each   *)
(* block laid out starts with a header that holds its number of entries;   *)
(* and the reader, between two blocks as well, has counted the entries of  *)
(* the blocks before it.                                                   *)
(***************************************************************************)
Typed ==
  /\ TypeOK
  /\ decoder \in {"table", "vector"}
  /\ phase \in {"encode", "done", "failed", decoder}

AtBlock ==
  /\ i = BlocksLaid * MaxEntryInBlock
  /\ i < total + MaxEntryInBlock
  /\ encoder = "gear" => size = BlocksLaid * BlockSize

\* The entries of the m-th block and of the blocks before it.
EntriesOf(m) ==
  IF (m + 1) * MaxEntryInBlock > total THEN total - m * MaxEntryInBlock ELSE MaxEntryInBlock
EntriesBefore(m) == IF m * MaxEntryInBlock < total THEN m * MaxEntryInBlock ELSE total

Headers ==
  encoder = "gear" =>
    \A m \in 0 .. BlocksLaid - 1 :
      /\ m * BlockSize \in DOMAIN buffer
      /\ buffer[m * BlockSize] = << "header", EntriesOf(m), 0 >>

CountedUpTo(m) ==
  /\ pos = m * BlockSize
  /\ decoded \in Seq([key : Int, value : Int])
  /\ Len(decoded) = EntriesBefore(m)
  /\ decoder = "table" => num_of_blocks = m
  /\ decoder = "vector" => \E s \in Stray : total_entries = (s + Len(decoded)) % UInt32

Counted == encoder = "gear" => \E m \in 0 .. BlocksLaid : CountedUpTo(m)

Finished ==
  /\ phase # "encode" => i >= total
  /\ phase \in {"done", "failed"} => pos >= size
  /\ phase = "failed" => decoder = "vector" /\ Len(decoded) # total_entries
  /\ phase = "done" /\ decoder = "vector" => Len(decoded) = total_entries

IInv == Typed /\ AtBlock /\ EntriesInPlace /\ Headers /\ Counted /\ Finished

\* The two slices of entry e.
InPlace(e) ==
  /\ \A x \in 0 .. KeyLength - 1 :
       buffer[(e \div MaxEntryInBlock) * BlockSize + BlockSize
                - ((e % MaxEntryInBlock) + 1) * KeyLength + x] = << "key", e, x >>
  /\ \A x \in 0 .. ValueLength - 1 :
       buffer[(e \div MaxEntryInBlock) * BlockSize + HeaderLength
                + (e % MaxEntryInBlock) * ValueLength + x] = << "value", e, x >>

LEMMA InPlaceEach ==
  EntriesInPlace <=> (encoder = "gear" => \A e \in 0 .. Laid - 1 : InPlace(e))
BY DEF EntriesInPlace, InPlace

-----------------------------------------------------------------------------
LEMMA InitIInv == Init => IInv
<1>. SUFFICES ASSUME Init PROVE IInv
  OBVIOUS
<1>. USE LayoutAssumption, TotalsAssumption, StrayAssumption
<1>1. BlocksLaid = 0
  <2>1. (0 * MaxEntryInBlock + 0) \div MaxEntryInBlock = 0
    BY Quotient
  <2>. QED
    BY <2>1 DEF Init, BlocksLaid
<1>2. Typed
  BY DEF Init, Typed, TypeOK
<1>3. AtBlock
  <2>1. 0 * MaxEntryInBlock = 0 /\ 0 * BlockSize = 0
    OBVIOUS
  <2>. QED
    BY <1>1, <2>1 DEF Init, AtBlock
<1>4. EntriesInPlace
  <2>1. Laid = 0
    BY DEF Init, Laid
  <2>. QED
    BY <2>1, InPlaceEach
<1>5. Headers
  BY <1>1 DEF Headers
<1>6. Counted
  <2>1. 0 * MaxEntryInBlock = 0 /\ 0 * BlockSize = 0
    OBVIOUS
  <2>2. EntriesBefore(0) = 0
    BY <2>1 DEF EntriesBefore, Init
  <2>3. decoded \in Seq([key : Int, value : Int]) /\ Len(decoded) = 0
    BY DEF Init
  <2>4. total_entries = (total_entries + Len(decoded)) % UInt32
    <3>1. total_entries \in 0 .. UInt32 - 1
      BY DEF Init
    <3>. QED
      BY <2>3, <3>1
  <2>5. CountedUpTo(0)
    BY <2>1, <2>2, <2>3, <2>4 DEF CountedUpTo, Init
  <2>. QED
    BY <1>1, <2>5 DEF Counted
<1>7. Finished
  BY DEF Finished, Init
<1>. QED
  BY <1>2, <1>3, <1>4, <1>5, <1>6, <1>7 DEF IInv

\* A turn of the encoding loop: one more block, of the entries from i on.
LEMMA BlockAdded ==
  ASSUME IInv, AddBlock
  PROVE  /\ BlocksLaid \in Nat /\ BlocksLaid' = BlocksLaid + 1
         /\ i' = (BlocksLaid + 1) * MaxEntryInBlock
         /\ BlockEntries \in 1 .. MaxEntryInBlock
         /\ BlockEntries = EntriesOf(BlocksLaid)
         /\ Laid = i /\ Laid' = i + BlockEntries
<1>. USE LayoutAssumption, TotalsAssumption
<1>1. /\ i \in Nat /\ total \in Nat /\ i < total /\ i' = i + MaxEntryInBlock /\ total' = total
      /\ i = BlocksLaid * MaxEntryInBlock
  BY DEF IInv, Typed, TypeOK, AtBlock, AddBlock
<1>2. BlocksLaid \in Nat
  BY <1>1, DivMod DEF BlocksLaid
<1>3. (BlocksLaid + 1) * MaxEntryInBlock = i + MaxEntryInBlock
  BY <1>1, <1>2, Product
<1>4. BlocksLaid' = BlocksLaid + 1
  <2>. DEFINE b == BlocksLaid + 1
  <2>1. b \in Nat /\ i' = b * MaxEntryInBlock
    BY <1>1, <1>2, <1>3
  <2>. HIDE DEF b
  <2>2. (b * MaxEntryInBlock + 0) \div MaxEntryInBlock = b
    BY <2>1, Quotient
  <2>3. b * MaxEntryInBlock + 0 = i'
    BY <1>1, <2>1
  <2>4. i' \div MaxEntryInBlock = b
    BY <2>2, <2>3
  <2>5. BlocksLaid' = i' \div MaxEntryInBlock
    BY DEF BlocksLaid
  <2>. QED
    BY <2>4, <2>5 DEF b
<1>5. BlockEntries \in 1 .. MaxEntryInBlock /\ BlockEntries = EntriesOf(BlocksLaid)
  BY <1>1, <1>3 DEF BlockEntries, EntriesOf
<1>6. Laid = i /\ Laid' = i + BlockEntries
  BY <1>1 DEF Laid, BlockEntries
<1>. QED
  BY <1>1, <1>2, <1>3, <1>4, <1>5, <1>6

\* In a gear file the block takes the BlockSize bytes after the ones before it,
\* which stay as they were.
LEMMA BufferGrows ==
  ASSUME IInv, AddBlock, encoder = "gear"
  PROVE  /\ size \in Nat /\ size' = size + BlockSize
         /\ DOMAIN buffer' = 0 .. size' - 1
         /\ \A o \in 0 .. size - 1 : buffer'[o] = buffer[o]
         /\ \A o \in 0 .. BlockSize - 1 :
              buffer'[size + o] = BlockByte("gear", i, BlockEntries, o)
<1>. USE LayoutAssumption
<1>1. BlockEntries \in 0 .. MaxEntryInBlock
  BY BlockAdded
<1>2. BlockLength(encoder, BlockEntries) = BlockSize
  BY <1>1, BlockFits
<1>3. size \in Nat
  BY DEF IInv, Typed, TypeOK
<1>4. /\ buffer' = [o \in 0 .. size + BlockSize - 1 |->
                      IF o < size THEN buffer[o] ELSE BlockByte(encoder, i, BlockEntries, o - size)]
      /\ size' = size + BlockSize
  BY <1>2 DEF AddBlock
<1>5. ASSUME NEW o \in 0 .. BlockSize - 1
      PROVE  buffer'[size + o] = BlockByte("gear", i, BlockEntries, o)
  <2>1. /\ size + o \in 0 .. size + BlockSize - 1
        /\ ~(size + o < size)
        /\ (size + o) - size = o
    BY <1>3
  <2>. QED
    BY <1>4, <2>1
<1>6. ASSUME NEW o \in 0 .. size - 1
      PROVE  buffer'[o] = buffer[o]
  <2>1. o \in 0 .. size + BlockSize - 1 /\ o < size
    BY <1>3
  <2>. QED
    BY <1>4, <2>1
<1>7. DOMAIN buffer' = 0 .. size' - 1
  <2>1. DOMAIN buffer' = 0 .. size + BlockSize - 1
    BY ONLY <1>4
  <2>2. size' = size + BlockSize /\ size \in Nat /\ BlockSize \in Nat
    BY <1>1, <1>3, <1>4 DEF Typed, TypeOK
  <2>3. size + BlockSize - 1 = size' - 1
    BY ONLY <2>2
  <2>. QED
    BY ONLY <2>1, <2>3
<1>. QED
  BY <1>3, <1>4, <1>5, <1>6, <1>7

-----------------------------------------------------------------------------
(***************************************************************************)
(* AddBlock keeps each part of the invariant.                              *)
(***************************************************************************)

\* Blocks that do not leave padding out are as long as the buffer says.
LEMMA AddBlockTyped ==
  ASSUME IInv, AddBlock
  PROVE  Typed'
<1>. USE LayoutAssumption, TotalsAssumption
<1>1. /\ total' = total /\ encoder' = encoder /\ decoder' = decoder /\ phase' = phase
      /\ i' = i + MaxEntryInBlock
      /\ Typed
  BY DEF AddBlock, IInv
<1>2. BlockEntries \in Nat
  BY BlockAdded
<1>. DEFINE n == BlockEntries
            len == BlockLength(encoder, n)
<1>3. len \in Nat
  <2>1. n * ValueLength \in Nat /\ n * KeyLength \in Nat
    BY <1>2, Product
  <2>2. Padding(encoder, n) \in Nat
    <3>1. BlockSize - (HeaderLength + n * KeyLength + n * ValueLength) \in Int
      BY <2>1
    <3>2. UInt32 \in Nat \ {0}
      OBVIOUS
    <3>3. Placeholder(n) \in Nat
      BY <3>1, <3>2 DEF Placeholder
    <3>. QED
      BY <3>3 DEF Padding
  <2>. QED
    BY <2>1, <2>2 DEF BlockLength
<1>4. /\ buffer' = [o \in 0 .. size + len - 1 |->
                      IF o < size THEN buffer[o] ELSE BlockByte(encoder, i, n, o - size)]
      /\ size' = size + len
  BY DEF AddBlock
<1>. HIDE DEF n, len
<1>5. DOMAIN buffer' = 0 .. size' - 1
  <2>1. DOMAIN buffer' = 0 .. size + len - 1
    BY ONLY <1>4
  <2>2. size' = size + len /\ size \in Nat /\ len \in Nat
    BY <1>1, <1>3, <1>4 DEF Typed, TypeOK
  <2>3. size + len - 1 = size' - 1
    BY ONLY <2>2
  <2>. QED
    BY ONLY <2>1, <2>3
<1>6. size' \in Nat
  BY <1>1, <1>3, <1>4 DEF Typed, TypeOK
<1>. QED
  BY <1>1, <1>5, <1>6 DEF Typed, TypeOK

LEMMA AddBlockAtBlock ==
  ASSUME IInv, AddBlock
  PROVE  AtBlock'
<1>. USE LayoutAssumption, TotalsAssumption
<1>1. /\ total \in Nat /\ i \in Nat /\ size \in Nat
      /\ total' = total /\ encoder' = encoder /\ i' = i + MaxEntryInBlock /\ i < total
  BY DEF AddBlock, IInv, Typed, TypeOK
<1>2. i' = BlocksLaid' * MaxEntryInBlock /\ BlocksLaid \in Nat /\ BlocksLaid' = BlocksLaid + 1
  BY BlockAdded
<1>3. encoder = "gear" => size' = BlocksLaid' * BlockSize
  <2>. SUFFICES ASSUME encoder = "gear" PROVE size' = BlocksLaid' * BlockSize
    OBVIOUS
  <2>1. size = BlocksLaid * BlockSize
    BY DEF IInv, AtBlock
  <2>2. size' = size + BlockSize
    BY BufferGrows
  <2>3. (BlocksLaid + 1) * BlockSize = BlocksLaid * BlockSize + BlockSize
    BY <1>2, Product
  <2>. QED
    BY <1>2, <2>1, <2>2, <2>3
<1>. QED
  BY <1>1, <1>2, <1>3 DEF AtBlock

\* The entries laid out before are below size, and the new ones are entries
\* i, i + 1, ... of the new block.
LEMMA AddBlockInPlace ==
  ASSUME IInv, AddBlock
  PROVE  EntriesInPlace'
<1>. USE LayoutAssumption, TotalsAssumption
<1>. DEFINE K == MaxEntryInBlock
            b == BlocksLaid
            n == BlockEntries
<1>. SUFFICES ASSUME encoder = "gear", NEW e \in 0 .. i + n - 1
              PROVE  InPlace(e)'
  <2>1. Laid' = i + n /\ encoder' = encoder
    BY BlockAdded DEF AddBlock
  <2>2. EntriesInPlace' <=> (encoder' = "gear" => \A f \in 0 .. Laid' - 1 : InPlace(f)')
    BY DEF EntriesInPlace, InPlace
  <2>3. Laid' - 1 = i + n - 1
    <3>1. i \in Nat /\ n \in Nat
      BY BlockAdded DEF IInv, Typed, TypeOK
    <3>. HIDE DEF n
    <3>. QED BY ONLY <2>1, <3>1
  <2>. HIDE DEF n
  <2>4. encoder' = "gear" => \A f \in 0 .. i + n - 1 : InPlace(f)'
    BY <2>1
  <2>. QED
    BY ONLY <2>2, <2>3, <2>4
<1>1. /\ b \in Nat /\ i = b * K /\ n \in 1 .. K /\ Laid = i /\ i \in Nat
      /\ size = b * BlockSize
  BY BlockAdded DEF IInv, AtBlock, Typed, TypeOK
<1>2. /\ size \in Nat /\ \A o \in 0 .. size - 1 : buffer'[o] = buffer[o]
      /\ \A o \in 0 .. BlockSize - 1 : buffer'[size + o] = BlockByte("gear", i, n, o)
  BY BufferGrows
<1>. DEFINE q == e \div K
            j == e % K
            keyAt(x) == BlockSize - (j + 1) * KeyLength + x
            valueAt(x) == HeaderLength + j * ValueLength + x
<1>3. q \in Nat /\ j \in 0 .. K - 1 /\ e = q * K + j /\ e \in Nat
  <2>1. e \in Nat
    OBVIOUS
  <2>. QED
    BY <2>1, DivMod
<1>4. q * BlockSize \in Nat /\ (j + 1) * KeyLength \in Int /\ j * ValueLength \in Int
  <2>. HIDE DEF q, j
  <2>1. j \in Nat /\ j + 1 \in Nat
    BY <1>3
  <2>. QED
    BY <1>3, <2>1, Product
<1>. SUFFICES /\ \A x \in 0 .. KeyLength - 1 : buffer'[q * BlockSize + keyAt(x)] = << "key", e, x >>
              /\ \A x \in 0 .. ValueLength - 1 :
                   buffer'[q * BlockSize + valueAt(x)] = << "value", e, x >>
  <2>1. \A x \in Int : /\ q * BlockSize + keyAt(x)
                            = q * BlockSize + BlockSize - (j + 1) * KeyLength + x
                       /\ q * BlockSize + valueAt(x)
                            = q * BlockSize + HeaderLength + j * ValueLength + x
    <3>. HIDE DEF q, j
    <3>. QED BY <1>4
  <2>. QED
    BY <2>1 DEF InPlace
<1>5. CASE e < i
  <2>1. InPlace(e)
    BY <1>1, <1>5, InPlaceEach DEF IInv
  <2>2. q < b
    <3>. HIDE DEF q, j
    <3>1. q >= b => b * K <= q * K
      BY <1>1, <1>3
    <3>2. q * K \in Nat
      BY <1>3, Product
    <3>. QED
      BY <1>1, <1>3, <1>5, <3>1, <3>2
  <2>3. q * BlockSize + BlockSize <= size
    <3>. HIDE DEF q, j
    <3>. QED BY <1>1, <1>3, <2>2, Multiples
  <2>4. \A o \in 0 .. BlockSize - 1 : buffer'[q * BlockSize + o] = buffer[q * BlockSize + o]
    <3>. HIDE DEF q, j
    <3>. QED BY <1>2, <1>4, <2>3
  <2>5. /\ \A x \in 0 .. KeyLength - 1 : keyAt(x) \in 0 .. BlockSize - 1
        /\ \A x \in 0 .. ValueLength - 1 : valueAt(x) \in 0 .. BlockSize - 1
    <3>. HIDE DEF q, j
    <3>. QED BY <1>3, BytesOfBlock
  <2>6. /\ \A x \in 0 .. KeyLength - 1 : buffer[q * BlockSize + keyAt(x)] = << "key", e, x >>
        /\ \A x \in 0 .. ValueLength - 1 : buffer[q * BlockSize + valueAt(x)] = << "value", e, x >>
    <3>1. \A x \in Int : /\ q * BlockSize + keyAt(x)
                              = q * BlockSize + BlockSize - (j + 1) * KeyLength + x
                         /\ q * BlockSize + valueAt(x)
                              = q * BlockSize + HeaderLength + j * ValueLength + x
      <4>. HIDE DEF q, j
      <4>. QED BY <1>4
    <3>. QED
      BY <2>1, <3>1 DEF InPlace
  <2>. HIDE DEF q, keyAt, valueAt
  <2>. QED
    BY <2>4, <2>5, <2>6
<1>6. CASE e >= i
  <2>. DEFINE r == e - i
  <2>1. r \in 0 .. n - 1 /\ r \in 0 .. K - 1 /\ e = b * K + r /\ e = i + r
    BY <1>1, <1>6
  <2>. HIDE DEF r
  <2>2. q = b /\ j = r
    <3>. HIDE DEF b
    <3>1. (b * K + r) \div K = b /\ (b * K + r) % K = r
      BY <1>1, <2>1, Quotient
    <3>. QED
      BY <2>1, <3>1
  <2>3. /\ \A x \in 0 .. KeyLength - 1 :
             /\ keyAt(x) \in 0 .. BlockSize - 1
             /\ BlockByte("gear", i, n, keyAt(x)) = << "key", i + j, x >>
        /\ \A x \in 0 .. ValueLength - 1 :
             /\ valueAt(x) \in 0 .. BlockSize - 1
             /\ BlockByte("gear", i, n, valueAt(x)) = << "value", i + j, x >>
    <3>. HIDE DEF q, j, n
    <3>1. n \in 0 .. MaxEntryInBlock /\ j \in 0 .. n - 1
      BY <1>1, <2>1, <2>2
    <3>. QED
      BY <1>1, <3>1, BytesOfBlock
  <2>4. q * BlockSize = size /\ i + j = e
    BY <1>1, <2>1, <2>2
  <2>. HIDE DEF q, j, n, keyAt, valueAt
  <2>. QED
    BY <1>2, <2>3, <2>4
<1>. QED
  BY <1>1, <1>5, <1>6

\* The entry counts of the blocks depend on total only.
LEMMA AddBlockHeaders ==
  ASSUME IInv, AddBlock
  PROVE  Headers'
<1>. USE LayoutAssumption, TotalsAssumption
<1>. DEFINE b == BlocksLaid
<1>1. total' = total /\ encoder' = encoder /\ b \in Nat /\ BlocksLaid' = b + 1
  BY BlockAdded DEF AddBlock
<1>. SUFFICES ASSUME encoder = "gear", NEW m \in 0 .. b
              PROVE  /\ m * BlockSize \in DOMAIN buffer'
                     /\ buffer'[m * BlockSize] = << "header", EntriesOf(m), 0 >>
  <2>1. \A m : EntriesOf(m)' = EntriesOf(m)
    BY <1>1 DEF EntriesOf
  <2>2. 0 .. BlocksLaid' - 1 = 0 .. b
    <3>. HIDE DEF b
    <3>. QED BY <1>1
  <2>. HIDE DEF b
  <2>. QED
    BY <1>1, <2>1, <2>2 DEF Headers
<1>2. /\ size \in Nat /\ size' = size + BlockSize
      /\ DOMAIN buffer' = 0 .. size' - 1
      /\ \A o \in 0 .. size - 1 : buffer'[o] = buffer[o]
      /\ \A o \in 0 .. BlockSize - 1 : buffer'[size + o] = BlockByte("gear", i, BlockEntries, o)
      /\ size = b * BlockSize
  BY BufferGrows DEF IInv, AtBlock
<1>. HIDE DEF b
<1>3. m * BlockSize \in 0 .. size
  <2>1. m < b => m * BlockSize + BlockSize <= b * BlockSize
    BY <1>1, Multiples
  <2>2. m * BlockSize \in Nat
    BY Product
  <2>3. m < b \/ m = b
    BY <1>1
  <2>4. m < b => m * BlockSize <= size
    <3>. DEFINE x == m * BlockSize
                y == b * BlockSize
    <3>1. x \in Nat /\ size = y /\ size \in Nat /\ (m < b => x + BlockSize <= y)
      BY <1>2, <2>1, <2>2
    <3>. HIDE DEF x, y
    <3>2. BlockSize \in Nat
      BY LayoutAssumption
    <3>3. m < b => x <= size
      BY <3>1, <3>2
    <3>. QED
      BY <3>3 DEF x
  <2>. QED
    BY <1>2, <2>2, <2>3, <2>4
<1>4. m * BlockSize \in DOMAIN buffer'
  <2>. DEFINE x == m * BlockSize
  <2>1. x \in 0 .. size
    BY <1>3
  <2>. HIDE DEF x
  <2>2. BlockSize \in Nat \ {0}
    BY LayoutAssumption
  <2>3. x \in 0 .. size' - 1
    BY <1>2, <2>1, <2>2
  <2>. QED
    BY <1>2, <2>3 DEF x
<1>5. CASE m < b
  <2>1. m * BlockSize + BlockSize <= b * BlockSize
    BY <1>1, <1>5, Multiples
  <2>2. m * BlockSize \in 0 .. size - 1
    <3>1. size = b * BlockSize /\ size \in Nat
      BY <1>2
    <3>. QED
      BY <1>3, <2>1, <3>1
  <2>3. buffer[m * BlockSize] = << "header", EntriesOf(m), 0 >>
    BY <1>1, <1>5 DEF IInv, Headers, b
  <2>. QED
    BY <1>2, <1>4, <2>2, <2>3
<1>6. CASE m = b
  <2>1. size + 0 = m * BlockSize /\ 0 \in 0 .. BlockSize - 1
    <3>1. size = b * BlockSize /\ size \in Nat
      BY <1>2
    <3>2. size = m * BlockSize
      BY <1>6, <3>1
    <3>3. BlockSize \in Nat /\ BlockSize > 0
      BY LayoutAssumption
    <3>4. size + 0 = size
      BY <3>1
    <3>. QED
      BY <3>2, <3>3, <3>4
  <2>2. BlockEntries \in 0 .. MaxEntryInBlock /\ BlockEntries = EntriesOf(m) /\ i \in Nat
    <3>1. BlockEntries \in 1 .. MaxEntryInBlock /\ BlockEntries = EntriesOf(b)
      BY BlockAdded DEF b
    <3>2. i \in Nat
      BY DEF IInv, Typed, TypeOK
    <3>. QED
      BY <1>6, <3>1, <3>2
  <2>3. BlockByte("gear", i, BlockEntries, 0) = << "header", BlockEntries, 0 >>
    BY <2>2, HeaderOfBlock
  <2>4. buffer'[size + 0] = BlockByte("gear", i, BlockEntries, 0)
    BY <1>2, <2>1
  <2>. QED
    BY <1>4, <2>1, <2>2, <2>3, <2>4
<1>. QED
  BY <1>1, <1>5, <1>6

LEMMA AddBlockCounted ==
  ASSUME IInv, AddBlock
  PROVE  Counted'
<1>1. /\ total' = total /\ encoder' = encoder /\ pos' = pos /\ decoded' = decoded
      /\ decoder' = decoder /\ num_of_blocks' = num_of_blocks /\ total_entries' = total_entries
  BY DEF AddBlock
<1>2. \A m : CountedUpTo(m)' = CountedUpTo(m)
  BY <1>1 DEF CountedUpTo, EntriesBefore
<1>3. BlocksLaid \in Nat /\ BlocksLaid' = BlocksLaid + 1
  BY BlockAdded
<1>4. encoder = "gear" => \E m \in 0 .. BlocksLaid : CountedUpTo(m)
  BY DEF IInv, Counted
<1>. SUFFICES ASSUME encoder = "gear" PROVE \E m \in 0 .. BlocksLaid' : CountedUpTo(m)'
  BY <1>1 DEF Counted
<1>5. PICK m \in 0 .. BlocksLaid : CountedUpTo(m)
  BY <1>4
<1>6. m \in 0 .. BlocksLaid'
  BY <1>3
<1>. QED
  BY <1>2, <1>5, <1>6

LEMMA AddBlockIInv ==
  ASSUME IInv, AddBlock
  PROVE  IInv'
<1>1. Finished'
  BY DEF AddBlock, IInv, Finished
<1>. QED
  BY <1>1, AddBlockTyped, AddBlockAtBlock, AddBlockInPlace, AddBlockHeaders, AddBlockCounted
  DEF IInv

-----------------------------------------------------------------------------
(***************************************************************************)
(* The readers.                                                            *)
(***************************************************************************)

\* What the encoder left does not change while it is read.
LEMMA EncodingKept ==
  ASSUME IInv, UNCHANGED << total, encoder, i, buffer, size, decoder >>,
         phase' \in {"encode", "done", "failed", decoder}
  PROVE  /\ Typed' /\ AtBlock' /\ EntriesInPlace' /\ Headers'
         /\ BlocksLaid' = BlocksLaid /\ \A m : EntriesBefore(m)' = EntriesBefore(m)
<1>1. Typed'
  BY DEF IInv, Typed, TypeOK
<1>2. AtBlock'
  BY DEF IInv, AtBlock, BlocksLaid
<1>3. EntriesInPlace'
  BY DEF IInv, EntriesInPlace, Laid
<1>4. Headers'
  BY DEF IInv, Headers, BlocksLaid, EntriesOf
<1>5. BlocksLaid' = BlocksLaid /\ \A m : EntriesBefore(m)' = EntriesBefore(m)
  BY DEF BlocksLaid, EntriesBefore
<1>. QED
  BY <1>1, <1>2, <1>3, <1>4, <1>5

\* A reader that stands before the end of a gear file finds the header of the
\* next block, and reading it counts that block's entries.
LEMMA NextHeader ==
  ASSUME IInv, encoder = "gear", pos < size,
         NEW m \in 0 .. BlocksLaid, pos = m * BlockSize
  PROVE  /\ m + 1 \in 0 .. BlocksLaid
         /\ pos + BlockSize = (m + 1) * BlockSize
         /\ CountsAt(pos) = {EntriesOf(m)}
         /\ EntriesOf(m) \in Nat
         /\ EntriesBefore(m) + EntriesOf(m) = EntriesBefore(m + 1)
<1>. USE LayoutAssumption, TotalsAssumption
<1>. DEFINE K == MaxEntryInBlock
            b == BlocksLaid
<1>1. /\ i \in Nat /\ total \in Nat /\ size = b * BlockSize /\ i = b * K /\ i < total + K
  BY DEF IInv, AtBlock, Typed, TypeOK
<1>2. b \in Nat
  BY <1>1, DivMod DEF BlocksLaid
<1>. HIDE DEF b
<1>3. m \in 0 .. b
  BY DEF b
<1>4. m < b
  BY <1>1, <1>2, <1>3
<1>5. m * K + K <= b * K /\ m * K \in Nat /\ (m + 1) * K = m * K + K
  BY <1>2, <1>3, <1>4, Multiples, Product
<1>6. m * K < total
  <2>. HIDE DEF K
  <2>. QED
    BY <1>1, <1>5 DEF K
<1>7. EntriesOf(m) \in Nat /\ EntriesBefore(m) + EntriesOf(m) = EntriesBefore(m + 1)
  BY <1>1, <1>5, <1>6 DEF EntriesOf, EntriesBefore
<1>8. CountsAt(pos) = {EntriesOf(m)}
  <2>1. pos \in DOMAIN buffer /\ buffer[pos] = << "header", EntriesOf(m), 0 >>
    BY <1>2, <1>3, <1>4 DEF IInv, Headers, b
  <2>. QED
    BY <2>1 DEF CountsAt
<1>9. pos + BlockSize = (m + 1) * BlockSize
  BY <1>3, Product
<1>10. m + 1 \in 0 .. BlocksLaid
  BY <1>2, <1>3, <1>4 DEF b
<1>. QED
  BY <1>7, <1>8, <1>9, <1>10

LEMMA DecodeTableBlockIInv ==
  ASSUME IInv, DecodeTableBlock
  PROVE  IInv'
<1>. USE LayoutAssumption
<1>1. /\ UNCHANGED << total, encoder, i, buffer, size, decoder, phase, total_entries >>
      /\ phase \in {"encode", "done", "failed", decoder} /\ decoder \in {"table", "vector"}
      /\ phase = "table" /\ pos < size
      /\ num_of_blocks' = num_of_blocks + 1 /\ pos' = pos + BlockSize
  BY DEF DecodeTableBlock, IInv, Typed
<1>2. /\ Typed' /\ AtBlock' /\ EntriesInPlace' /\ Headers'
      /\ BlocksLaid' = BlocksLaid /\ \A m : EntriesBefore(m)' = EntriesBefore(m)
  BY <1>1, EncodingKept
<1>3. decoder = "table"
  BY <1>1
<1>4. Counted'
  <2>. SUFFICES ASSUME encoder = "gear"
                PROVE  \E m \in 0 .. BlocksLaid : CountedUpTo(m)'
    BY <1>1, <1>2 DEF Counted
  <2>1. PICK m \in 0 .. BlocksLaid : CountedUpTo(m)
    BY DEF IInv, Counted
  <2>2. pos = m * BlockSize
    BY <2>1 DEF CountedUpTo
  <2>. DEFINE n == EntriesOf(m)
  <2>3. /\ m + 1 \in 0 .. BlocksLaid /\ pos + BlockSize = (m + 1) * BlockSize
        /\ CountsAt(pos) = {n} /\ n \in Nat
        /\ EntriesBefore(m) + n = EntriesBefore(m + 1)
    BY <1>1, <2>2, NextHeader
  <2>4. decoded' = decoded \o TableSlices(n)
    BY <2>3 DEF DecodeTableBlock
  <2>. HIDE DEF n
  <2>5. TableSlices(n) \in Seq([key : Int, value : Int]) /\ Len(TableSlices(n)) = n
    <3>1. \A j \in 1 .. n : /\ BlockSize - (j - 1) * KeyLength \in Int
                            /\ (j - 1) * ValueLength \in Int
      OBVIOUS
    <3>. QED
      BY <2>3, <3>1 DEF TableSlices
  <2>6. decoded \in Seq([key : Int, value : Int]) /\ Len(decoded) = EntriesBefore(m)
    BY <2>1 DEF CountedUpTo
  <2>7. decoded' \in Seq([key : Int, value : Int]) /\ Len(decoded') = EntriesBefore(m + 1)
    <3>. DEFINE S == [key : Int, value : Int]
                t == TableSlices(n)
    <3>1. decoded \in Seq(S) /\ t \in Seq(S) /\ decoded' = decoded \o t
      BY <2>4, <2>5, <2>6
    <3>. HIDE DEF S, t
    <3>2. decoded' \in Seq(S) /\ Len(decoded') = Len(decoded) + Len(t)
      BY <3>1, Appended
    <3>. QED
      BY <2>3, <2>5, <2>6, <3>2 DEF S, t
  <2>8. num_of_blocks' = m + 1
    BY <1>1, <1>3, <2>1 DEF CountedUpTo
  <2>9. CountedUpTo(m + 1)'
    BY <1>1, <1>2, <1>3, <2>3, <2>7, <2>8 DEF CountedUpTo
  <2>. QED
    BY <2>3, <2>9
<1>5. Finished'
  BY <1>1 DEF IInv, Finished
<1>. QED
  BY <1>2, <1>4, <1>5 DEF IInv

LEMMA DecodeVectorBlockIInv ==
  ASSUME IInv, DecodeVectorBlock
  PROVE  IInv'
<1>. USE LayoutAssumption, StrayAssumption
<1>1. /\ UNCHANGED << total, encoder, i, buffer, size, decoder, phase, num_of_blocks >>
      /\ phase \in {"encode", "done", "failed", decoder} /\ decoder \in {"table", "vector"}
      /\ phase = "vector" /\ pos < size
      /\ pos' = pos + BlockSize
  BY DEF DecodeVectorBlock, IInv, Typed
<1>2. /\ Typed' /\ AtBlock' /\ EntriesInPlace' /\ Headers'
      /\ BlocksLaid' = BlocksLaid /\ \A m : EntriesBefore(m)' = EntriesBefore(m)
  BY <1>1, EncodingKept
<1>3. decoder = "vector"
  BY <1>1
<1>4. Counted'
  <2>. SUFFICES ASSUME encoder = "gear"
                PROVE  \E m \in 0 .. BlocksLaid : CountedUpTo(m)'
    BY <1>1, <1>2 DEF Counted
  <2>1. PICK m \in 0 .. BlocksLaid : CountedUpTo(m)
    BY DEF IInv, Counted
  <2>2. pos = m * BlockSize
    BY <2>1 DEF CountedUpTo
  <2>. DEFINE n == EntriesOf(m)
  <2>3. /\ m + 1 \in 0 .. BlocksLaid /\ pos + BlockSize = (m + 1) * BlockSize
        /\ CountsAt(pos) = {n} /\ n \in Nat
        /\ EntriesBefore(m) + n = EntriesBefore(m + 1)
    BY <1>1, <2>2, NextHeader
  <2>4. decoded' = decoded \o VectorSlices(n) /\ total_entries' = (total_entries + n) % UInt32
    BY <2>3 DEF DecodeVectorBlock
  <2>. HIDE DEF n
  <2>5. VectorSlices(n) \in Seq([key : Int, value : Int]) /\ Len(VectorSlices(n)) = n
    <3>. DEFINE h == HeaderRead
                k == KeyLength \div 2
    <3>1. h \in Int /\ k \in Int
      BY DEF HeaderRead
    <3>2. pos \in Int
      BY <2>2
    <3>3. VectorSlices(n) = [j \in 1 .. n |-> [key |-> pos + h + BlockSize - (j - 1) * k + k,
                                               value |-> pos + h + (j - 1) * ValueLength]]
      BY DEF VectorSlices
    <3>. HIDE DEF h, k
    <3>4. \A j \in 1 .. n : /\ pos + h + BlockSize - (j - 1) * k + k \in Int
                            /\ pos + h + (j - 1) * ValueLength \in Int
      BY <3>1, <3>2
    <3>. QED
      BY <2>3, <3>3, <3>4
  <2>6. decoded \in Seq([key : Int, value : Int]) /\ Len(decoded) = EntriesBefore(m)
    BY <2>1 DEF CountedUpTo
  <2>7. /\ decoded' \in Seq([key : Int, value : Int]) /\ Len(decoded') = EntriesBefore(m + 1)
        /\ Len(decoded') = Len(decoded) + n /\ Len(decoded) \in Nat
    <3>. DEFINE S == [key : Int, value : Int]
                t == VectorSlices(n)
    <3>1. decoded \in Seq(S) /\ t \in Seq(S) /\ decoded' = decoded \o t
      BY <2>4, <2>5, <2>6
    <3>. HIDE DEF S, t
    <3>2. decoded' \in Seq(S) /\ Len(decoded') = Len(decoded) + Len(t) /\ Len(decoded) \in Nat
      BY <3>1, Appended
    <3>. QED
      BY <2>3, <2>5, <2>6, <3>2 DEF S, t
  <2>8. PICK s \in Stray : total_entries = (s + Len(decoded)) % UInt32
    BY <1>3, <2>1 DEF CountedUpTo
  <2>9. total_entries' = (s + Len(decoded')) % UInt32
    <3>. DEFINE a == s + Len(decoded)
    <3>1. s \in Nat /\ a \in Nat /\ UInt32 \in Nat \ {0}
      BY <2>7
    <3>2. a + n = s + Len(decoded')
      <4>. DEFINE k == Len(decoded)
                  l == Len(decoded')
      <4>1. k \in Nat /\ l = k + n /\ n \in Nat
        BY <2>3, <2>7
      <4>. HIDE DEF k, l
      <4>2. (s + k) + n = s + l
        BY <3>1, <4>1
      <4>. QED
        BY <4>2 DEF k, l
    <3>3. total_entries = a % UInt32
      BY <2>8
    <3>. HIDE DEF a
    <3>4. ((a % UInt32) + n) % UInt32 = (a + n) % UInt32
      BY <2>3, <3>1, SumModulo
    <3>. QED
      BY <2>4, <3>2, <3>3, <3>4
  <2>10. CountedUpTo(m + 1)'
    BY <1>1, <1>2, <1>3, <2>3, <2>7, <2>9 DEF CountedUpTo
  <2>. QED
    BY <2>3, <2>10
<1>5. Finished'
  BY <1>1 DEF IInv, Finished
<1>. QED
  BY <1>2, <1>4, <1>5 DEF IInv

LEMMA PhaseDoneIInv ==
  ASSUME IInv, EncodingDone \/ TableDone \/ VectorDone
  PROVE  IInv'
<1>1. /\ UNCHANGED << total, encoder, i, buffer, size, decoder, pos, num_of_blocks, decoded,
                      total_entries >>
      /\ phase' \in {"encode", "done", "failed", decoder}
  BY DEF EncodingDone, TableDone, VectorDone
<1>2. /\ Typed' /\ AtBlock' /\ EntriesInPlace' /\ Headers'
      /\ BlocksLaid' = BlocksLaid /\ \A m : EntriesBefore(m)' = EntriesBefore(m)
  BY <1>1, EncodingKept
<1>3. Counted'
  BY <1>1, <1>2 DEF IInv, Counted, CountedUpTo
<1>4. Finished'
  BY DEF EncodingDone, TableDone, VectorDone, IInv, Finished, Typed
<1>. QED
  BY <1>2, <1>3, <1>4 DEF IInv

LEMMA NextIInv == IInv /\ [Next]_vars => IInv'
<1>. SUFFICES ASSUME IInv, [Next]_vars PROVE IInv'
  OBVIOUS
<1>1. CASE AddBlock
  BY <1>1, AddBlockIInv
<1>2. CASE EncodingDone \/ TableDone \/ VectorDone
  BY <1>2, PhaseDoneIInv
<1>3. CASE DecodeTableBlock
  BY <1>3, DecodeTableBlockIInv
<1>4. CASE DecodeVectorBlock
  BY <1>4, DecodeVectorBlockIInv
<1>5. CASE UNCHANGED vars
  <2>1. /\ UNCHANGED << total, encoder, i, buffer, size, decoder, pos, num_of_blocks, decoded,
                        total_entries, phase >>
        /\ phase' \in {"encode", "done", "failed", decoder}
    BY <1>5 DEF vars, IInv, Typed
  <2>2. /\ Typed' /\ AtBlock' /\ EntriesInPlace' /\ Headers'
        /\ BlocksLaid' = BlocksLaid /\ \A m : EntriesBefore(m)' = EntriesBefore(m)
    BY <2>1, EncodingKept
  <2>3. Counted'
    BY <2>1, <2>2 DEF IInv, Counted, CountedUpTo
  <2>4. Finished'
    BY <2>1 DEF IInv, Finished
  <2>. QED
    BY <2>2, <2>3, <2>4 DEF IInv
<1>. QED
  BY <1>1, <1>2, <1>3, <1>4, <1>5 DEF Next

-----------------------------------------------------------------------------
(***************************************************************************)
(* The theorems.                                                           *)
(***************************************************************************)

\* A gear file is a whole number of blocks of exactly BLOCK_SIZE bytes, for every
\* table size and every geometry whose full block fits (GearTable::ToDiskFormat).
THEOREM FilesAreWholeBlocks == Spec => []WholeBlocks
<1>1. IInv => WholeBlocks
  BY DEF IInv, AtBlock, Typed, WholeBlocks
<1>. QED
  BY InitIInv, NextIInv, <1>1, PTL DEF Spec

\* Every entry of a table is, from the turn that lays it out on, where its number
\* says (GearBlock::AddEntry, ComposeResults).
THEOREM EntriesStayInPlace == Spec => []EntriesInPlace
<1>1. IInv => EntriesInPlace
  BY DEF IInv
<1>. QED
  BY InitIInv, NextIInv, <1>1, PTL DEF Spec

\* A reader at the end of a gear file has read all its blocks.
LEMMA AllRead ==
  ASSUME IInv, phase \in {"done", "failed"}, encoder = "gear"
  PROVE  CountedUpTo(BlocksLaid) /\ Len(decoded) = total
<1>1. PICK m \in 0 .. BlocksLaid : CountedUpTo(m)
  BY DEF IInv, Counted
<1>2. /\ i \in Nat /\ total \in Nat /\ i >= total /\ i = BlocksLaid * MaxEntryInBlock
      /\ pos >= size
  BY TotalsAssumption DEF IInv, Finished, AtBlock, Typed, TypeOK
<1>3. pos = m * BlockSize
  BY <1>1 DEF CountedUpTo
<1>4. ~(pos < size)
  <2>1. size \in Nat /\ pos \in Int
    BY <1>3, LayoutAssumption DEF IInv, Typed, TypeOK
  <2>. QED
    BY <1>2, <2>1
<1>5. m = BlocksLaid
  <2>1. BlocksLaid \in Nat
    BY <1>2, DivMod, LayoutAssumption DEF BlocksLaid
  <2>2. size = BlocksLaid * BlockSize
    BY DEF IInv, AtBlock
  <2>3. m < BlocksLaid => m * BlockSize + BlockSize <= BlocksLaid * BlockSize
    BY <2>1, Multiples, LayoutAssumption
  <2>4. m * BlockSize \in Nat /\ BlocksLaid * BlockSize \in Nat /\ BlockSize \in Nat \ {0}
    BY <2>1, Product, LayoutAssumption
  <2>. QED
    BY <1>3, <1>4, <2>1, <2>2, <2>3, <2>4
<1>6. Len(decoded) = total
  BY <1>1, <1>2, <1>5 DEF CountedUpTo, EntriesBefore
<1>. QED
  BY <1>1, <1>5, <1>6

\* Table::FromOnBoardBlocks and ComposeEntryVector deliver every entry of a gear
\* file, whatever its size.
THEOREM ReadersCountAll == Spec => []CountsAgree
<1>1. IInv => CountsAgree
  <2>. SUFFICES ASSUME IInv, phase \in {"done", "failed"}, encoder = "gear"
                PROVE  /\ Len(decoded) = total
                       /\ decoder = "table" => num_of_blocks = BlocksLaid
    BY DEF CountsAgree
  <2>. QED
    BY AllRead DEF CountedUpTo
<1>. QED
  BY InitIInv, NextIInv, <1>1, PTL DEF Spec

\* What the comparison at the end of ComposeEntryVector has found.
LEMMA AssertionOutcome ==
  ASSUME \A n \in Totals : n < UInt32, IInv, phase \in {"done", "failed"},
         encoder = "gear", decoder = "vector"
  PROVE  \E s \in Stray : total_entries = (s + total) % UInt32 /\ Len(decoded) = total
BY AllRead DEF CountedUpTo

\* If uninitialised words happened to be 0, as they would be if total_entries were
\* initialised, and no table had 2^32 entries, the assertion of ComposeEntryVector
\* would hold for every gear file: the sum over the blocks is right.
THEOREM ZeroedCounterPasses ==
  ASSUME Stray = {0}, \A n \in Totals : n < UInt32
  PROVE  Spec => []AssertionHolds
<1>1. IInv => AssertionHolds
  <2>. SUFFICES ASSUME IInv, phase = "failed", encoder = "gear" PROVE FALSE
    BY DEF AssertionHolds
  <2>1. decoder = "vector" /\ Len(decoded) # total_entries
    BY DEF IInv, Finished
  <2>2. total_entries = (0 + total) % UInt32 /\ Len(decoded) = total
    BY <2>1, AssertionOutcome
  <2>3. total \in 0 .. UInt32 - 1 /\ UInt32 \in Nat
    BY TotalsAssumption, LayoutAssumption DEF IInv, Typed, TypeOK
  <2>. QED
    BY <2>1, <2>2, <2>3
<1>. QED
  BY InitIInv, NextIInv, <1>1, PTL DEF Spec

\* And if they are not 0, the assertion (on_board_format.h:73) fails for every
\* gear file that ComposeEntryVector is given, the empty one included.
THEOREM StrayCounterFails ==
  ASSUME 0 \notin Stray, \A n \in Totals : n < UInt32
  PROVE  Spec => [](encoder = "gear" /\ decoder = "vector" => phase # "done")
<1>1. IInv => (encoder = "gear" /\ decoder = "vector" => phase # "done")
  <2>. SUFFICES ASSUME IInv, phase = "done", encoder = "gear", decoder = "vector" PROVE FALSE
    OBVIOUS
  <2>1. PICK s \in Stray : total_entries = (s + total) % UInt32 /\ Len(decoded) = total
    BY AssertionOutcome
  <2>2. Len(decoded) = total_entries
    BY DEF IInv, Finished
  <2>3. total \in 0 .. UInt32 - 1 /\ UInt32 \in Nat /\ s \in 1 .. UInt32 - 1
    BY TotalsAssumption, LayoutAssumption, StrayAssumption DEF IInv, Typed, TypeOK
  <2>4. (s + total) % UInt32 # total
    <3>1. CASE s + total < UInt32
      BY <2>3, <3>1
    <3>2. CASE s + total >= UInt32
      <4>1. s + total - UInt32 \in 0 .. UInt32 - 1
        BY <2>3, <3>2
      <4>2. (s + total) % UInt32 = s + total - UInt32
        BY <2>3, <3>2, <4>1
      <4>. QED
        BY <2>3, <4>2
    <3>. QED
      BY <2>3, <3>1, <3>2
  <2>. QED
    BY <2>1, <2>2, <2>4
<1>. QED
  BY InitIInv, NextIInv, <1>1, PTL DEF Spec
=============================================================================
