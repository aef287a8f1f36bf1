--------------------------- MODULE IterKeys_proofs ---------------------------
(***************************************************************************)
(* An IterKey holds the key its calls built, inside its buffers, for every *)
(* size of the inline buffer and every set of keys.                        *)
(***************************************************************************)
EXTENDS IterKeys, TLAPS

-----------------------------------------------------------------------------
(***************************************************************************)
(* Sequences of cells.                                                     *)
(***************************************************************************)
Cells == Seq(Nat)

LEMMA CellsOf ==
  ASSUME NEW s \in Cells
  PROVE  /\ Len(s) \in Nat /\ DOMAIN s = 1 .. Len(s)
         /\ \A c \in 1 .. Len(s) : s[c] \in Nat
         /\ s = [c \in 1 .. Len(s) |-> s[c]]
BY DEF Cells

\* A function from 1 .. n to cells is a sequence of n cells.
LEMMA FunctionIsCells ==
  ASSUME NEW n \in Nat, NEW f, f = [c \in 1 .. n |-> f[c]], \A c \in 1 .. n : f[c] \in Nat
  PROVE  f \in Cells /\ Len(f) = n
<1>1. f \in [1 .. n -> Nat]
  OBVIOUS
<1>2. f \in Seq(Nat)
  BY <1>1
<1>. QED
  BY <1>1, <1>2 DEF Cells

LEMMA NoCells == << >> \in Cells /\ Len(<< >>) = 0
BY DEF Cells

\* Two sequences of cells one after the other.
LEMMA Joined ==
  ASSUME NEW s \in Cells, NEW t \in Cells
  PROVE  /\ s \o t \in Cells /\ Len(s \o t) = Len(s) + Len(t)
         /\ \A c \in 1 .. Len(s) : (s \o t)[c] = s[c]
         /\ \A c \in 1 .. Len(t) : (s \o t)[Len(s) + c] = t[c]
BY DEF Cells

\* The first n cells.
LEMMA FirstCells ==
  ASSUME NEW s \in Cells, NEW n \in 0 .. Len(s)
  PROVE  /\ SubSeq(s, 1, n) \in Cells /\ Len(SubSeq(s, 1, n)) = n
         /\ \A c \in 1 .. n : SubSeq(s, 1, n)[c] = s[c]
BY DEF Cells

\* Cut reads n cells, and they are those of the area while it has that many.
LEMMA CutCells ==
  ASSUME NEW s \in Cells, NEW n \in Nat
  PROVE  /\ Cut(s, n) \in Cells /\ Len(Cut(s, n)) = n
         /\ n <= Len(s) => \A c \in 1 .. n : Cut(s, n)[c] = s[c]
<1>. DEFINE f == Cut(s, n)
<1>1. Len(s) \in Nat /\ \A c \in 1 .. Len(s) : s[c] \in Nat
  BY CellsOf
<1>2. f = [c \in 1 .. n |-> IF c <= Len(s) THEN s[c] ELSE Garbage]
  BY DEF Cut
<1>. HIDE DEF f
<1>3. \A c \in 1 .. n : f[c] \in Nat /\ (c <= Len(s) => f[c] = s[c])
  BY <1>1, <1>2 DEF Garbage
<1>4. f = [c \in 1 .. n |-> f[c]]
  BY <1>2
<1>5. f \in Cells /\ Len(f) = n
  BY <1>3, <1>4, FunctionIsCells
<1>6. n <= Len(s) => \A c \in 1 .. n : f[c] = s[c]
  BY <1>1, <1>3
<1>. QED
  BY <1>5, <1>6 DEF f

\* Put writes the new cells behind the first at cells, which it keeps.
LEMMA PutCells ==
  ASSUME NEW s \in Cells, NEW t \in Cells, NEW at \in Nat
  PROVE  /\ Put(s, at, t) \in Cells
         /\ Len(Put(s, at, t)) = IF Len(s) > at + Len(t) THEN Len(s) ELSE at + Len(t)
         /\ \A c \in 1 .. Len(t) : Put(s, at, t)[at + c] = t[c]
         /\ \A c \in 1 .. at : c <= Len(s) => Put(s, at, t)[c] = s[c]
<1>. DEFINE f == Put(s, at, t)
            n == IF Len(s) > at + Len(t) THEN Len(s) ELSE at + Len(t)
<1>1. /\ Len(s) \in Nat /\ \A c \in 1 .. Len(s) : s[c] \in Nat
      /\ Len(t) \in Nat /\ \A c \in 1 .. Len(t) : t[c] \in Nat
  BY CellsOf
<1>2. n \in Nat /\ n >= at + Len(t) /\ n >= Len(s)
  BY <1>1
<1>3. f = [c \in 1 .. n |-> IF c > at /\ c <= at + Len(t) THEN t[c - at]
                            ELSE IF c <= Len(s) THEN s[c] ELSE Garbage]
  BY DEF Put
<1>. HIDE DEF f, n
<1>4. \A c \in 1 .. n : f[c] \in Nat
  BY <1>1, <1>3 DEF Garbage
<1>5. f = [c \in 1 .. n |-> f[c]]
  BY <1>3
<1>6. f \in Cells /\ Len(f) = n
  BY <1>2, <1>4, <1>5, FunctionIsCells
<1>7. ASSUME NEW c \in 1 .. Len(t) PROVE f[at + c] = t[c]
  <2>1. at + c \in 1 .. n /\ at + c > at /\ at + c <= at + Len(t) /\ (at + c) - at = c
    BY <1>1, <1>2
  <2>. QED
    BY <1>3, <2>1
<1>8. ASSUME NEW c \in 1 .. at, c <= Len(s) PROVE f[c] = s[c]
  <2>1. c \in 1 .. n /\ ~(c > at)
    BY <1>1, <1>2, <1>8
  <2>. QED
    BY <1>3, <1>8, <2>1
<1>. QED
  BY <1>6, <1>7, <1>8 DEF f, n

-----------------------------------------------------------------------------
(***************************************************************************)
(* The inductive invariant.  The buffers are in order: the buffer in use   *)
(* is as large as buf_size_ says, and is the only one on the heap.  While  *)
(* the client may go on from it, the key is the whole of its value and can *)
(* be read in full.                                                        *)
(***************************************************************************)
Buffers ==
  /\ buf \in {"space", "heap"}
  /\ buf_size \in SpaceSize .. MaxSize + SpaceSize
  /\ space \in Cells
  /\ heap \in Cells
  /\ OneBuffer
  /\ Len(own) <= buf_size

Shape ==
  /\ Buffers
  /\ key \in {"space", "heap", "client", "freed"}
  /\ key_size \in 0 .. MaxSize
  /\ is_user_key \in BOOLEAN
  /\ outside \in Cells
  /\ ~fault

Held ==
  known => /\ value \in Cells
           /\ key_size = Len(value)
           /\ Readable(key_size)
           /\ \A c \in 1 .. key_size : Memory(key)[c] = value[c]

IInv == Shape /\ Held

LEMMA MemoryCells ==
  ASSUME Shape
  PROVE  Memory(key) \in Cells /\ own \in Cells /\ Memory(buf) = own
<1>1. << >> \in Cells
  BY NoCells
<1>. QED
  BY <1>1 DEF Shape, Buffers, Memory, own

-----------------------------------------------------------------------------
(***************************************************************************)
(* The buffer.                                                             *)
(***************************************************************************)

\* EnlargeBufferIfNeeded(n) leaves a buffer with room for n cells.
LEMMA EnlargedFits ==
  ASSUME Shape, NEW n \in 0 .. MaxSize
  PROVE  /\ Enlarged(n).buf \in {"space", "heap"}
         /\ Enlarged(n).size \in SpaceSize .. MaxSize + SpaceSize
         /\ n <= Enlarged(n).size
         /\ Enlarged(n).own \in Cells /\ Len(Enlarged(n).own) <= Enlarged(n).size
         /\ Enlarged(n).blocks = IF Enlarged(n).buf = "heap" THEN 1 ELSE 0
         /\ n <= buf_size => Enlarged(n).own = own
<1>. USE SizeAssumption
<1>1. own \in Cells
  BY MemoryCells
<1>2. buf \in {"space", "heap"} /\ buf_size \in SpaceSize .. MaxSize + SpaceSize
      /\ blocks = (IF buf = "heap" THEN 1 ELSE 0) /\ Len(own) <= buf_size
  BY DEF Shape, Buffers, OneBuffer
<1>3. CASE n <= buf_size
  <2>1. Enlarged(n) = [buf |-> buf, size |-> buf_size, own |-> own, blocks |-> blocks]
    BY <1>3 DEF Enlarged
  <2>. QED
    BY <1>1, <1>2, <1>3, <2>1
<1>4. CASE ~(n <= buf_size)
  <2>1. Enlarged(n) = [buf |-> "heap", size |-> n, own |-> << >>,
                       blocks |-> blocks - (IF buf = "heap" THEN 1 ELSE 0) + 1]
    BY <1>4 DEF Enlarged
  <2>2. blocks - (IF buf = "heap" THEN 1 ELSE 0) + 1 = 1
    BY <1>2
  <2>3. n \in SpaceSize .. MaxSize + SpaceSize
    BY <1>2, <1>4
  <2>. QED
    BY <1>4, <2>1, <2>2, <2>3, NoCells
<1>. QED
  BY <1>3, <1>4

\* Contents that fit the buffer may be written to it.
LEMMA Taken ==
  ASSUME NEW b, NEW contents \in Cells, Shape,
         b.buf \in {"space", "heap"}, b.size \in SpaceSize .. MaxSize + SpaceSize,
         b.blocks = IF b.buf = "heap" THEN 1 ELSE 0,
         Len(contents) <= b.size,
         TakeBuffer(b, contents)
  PROVE  Buffers' /\ own' = contents /\ Memory(buf)' = contents /\ buf' \in {"space", "heap"}
<1>1. /\ buf' = b.buf /\ buf_size' = b.size /\ blocks' = b.blocks
      /\ space' = (IF b.buf = "space" THEN contents ELSE space)
      /\ heap' = (IF b.buf = "heap" THEN contents ELSE heap)
  BY DEF TakeBuffer
<1>2. Memory(buf)' = contents
  BY <1>1 DEF Memory
<1>3. own' = contents
  BY <1>2 DEF own
<1>4. space' \in Cells /\ heap' \in Cells
  BY <1>1 DEF Shape, Buffers
<1>5. OneBuffer'
  BY <1>1 DEF OneBuffer
<1>. QED
  BY <1>1, <1>2, <1>3, <1>4, <1>5 DEF Buffers

LEMMA Kept ==
  ASSUME Shape, KeepBuffer
  PROVE  Buffers'
BY DEF Shape, Buffers, KeepBuffer, OneBuffer, own, Memory

\* Memory that is not written keeps its cells.
LEMMA MemoryKept ==
  ASSUME NEW p, UNCHANGED << space, heap, outside >>
  PROVE  Memory(p)' = Memory(p)
BY DEF Memory

\* The new cells are in the buffer, and the key points to them.
LEMMA CopiedIn ==
  ASSUME Shape, NEW cells \in Cells, NEW readable \in BOOLEAN, Len(cells) <= MaxSize,
         CopyIn(cells, readable)
  PROVE  /\ Buffers' /\ key' \in {"space", "heap"} /\ key_size' = Len(cells)
         /\ key_size' \in 0 .. MaxSize /\ outside' \in Cells
         /\ readable => ~fault'
         /\ Readable(key_size)'
         /\ \A c \in 1 .. key_size' : Memory(key)'[c] = cells[c]
<1>. DEFINE n == Len(cells)
            b == Enlarged(n)
            contents == Put(b.own, 0, cells)
<1>1. n \in 0 .. MaxSize
  BY CellsOf
<1>2. /\ b.buf \in {"space", "heap"} /\ b.size \in SpaceSize .. MaxSize + SpaceSize
      /\ n <= b.size /\ b.own \in Cells /\ Len(b.own) <= b.size
      /\ b.blocks = IF b.buf = "heap" THEN 1 ELSE 0
  BY <1>1, EnlargedFits
<1>3. TakeBuffer(b, contents) /\ key' = buf' /\ key_size' = n /\ outside' = << >>
      /\ fault' = (fault \/ ~readable)
  BY DEF CopyIn
<1>. HIDE DEF b
<1>4. /\ contents \in Cells
      /\ Len(contents) = IF Len(b.own) > 0 + n THEN Len(b.own) ELSE 0 + n
      /\ \A c \in 1 .. n : contents[0 + c] = cells[c]
  BY <1>2, PutCells
<1>5. Len(contents) <= b.size /\ n <= Len(contents) /\ \A c \in 1 .. n : contents[c] = cells[c]
  <2>. HIDE DEF contents
  <2>1. Len(b.own) \in Nat /\ b.size \in Nat
    BY <1>2, CellsOf, SizeAssumption
  <2>. HIDE DEF n
  <2>. QED BY <1>1, <1>2, <1>4, <2>1
<1>. HIDE DEF contents
<1>6. Buffers' /\ Memory(buf)' = contents /\ buf' \in {"space", "heap"}
  BY <1>2, <1>3, <1>4, <1>5, Taken
<1>7. Memory(key)' = contents
  BY <1>3, <1>6 DEF Memory
<1>8. Readable(key_size)'
  BY <1>3, <1>5, <1>7 DEF Readable
<1>. QED
  BY <1>1, <1>3, <1>5, <1>6, <1>7, <1>8, NoCells DEF Shape

-----------------------------------------------------------------------------
(***************************************************************************)
(* The calls.                                                              *)
(***************************************************************************)
LEMMA InitIInv == Init => IInv
<1>. SUFFICES ASSUME Init PROVE IInv
  OBVIOUS
<1>1. own = << >> /\ Memory(key) = << >>
  BY DEF Init, own, Memory
<1>2. SpaceSize \in Nat /\ MaxSize \in Nat
  BY SizeAssumption
<1>3. Buffers
  BY <1>1, <1>2, NoCells DEF Init, Buffers, OneBuffer
<1>4. Shape
  BY <1>2, <1>3, NoCells DEF Init, Shape
<1>5. Held
  BY <1>1, NoCells DEF Init, Held, Readable
<1>. QED
  BY <1>4, <1>5 DEF IInv

\* A key whose cells are copied to the buffer, and what the client means by it.
LEMMA CopyIInv ==
  ASSUME IInv, NEW cells \in Cells, Len(cells) <= MaxSize, NEW readable \in BOOLEAN,
         CopyIn(cells, readable), readable,
         value' \in Cells, Len(value') = Len(cells),
         \A c \in 1 .. Len(cells) : value'[c] = cells[c],
         is_user_key' \in BOOLEAN
  PROVE  IInv'
<1>1. /\ Buffers' /\ key' \in {"space", "heap"} /\ key_size' = Len(cells)
      /\ key_size' \in 0 .. MaxSize /\ outside' \in Cells
      /\ ~fault'
      /\ Readable(key_size)'
      /\ \A c \in 1 .. key_size' : Memory(key)'[c] = cells[c]
  BY CopiedIn DEF IInv
<1>2. Shape'
  BY <1>1 DEF Shape
<1>3. Held'
  BY <1>1 DEF Held
<1>. QED
  BY <1>2, <1>3 DEF IInv

LEMMA SetIsUserKeyIInv ==
  ASSUME IInv, NEW u \in BOOLEAN, SetIsUserKey(u)
  PROVE  IInv'
<1>1. /\ UNCHANGED << key, key_size, outside, fault, value, known >>
      /\ KeepBuffer /\ is_user_key' \in BOOLEAN /\ UNCHANGED << space, heap, outside >>
  BY DEF SetIsUserKey, KeepBuffer
<1>2. Buffers'
  BY <1>1, Kept DEF IInv
<1>3. Memory(key)' = Memory(key)
  BY <1>1 DEF Memory
<1>4. Held'
  BY <1>1, <1>3 DEF IInv, Held, Readable
<1>. QED
  BY <1>1, <1>2, <1>4 DEF IInv, Shape

LEMMA ClearIInv ==
  ASSUME IInv, Clear
  PROVE  IInv'
<1>1. /\ UNCHANGED << key, is_user_key, outside, fault >> /\ UNCHANGED << space, heap, outside >>
      /\ KeepBuffer /\ key_size' = 0 /\ value' = << >>
  BY DEF Clear, KeepBuffer
<1>2. Buffers'
  BY <1>1, Kept DEF IInv
<1>3. Memory(key)' = Memory(key) /\ Len(Memory(key)) \in Nat
  BY <1>1, MemoryCells, CellsOf DEF Memory, IInv
<1>4. Held'
  BY <1>1, <1>3, NoCells DEF Held, Readable
<1>5. 0 \in 0 .. MaxSize
  BY SizeAssumption
<1>. QED
  BY <1>1, <1>2, <1>4, <1>5 DEF IInv, Shape

LEMMA UserKeyCells ==
  ASSUME NEW k \in UserKeys
  PROVE  k \in Cells /\ Len(k) <= MaxSize /\ Len(k) \in 0 .. MaxSize
<1>1. k \in Cells
  BY SizeAssumption DEF Cells
<1>. QED
  BY <1>1, SizeAssumption, CellsOf

LEMMA FooterCells ==
  ASSUME NEW f \in Footers
  PROVE  f \in Cells /\ Len(f) = FooterLength /\ FooterLength \in Nat \ {0}
BY SizeAssumption DEF Cells

LEMMA SetCopiedIInv ==
  ASSUME IInv, NEW k \in UserKeys, NEW u \in BOOLEAN, SetCopied(k, u)
  PROVE  IInv'
<1>1. CopyIn(k, TRUE) /\ value' = k /\ is_user_key' \in BOOLEAN
  BY DEF SetCopied
<1>2. k \in Cells /\ Len(k) <= MaxSize
  BY UserKeyCells
<1>. QED
  BY <1>1, <1>2, CopyIInv

LEMMA SetPinnedIInv ==
  ASSUME IInv, NEW k \in UserKeys, NEW u \in BOOLEAN, SetPinned(k, u)
  PROVE  IInv'
<1>1. /\ key' = "client" /\ outside' = k /\ key_size' = Len(k) /\ value' = k
      /\ is_user_key' \in BOOLEAN /\ KeepBuffer /\ UNCHANGED fault
  BY DEF SetPinned
<1>2. k \in Cells /\ Len(k) \in 0 .. MaxSize
  BY UserKeyCells
<1>3. Buffers'
  BY <1>1, Kept DEF IInv
<1>4. Memory(key)' = k
  BY <1>1 DEF Memory
<1>5. Held'
  BY <1>1, <1>2, <1>4 DEF Held, Readable
<1>. QED
  BY <1>1, <1>2, <1>3, <1>5 DEF IInv, Shape

LEMMA SetInternalKeyPartsIInv ==
  ASSUME IInv, NEW p \in UserKeys, NEW u \in UserKeys, NEW t \in UserKeys, NEW f \in Footers,
         Len(p) + Len(u) + Len(t) + FooterLength <= MaxSize,
         SetInternalKeyParts(p, u, t, f)
  PROVE  IInv'
<1>. DEFINE cells == p \o u \o t \o f
<1>1. p \in Cells /\ u \in Cells /\ t \in Cells /\ f \in Cells /\ Len(f) = FooterLength
  BY UserKeyCells, FooterCells
<1>2. p \o u \in Cells /\ Len(p \o u) = Len(p) + Len(u)
  BY <1>1, Joined
<1>3. p \o u \o t \in Cells /\ Len(p \o u \o t) = Len(p) + Len(u) + Len(t)
  BY <1>1, <1>2, Joined
<1>4. cells \in Cells /\ Len(cells) = Len(p) + Len(u) + Len(t) + FooterLength
  BY <1>1, <1>3, Joined
<1>5. CopyIn(cells, TRUE) /\ value' = cells /\ is_user_key' = FALSE
  BY DEF SetInternalKeyParts
<1>. HIDE DEF cells
<1>. QED
  BY <1>4, <1>5, CopyIInv

LEMMA ConvertInPlaceIInv ==
  ASSUME IInv, NEW f \in Footers, ConvertInPlace(f)
  PROVE  IInv'
<1>. DEFINE n == IF is_user_key THEN key_size ELSE key_size - FooterLength
            m == Cut(Memory(key), n)
            cells == m \o f
            v == SubSeq(value, 1, n)
<1>1. /\ known /\ (is_user_key \/ key_size >= FooterLength)
      /\ n + FooterLength <= MaxSize
      /\ CopyIn(cells, Readable(n)) /\ is_user_key' = FALSE /\ value' = v \o f
  BY DEF ConvertInPlace
<1>2. /\ value \in Cells /\ key_size = Len(value) /\ Readable(key_size) /\ key_size \in Nat
      /\ \A c \in 1 .. key_size : Memory(key)[c] = value[c]
      /\ Memory(key) \in Cells
  BY <1>1, MemoryCells, CellsOf DEF IInv, Held
<1>3. f \in Cells /\ Len(f) = FooterLength /\ FooterLength \in Nat
  BY FooterCells
<1>4. n \in 0 .. key_size
  BY <1>1, <1>2, <1>3
<1>. HIDE DEF n
<1>5. n \in Nat /\ n <= key_size /\ Readable(n) /\ n <= Len(Memory(key))
  BY <1>2, <1>4, CellsOf DEF Readable
<1>6. m \in Cells /\ Len(m) = n /\ \A c \in 1 .. n : m[c] = value[c]
  BY <1>2, <1>5, CutCells
<1>7. v \in Cells /\ Len(v) = n /\ \A c \in 1 .. n : v[c] = value[c]
  BY <1>2, <1>4, FirstCells
<1>8. m = v
  <2>. HIDE DEF m, v
  <2>1. m = [c \in 1 .. n |-> m[c]] /\ v = [c \in 1 .. n |-> v[c]]
    BY <1>6, <1>7, CellsOf
  <2>. QED
    BY <1>6, <1>7, <2>1
<1>9. cells \in Cells /\ Len(cells) = n + FooterLength
  BY <1>3, <1>6, Joined
<1>10. value' = cells
  BY <1>1, <1>8
<1>. HIDE DEF cells
<1>11. CopyIn(cells, TRUE)
  <2>1. Readable(n) = TRUE
    BY <1>5 DEF Readable
  <2>. QED
    BY <1>1, <2>1
<1>. QED
  BY <1>1, <1>9, <1>10, <1>11, CopyIInv

\* The bytes that stay are in the buffer before the new ones are appended,
\* whether they were there or are brought in.
LEMMA TrimAppendIInv ==
  ASSUME IInv, NEW shared \in 0 .. MaxSize, NEW k \in UserKeys, TrimAppend(shared, k)
  PROVE  IInv'
<1>. DEFINE total == shared + Len(k)
            b == Enlarged(total)
            kept == Cut(Memory(key), shared)
            base == IF IsKeyPinned \/ total > buf_size THEN Put(b.own, 0, kept) ELSE own
            contents == Put(base, shared, k)
            v == SubSeq(value, 1, shared)
<1>1. /\ known /\ shared <= key_size /\ total <= MaxSize
      /\ TakeBuffer(b, contents) /\ key' = buf' /\ key_size' = total /\ outside' = << >>
      /\ fault' = (fault \/ ~Readable(shared)) /\ value' = v \o k
      /\ UNCHANGED is_user_key
  BY DEF TrimAppend
<1>2. /\ value \in Cells /\ key_size = Len(value) /\ Readable(key_size) /\ key_size \in Nat
      /\ \A c \in 1 .. key_size : Memory(key)[c] = value[c]
      /\ Memory(key) \in Cells /\ own \in Cells /\ Memory(buf) = own
  BY <1>1, MemoryCells, CellsOf DEF IInv, Held
<1>3. k \in Cells /\ Len(k) \in Nat
  BY UserKeyCells, CellsOf
<1>4. shared \in Nat /\ Readable(shared) /\ shared <= Len(Memory(key)) /\ shared \in 0 .. Len(value)
  BY <1>1, <1>2, CellsOf DEF Readable
<1>5. total \in 0 .. MaxSize
  BY <1>1, <1>3, <1>4
<1>6. /\ b.buf \in {"space", "heap"} /\ b.size \in SpaceSize .. MaxSize + SpaceSize
      /\ total <= b.size /\ b.own \in Cells /\ Len(b.own) <= b.size
      /\ b.blocks = IF b.buf = "heap" THEN 1 ELSE 0
      /\ total <= buf_size => b.own = own
  BY <1>5, EnlargedFits DEF IInv
<1>. HIDE DEF b
<1>7. kept \in Cells /\ Len(kept) = shared /\ \A c \in 1 .. shared : kept[c] = Memory(key)[c]
  BY <1>2, <1>4, CutCells
<1>8. b.size \in Nat /\ buf_size \in Nat /\ Len(b.own) \in Nat
  BY <1>6, CellsOf, SizeAssumption DEF IInv, Shape, Buffers
<1>9. base \in Cells /\ Len(base) <= b.size /\ shared <= Len(base)
      /\ \A c \in 1 .. shared : base[c] = value[c]
  <2>1. CASE IsKeyPinned \/ total > buf_size
    <3>. HIDE DEF kept, total
    <3>1. base = Put(b.own, 0, kept)
      BY <2>1
    <3>2. /\ base \in Cells
          /\ Len(base) = IF Len(b.own) > 0 + Len(kept) THEN Len(b.own) ELSE 0 + Len(kept)
          /\ \A c \in 1 .. Len(kept) : base[0 + c] = kept[c]
      BY <1>6, <1>7, <3>1, PutCells
    <3>3. shared <= b.size
      BY <1>3, <1>4, <1>6, <1>8 DEF total
    <3>. HIDE DEF base
    <3>4. Len(base) <= b.size /\ shared <= Len(base)
      BY <1>4, <1>6, <1>7, <1>8, <3>2, <3>3
    <3>5. ASSUME NEW c \in 1 .. shared PROVE base[c] = value[c]
      <4>1. c \in 1 .. key_size /\ 0 + c = c
        BY <1>1, <1>2, <1>4
      <4>. QED
        BY <1>2, <1>7, <3>2, <4>1
    <3>. QED
      BY <3>2, <3>4, <3>5
  <2>2. CASE ~(IsKeyPinned \/ total > buf_size)
    <3>1. base = own /\ key = buf
      BY <2>2 DEF IsKeyPinned
    <3>2. total <= buf_size
      BY <1>5, <1>8, <2>2
    <3>. HIDE DEF base, total
    <3>3. b.own = own
      BY <1>6, <3>2
    <3>4. ASSUME NEW c \in 1 .. shared PROVE base[c] = value[c]
      <4>1. c \in 1 .. key_size
        BY <1>1, <1>2, <1>4
      <4>. QED
        BY <1>2, <3>1, <4>1
    <3>. QED
      BY <1>2, <1>4, <1>6, <3>1, <3>3, <3>4
  <2>. QED
    BY <2>1, <2>2
<1>. HIDE DEF base, kept
<1>10. /\ contents \in Cells
       /\ Len(contents) = IF Len(base) > total THEN Len(base) ELSE total
       /\ \A c \in 1 .. Len(k) : contents[shared + c] = k[c]
       /\ \A c \in 1 .. shared : c <= Len(base) => contents[c] = base[c]
  BY <1>3, <1>4, <1>9, PutCells
<1>. HIDE DEF contents
<1>11. Len(base) \in Nat
  BY <1>9, CellsOf
<1>12. Len(contents) <= b.size /\ total <= Len(contents)
  BY <1>5, <1>6, <1>8, <1>9, <1>10, <1>11
<1>13. Buffers' /\ Memory(buf)' = contents /\ buf' \in {"space", "heap"}
  BY <1>1, <1>6, <1>10, <1>12, Taken DEF IInv
<1>14. Memory(key)' = contents
  BY <1>1, <1>13 DEF Memory
<1>15. Shape'
  BY <1>1, <1>4, <1>5, <1>13, NoCells DEF IInv, Shape
<1>16. /\ v \in Cells /\ Len(v) = shared /\ \A c \in 1 .. shared : v[c] = value[c]
  BY <1>2, <1>4, FirstCells
<1>. HIDE DEF v
<1>17. /\ value' \in Cells /\ Len(value') = total
       /\ \A c \in 1 .. shared : value'[c] = v[c]
       /\ \A c \in 1 .. Len(k) : value'[shared + c] = k[c]
  BY <1>1, <1>3, <1>16, Joined
<1>18. ASSUME NEW c \in 1 .. total PROVE contents[c] = value'[c]
  <2>1. CASE c <= shared
    <3>1. c \in 1 .. shared /\ c <= Len(base)
      BY <1>4, <1>9, <1>11, <2>1
    <3>. QED
      BY <1>9, <1>10, <1>16, <1>17, <3>1
  <2>2. CASE c > shared
    <3>. DEFINE d == c - shared
    <3>1. d \in 1 .. Len(k) /\ shared + d = c
      BY <1>3, <1>4, <2>2
    <3>. HIDE DEF d
    <3>. QED
      BY <1>10, <1>17, <3>1
  <2>. QED
    BY <1>4, <2>1, <2>2
<1>. HIDE DEF total
<1>19. Held'
  BY <1>1, <1>12, <1>14, <1>17, <1>18 DEF Held, Readable
<1>. QED
  BY <1>15, <1>19 DEF IInv

LEMMA OwnKeyIInv ==
  ASSUME IInv, OwnKey
  PROVE  IInv'
<1>. DEFINE cells == GetKey
<1>1. /\ known /\ UNCHANGED << key_size, is_user_key, value >>
      /\ TakeBuffer(Enlarged(key_size), Put(Enlarged(key_size).own, 0, cells))
      /\ key' = buf' /\ outside' = << >> /\ fault' = (fault \/ ~Readable(key_size))
  BY DEF OwnKey
<1>2. /\ value \in Cells /\ key_size = Len(value) /\ Readable(key_size) /\ key_size \in Nat
      /\ \A c \in 1 .. key_size : Memory(key)[c] = value[c]
      /\ Memory(key) \in Cells /\ key_size <= MaxSize
  BY <1>1, MemoryCells, CellsOf, SizeAssumption DEF IInv, Held, Shape
<1>3. cells \in Cells /\ Len(cells) = key_size /\ \A c \in 1 .. key_size : cells[c] = value[c]
  BY <1>2, CutCells DEF GetKey, Readable
<1>. HIDE DEF cells
<1>4. CopyIn(cells, TRUE)
  BY <1>1, <1>2, <1>3 DEF CopyIn
<1>. QED
  BY <1>1, <1>2, <1>3, <1>4, CopyIInv DEF IInv, Shape

\* The footer is overwritten inside the key, and the key is inside the buffer.
LEMMA UpdateInternalKeyIInv ==
  ASSUME IInv, NEW f \in Footers, UpdateInternalKey(f)
  PROVE  IInv'
<1>. DEFINE at == key_size - FooterLength
            b == [buf |-> buf, size |-> buf_size, blocks |-> blocks]
            contents == Put(own, at, f)
            v == SubSeq(value, 1, at)
<1>1. /\ known /\ key = buf /\ key_size >= FooterLength
      /\ TakeBuffer(b, contents)
      /\ fault' = (fault \/ key_size > buf_size)
      /\ value' = SubSeq(value, 1, Len(value) - FooterLength) \o f
      /\ UNCHANGED << key, key_size, is_user_key, outside, known >>
  BY DEF UpdateInternalKey, IsKeyPinned
<1>2. /\ value \in Cells /\ key_size = Len(value) /\ Readable(key_size) /\ key_size \in Nat
      /\ \A c \in 1 .. key_size : Memory(key)[c] = value[c]
      /\ Memory(key) = own /\ own \in Cells /\ Len(own) \in Nat
  BY <1>1, MemoryCells, CellsOf DEF IInv, Held
<1>3. f \in Cells /\ Len(f) = FooterLength /\ FooterLength \in Nat
  BY FooterCells
<1>4. at \in Nat /\ at \in 0 .. Len(value) /\ at + Len(f) = key_size
  BY <1>1, <1>2, <1>3
<1>5. buf_size \in Nat /\ Len(own) <= buf_size /\ key_size <= Len(own)
  BY <1>2, SizeAssumption DEF IInv, Shape, Buffers, Readable
<1>. HIDE DEF at
<1>6. /\ contents \in Cells
      /\ Len(contents) = Len(own)
      /\ \A c \in 1 .. Len(f) : contents[at + c] = f[c]
      /\ \A c \in 1 .. at : c <= Len(own) => contents[c] = own[c]
  <2>1. /\ contents \in Cells
        /\ Len(contents) = IF Len(own) > at + Len(f) THEN Len(own) ELSE at + Len(f)
        /\ \A c \in 1 .. Len(f) : contents[at + c] = f[c]
        /\ \A c \in 1 .. at : c <= Len(own) => contents[c] = own[c]
    BY <1>2, <1>3, <1>4, PutCells
  <2>. HIDE DEF contents
  <2>2. Len(contents) = Len(own)
    BY <1>2, <1>4, <1>5, <2>1
  <2>. QED
    BY <2>1, <2>2
<1>. HIDE DEF contents
<1>7. Buffers' /\ Memory(buf)' = contents
  <2>1. /\ b.buf = buf /\ b.size = buf_size /\ b.blocks = blocks
        /\ buf \in {"space", "heap"} /\ buf_size \in SpaceSize .. MaxSize + SpaceSize
        /\ blocks = IF buf = "heap" THEN 1 ELSE 0
    BY DEF IInv, Shape, Buffers, OneBuffer
  <2>. HIDE DEF b
  <2>. QED
    BY <1>1, <1>5, <1>6, <2>1, Taken DEF IInv
<1>8. Memory(key)' = contents
  <2>1. buf' = buf
    BY <1>1 DEF TakeBuffer
  <2>. QED
    BY <1>1, <1>7, <2>1 DEF Memory
<1>9. Shape'
  <2>1. ~(key_size > buf_size)
    BY <1>2, <1>5
  <2>2. ~fault'
    BY <1>1, <2>1 DEF IInv, Shape
  <2>3. /\ key' \in {"space", "heap", "client", "freed"} /\ key_size' \in 0 .. MaxSize
        /\ is_user_key' \in BOOLEAN /\ outside' \in Cells
    BY <1>1 DEF IInv, Shape
  <2>. QED
    BY <1>7, <2>2, <2>3 DEF Shape
<1>10. v \in Cells /\ Len(v) = at /\ \A c \in 1 .. at : v[c] = value[c]
  BY <1>2, <1>4, FirstCells
<1>11. value' = v \o f
  BY <1>1, <1>2 DEF at
<1>. HIDE DEF v
<1>12. /\ value' \in Cells /\ Len(value') = key_size
       /\ \A c \in 1 .. at : value'[c] = v[c]
       /\ \A c \in 1 .. Len(f) : value'[at + c] = f[c]
  BY <1>3, <1>4, <1>10, <1>11, Joined
<1>13. ASSUME NEW c \in 1 .. key_size PROVE contents[c] = value'[c]
  <2>1. CASE c <= at
    <3>1. c \in 1 .. at /\ c \in 1 .. key_size /\ c <= Len(own)
      BY <1>2, <1>4, <1>5, <2>1
    <3>. QED
      BY <1>2, <1>6, <1>10, <1>12, <3>1
  <2>2. CASE c > at
    <3>. DEFINE d == c - at
    <3>1. d \in 1 .. Len(f) /\ at + d = c
      BY <1>3, <1>4, <2>2
    <3>. HIDE DEF d
    <3>. QED
      BY <1>6, <1>12, <3>1
  <2>. QED
    BY <1>4, <2>1, <2>2
<1>14. Held'
  BY <1>1, <1>5, <1>6, <1>8, <1>12, <1>13 DEF Held, Readable
<1>. QED
  BY <1>9, <1>14 DEF IInv

\* After Reserve and EncodeLengthPrefixedKey the client may not go on from the
\* key, so only the buffers matter.
LEMMA ReserveIInv ==
  ASSUME IInv, NEW n \in 0 .. MaxSize, Reserve(n)
  PROVE  IInv'
<1>. DEFINE b == Enlarged(n)
<1>1. /\ TakeBuffer(b, b.own) /\ key_size' = n /\ known' = FALSE
      /\ (key' = key \/ key' \in {"freed", "heap"})
      /\ UNCHANGED << is_user_key, outside, fault >>
  BY DEF Reserve
<1>2. /\ b.buf \in {"space", "heap"} /\ b.size \in SpaceSize .. MaxSize + SpaceSize
      /\ b.own \in Cells /\ Len(b.own) <= b.size
      /\ b.blocks = IF b.buf = "heap" THEN 1 ELSE 0
  BY EnlargedFits DEF IInv
<1>. HIDE DEF b
<1>3. Buffers'
  BY <1>1, <1>2, Taken DEF IInv
<1>. QED
  BY <1>1, <1>3 DEF IInv, Shape, Held

LEMMA EncodeLengthPrefixedKeyIInv ==
  ASSUME IInv, NEW k \in UserKeys, EncodeLengthPrefixedKey(k)
  PROVE  IInv'
<1>. DEFINE n == PrefixLength + Len(k)
            b == Enlarged(n)
            prefix == [c \in 1 .. PrefixLength |-> Len(k) + 1]
            cells == prefix \o k
            contents == Put(b.own, 0, cells)
<1>1. /\ n <= MaxSize /\ TakeBuffer(b, contents) /\ key' = buf'
      /\ key_size' = (IF n > buf_size THEN 0 ELSE key_size)
      /\ outside' = << >> /\ is_user_key' = TRUE /\ known' = FALSE /\ UNCHANGED fault
  BY DEF EncodeLengthPrefixedKey
<1>2. k \in Cells /\ Len(k) \in Nat /\ PrefixLength \in Nat
  BY UserKeyCells, CellsOf, SizeAssumption
<1>3. prefix \in Cells /\ Len(prefix) = PrefixLength
  BY <1>2, FunctionIsCells
<1>4. cells \in Cells /\ Len(cells) = n
  <2>. HIDE DEF prefix
  <2>. QED BY <1>2, <1>3, Joined
<1>5. n \in 0 .. MaxSize
  BY <1>1, <1>2
<1>6. /\ b.buf \in {"space", "heap"} /\ b.size \in SpaceSize .. MaxSize + SpaceSize
      /\ n <= b.size /\ b.own \in Cells /\ Len(b.own) <= b.size
      /\ b.blocks = IF b.buf = "heap" THEN 1 ELSE 0
  BY <1>5, EnlargedFits DEF IInv
<1>. HIDE DEF b, cells, n
<1>7. contents \in Cells /\ Len(contents) = IF Len(b.own) > 0 + n THEN Len(b.own) ELSE 0 + n
  BY <1>4, <1>6, PutCells
<1>. HIDE DEF contents
<1>8. Len(contents) <= b.size
  BY <1>5, <1>6, <1>7
<1>9. Buffers' /\ buf' \in {"space", "heap"}
  BY <1>1, <1>6, <1>7, <1>8, Taken DEF IInv
<1>10. key_size' \in 0 .. MaxSize
  <2>1. 0 \in 0 .. MaxSize /\ key_size \in 0 .. MaxSize
    BY SizeAssumption DEF IInv, Shape
  <2>. QED
    BY <1>1, <2>1
<1>. QED
  BY <1>1, <1>9, <1>10, NoCells DEF IInv, Shape, Held

LEMMA NextIInv == IInv /\ [Next]_vars => IInv'
<1>. SUFFICES ASSUME IInv, [Next]_vars PROVE IInv'
  OBVIOUS
<1>1. CASE \E u \in BOOLEAN : SetIsUserKey(u)
  BY <1>1, SetIsUserKeyIInv
<1>2. CASE Clear
  BY <1>2, ClearIInv
<1>3. CASE \E k \in UserKeys, u \in BOOLEAN : SetCopied(k, u) \/ SetPinned(k, u)
  BY <1>3, SetCopiedIInv, SetPinnedIInv
<1>4. CASE \E p, u, t \in UserKeys, f \in Footers :
             /\ Len(p) + Len(u) + Len(t) + FooterLength <= MaxSize
             /\ SetInternalKeyParts(p, u, t, f)
  BY <1>4, SetInternalKeyPartsIInv
<1>5. CASE \E f \in Footers : ConvertInPlace(f) \/ UpdateInternalKey(f)
  BY <1>5, ConvertInPlaceIInv, UpdateInternalKeyIInv
<1>6. CASE \E n \in 0 .. MaxSize, k \in UserKeys : TrimAppend(n, k)
  BY <1>6, TrimAppendIInv
<1>7. CASE OwnKey
  BY <1>7, OwnKeyIInv
<1>8. CASE \E n \in 0 .. MaxSize : Reserve(n)
  BY <1>8, ReserveIInv
<1>9. CASE \E k \in UserKeys : EncodeLengthPrefixedKey(k)
  BY <1>9, EncodeLengthPrefixedKeyIInv
<1>10. CASE UNCHANGED vars
  <2>1. Memory(key)' = Memory(key) /\ own' = own
    BY <1>10 DEF vars, Memory, own
  <2>2. Shape'
    BY <1>10, <2>1 DEF vars, IInv, Shape, Buffers, OneBuffer
  <2>3. Held'
    BY <1>10, <2>1 DEF vars, IInv, Held, Readable
  <2>. QED
    BY <2>2, <2>3 DEF IInv
<1>. QED
  BY <1>1, <1>2, <1>3, <1>4, <1>5, <1>6, <1>7, <1>8, <1>9, <1>10 DEF Next

-----------------------------------------------------------------------------
(***************************************************************************)
(* The theorems.                                                           *)
(***************************************************************************)

\* GetKey returns the key that SetKey, SetInternalKey, TrimAppend, OwnKey,
\* UpdateInternalKey and the others built, however often the buffer was
\* exchanged or the key pinned in between.
THEOREM KeyIsWhatWasBuilt == Spec => []HoldsValue
<1>1. IInv => HoldsValue
  <2>. SUFFICES ASSUME IInv, known PROVE GetKey = value
    BY DEF HoldsValue
  <2>1. /\ value \in Cells /\ key_size = Len(value) /\ key_size \in Nat
        /\ key_size <= Len(Memory(key)) /\ Memory(key) \in Cells
        /\ \A c \in 1 .. key_size : Memory(key)[c] = value[c]
    BY MemoryCells, CellsOf DEF IInv, Held, Readable
  <2>2. /\ GetKey \in Cells /\ Len(GetKey) = key_size
        /\ \A c \in 1 .. key_size : GetKey[c] = value[c]
    BY <2>1, CutCells DEF GetKey
  <2>3. GetKey = [c \in 1 .. key_size |-> GetKey[c]] /\ value = [c \in 1 .. key_size |-> value[c]]
    BY <2>1, <2>2, CellsOf
  <2>. QED
    BY <2>2, <2>3
<1>. QED
  BY InitIInv, NextIInv, <1>1, PTL DEF Spec

\* No call reads or writes beyond a live buffer.
THEOREM CopiesStayInBounds == Spec => []InBounds
<1>1. IInv => InBounds
  BY DEF IInv, Shape, Buffers, InBounds, TypeOK, Cells
<1>. QED
  BY InitIInv, NextIInv, <1>1, PTL DEF Spec

\* EnlargeBufferIfNeeded and ResetBuffer keep exactly the heap buffer in use.
THEOREM OneBufferOwned == Spec => []OneBuffer
<1>1. IInv => OneBuffer
  BY DEF IInv, Shape, Buffers
<1>. QED
  BY InitIInv, NextIInv, <1>1, PTL DEF Spec
=============================================================================
