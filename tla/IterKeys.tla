------------------------------- MODULE IterKeys -------------------------------
(***************************************************************************)
(* IterKey: a key that is copied into an inline buffer, copied into a heap *)
(* buffer, or left in memory the caller owns.                              *)
(*                                                                         *)
(* A pointer is the name of the memory it points to: "space" (the inline   *)
(* buffer), "heap" (the buffer on the heap), "client" (memory of the       *)
(* caller, which outlives its use) or "freed" (a heap buffer that was      *)
(* deleted).  Bytes are cells; a cell read from deleted memory, or from    *)
(* beyond a buffer, is Garbage.                                            *)
(***************************************************************************)
EXTENDS Integers, Sequences

CONSTANTS
  SpaceSize,     \* sizeof(space_)
  FooterLength,  \* the 8 bytes of the packed sequence number and type
  PrefixLength,  \* VarintLength of every size considered
  UserKeys,      \* the keys clients pass in
  Footers,       \* the packed sequence numbers and types they pass in
  MaxSize        \* bound: cells of a key

ASSUME SizeAssumption ==
  /\ {SpaceSize, FooterLength, PrefixLength, MaxSize} \subseteq Nat \ {0}
  /\ \A k \in UserKeys : k \in Seq(Nat \ {0}) /\ Len(k) <= MaxSize
  /\ \A f \in Footers : f \in Seq(Nat \ {0}) /\ Len(f) = FooterLength

Garbage == 0

VARIABLES
  buf,           \* buf_
  buf_size,      \* buf_size_
  key,           \* key_
  key_size,      \* key_size_
  is_user_key,   \* is_user_key_
  space,         \* the cells of space_ written so far
  heap,          \* those of the heap buffer
  outside,       \* the cells of the caller's memory that key_ points to, if any
  blocks,        \* heap buffers allocated and not deleted
  fault,         \* a read or a write left its buffer, or used a deleted one
  value,         \* history: the key the client last provided or built
  known          \* history: whether the client may go on from that key: not
                 \* after Reserve and EncodeLengthPrefixedKey

vars == << buf, buf_size, key, key_size, is_user_key, space, heap, outside, blocks,
           fault, value, known >>

-----------------------------------------------------------------------------

\* Mutation: a key outside the buffer goes unnoticed.
NeverPinned == FALSE

IsKeyPinned == key # buf

\* n cells of a memory area, from its start.
Cut(cells, n) == [c \in 1 .. n |-> IF c <= Len(cells) THEN cells[c] ELSE Garbage]

Memory(p) ==
  CASE p = "space" -> space
    [] p = "heap" -> heap
    [] p = "client" -> outside
    [] p = "freed" -> << >>

own == Memory(buf)

\* memcpy(buf_ + at, cells, Len(cells)) into a buffer of the given contents.
Put(cells, at, new) ==
  [c \in 1 .. (IF Len(cells) > at + Len(new) THEN Len(cells) ELSE at + Len(new)) |->
     IF c > at /\ c <= at + Len(new) THEN new[c - at]
     ELSE IF c <= Len(cells) THEN cells[c] ELSE Garbage]

GetKey == Cut(Memory(key), key_size)

\* n cells can be read through key_.
Readable(n) == n <= Len(Memory(key))

\* Mutations: buf_size_ is twice what was allocated; a buffer is taken for one
\* cell larger than it is; the old heap buffer is not deleted.
EnlargedDoubled(n) ==
  IF n <= buf_size
  THEN [buf |-> buf, size |-> buf_size, own |-> own, blocks |-> blocks]
  ELSE [buf |-> "heap", size |-> 2 * n, own |-> << >>,
        blocks |-> blocks - (IF buf = "heap" THEN 1 ELSE 0) + 1]

EnlargedLate(n) ==
  IF n <= buf_size + 1
  THEN [buf |-> buf, size |-> buf_size, own |-> own, blocks |-> blocks]
  ELSE [buf |-> "heap", size |-> n, own |-> << >>,
        blocks |-> blocks - (IF buf = "heap" THEN 1 ELSE 0) + 1]

EnlargedLeaks(n) ==
  IF n <= buf_size
  THEN [buf |-> buf, size |-> buf_size, own |-> own, blocks |-> blocks]
  ELSE [buf |-> "heap", size |-> n, own |-> << >>, blocks |-> blocks + 1]

\* What EnlargeBufferIfNeeded does for a key of n cells: buf_, buf_size_, the
\* buffer's contents and the number of heap buffers.  Leaving the inline buffer
\* deletes nothing; leaving a heap buffer deletes it.
Enlarged(n) ==
  IF n <= buf_size
  THEN [buf |-> buf, size |-> buf_size, own |-> own, blocks |-> blocks]
  ELSE [buf |-> "heap", size |-> n, own |-> << >>,
        blocks |-> blocks - (IF buf = "heap" THEN 1 ELSE 0) + 1]

TakeBuffer(b, contents) ==
  /\ buf' = b.buf
  /\ buf_size' = b.size
  /\ space' = IF b.buf = "space" THEN contents ELSE space
  /\ heap' = IF b.buf = "heap" THEN contents ELSE heap
  /\ blocks' = b.blocks

KeepBuffer == UNCHANGED << buf, buf_size, space, heap, blocks >>

\* Enlarging the buffer to n cells deletes the memory that key_ points to.
Dangles(n) == key = "heap" /\ n > buf_size

Init ==
  /\ buf = "space"
  /\ buf_size = SpaceSize
  /\ key = "space"
  /\ key_size = 0
  /\ is_user_key = TRUE
  /\ space = << >>
  /\ heap = << >>
  /\ outside = << >>
  /\ blocks = 0
  /\ fault = FALSE
  /\ value = << >>
  /\ known = TRUE

\* The key becomes the new cells, copied to the start of the buffer.
CopyIn(cells, readable) ==
  /\ LET b == Enlarged(Len(cells)) IN TakeBuffer(b, Put(b.own, 0, cells))
  /\ key' = buf'
  /\ key_size' = Len(cells)
  /\ outside' = << >>
  /\ fault' = (fault \/ ~readable)

-----------------------------------------------------------------------------
SetIsUserKey(u) ==
  /\ is_user_key' = u
  /\ KeepBuffer
  /\ UNCHANGED << key, key_size, outside, fault, value, known >>

Clear ==
  /\ key_size' = 0
  /\ value' = << >>
  /\ known' = TRUE
  /\ KeepBuffer
  /\ UNCHANGED << key, is_user_key, outside, fault >>

\* SetKey, SetUserKey and SetInternalKey with copy, and the overload with an
\* ikey (which needs the footer): SetKeyImpl.
SetCopied(k, user) ==
  /\ CopyIn(k, TRUE)
  /\ is_user_key' = user
  /\ value' = k
  /\ known' = TRUE

\* The same with copy = false.
SetPinned(k, user) ==
  /\ key' = "client"
  /\ outside' = k
  /\ key_size' = Len(k)
  /\ is_user_key' = user
  /\ value' = k
  /\ known' = TRUE
  /\ KeepBuffer
  /\ UNCHANGED fault

\* SetInternalKey(key_prefix, user_key, s, value_type, ts) and the overloads
\* that call it; ts is an optional part between the user key and the footer.
SetInternalKeyParts(prefix, user, ts, footer) ==
  /\ CopyIn(prefix \o user \o ts \o footer, TRUE)
  /\ is_user_key' = FALSE
  /\ value' = prefix \o user \o ts \o footer
  /\ known' = TRUE

\* The same with the key's own GetUserKey() as user_key, moved onto itself.
\* Enlarging the buffer would delete the argument before it is copied, so the
\* caller owes a buffer that is large enough, or a key that is not in it.
ConvertInPlace(footer) ==
  LET n == IF is_user_key THEN key_size ELSE key_size - FooterLength
  IN  /\ known
      /\ is_user_key \/ key_size >= FooterLength
      /\ n + FooterLength <= MaxSize
      /\ ~Dangles(n + FooterLength)
      /\ CopyIn(Cut(Memory(key), n) \o footer, Readable(n))
      /\ is_user_key' = FALSE
      /\ value' = SubSeq(value, 1, n) \o footer
      /\ UNCHANGED known

\* TrimAppend(shared_len, non_shared_data, non_shared_len)
TrimAppend(shared, k) ==
  LET total == shared + Len(k)
      b == Enlarged(total)
      kept == Cut(Memory(key), shared)
      base == IF IsKeyPinned \/ total > buf_size THEN Put(b.own, 0, kept) ELSE own
  IN  /\ known
      /\ shared <= key_size
      /\ total <= MaxSize
      /\ TakeBuffer(b, Put(base, shared, k))
      /\ key' = buf'
      /\ key_size' = total
      /\ outside' = << >>
      /\ fault' = (fault \/ ~Readable(shared))
      /\ value' = SubSeq(value, 1, shared) \o k
      /\ UNCHANGED << is_user_key, known >>

\* OwnKey: Reserve, then the copy.
OwnKey ==
  /\ known
  /\ IsKeyPinned
  /\ LET b == Enlarged(key_size) IN TakeBuffer(b, Put(b.own, 0, GetKey))
  /\ key' = buf'
  /\ outside' = << >>
  /\ fault' = (fault \/ ~Readable(key_size))
  /\ UNCHANGED << key_size, is_user_key, value, known >>

\* UpdateInternalKey: the footer is written in place.
UpdateInternalKey(footer) ==
  /\ known
  /\ ~IsKeyPinned
  /\ key_size >= FooterLength
  /\ LET contents == Put(own, key_size - FooterLength, footer)
     IN  TakeBuffer([buf |-> buf, size |-> buf_size, blocks |-> blocks], contents)
  /\ fault' = (fault \/ key_size > buf_size)
  /\ value' = SubSeq(value, 1, Len(value) - FooterLength) \o footer
  /\ UNCHANGED << key, key_size, is_user_key, outside, known >>

\* Reserve(size): key_ still points to the deleted buffer if that was exchanged,
\* or, by chance, to the new one.
Reserve(n) ==
  /\ LET b == Enlarged(n) IN TakeBuffer(b, b.own)
  /\ \/ ~Dangles(n) /\ key' = key
     \/ Dangles(n) /\ key' \in {"freed", "heap"}
  /\ key_size' = n
  /\ value' = << >>
  /\ known' = FALSE
  /\ UNCHANGED << is_user_key, outside, fault >>

\* EncodeLengthPrefixedKey: the size is not that of the new contents, but 0 if
\* the buffer was exchanged and the old key's otherwise.
EncodeLengthPrefixedKey(k) ==
  LET n == PrefixLength + Len(k)
      b == Enlarged(n)
      cells == [c \in 1 .. PrefixLength |-> Len(k) + 1] \o k
  IN  /\ n <= MaxSize
      /\ TakeBuffer(b, Put(b.own, 0, cells))
      /\ key' = buf'
      /\ key_size' = IF n > buf_size THEN 0 ELSE key_size
      /\ outside' = << >>
      /\ is_user_key' = TRUE
      /\ value' = cells
      /\ known' = FALSE
      /\ UNCHANGED fault

Next ==
  /\ ~fault
  /\ \/ \E u \in BOOLEAN : SetIsUserKey(u)
     \/ Clear
     \/ \E k \in UserKeys, u \in BOOLEAN : SetCopied(k, u) \/ SetPinned(k, u)
     \/ \E p, u, t \in UserKeys, f \in Footers :
          /\ Len(p) + Len(u) + Len(t) + FooterLength <= MaxSize
          /\ SetInternalKeyParts(p, u, t, f)
     \/ \E f \in Footers : ConvertInPlace(f) \/ UpdateInternalKey(f)
     \/ \E n \in 0 .. MaxSize, k \in UserKeys : TrimAppend(n, k)
     \/ OwnKey
     \/ \E n \in 0 .. MaxSize : Reserve(n)
     \/ \E k \in UserKeys : EncodeLengthPrefixedKey(k)

Spec == Init /\ [][Next]_vars

-----------------------------------------------------------------------------
\* The members keep their types.
TypeOK ==
  /\ buf \in {"space", "heap"}
  /\ key \in {"space", "heap", "client", "freed"}
  /\ buf_size \in SpaceSize .. MaxSize + SpaceSize
  /\ key_size \in 0 .. MaxSize
  /\ is_user_key \in BOOLEAN
  /\ space \in Seq(Nat)
  /\ heap \in Seq(Nat)
  /\ outside \in Seq(Nat)

\* GetKey returns, cell by cell, the key that the calls so far built, in
\* whichever memory it is.
HoldsValue == known => GetKey = value

\* Every copy stays inside a live buffer, and the sizes stay within their types.
InBounds == TypeOK /\ ~fault /\ Len(own) <= buf_size

\* There is a heap buffer exactly while buf_ points to it: none is leaked when
\* it is exchanged, and none is deleted twice.
OneBuffer == blocks = IF buf = "heap" THEN 1 ELSE 0
=============================================================================
