---------------------------- MODULE PinnableSlices ----------------------------
(***************************************************************************)
(* Cleanable and PinnableSlice: who owns which cleanup, and what a slice's *)
(* data_ points at, under any sequence of constructions, pins, delegations *)
(* and moves.                                                              *)
(*                                                                         *)
(* A cleanup is identified with the block of memory it releases.  A        *)
(* Cleanable's list is a sequence: its head is the embedded cleanup_, the  *)
(* others are nodes on the heap.                                           *)
(***************************************************************************)
EXTENDS Integers, SequencesExt

CONSTANTS
  Slices,       \* PinnableSlice objects
  Holders,      \* other Cleanable objects (iterators, cache handles)
  Strings,      \* std::string objects a client passes as buf
  Blocks,       \* pinned blocks, each with one cleanup
  BlockLength,  \* the length of a block
  MaxLength     \* bound: length of a string

NoBuf == "uninitialised"
Literal == "empty literal"   \* where Slice() points

ASSUME LengthAssumption == BlockLength \in Nat /\ MaxLength \in Nat
\* A program has finitely many objects.
ASSUME FiniteAssumption == IsFiniteSet(Slices) /\ IsFiniteSet(Holders)
ASSUME DisjointAssumption ==
  /\ Slices \cap Holders = {}
  /\ Slices \cap Strings = {}
  /\ Blocks \cap (Slices \cup Strings) = {}
  /\ NoBuf \notin Slices \cup Strings

VARIABLES
  alive,      \* the objects that exist
  list,       \* cleanup_ and the nodes behind it
  nodes,      \* the number of Cleanup nodes on the heap
  given,      \* blocks whose cleanup was registered
  cleaned,    \* how often each cleanup ran
  dropped,    \* history: the lists that were overwritten with cleanups in them
  slice,      \* the members of each PinnableSlice
  length,     \* the length of each string; a slice names its own self_space_
  wild        \* buf_ was dereferenced before it was given a value

vars == << alive, list, nodes, given, cleaned, dropped, slice, length, wild >>

Cleanables == Slices \cup Holders

-----------------------------------------------------------------------------
(***************************************************************************)
(* Lists of cleanups.                                                      *)
(***************************************************************************)

\* RegisterCleanup, both overloads: the head if it is free, else right behind it.
Register(l, b) == IF l = << >> THEN << b >> ELSE << Head(l), b >> \o Tail(l)

\* DelegateCleanupsTo: the head first, then the nodes in list order, are registered
\* with the target, each right behind its head, so they come to lie there last to
\* first; an empty target takes the first of them as its head.
Delegate(from, to) ==
  IF from = << >> THEN to
  ELSE IF to = << >> THEN << Head(from) >> \o Reverse(Tail(from))
  ELSE << Head(to) >> \o Reverse(from) \o Tail(to)

NodesOf(l) == IF l = << >> THEN 0 ELSE Len(l) - 1

\* Mutation: a new node for the head even if the target has none.
NodesMadeAlways(from, to) == IF from # << >> THEN 1 ELSE 0

\* DelegateCleanupsTo copies the head by value (a new node unless the target
\* was empty) and hands over the other nodes.
NodesMade(from, to) == IF from # << >> /\ to # << >> THEN 1 ELSE 0

\* DoCleanup: every cleanup of the list runs and every node is deleted.
Occurs(l, b) == Cardinality({k \in 1 .. Len(l) : l[k] = b})
Cleaned(l) == [b \in Blocks |-> cleaned[b] + Occurs(l, b)]

-----------------------------------------------------------------------------
(***************************************************************************)
(* The members of a PinnableSlice.                                         *)
(***************************************************************************)
Fresh(buf) == [pinned |-> FALSE, buf |-> buf, data |-> Literal, offset |-> 0, size |-> 0]

Pinned(s, b) == [s EXCEPT !.pinned = TRUE, !.data = b, !.offset = 0, !.size = BlockLength]

\* PinSelf(): the slice becomes the whole of *buf_.
PinSelf(s, len) == [s EXCEPT !.data = s.buf, !.offset = 0, !.size = len]

Init ==
  /\ alive = Holders
  /\ list = [c \in Cleanables |-> << >>]
  /\ nodes = 0
  /\ given = {}
  /\ cleaned = [b \in Blocks |-> 0]
  /\ dropped = {}
  /\ slice = [p \in Slices |-> Fresh(p)]
  /\ length = [s \in Slices \cup Strings |-> 0]
  /\ wild = FALSE

\* PinnableSlice()
New(p) ==
  /\ p \notin alive
  /\ alive' = alive \cup {p}
  /\ slice' = [slice EXCEPT ![p] = Fresh(p)]
  /\ length' = [length EXCEPT ![p] = 0]
  /\ UNCHANGED << list, nodes, given, cleaned, dropped, wild >>

\* PinnableSlice(buf): a string no other slice uses, with any contents.
NewOver(p, s) ==
  /\ p \notin alive
  /\ \A o \in alive \cap Slices : slice[o].buf # s
  /\ alive' = alive \cup {p}
  /\ slice' = [slice EXCEPT ![p] = Fresh(s)]
  /\ \E n \in 0 .. MaxLength : length' = [length EXCEPT ![p] = 0, ![s] = n]
  /\ UNCHANGED << list, nodes, given, cleaned, dropped, wild >>

\* The destructor runs the cleanups.
Destroy(p) ==
  /\ p \in alive
  /\ alive' = alive \ {p}
  /\ cleaned' = Cleaned(list[p])
  /\ nodes' = nodes - NodesOf(list[p])
  /\ list' = [list EXCEPT ![p] = << >>]
  /\ UNCHANGED << given, dropped, slice, length, wild >>

\* RegisterCleanup(function, arg1, arg2) by a client, on any Cleanable.
RegisterCleanup(c, b) ==
  /\ c \in alive
  /\ b \notin given
  /\ given' = given \cup {b}
  /\ list' = [list EXCEPT ![c] = Register(@, b)]
  /\ nodes' = nodes + (IF list[c] = << >> THEN 0 ELSE 1)
  /\ UNCHANGED << alive, cleaned, dropped, slice, length, wild >>

\* DelegateCleanupsTo by a client, between any two Cleanables; a client does not
\* take the cleanups away from a slice that is pinned.
DelegateCleanupsTo(h, c) ==
  /\ {h, c} \subseteq alive
  /\ h # c
  /\ h \in Slices => ~slice[h].pinned
  /\ list' = [list EXCEPT ![h] = << >>, ![c] = Delegate(list[h], @)]
  /\ nodes' = nodes + NodesMade(list[h], list[c])
  /\ UNCHANGED << alive, given, cleaned, dropped, slice, length, wild >>

\* PinSlice(s, f, arg1, arg2)
PinSlice(p, b) ==
  /\ p \in alive
  /\ ~slice[p].pinned
  /\ b \notin given
  /\ given' = given \cup {b}
  /\ slice' = [slice EXCEPT ![p] = Pinned(@, b)]
  /\ list' = [list EXCEPT ![p] = Register(@, b)]
  /\ nodes' = nodes + (IF list[p] = << >> THEN 0 ELSE 1)
  /\ UNCHANGED << alive, cleaned, dropped, length, wild >>

\* PinSlice(s, cleanable): s lies in a block that one of cleanable's cleanups
\* releases.
PinSliceOf(p, h, b) ==
  /\ {p, h} \subseteq alive
  /\ ~slice[p].pinned
  /\ Occurs(list[h], b) > 0
  /\ slice' = [slice EXCEPT ![p] = Pinned(@, b)]
  /\ list' = [list EXCEPT ![h] = << >>, ![p] = Delegate(list[h], @)]
  /\ nodes' = nodes + NodesMade(list[h], list[p])
  /\ UNCHANGED << alive, given, cleaned, dropped, length, wild >>

\* buf_ is used: through a wild pointer anything may happen, and no later step
\* is modelled.
GoesWild(p) ==
  /\ slice[p].buf = NoBuf
  /\ wild' = TRUE
  /\ UNCHANGED << alive, list, nodes, given, cleaned, dropped, slice, length >>

\* PinSelf(slice), or PinSelf() after an assignment to *GetSelf().
PinSelfTo(p, n) ==
  /\ p \in alive
  /\ ~slice[p].pinned
  /\ \/ GoesWild(p)
     \/ /\ slice[p].buf # NoBuf
        /\ length' = [length EXCEPT ![slice[p].buf] = n]
        /\ slice' = [slice EXCEPT ![p] = PinSelf(@, n)]
        /\ UNCHANGED << alive, list, nodes, given, cleaned, dropped, wild >>

\* remove_prefix(n) and remove_suffix(n), with n <= size().
RemoveBytes(p, n, prefix) ==
  /\ p \in alive
  /\ n <= slice[p].size
  /\ \/ /\ slice[p].pinned
        /\ slice' = [slice EXCEPT ![p].offset = @ + (IF prefix THEN n ELSE 0), ![p].size = @ - n]
        /\ UNCHANGED << alive, list, nodes, given, cleaned, dropped, length, wild >>
     \/ /\ ~slice[p].pinned
        /\ GoesWild(p)
     \/ /\ ~slice[p].pinned
        /\ slice[p].buf # NoBuf
        /\ length' = [length EXCEPT ![slice[p].buf] = @ - n]
        /\ slice' = [slice EXCEPT ![p] = PinSelf(@, length[slice[p].buf] - n)]
        /\ UNCHANGED << alive, list, nodes, given, cleaned, dropped, wild >>

\* Reset: the cleanups run; data_ and buf_ stay as they are.
Reset(p) ==
  /\ p \in alive
  /\ cleaned' = Cleaned(list[p])
  /\ nodes' = nodes - NodesOf(list[p])
  /\ list' = [list EXCEPT ![p] = << >>]
  /\ slice' = [slice EXCEPT ![p].pinned = FALSE, ![p].size = 0]
  /\ UNCHANGED << alive, given, dropped, length, wild >>

\* Mutations: buf_ is copied although it is other's own string; data_ still
\* points to the string that was moved away.
MovedToSharesBuf(p, o, own) == slice[o]

MovedToStaleData(p, o, own) ==
  IF slice[o].pinned THEN [slice[o] EXCEPT !.buf = own]
  ELSE IF slice[o].buf = o THEN [slice[o] EXCEPT !.buf = p] ELSE slice[o]

(***************************************************************************)
(* PinnableSlice::operator=(PinnableSlice &&other) for distinct objects.   *)
(* own is what the target's buf_ is before; the move constructor delegates *)
(* to the assignment before buf_ has any value.                            *)
(***************************************************************************)
MovedTo(p, o, own) ==
  LET from == slice[o]
  IN  IF from.pinned THEN [from EXCEPT !.buf = own]
      ELSE IF from.buf = o
      THEN [from EXCEPT !.buf = p, !.data = p, !.offset = 0]
      ELSE from

\* other is left with its own, empty string.
MovedFrom(o) == PinSelf(Fresh(o), 0)

MoveSelfSpace(p, o) ==
  [length EXCEPT ![p] = IF ~slice[o].pinned /\ slice[o].buf = o THEN length[o] ELSE @,
                 ![o] = 0]

\* Mutation: other keeps its cleanups.
MoveMembersKeepsCleanups(p, o, own) ==
  /\ slice' = [slice EXCEPT ![p] = MovedTo(p, o, own), ![o] = MovedFrom(o)]
  /\ length' = MoveSelfSpace(p, o)
  /\ list' = [list EXCEPT ![p] = list[o]]

MoveMembers(p, o, own) ==
  /\ slice' = [slice EXCEPT ![p] = MovedTo(p, o, own), ![o] = MovedFrom(o)]
  /\ length' = MoveSelfSpace(p, o)
  /\ list' = [list EXCEPT ![p] = list[o], ![o] = << >>]

\* PinnableSlice(PinnableSlice &&)
MoveConstruct(p, o) ==
  /\ p \notin alive
  /\ o \in alive
  /\ alive' = alive \cup {p}
  /\ MoveMembers(p, o, NoBuf)
  /\ UNCHANGED << nodes, given, cleaned, dropped, wild >>

\* Mutation: the target's cleanups are overwritten, not run.
MoveAssignNoReset(p, o) ==
  /\ {p, o} \subseteq alive
  /\ p # o
  /\ MoveMembers(p, o, slice[p].buf)
  /\ UNCHANGED << alive, nodes, given, cleaned, dropped, wild >>

\* Cleanable::Reset first, so the target's own cleanups run.
MoveAssign(p, o) ==
  /\ {p, o} \subseteq alive
  /\ p # o
  /\ cleaned' = Cleaned(list[p])
  /\ nodes' = nodes - NodesOf(list[p])
  /\ MoveMembers(p, o, slice[p].buf)
  /\ UNCHANGED << alive, given, dropped, wild >>

\* Cleanable::operator=(Cleanable &&) between plain Cleanables: the target's
\* list is overwritten, and the cleanups that were in it are not run.
MoveCleanable(h, g) ==
  /\ {h, g} \subseteq alive
  /\ h # g
  /\ list' = [list EXCEPT ![h] = list[g], ![g] = << >>]
  /\ dropped' = dropped \cup ({list[h]} \ {<< >>})
  /\ UNCHANGED << alive, nodes, given, cleaned, slice, length, wild >>

SliceStep(p) ==
  \/ New(p)
  \/ \E s \in Strings : NewOver(p, s)
  \/ Reset(p)
  \/ \E b \in Blocks : PinSlice(p, b)
  \/ \E h \in Holders, b \in Blocks : PinSliceOf(p, h, b)
  \/ \E n \in 0 .. MaxLength : PinSelfTo(p, n)
  \/ \E n \in 0 .. MaxLength, prefix \in BOOLEAN : RemoveBytes(p, n, prefix)
  \/ \E o \in Slices : MoveConstruct(p, o) \/ MoveAssign(p, o)

CleanableStep(c) ==
  \/ Destroy(c)
  \/ \E b \in Blocks : RegisterCleanup(c, b)
  \/ \E h \in Cleanables : DelegateCleanupsTo(h, c)

Next ==
  /\ ~wild
  /\ \/ \E p \in Slices : SliceStep(p)
     \/ \E c \in Cleanables : CleanableStep(c)
     \/ \E h, g \in Holders : MoveCleanable(h, g)

Spec == Init /\ [][Next]_vars

-----------------------------------------------------------------------------
\* The variables keep their types.
TypeOK ==
  /\ alive \subseteq Cleanables
  /\ \A c \in Cleanables : list[c] \in Seq(Blocks)
  /\ nodes \in Int
  /\ given \subseteq Blocks
  /\ cleaned \in [Blocks -> Nat]
  /\ dropped \subseteq Seq(Blocks)
  /\ \A p \in Slices :
       /\ slice[p].pinned \in BOOLEAN
       /\ slice[p].buf \in {p, NoBuf} \cup Strings
       /\ slice[p].size \in Nat
  /\ length \in [Slices \cup Strings -> 0 .. MaxLength]
  /\ wild \in BOOLEAN

Pending(b) ==
  UNION {{<< c, k >> : k \in {j \in 1 .. Len(list[c]) : list[c][j] = b}} : c \in Cleanables}
Times(b) == cleaned[b] + Cardinality(Pending(b))

\* No cleanup runs twice, runs without being registered, or is held by two
\* objects at once, which would release its block again: whatever delegations,
\* resets, destructions and moves follow each other.
NoCleanupTwice == \A b \in Blocks : Times(b) <= IF b \in given THEN 1 ELSE 0

\* A cleanup that a PinnableSlice holds is not lost by any step: it has run once
\* afterwards, or exactly one object holds it.  PinnableSlice's move assignment
\* resets the target before it overwrites the list.
SlicesKeepCleanups ==
  [][\A b \in Blocks : (\E p \in Slices : Occurs(list[p], b) > 0) => Times(b)' = 1]_vars

\* A registered cleanup "will be invoked": until it has run, some object holds it.
\* It is so as long as no Cleanable's list was overwritten.
RegisteredIsInvoked == \A b \in given : Times(b) = 1

\* Every Cleanup node on the heap is reachable from one list, or was leaked with
\* an overwritten one: delegation and cleanup neither leak a node nor free one
\* twice.
NodesAccounted ==
  nodes = MapThenSumSet(LAMBDA c : NodesOf(list[c]), Cleanables)
            + MapThenSumSet(NodesOf, dropped)

\* What a live slice shows can be read: a pinned slice lies in a block whose
\* cleanup it holds itself, any other is the whole of its own buffer, and two
\* slices never show the same string.  The members keep their types.
DataLive ==
  /\ TypeOK
  /\ \A p \in alive \cap Slices :
     LET s == slice[p]
     IN /\ s.pinned => /\ s.data \in Blocks
                       /\ cleaned[s.data] = 0
                       /\ Occurs(list[p], s.data) = 1
                       /\ s.offset + s.size <= BlockLength
        /\ (~s.pinned /\ s.size > 0) => /\ s.buf # NoBuf
                                        /\ s.data = s.buf
                                        /\ s.offset + s.size = length[s.buf]
        /\ \A o \in (alive \cap Slices) \ {p} : s.buf # NoBuf => slice[o].buf # s.buf
===============================================================================
