------------------------------- MODULE StdHeap -------------------------------
(***************************************************************************)
(* std::priority_queue as libstdc++ implements it (bits/stl_heap.h): a     *)
(* vector kept in heap order with push_heap and pop_heap.  The mergers     *)
(* pass it a comparator that is not an ordering, so which element pop()    *)
(* returns depends on these algorithms and not on a heap's contract.       *)
(*                                                                         *)
(* A heap is a sequence; vector index k is sequence index k + 1.           *)
(***************************************************************************)
EXTENDS Integers, Sequences

CONSTANT less(_, _)   \* the comparator: its result as a condition

Parent(k) == (k - 1) \div 2

\* __push_heap: the value x rises from the hole while its parent is less.  risen[k]
\* is the vector after x has risen from place k.
SiftUp(h, hole, x) ==
  LET risen[k \in 0 .. hole] ==
        IF k > 0 /\ less(h[Parent(k) + 1], x)
        THEN [risen[Parent(k)] EXCEPT ![k + 1] = h[Parent(k) + 1]]
        ELSE [h EXCEPT ![k + 1] = x]
  IN  risen[hole]

Push(h, x) == SiftUp(Append(h, x), Len(h), x)

Top(h) == h[1]

\* __adjust_heap's choice of the child that moves into the hole k of a heap of
\* len elements: the right child unless it is less than the left one.
HasChild(k, len) == 2 * k + 1 < len
LargerChild(h, k, len) ==
  IF 2 * k + 2 < len /\ ~less(h[2 * k + 3], h[2 * k + 2]) THEN 2 * k + 2 ELSE 2 * k + 1

\* pop_heap and pop_back: the hole sinks from the root to a leaf along the
\* larger children, and the last element rises from there.  sunk[k] is the vector
\* after the hole has sunk from place k, and the leaf where it is then.
Pop(h) ==
  IF Len(h) = 1 THEN << >>
  ELSE
    LET len == Len(h) - 1
        sunk[k \in 0 .. len - 1] ==
          IF HasChild(k, len)
          THEN LET child == LargerChild(h, k, len)
               IN  [sunk[child] EXCEPT !.vector[k + 1] = h[child + 1]]
          ELSE [vector |-> SubSeq(h, 1, len), leaf |-> k]
    IN  SiftUp(sunk[0].vector, sunk[0].leaf, h[Len(h)])
=============================================================================
