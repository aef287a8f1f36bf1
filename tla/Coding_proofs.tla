---------------------------- MODULE Coding_proofs ----------------------------
(***************************************************************************)
(* Proofs about keys, their encodings and the stream of encoded items.     *)
(*                                                                         *)
(*   1. the laws of InternalKeys, for every user key, sequence number and  *)
(*      type;                                                              *)
(*   2. what the recursive functions of SliceBytes, Coding and Texts       *)
(*      compute, by well-founded recursion and induction on sets;          *)
(*   3. for each kind of item, Understood: the encoding has the length     *)
(*      that was predicted, its reader returns the value from the whole    *)
(*      encoding, and refuses it, or returns a part of it, when it is cut; *)
(*   4. the inductive invariant StreamInv of the stream: the items lie one *)
(*      after the other in dst, and the reader stands between two of them  *)
(*      with everything before it read back;                               *)
(*   5. the properties of the stream, from that invariant.                 *)
(***************************************************************************)
EXTENDS Coding, FiniteSetTheorems, WellFoundedInduction, TLAPS

\* The types fit the footer's low byte and kValueTypeForSeek is the largest.
LEMMA TypeFacts ==
  /\ TypeRange \in Nat \ {0} /\ kMaxSequenceNumber \in Nat
  /\ kValueTypeForSeek \in 0 .. TypeRange - 1 /\ kTypeRangeDeletion \in 0 .. kValueTypeForSeek
  /\ \A t \in ValueTypes : t \in 0 .. kValueTypeForSeek
BY TypeAssumption
   DEF kValueTypeForSeek, kTypeDeletionWithTimestamp, kTypeRangeDeletion, kTypeMerge,
       kTypeSingleDeletion, kTypeBlobIndex, ValueTypes, IsExtendedValueType, IsValueType

\* The components of a parsed key.
LEMMA KeyParts ==
  ASSUME NEW p \in ParsedInternalKey
  PROVE  /\ p.user_key \in Nat
         /\ p.sequence \in Nat /\ p.sequence <= kMaxSequenceNumber
         /\ p.type \in Nat /\ p.type <= kValueTypeForSeek /\ p.type < TypeRange
         /\ p = [user_key |-> p.user_key, sequence |-> p.sequence, type |-> p.type]
BY TypeFacts DEF ParsedInternalKey, SequenceNumbers

\* The footer's two parts are recovered by division.
LEMMA FooterParts ==
  ASSUME NEW s \in Nat, NEW m \in Nat \ {0}, NEW t \in 0 .. m - 1
  PROVE  (s * m + t) \div m = s /\ (s * m + t) % m = t
OBVIOUS

\* A larger sequence number makes a larger footer, whatever the types.
LEMMA FooterOrder ==
  ASSUME NEW s1 \in Nat, NEW s2 \in Nat, NEW m \in Nat \ {0},
         NEW t1 \in 0 .. m - 1, NEW t2 \in 0 .. m - 1, s1 < s2
  PROVE  s1 * m + t1 < s2 * m + t2
<1>1. (s1 + 1) * m <= s2 * m
  OBVIOUS
<1>2. (s1 + 1) * m = s1 * m + m
  OBVIOUS
<1>3. s1 * m \in Nat /\ s2 * m \in Nat
  OBVIOUS
<1>. QED
  BY <1>1, <1>2, <1>3

\* Comparing footers is comparing sequence numbers, then types, in descending
\* order.
LEMMA FooterCompare ==
  ASSUME NEW p \in ParsedInternalKey, NEW q \in ParsedInternalKey
  PROVE  Descending(Encode(p).footer, Encode(q).footer) =
           IF Descending(p.sequence, q.sequence) # 0
           THEN Descending(p.sequence, q.sequence) ELSE Descending(p.type, q.type)
<1>. DEFINE f == p.sequence * TypeRange + p.type
            g == q.sequence * TypeRange + q.type
<1>1. /\ p.sequence \in Nat /\ q.sequence \in Nat /\ TypeRange \in Nat \ {0}
      /\ p.type \in 0 .. TypeRange - 1 /\ q.type \in 0 .. TypeRange - 1
  BY KeyParts, TypeFacts
<1>2. f \in Nat /\ g \in Nat
  BY <1>1
<1>3. Encode(p).footer = f /\ Encode(q).footer = g
  BY DEF Encode, PackSequenceAndType
<1>4. CASE p.sequence < q.sequence
  <2>1. f < g
    BY <1>1, <1>4, FooterOrder
  <2>. QED
    BY <1>1, <1>2, <1>3, <1>4, <2>1 DEF Descending
<1>5. CASE p.sequence > q.sequence
  <2>1. g < f
    BY <1>1, <1>5, FooterOrder
  <2>. QED
    BY <1>1, <1>2, <1>3, <1>5, <2>1 DEF Descending
<1>6. CASE p.sequence = q.sequence
  <2>1. (f < g <=> p.type < q.type) /\ (f > g <=> p.type > q.type)
    BY <1>1, <1>6
  <2>. QED
    BY <1>1, <1>2, <1>3, <1>6, <2>1 DEF Descending
<1>. QED
  BY <1>1, <1>4, <1>5, <1>6

\* Parsing what AppendInternalKey wrote gives the key back.
THEOREM ParseInvertsEncode == \A p \in ParsedInternalKey : RoundTrip(p)
<1>. SUFFICES ASSUME NEW p \in ParsedInternalKey PROVE RoundTrip(p)
  OBVIOUS
<1>1. /\ UnPackSequence(PackSequenceAndType(p.sequence, p.type)) = p.sequence
      /\ UnPackType(PackSequenceAndType(p.sequence, p.type)) = p.type
  BY KeyParts, TypeFacts, FooterParts
     DEF UnPackSequence, UnPackType, PackSequenceAndType
<1>. QED
  BY <1>1, KeyParts DEF RoundTrip, Parse, Encode

\* The comparator on slices and the comparator on parsed keys agree.
THEOREM ComparatorsAgree ==
  \A p, q \in ParsedInternalKey : EncodedAgrees(p, q)
<1>. SUFFICES ASSUME NEW p \in ParsedInternalKey, NEW q \in ParsedInternalKey
              PROVE  EncodedAgrees(p, q)
  OBVIOUS
<1>1. Encode(p).user_key = p.user_key /\ Encode(q).user_key = q.user_key
  BY DEF Encode
<1>. QED
  BY <1>1, FooterCompare DEF EncodedAgrees, CompareEncoded, CompareParsed

\* The order of internal keys is a strict total order.
THEOREM TotalOrder ==
  /\ \A p, q \in ParsedInternalKey : Antisymmetric(p, q)
  /\ \A p, q, r \in ParsedInternalKey : Transitive(p, q, r)
<1>1. ASSUME NEW p \in ParsedInternalKey, NEW q \in ParsedInternalKey
      PROVE  Antisymmetric(p, q)
  <2>1. CompareParsed(p, q) = 0 - CompareParsed(q, p)
    BY KeyParts DEF CompareParsed, Sign, Descending
  <2>2. ASSUME CompareParsed(p, q) = 0
        PROVE  p = q
    <3>1. p.user_key = q.user_key /\ p.sequence = q.sequence /\ p.type = q.type
      BY <2>2, KeyParts DEF CompareParsed, Sign, Descending
    <3>. QED
      BY <3>1, KeyParts
  <2>. QED
    BY <2>1, <2>2 DEF Antisymmetric
<1>2. ASSUME NEW p \in ParsedInternalKey, NEW q \in ParsedInternalKey,
             NEW r \in ParsedInternalKey
      PROVE  Transitive(p, q, r)
  BY KeyParts DEF Transitive, CompareParsed, Sign, Descending
<1>. QED
  BY <1>1, <1>2

\* Every internal key of a user key is between its two seek keys.
THEOREM SeekKeysBound == \A p \in ParsedInternalKey : SeekBounds(p)
<1>. SUFFICES ASSUME NEW p \in ParsedInternalKey PROVE SeekBounds(p)
  OBVIOUS
<1>. QED
  BY KeyParts, TypeFacts
     DEF SeekBounds, CompareParsed, Sign, Descending, MinPossible, MaxPossible

\* A range tombstone's end key (SerializeEndKey) is after every key of a smaller
\* user key and before every key of a larger one; of its own user key it is before
\* the keys with a smaller sequence number, and those with as large a one and a
\* larger type come before it.
THEOREM TombstoneEndBounds ==
  \A p \in ParsedInternalKey, u \in Nat :
    /\ EndKeyBounds(p, u)
    /\ p.user_key = u =>
         (CompareParsed(p, SerializeEndKey(u)) < 0 <=>
            p.sequence = kMaxSequenceNumber /\ p.type > kTypeRangeDeletion)
<1>. SUFFICES ASSUME NEW p \in ParsedInternalKey, NEW u \in Nat
              PROVE  /\ EndKeyBounds(p, u)
                     /\ p.user_key = u =>
                          (CompareParsed(p, SerializeEndKey(u)) < 0 <=>
                             p.sequence = kMaxSequenceNumber /\ p.type > kTypeRangeDeletion)
  OBVIOUS
<1>. QED
  BY KeyParts, TypeFacts
     DEF EndKeyBounds, CompareParsed, Sign, Descending, SerializeEndKey

\* The comment on SerializeEndKey (dbformat.h:641-643) guarantees that the end key
\* is less than any other internal key with its user key.  The seek key of that
\* user key is less than it, for every user key.
THEOREM EndKeyNotFirst ==
  \A u \in Nat :
    /\ MinPossible(u) \in ParsedInternalKey /\ MinPossible(u).user_key = SerializeEndKey(u).user_key
    /\ CompareParsed(MinPossible(u), SerializeEndKey(u)) < 0
<1>. SUFFICES ASSUME NEW u \in Nat
              PROVE  /\ MinPossible(u) \in ParsedInternalKey
                     /\ MinPossible(u).user_key = SerializeEndKey(u).user_key
                     /\ CompareParsed(MinPossible(u), SerializeEndKey(u)) < 0
  OBVIOUS
<1>1. MinPossible(u) \in ParsedInternalKey
  BY TypeFacts, TypeAssumption DEF MinPossible, ParsedInternalKey, SequenceNumbers, ValueTypes,
     IsExtendedValueType, IsValueType, kValueTypeForSeek, kTypeDeletionWithTimestamp
<1>2. /\ MinPossible(u).user_key = SerializeEndKey(u).user_key
      /\ CompareParsed(MinPossible(u), SerializeEndKey(u)) < 0
  BY TypeAssumption
     DEF MinPossible, SerializeEndKey, CompareParsed, Sign, Descending, kValueTypeForSeek,
         kTypeDeletionWithTimestamp, kTypeRangeDeletion
<1>. QED
  BY <1>1, <1>2

\* The assertions of FindShortestSeparator hold for every user comparator that
\* keeps its contract.
THEOREM SeparatorSeparates ==
  \A p, q \in ParsedInternalKey, tmp \in Nat, shorter \in BOOLEAN :
    SeparatorBetween(p, q, tmp, shorter)
<1>. SUFFICES ASSUME NEW p \in ParsedInternalKey, NEW q \in ParsedInternalKey,
                     NEW tmp \in Nat, NEW shorter \in BOOLEAN,
                     p.user_key <= tmp, tmp < q.user_key
              PROVE  LET sep == Shortened(Encode(p), tmp, shorter)
                     IN  /\ sep = Encode(p) \/ CompareEncoded(Encode(p), sep) < 0
                         /\ CompareEncoded(sep, Encode(q)) < 0
  BY DEF SeparatorBetween
<1>1. Encode(p).user_key = p.user_key /\ Encode(q).user_key = q.user_key
  BY DEF Encode
<1>. DEFINE sep == Shortened(Encode(p), tmp, shorter)
<1>2. CASE shorter /\ p.user_key < tmp
  <2>0. Sign(Encode(p).user_key, tmp) < 0
    BY <1>1, <1>2, KeyParts DEF Sign
  <2>1. sep = [user_key |-> tmp,
               footer |-> PackSequenceAndType(kMaxSequenceNumber, kValueTypeForSeek)]
    BY <2>0, <1>2, Zenon DEF Shortened
  <2>2. sep.user_key = tmp
    BY <2>1
  <2>3. p.user_key < tmp /\ p.user_key \in Nat /\ q.user_key \in Nat
    BY <1>2, KeyParts
  <2>. HIDE DEF sep
  <2>4. CompareEncoded(Encode(p), sep) < 0 /\ CompareEncoded(sep, Encode(q)) < 0
    BY <1>1, <2>2, <2>3 DEF CompareEncoded, Sign
  <2>. QED
    BY <2>4 DEF sep
<1>3. CASE ~(shorter /\ p.user_key < tmp)
  <2>1. sep = Encode(p)
    BY <1>1, <1>3, KeyParts DEF Shortened, Sign
  <2>. QED
    BY <1>1, <1>3, <2>1, KeyParts DEF CompareEncoded, Sign
<1>. QED
  BY <1>2, <1>3

-----------------------------------------------------------------------------
(***************************************************************************)
(* Induction over the naturals, with a set in the place of a predicate.    *)
(***************************************************************************)

\* A set of numbers that is not empty has a least one.
LEMMA LeastElement ==
  ASSUME NEW T \in SUBSET Nat, T # {}
  PROVE  \E m \in T : \A k \in T : m <= k
<1>1. PICK m \in T : \A k \in T : ~(<< k, m >> \in OpToRel(<, Nat))
  BY ZenonT(60), NatLessThanWellFounded, WFMin
<1>2. \A k \in T : ~(k < m)
  BY <1>1 DEF OpToRel
<1>. QED
  BY <1>2

\* A set that has 0 and the successor of each number it has, has every number.
LEMMA Induction ==
  ASSUME NEW T, 0 \in T, \A n \in Nat : n \in T => n + 1 \in T
  PROVE  Nat \subseteq T
<1>. DEFINE S == Nat \ T
<1>. SUFFICES ASSUME S # {} PROVE FALSE
  OBVIOUS
<1>1. PICK m \in S : \A k \in S : m <= k
  BY LeastElement
<1>2. m - 1 \in Nat /\ m - 1 \notin S
  BY <1>1
<1>. QED
  BY <1>1, <1>2

\* A set that has every number whose predecessors it has, has every number.
LEMMA StrongInduction ==
  ASSUME NEW T, \A n \in Nat : (\A m \in Nat : m < n => m \in T) => n \in T
  PROVE  Nat \subseteq T
<1>. DEFINE S == Nat \ T
<1>. SUFFICES ASSUME S # {} PROVE FALSE
  OBVIOUS
<1>1. PICK m \in S : \A k \in S : m <= k
  BY LeastElement
<1>2. \A k \in Nat : k < m => k \in T
  BY <1>1
<1>. QED
  BY <1>1, <1>2

(***************************************************************************)
(* A recursive function over D exists if each call of it has a smaller     *)
(* measure: where k is in C, f[k] is made by G from f[next[k]].            *)
(***************************************************************************)
Descends(D, V, mu, C, next, base, G) ==
  /\ mu \in [D -> Nat]
  /\ base \in [D -> V]
  /\ \A k \in D : k \in C => /\ next[k] \in D
                             /\ mu[next[k]] < mu[k]
                             /\ \A v \in V : G[k][v] \in V

\* By induction on the measure, the function exists.
LEMMA RecursiveFunction ==
  ASSUME NEW D, NEW V, NEW mu, NEW C, NEW next, NEW base, NEW G,
         Descends(D, V, mu, C, next, base, G)
  PROVE  \E f \in [D -> V] :
           \A k \in D : f[k] = IF k \in C THEN G[k][f[next[k]]] ELSE base[k]
<1>. USE DEF Descends
<1>. DEFINE Below(f, n) ==
              \A k \in D : mu[k] < n => f[k] = IF k \in C THEN G[k][f[next[k]]] ELSE base[k]
            T == {n \in Nat : \E f \in [D -> V] : Below(f, n)}
<1>1. 0 \in T
  <2>1. Below(base, 0)
    OBVIOUS
  <2>. QED
    BY <2>1
<1>2. ASSUME NEW n \in Nat, n \in T PROVE n + 1 \in T
  <2>1. PICK f \in [D -> V] : Below(f, n)
    BY <1>2
  <2>. DEFINE value(k) == IF k \in C THEN G[k][f[next[k]]] ELSE base[k]
              g == [k \in D |-> IF mu[k] = n THEN value(k) ELSE f[k]]
  <2>2. \A k \in D : value(k) \in V
    OBVIOUS
  <2>3. g \in [D -> V]
    BY <2>2
  <2>4. \A k \in D : g[k] = IF mu[k] = n THEN value(k) ELSE f[k]
    OBVIOUS
  <2>5. \A k \in D : mu[k] < n => f[k] = value(k)
    BY <2>1
  <2>. HIDE DEF g
  <2>6. ASSUME NEW k \in D, mu[k] < n + 1
        PROVE  g[k] = IF k \in C THEN G[k][g[next[k]]] ELSE base[k]
    <3>1. k \in C => g[next[k]] = f[next[k]]
      BY <2>4, <2>6
    <3>2. g[k] = value(k)
      BY <2>4, <2>5, <2>6
    <3>. QED
      BY <3>1, <3>2
  <2>. QED
    BY <2>3, <2>6
<1>3. Nat \subseteq T
  <2>. HIDE DEF T
  <2>. QED
    BY <1>1, <1>2, Induction
<1>. DEFINE F == [n \in Nat |-> CHOOSE f \in [D -> V] : Below(f, n)]
<1>4. ASSUME NEW n \in Nat PROVE F[n] \in [D -> V] /\ Below(F[n], n)
  <2>1. \E f \in [D -> V] : Below(f, n)
    BY SMTT(60), <1>3
  <2>2. F[n] = CHOOSE f \in [D -> V] : Below(f, n)
    OBVIOUS
  <2>. HIDE DEF F, Below
  <2>. QED
    BY <2>1, <2>2
<1>. HIDE DEF F, T
<1>. DEFINE Agree(j) == \A k \in D : mu[k] = j =>
                          \A n, m \in Nat : j < n /\ j < m => F[n][k] = F[m][k]
            A == {j \in Nat : Agree(j)}
<1>5. Nat \subseteq A
  <2>1. ASSUME NEW j \in Nat, \A i \in Nat : i < j => i \in A PROVE j \in A
    <3>1. SUFFICES ASSUME NEW k \in D, mu[k] = j, NEW n \in Nat, NEW m \in Nat, j < n, j < m
                   PROVE  F[n][k] = F[m][k]
      OBVIOUS
    <3>2. /\ F[n][k] = IF k \in C THEN G[k][F[n][next[k]]] ELSE base[k]
          /\ F[m][k] = IF k \in C THEN G[k][F[m][next[k]]] ELSE base[k]
      BY <1>4, <3>1
    <3>3. CASE k \in C
      <4>. DEFINE c == next[k]
                  i == mu[c]
      <4>1. c \in D /\ i \in Nat /\ i < j
        BY <3>1, <3>3
      <4>2. i \in A
        BY <2>1, <4>1
      <4>3. Agree(i) /\ i < n /\ i < m
        BY <3>1, <4>1, <4>2
      <4>4. F[n][c] = F[m][c]
        BY <4>1, <4>3
      <4>. QED
        BY <3>2, <3>3, <4>4
    <3>. QED
      BY <3>2, <3>3
  <2>. HIDE DEF A
  <2>. QED
    BY <2>1, StrongInduction
<1>. DEFINE f == [k \in D |-> F[mu[k] + 1][k]]
<1>6. \A k \in D : mu[k] + 1 \in Nat /\ mu[k] < mu[k] + 1
  OBVIOUS
<1>7. f \in [D -> V] /\ \A k \in D : f[k] = F[mu[k] + 1][k]
  BY <1>4, <1>6
<1>. HIDE DEF f
<1>8. ASSUME NEW k \in D PROVE f[k] = IF k \in C THEN G[k][f[next[k]]] ELSE base[k]
  <2>1. F[mu[k] + 1][k] = IF k \in C THEN G[k][F[mu[k] + 1][next[k]]] ELSE base[k]
    BY <1>4, <1>6
  <2>2. CASE k \in C
    <3>. DEFINE c == next[k]
                i == mu[c]
                n == mu[k] + 1
    <3>1. c \in D /\ i \in Nat /\ i < i + 1 /\ i < n /\ n \in Nat /\ i + 1 \in Nat
      BY <1>6, <2>2
    <3>2. Agree(i)
      BY <1>5, <3>1
    <3>3. F[n][c] = F[i + 1][c]
      BY <3>1, <3>2
    <3>4. f[c] = F[i + 1][c]
      BY <1>7, <3>1
    <3>. QED
      BY <1>7, <2>1, <2>2, <3>3, <3>4
  <2>. QED
    BY <1>7, <2>1, <2>2
<1>. QED
  BY <1>7, <1>8

\* A set that has 0 and, up to n, the successor of each number it has, has every
\* number up to n.
LEMMA BoundedInduction ==
  ASSUME NEW n \in Nat, NEW T, 0 \in T, \A k \in 1 .. n : k - 1 \in T => k \in T
  PROVE  0 .. n \subseteq T
<1>. DEFINE S == {k \in Nat : k <= n => k \in T}
<1>1. 0 \in S
  OBVIOUS
<1>2. ASSUME NEW k \in Nat, k \in S PROVE k + 1 \in S
  BY <1>2
<1>3. Nat \subseteq S
  <2>. HIDE DEF S
  <2>. QED
    BY <1>1, <1>2, Induction
<1>. QED
  BY <1>3

\* The steps G[1], ..., G[n] stay in V.
StepsIn(n, V, G) == \A k \in 1 .. n : \A v \in V : G[k][v] \in V

\* A function over 0 .. n that makes each value from the one before exists.
LEMMA LinearRecursion ==
  ASSUME NEW n \in Nat, NEW V, NEW v0 \in V, NEW G, StepsIn(n, V, G)
  PROVE  \E f \in [0 .. n -> V] : f[0] = v0 /\ \A k \in 1 .. n : f[k] = G[k][f[k - 1]]
<1>. DEFINE D == 0 .. n
            mu == [k \in D |-> k]
            C == 1 .. n
            next == [k \in D |-> k - 1]
            base == [k \in D |-> v0]
<1>1. mu \in [D -> Nat] /\ base \in [D -> V]
  OBVIOUS
<1>2. \A k \in D : k \in C => next[k] \in D /\ mu[next[k]] < mu[k] /\ next[k] = k - 1
  OBVIOUS
<1>3. PICK f \in [D -> V] : \A k \in D : f[k] = IF k \in C THEN G[k][f[next[k]]] ELSE base[k]
  <2>. HIDE DEF D, mu, next, base
  <2>1. Descends(D, V, mu, C, next, base, G)
    BY <1>1, <1>2 DEF Descends, StepsIn
  <2>. HIDE DEF C
  <2>. QED
    BY <2>1, RecursiveFunction
<1>4. 0 \in D /\ 0 \notin C /\ base[0] = v0 /\ \A k \in C : k \in D
  OBVIOUS
<1>. HIDE DEF mu, next, base
<1>5. f[0] = v0
  BY <1>3, <1>4
<1>6. \A k \in C : f[k] = G[k][f[k - 1]]
  BY <1>2, <1>3, <1>4
<1>. QED
  BY <1>5, <1>6

-----------------------------------------------------------------------------
(***************************************************************************)
(* Powers.                                                                 *)
(***************************************************************************)

\* The powers of a positive number are positive, and each is the base times the
\* one before.
LEMMA PowerLaws ==
  ASSUME NEW b \in Nat \ {0}
  PROVE  /\ Power(b, 0) = 1
         /\ \A n \in Nat : Power(b, n) \in Nat \ {0} /\ Power(b, n + 1) = b * Power(b, n)
<1>. DEFINE V == Nat \ {0}
            Def(f) == [n \in Nat |-> IF n = 0 THEN 1 ELSE b * f[n - 1]]
            power == CHOOSE f : f = Def(f)
<1>1. PowersOf(b) = power
  BY Zenon DEF PowersOf
<1>2. \E f \in [Nat -> V] : f = Def(f)
  <2>. DEFINE mu == [n \in Nat |-> n]
              C == Nat \ {0}
              next == [n \in Nat |-> n - 1]
              base == [n \in Nat |-> 1]
              G == [n \in Nat |-> [v \in V |-> b * v]]
  <2>1. Descends(Nat, V, mu, C, next, base, G)
    <3>1. mu \in [Nat -> Nat] /\ base \in [Nat -> V]
      OBVIOUS
    <3>2. ASSUME NEW k \in Nat, k \in C
          PROVE  next[k] \in Nat /\ mu[next[k]] < mu[k]
      BY <3>2
    <3>3. ASSUME NEW k \in Nat, NEW v \in V PROVE G[k][v] \in V
      OBVIOUS
    <3>. HIDE DEF mu, C, next, base, G, V
    <3>. QED
      BY <3>1, <3>2, <3>3 DEF Descends
  <2>2. PICK f \in [Nat -> V] :
          \A k \in Nat : f[k] = IF k \in C THEN G[k][f[next[k]]] ELSE base[k]
    <3>. HIDE DEF mu, C, next, base, G, V
    <3>. QED
      BY <2>1, RecursiveFunction
  <2>3. ASSUME NEW k \in Nat PROVE f[k] = IF k = 0 THEN 1 ELSE b * f[k - 1]
    <3>1. CASE k = 0
      BY <2>2, <3>1
    <3>2. CASE k # 0
      <4>1. f[k - 1] \in V /\ k - 1 \in Nat
        BY <3>2
      <4>2. f[k] = G[k][f[k - 1]]
        BY <2>2, <3>2
      <4>. QED
        BY <3>2, <4>1, <4>2
    <3>. QED
      BY <3>1, <3>2
  <2>4. f = Def(f)
    <3>1. f = [k \in Nat |-> f[k]]
      OBVIOUS
    <3>. QED
      BY <2>3, <3>1
  <2>. QED
    BY <2>4
<1>3. power = Def(power)
  BY <1>2
<1>. HIDE DEF power
<1>4. \A n \in Nat : power[n] = IF n = 0 THEN 1 ELSE b * power[n - 1]
  <2>1. \A n \in Nat : power[n] = Def(power)[n]
    BY <1>3
  <2>. QED
    BY <2>1
<1>5. power[0] = 1 /\ \A n \in Nat : power[n + 1] = b * power[n]
  <2>1. \A n \in Nat : n + 1 \in Nat /\ n + 1 # 0 /\ (n + 1) - 1 = n
    OBVIOUS
  <2>. QED
    BY <1>4, <2>1
<1>. DEFINE T == {n \in Nat : power[n] \in Nat \ {0}}
<1>6. Nat \subseteq T
  <2>1. 0 \in T
    BY <1>5
  <2>2. ASSUME NEW n \in Nat, n \in T PROVE n + 1 \in T
    BY <1>5, <2>2
  <2>. HIDE DEF T
  <2>. QED
    BY <2>1, <2>2, Induction
<1>. QED
  BY <1>1, <1>5, <1>6 DEF Power

-----------------------------------------------------------------------------
(***************************************************************************)
(* Division.                                                               *)
(***************************************************************************)

\* A number is its quotient times the divisor and the remainder.
LEMMA Divided ==
  ASSUME NEW a \in Nat, NEW m \in Nat \ {0}
  PROVE  a \div m \in Nat /\ a % m \in 0 .. m - 1 /\ a = (a \div m) * m + (a % m)
OBVIOUS

\* Dividing by a product is dividing by one factor after the other.
LEMMA DividedTwice ==
  ASSUME NEW a \in Nat, NEW p \in Nat \ {0}, NEW r \in Nat \ {0}
  PROVE  /\ a \div (r * p) = (a \div p) \div r
         /\ a % (r * p) = (a % p) + ((a \div p) % r) * p
<1>. DEFINE q == a \div p
            x == a % p
            s == q \div r
            y == q % r
            m == r * p
            t == x + y * p
<1>1. q \in Nat /\ x \in 0 .. p - 1 /\ a = q * p + x
  BY Divided
<1>. HIDE DEF q, x
<1>2. s \in Nat /\ y \in 0 .. r - 1 /\ q = s * r + y
  BY <1>1, Divided
<1>. HIDE DEF s, y
<1>3. m \in Nat \ {0} /\ y * p \in Nat /\ t \in Nat
  BY <1>1, <1>2
<1>4. y * p <= (r - 1) * p /\ (r - 1) * p = m - p
  BY <1>2
<1>5. t \in 0 .. m - 1
  <2>. DEFINE z == y * p
  <2>1. z \in Nat /\ z <= m - p /\ t = x + z
    BY <1>3, <1>4
  <2>. HIDE DEF z, t, m
  <2>. QED
    BY <1>1, <1>3, <2>1
<1>6. a = s * m + t
  <2>1. q * p = (s * r) * p + y * p
    BY <1>1, <1>2
  <2>2. (s * r) * p = s * (r * p)
    BY <1>2
  <2>. QED
    BY <1>1, <1>2, <2>1, <2>2
<1>. HIDE DEF m, t
<1>7. (s * m + t) \div m = s /\ (s * m + t) % m = t
  BY <1>2, <1>3, <1>5, FooterParts
<1>. QED
  BY <1>6, <1>7 DEF m, t, s, y, q, x

\* Smaller numbers are their own remainders.
LEMMA SmallRemainder ==
  ASSUME NEW m \in Nat \ {0}, NEW a \in 0 .. m - 1
  PROVE  a % m = a /\ a \div m = 0
OBVIOUS

\* The first power.
LEMMA ByteFacts ==
  /\ B \in Nat \ {0} /\ ByteRange \in Nat \ {0} /\ ByteRange = 2 * B /\ ByteRange > 1
  /\ Bytes64 \in Nat \ {0} /\ Bits(0) = 1
  /\ \A n \in Nat : Bits(n) \in Nat \ {0} /\ Bits(n + 1) = ByteRange * Bits(n)
<1>1. B \in Nat \ {0} /\ Bytes64 \in Nat \ {0}
  BY ByteAssumption
<1>2. ByteRange \in Nat \ {0} /\ ByteRange = 2 * B /\ ByteRange > 1
  BY <1>1 DEF ByteRange
<1>3. Power(ByteRange, 0) = 1 /\ \A n \in Nat : /\ Power(ByteRange, n) \in Nat \ {0}
                                             /\ Power(ByteRange, n + 1) = ByteRange * Power(ByteRange, n)
  BY <1>2, PowerLaws
<1>. QED
  BY <1>1, <1>2, <1>3 DEF Bits

-----------------------------------------------------------------------------
(***************************************************************************)
(* Integers of fixed width.                                                *)
(***************************************************************************)

\* DecodeFixed adds up the bytes, each with the weight of its place.
LEMMA DecodeFixedSum ==
  ASSUME NEW n \in Nat, NEW s, \A k \in 1 .. n : s[k] \in Nat
  PROVE  \E sum \in [0 .. n -> Nat] :
           /\ sum[0] = 0 /\ \A k \in 1 .. n : sum[k] = sum[k - 1] + s[k] * Bits(k - 1)
           /\ DecodeFixed(s, n) = sum[n]
<1>. DEFINE Def(f) == [k \in 0 .. n |-> IF k = 0 THEN 0 ELSE f[k - 1] + s[k] * Bits(k - 1)]
            sum == CHOOSE f : f = Def(f)
<1>1. DecodeFixed(s, n) = sum[n]
  BY Zenon DEF DecodeFixed
<1>2. \A k \in 1 .. n : k - 1 \in Nat /\ k \in 0 .. n /\ k - 1 \in 0 .. n /\ k # 0
                        /\ s[k] * Bits(k - 1) \in Nat
  BY SMTT(60), ByteFacts
<1>3. \E f \in [0 .. n -> Nat] : f = Def(f)
  <2>. DEFINE G == [k \in 1 .. n |-> [v \in Nat |-> v + s[k] * Bits(k - 1)]]
  <2>1. \A k \in 1 .. n : \A v \in Nat : G[k][v] \in Nat /\ G[k][v] = v + s[k] * Bits(k - 1)
    BY <1>2
  <2>2. PICK f \in [0 .. n -> Nat] : f[0] = 0 /\ \A k \in 1 .. n : f[k] = G[k][f[k - 1]]
    <3>. HIDE DEF G
    <3>. DEFINE V == Nat
                v0 == 0
    <3>1. StepsIn(n, V, G) /\ v0 \in V
      BY <2>1 DEF StepsIn
    <3>. HIDE DEF V, v0
    <3>2. \E f \in [0 .. n -> V] : f[0] = v0 /\ \A k \in 1 .. n : f[k] = G[k][f[k - 1]]
      BY SMTT(60), <3>1, LinearRecursion
    <3>. QED
      BY <3>2 DEF V, v0
  <2>. HIDE DEF G
  <2>3. \A k \in 1 .. n : f[k] = f[k - 1] + s[k] * Bits(k - 1)
    BY <1>2, <2>1, <2>2
  <2>4. \A k \in 0 .. n : f[k] = IF k = 0 THEN 0 ELSE f[k - 1] + s[k] * Bits(k - 1)
    <3>1. \A k \in 0 .. n : k = 0 \/ k \in 1 .. n
      OBVIOUS
    <3>. QED
      BY <1>2, <2>2, <2>3, <3>1
  <2>5. f = [k \in 0 .. n |-> f[k]]
    OBVIOUS
  <2>6. f = Def(f)
    BY <2>4, <2>5
  <2>. QED
    BY <2>6
<1>4. sum = Def(sum)
  BY <1>3
<1>. HIDE DEF sum
<1>5. \A k \in 0 .. n : sum[k] = Def(sum)[k]
  BY <1>4
<1>6. sum[0] = 0 /\ \A k \in 1 .. n : sum[k] = sum[k - 1] + s[k] * Bits(k - 1)
  BY <1>2, <1>5
<1>7. 0 .. n \subseteq {k \in 0 .. n : sum[k] \in Nat}
  <2>. DEFINE T == {k \in 0 .. n : sum[k] \in Nat}
  <2>1. 0 \in T
    BY <1>6
  <2>2. ASSUME NEW k \in 1 .. n, k - 1 \in T PROVE k \in T
    BY <1>2, <1>6, <2>2
  <2>. HIDE DEF T
  <2>3. 0 .. n \subseteq T
    BY <2>1, <2>2, BoundedInduction
  <2>. QED
    BY <2>3 DEF T
<1>8. sum \in [0 .. n -> Nat]
  <2>1. sum = [k \in 0 .. n |-> sum[k]]
    BY <1>4
  <2>. QED
    BY <1>7, <2>1
<1>. QED
  BY <1>1, <1>6, <1>8

\* What EncodeFixed writes, DecodeFixed reads.
LEMMA FixedRoundTrip ==
  ASSUME NEW n \in Nat, NEW v \in 0 .. Bits(n) - 1, NEW s,
         \A k \in 1 .. n : s[k] = EncodeFixed(v, n)[k]
  PROVE  DecodeFixed(s, n) = v
<1>1. v \in Nat
  BY ByteFacts
<1>2. \A k \in 1 .. n : /\ s[k] = (v \div Bits(k - 1)) % ByteRange /\ k - 1 \in Nat
                        /\ Bits(k - 1) \in Nat \ {0} /\ Bits(k) = ByteRange * Bits(k - 1)
  <2>1. \A k \in 1 .. n : k - 1 \in Nat /\ (k - 1) + 1 = k
    OBVIOUS
  <2>. QED
    BY <2>1, ByteFacts DEF EncodeFixed
<1>3. ASSUME NEW k \in 1 .. n PROVE s[k] \in Nat
  <2>. DEFINE p == Bits(k - 1)
              a == v \div p
  <2>1. p \in Nat \ {0} /\ s[k] = a % ByteRange
    BY <1>2
  <2>. HIDE DEF p
  <2>2. a \in Nat
    BY <1>1, <2>1, Divided
  <2>. HIDE DEF a
  <2>. QED
    BY <2>1, <2>2, ByteFacts, Divided
<1>4. PICK sum \in [0 .. n -> Nat] :
        /\ sum[0] = 0 /\ \A k \in 1 .. n : sum[k] = sum[k - 1] + s[k] * Bits(k - 1)
        /\ DecodeFixed(s, n) = sum[n]
  BY <1>3, DecodeFixedSum
<1>. DEFINE T == {k \in 0 .. n : sum[k] = v % Bits(k)}
<1>5. 0 \in T
  BY <1>1, <1>4, ByteFacts
<1>6. ASSUME NEW k \in 1 .. n, k - 1 \in T PROVE k \in T
  <2>. DEFINE p == Bits(k - 1)
  <2>1. p \in Nat \ {0} /\ Bits(k) = ByteRange * p /\ s[k] = (v \div p) % ByteRange
    BY <1>2
  <2>2. sum[k] = (v % p) + s[k] * p
    BY <1>4, <1>6
  <2>. HIDE DEF p
  <2>3. v % (ByteRange * p) = (v % p) + ((v \div p) % ByteRange) * p
    BY <1>1, <2>1, ByteFacts, DividedTwice
  <2>. QED
    BY <2>1, <2>2, <2>3
<1>7. 0 .. n \subseteq T
  <2>. HIDE DEF T
  <2>. QED
    BY <1>5, <1>6, BoundedInduction
<1>8. sum[n] = v % Bits(n)
  BY <1>7
<1>. QED
  BY <1>4, <1>8, ByteFacts, SmallRemainder

-----------------------------------------------------------------------------
(***************************************************************************)
(* Digits: the varints and the decimal numbers.                            *)
(***************************************************************************)

\* The longest varints can only be longer than others if a group has a bit.
LEMMA GroupHasBits == B > 1
<1>. DEFINE p == Power(B, Groups32 - 1)
            q == Power(B, Groups32)
<1>1. Groups32 - 1 \in Nat /\ (Groups32 - 1) + 1 = Groups32
  BY WidthAssumption
<1>2. p \in Nat \ {0} /\ q = B * p
  BY ZenonT(60), <1>1, ByteFacts, PowerLaws
<1>3. p < UInt32 /\ UInt32 <= q /\ UInt32 \in Nat
  BY WidthAssumption, ByteFacts DEF UInt32
<1>. HIDE DEF p, q
<1>4. B = 1 => q = p
  BY <1>2
<1>. QED
  BY <1>2, <1>3, <1>4, ByteFacts

\* Dividing by more than one makes a positive number less.
LEMMA DividedLess ==
  ASSUME NEW a \in Nat, NEW c \in Nat, c > 1, a >= c
  PROVE  a \div c \in Nat /\ a \div c < a /\ a \div c >= 1
<1>. DEFINE q == a \div c
            r == a % c
<1>1. q \in Nat /\ r \in 0 .. c - 1 /\ a = q * c + r
  <2>1. c \in Nat \ {0}
    OBVIOUS
  <2>. QED
    BY <2>1, Divided
<1>. HIDE DEF q, r
<1>2. q # 0
  BY <1>1
<1>3. q * c >= q * 2
  BY <1>1
<1>4. q * c \in Nat
  BY <1>1
<1>5. q < a /\ q >= 1
  BY <1>1, <1>2, <1>3, <1>4
<1>. QED
  BY <1>1, <1>5 DEF q

\* Whatever digit a number has, G makes of it and of a value in V one in V.
DigitsIn(V, base, G) ==
  /\ base \in [Nat -> V]
  /\ \A k \in Nat : \A v \in V : G[k][v] \in V

\* A function defined digit by digit, the lowest digit to the base c first, exists.
LEMMA DigitRecursion ==
  ASSUME NEW c \in Nat, c > 1, NEW V, NEW base, NEW G, DigitsIn(V, base, G)
  PROVE  \E f \in [Nat -> V] :
           \A k \in Nat : f[k] = IF k < c THEN base[k] ELSE G[k][f[k \div c]]
<1>. DEFINE mu == [k \in Nat |-> k]
            C == {k \in Nat : k >= c}
            next == [k \in Nat |-> k \div c]
<1>1. mu \in [Nat -> Nat]
  OBVIOUS
<1>2. ASSUME NEW k \in Nat, k \in C
      PROVE  next[k] \in Nat /\ mu[next[k]] < mu[k] /\ next[k] = k \div c
  <2>1. k \div c \in Nat /\ k \div c < k /\ next[k] = k \div c
    BY <1>2, DividedLess
  <2>. QED
    BY <2>1
<1>3. \A k \in Nat : k \in C <=> ~(k < c)
  OBVIOUS
<1>. HIDE DEF mu, C, next
<1>4. Descends(Nat, V, mu, C, next, base, G)
  BY <1>1, <1>2 DEF Descends, DigitsIn
<1>5. PICK f \in [Nat -> V] :
        \A k \in Nat : f[k] = IF k \in C THEN G[k][f[next[k]]] ELSE base[k]
  BY <1>4, RecursiveFunction
<1>6. ASSUME NEW k \in Nat PROVE f[k] = IF k < c THEN base[k] ELSE G[k][f[k \div c]]
  <2>1. CASE k \in C
    <3>1. next[k] = k \div c
      BY <1>2, <2>1
    <3>. QED
      BY <1>3, <1>5, <2>1, <3>1
  <2>2. CASE k \notin C
    BY <1>3, <1>5, <2>2
  <2>. QED
    BY <2>1, <2>2
<1>. QED
  BY <1>6

\* A set with every number below c and every number whose quotient by c it has,
\* has every number.
LEMMA DigitInduction ==
  ASSUME NEW c \in Nat, c > 1, NEW T,
         \A k \in Nat : k < c => k \in T,
         \A k \in Nat : k >= c /\ k \div c \in T => k \in T
  PROVE  Nat \subseteq T
<1>1. ASSUME NEW k \in Nat, \A i \in Nat : i < k => i \in T PROVE k \in T
  <2>1. CASE k < c
    BY <2>1
  <2>2. CASE k >= c
    <3>1. k \div c \in Nat /\ k \div c < k
      BY <2>2, DividedLess
    <3>2. k \div c \in T
      BY <1>1, <3>1
    <3>. QED
      BY <2>2, <3>2
  <2>. QED
    BY <2>1, <2>2
<1>. QED
  BY <1>1, StrongInduction

\* e makes its values by these digits.
ByDigits(c, V, base, G, e) ==
  /\ DigitsIn(V, base, G)
  /\ \A k \in Nat : k < c => e[k] = base[k]
  /\ \A k \in Nat : k >= c /\ e[k \div c] \in V => e[k] = G[k][e[k \div c]]

\* The values of a function defined digit by digit.
LEMMA DigitValues ==
  ASSUME NEW c \in Nat, c > 1, NEW V, NEW base, NEW G, NEW e, ByDigits(c, V, base, G, e)
  PROVE  \A k \in Nat : e[k] \in V
<1>. DEFINE T == {k \in Nat : e[k] \in V}
<1>1. ASSUME NEW k \in Nat, k < c PROVE k \in T
  BY <1>1 DEF ByDigits, DigitsIn
<1>2. ASSUME NEW k \in Nat, k >= c, k \div c \in T PROVE k \in T
  <2>1. e[k \div c] \in V
    BY <1>2
  <2>2. e[k] = G[k][e[k \div c]]
    BY <1>2, <2>1 DEF ByDigits
  <2>. QED
    BY <2>1, <2>2 DEF ByDigits, DigitsIn
<1>3. Nat \subseteq T
  <2>. HIDE DEF T
  <2>. QED
    BY <1>1, <1>2, DigitInduction
<1>. QED
  BY <1>3

\* Sequences over a set: one element, and the concatenation of two.
LEMMA SeqParts ==
  ASSUME NEW S
  PROVE  /\ \A e \in S : << e >> \in Seq(S) /\ Len(<< e >>) = 1
         /\ \A s, t \in Seq(S) : s \o t \in Seq(S) /\ Len(s \o t) = Len(s) + Len(t)
OBVIOUS

\* The definition of EncodeVarint64 holds: it is a byte string, low group first.
LEMMA EncodeVarint64Def ==
  /\ EncodeVarint64 \in [Nat -> Strings]
  /\ \A v \in Nat : EncodeVarint64[v] =
       IF v < B THEN << v >> ELSE << (v % B) + B >> \o EncodeVarint64[v \div B]
<1>. DEFINE Def(f) == [v \in Nat |-> IF v < B THEN << v >> ELSE << (v % B) + B >> \o f[v \div B]]
            e == CHOOSE f : f = Def(f)
            V == Strings
            base == [v \in Nat |-> IF v < B THEN << v >> ELSE << >>]
            G == [v \in Nat |-> [s \in V |-> << (v % B) + B >> \o s]]
<1>1. EncodeVarint64 = e
  BY Zenon DEF EncodeVarint64
<1>2. ASSUME NEW v \in Nat PROVE base[v] \in V /\ (v < B => base[v] = << v >>)
  <2>1. CASE v < B
    <3>1. v \in 0 .. ByteRange - 1
      BY <2>1, ByteFacts
    <3>. QED
      BY <2>1, <3>1, SeqParts DEF Strings
  <2>2. CASE ~(v < B)
    BY <2>2 DEF Strings
  <2>. QED
    BY <2>1, <2>2
<1>3. ASSUME NEW v \in Nat, NEW s \in V PROVE G[v][s] \in V /\ G[v][s] = << (v % B) + B >> \o s
  <2>1. v % B \in 0 .. B - 1
    BY ByteFacts, Divided
  <2>2. (v % B) + B \in 0 .. ByteRange - 1
    BY <2>1, ByteFacts
  <2>3. << (v % B) + B >> \in Strings
    BY <2>2, SeqParts DEF Strings
  <2>4. << (v % B) + B >> \o s \in Strings
    BY <2>3, SeqParts DEF Strings
  <2>. QED
    BY <2>4
<1>4. DigitsIn(V, base, G)
  <2>1. base \in [Nat -> V]
    BY <1>2
  <2>. HIDE DEF base, G, V
  <2>. QED
    BY <1>3, <2>1 DEF DigitsIn
<1>5. PICK f \in [Nat -> V] : \A k \in Nat : f[k] = IF k < B THEN base[k] ELSE G[k][f[k \div B]]
  <2>. HIDE DEF base, G, V
  <2>1. B \in Nat /\ B > 1
    BY GroupHasBits, ByteFacts
  <2>. QED
    BY <1>4, <2>1, DigitRecursion
<1>. HIDE DEF base, G
<1>6. ASSUME NEW v \in Nat
      PROVE  f[v] = IF v < B THEN << v >> ELSE << (v % B) + B >> \o f[v \div B]
  <2>1. v \div B \in Nat
    BY ByteFacts, Divided
  <2>2. f[v \div B] \in V
    BY <2>1
  <2>. HIDE DEF V
  <2>. QED
    BY <1>2, <1>3, <1>5, <2>2
<1>7. f = Def(f)
  <2>1. f = [k \in Nat |-> f[k]]
    OBVIOUS
  <2>. QED
    BY ZenonT(60), <1>6, <2>1
<1>8. e = Def(e)
  BY ZenonT(60), <1>7
<1>. HIDE DEF e
<1>9. \A v \in Nat : e[v] = IF v < B THEN << v >> ELSE << (v % B) + B >> \o e[v \div B]
  <2>1. \A v \in Nat : e[v] = Def(e)[v]
    BY <1>8
  <2>. QED
    BY ZenonT(60), <2>1
<1>10. \A v \in Nat : e[v] \in V
  <2>1. B \in Nat /\ B > 1
    BY GroupHasBits, ByteFacts
  <2>2. ASSUME NEW v \in Nat, v < B PROVE e[v] = base[v]
    BY <1>2, <1>9, <2>2
  <2>. HIDE DEF V
  <2>3. ASSUME NEW v \in Nat, v >= B, e[v \div B] \in V PROVE e[v] = G[v][e[v \div B]]
    <3>1. ~(v < B)
      BY <2>1, <2>3
    <3>. QED
      BY <1>3, <1>9, <2>3, <3>1
  <2>4. ByDigits(B, V, base, G, e)
    BY <1>4, <2>2, <2>3 DEF ByDigits
  <2>. QED
    BY <2>1, <2>4, DigitValues
<1>11. e \in [Nat -> V]
  <2>1. e = [v \in Nat |-> e[v]]
    BY <1>8
  <2>. QED
    BY <1>10, <2>1
<1>. QED
  BY <1>1, <1>9, <1>11

\* The definition of VarintLength holds.
LEMMA VarintLengthDef ==
  /\ VarintLength \in [Nat -> Nat \ {0}]
  /\ \A v \in Nat : VarintLength[v] = IF v < B THEN 1 ELSE 1 + VarintLength[v \div B]
<1>. DEFINE Def(f) == [v \in Nat |-> IF v < B THEN 1 ELSE 1 + f[v \div B]]
            e == CHOOSE f : f = Def(f)
            V == Nat \ {0}
            base == [v \in Nat |-> 1]
            G == [v \in Nat |-> [s \in V |-> 1 + s]]
<1>1. VarintLength = e
  BY Zenon DEF VarintLength
<1>2. ASSUME NEW v \in Nat PROVE base[v] \in V /\ (v < B => base[v] = 1)
  OBVIOUS
<1>3. ASSUME NEW v \in Nat, NEW s \in V PROVE G[v][s] \in V /\ G[v][s] = 1 + s
  OBVIOUS
<1>4. DigitsIn(V, base, G)
  <2>1. base \in [Nat -> V]
    BY <1>2
  <2>. HIDE DEF base, G, V
  <2>. QED
    BY <1>3, <2>1 DEF DigitsIn
<1>5. PICK f \in [Nat -> V] : \A k \in Nat : f[k] = IF k < B THEN base[k] ELSE G[k][f[k \div B]]
  <2>. HIDE DEF base, G, V
  <2>1. B \in Nat /\ B > 1
    BY GroupHasBits, ByteFacts
  <2>. QED
    BY <1>4, <2>1, DigitRecursion
<1>. HIDE DEF base, G
<1>6. ASSUME NEW v \in Nat
      PROVE  f[v] = IF v < B THEN 1 ELSE 1 + f[v \div B]
  <2>1. v \div B \in Nat
    BY ByteFacts, Divided
  <2>2. f[v \div B] \in V
    BY <2>1
  <2>. HIDE DEF V
  <2>. QED
    BY <1>2, <1>3, <1>5, <2>2
<1>7. f = Def(f)
  <2>1. f = [k \in Nat |-> f[k]]
    OBVIOUS
  <2>. QED
    BY <1>6, <2>1
<1>8. e = Def(e)
  BY <1>7
<1>. HIDE DEF e
<1>9. \A v \in Nat : e[v] = IF v < B THEN 1 ELSE 1 + e[v \div B]
  <2>1. \A v \in Nat : e[v] = Def(e)[v]
    BY <1>8
  <2>. QED
    BY <2>1
<1>10. \A v \in Nat : e[v] \in V
  <2>1. B \in Nat /\ B > 1
    BY GroupHasBits, ByteFacts
  <2>2. ASSUME NEW v \in Nat, v < B PROVE e[v] = base[v]
    BY <1>2, <1>9, <2>2
  <2>. HIDE DEF V
  <2>3. ASSUME NEW v \in Nat, v >= B, e[v \div B] \in V PROVE e[v] = G[v][e[v \div B]]
    <3>1. ~(v < B)
      BY <2>1, <2>3
    <3>. QED
      BY <1>3, <1>9, <2>3, <3>1
  <2>4. ByDigits(B, V, base, G, e)
    BY <1>4, <2>2, <2>3 DEF ByDigits
  <2>. QED
    BY <2>1, <2>4, DigitValues
<1>11. e \in [Nat -> V]
  <2>1. e = [v \in Nat |-> e[v]]
    BY <1>8
  <2>. QED
    BY <1>10, <2>1
<1>. QED
  BY <1>1, <1>9, <1>11

\* Digits as texts.
Digits == Seq(Char0 .. Char0 + 9)

\* The definition of Decimal holds, and it writes digits.
LEMMA DecimalDef ==
  /\ Decimal \in [Nat -> Digits]
  /\ \A v \in Nat : Decimal[v] =
       IF v < 10 THEN << Char0 + v >> ELSE Append(Decimal[v \div 10], Char0 + (v % 10))
<1>. DEFINE Def(f) == [v \in Nat |-> IF v < 10 THEN << Char0 + v >>
                                     ELSE Append(f[v \div 10], Char0 + (v % 10))]
            e == CHOOSE f : f = Def(f)
            V == Digits
            base == [v \in Nat |-> IF v < 10 THEN << Char0 + v >> ELSE << >>]
            G == [v \in Nat |-> [s \in V |-> Append(s, Char0 + (v % 10))]]
<1>1. Decimal = e
  BY Zenon DEF Decimal
<1>a. Char0 \in Nat
  BY ByteAssumption, ByteFacts
<1>2. ASSUME NEW v \in Nat PROVE base[v] \in V /\ (v < 10 => base[v] = << Char0 + v >>)
  <2>1. CASE v < 10
    <3>1. Char0 + v \in Char0 .. Char0 + 9
      BY <2>1, <1>a
    <3>. QED
      BY <2>1, <3>1, SeqParts DEF Digits
  <2>2. CASE ~(v < 10)
    BY <2>2 DEF Digits
  <2>. QED
    BY <2>1, <2>2
<1>3. ASSUME NEW v \in Nat, NEW s \in V PROVE G[v][s] \in V /\ G[v][s] = Append(s, Char0 + (v % 10))
  <2>1. Char0 + (v % 10) \in Char0 .. Char0 + 9
    BY <1>a
  <2>2. Append(s, Char0 + (v % 10)) \in Digits
    BY <2>1 DEF Digits
  <2>. QED
    BY <2>2
<1>4. DigitsIn(V, base, G)
  <2>1. base \in [Nat -> V]
    BY <1>2
  <2>. HIDE DEF base, G, V
  <2>. QED
    BY <1>3, <2>1 DEF DigitsIn
<1>5. PICK f \in [Nat -> V] : \A k \in Nat : f[k] = IF k < 10 THEN base[k] ELSE G[k][f[k \div 10]]
  <2>. HIDE DEF base, G, V
  <2>1. 10 \in Nat /\ 10 > 1
    OBVIOUS
  <2>. QED
    BY <1>4, <2>1, DigitRecursion
<1>. HIDE DEF base, G
<1>6. ASSUME NEW v \in Nat
      PROVE  f[v] = IF v < 10 THEN << Char0 + v >> ELSE Append(f[v \div 10], Char0 + (v % 10))
  <2>1. v \div 10 \in Nat
    OBVIOUS
  <2>2. f[v \div 10] \in V
    BY <2>1
  <2>. HIDE DEF V
  <2>. QED
    BY <1>2, <1>3, <1>5, <2>2
<1>7. f = Def(f)
  <2>1. f = [k \in Nat |-> f[k]]
    OBVIOUS
  <2>. QED
    BY <1>6, <2>1
<1>8. e = Def(e)
  BY <1>7
<1>. HIDE DEF e
<1>9. \A v \in Nat : e[v] = IF v < 10 THEN << Char0 + v >> ELSE Append(e[v \div 10], Char0 + (v % 10))
  <2>1. \A v \in Nat : e[v] = Def(e)[v]
    BY <1>8
  <2>. QED
    BY <2>1
<1>10. \A v \in Nat : e[v] \in V
  <2>1. 10 \in Nat /\ 10 > 1
    OBVIOUS
  <2>2. ASSUME NEW v \in Nat, v < 10 PROVE e[v] = base[v]
    <3>1. e[v] = << Char0 + v >>
      BY Zenon, <1>9, <2>2
    <3>. QED
      BY <1>2, <2>2, <3>1
  <2>. HIDE DEF V
  <2>3. ASSUME NEW v \in Nat, v >= 10, e[v \div 10] \in V PROVE e[v] = G[v][e[v \div 10]]
    <3>1. ~(v < 10)
      BY <2>1, <2>3
    <3>2. e[v] = Append(e[v \div 10], Char0 + (v % 10))
      BY Zenon, <1>9, <3>1
    <3>. QED
      BY <1>3, <2>3, <3>2
  <2>4. ByDigits(10, V, base, G, e)
    BY <1>4, <2>2, <2>3 DEF ByDigits
  <2>. QED
    BY <2>1, <2>4, DigitValues
<1>11. e \in [Nat -> V]
  <2>1. e = [v \in Nat |-> e[v]]
    BY <1>8
  <2>. QED
    BY <1>10, <2>1
<1>. QED
  BY <1>1, <1>9, <1>11

\* VarintLength is the length of the varint.
LEMMA VarintLengthIsLen == \A v \in Nat : Len(EncodeVarint64[v]) = VarintLength[v]
<1>. DEFINE T == {v \in Nat : Len(EncodeVarint64[v]) = VarintLength[v]}
<1>1. B \in Nat /\ B > 1
  BY GroupHasBits, ByteFacts
<1>2. ASSUME NEW v \in Nat, v < B PROVE v \in T
  BY <1>2, EncodeVarint64Def, VarintLengthDef
<1>3. ASSUME NEW v \in Nat, v >= B, v \div B \in T PROVE v \in T
  <2>1. ~(v < B) /\ v \div B \in Nat
    BY <1>1, <1>3
  <2>. DEFINE q == v \div B
              s == EncodeVarint64[q]
              c == (v % B) + B
  <2>2. EncodeVarint64[v] = << c >> \o s /\ s \in Strings
    BY <2>1, EncodeVarint64Def
  <2>3. VarintLength[v] = 1 + VarintLength[q] /\ VarintLength[q] = Len(s)
    BY <1>3, <2>1, VarintLengthDef
  <2>. HIDE DEF s, c, q
  <2>4. Len(<< c >> \o s) = 1 + Len(s)
    BY <2>2 DEF Strings
  <2>. QED
    BY <2>2, <2>3, <2>4
<1>4. Nat \subseteq T
  <2>. HIDE DEF T
  <2>. QED
    BY <1>1, <1>2, <1>3, DigitInduction
<1>. QED
  BY <1>4

\* The varint of n groups of v, byte by byte, and when v has n groups.
VarintOf(v, n) ==
  [k \in 1 .. n |-> IF k < n THEN ((v \div Power(B, k - 1)) % B) + B ELSE v \div Power(B, n - 1)]

HasGroups(v, n) == v < Power(B, n) /\ (n = 1 \/ v >= Power(B, n - 1))

\* Powers of the group.
LEMMA GroupPowers ==
  /\ Power(B, 0) = 1 /\ Power(B, 1) = B
  /\ \A n \in Nat : Power(B, n) \in Nat \ {0} /\ Power(B, n + 1) = B * Power(B, n)
<1>1. 0 \in Nat /\ 0 + 1 = 1
  OBVIOUS
<1>2. B \in Nat \ {0}
  BY ByteFacts
<1>3. /\ Power(B, 0) = 1
      /\ \A n \in Nat : Power(B, n) \in Nat \ {0} /\ Power(B, n + 1) = B * Power(B, n)
  BY <1>2, PowerLaws
<1>4. Power(B, 0 + 1) = B * 1
  BY <1>1, <1>3
<1>. QED
  BY <1>1, <1>2, <1>3, <1>4

\* Taking off the low group.
LEMMA FewerGroups ==
  ASSUME NEW n \in Nat \ {0}, NEW v \in Nat, HasGroups(v, n + 1)
  PROVE  v >= B /\ v \div B \in Nat /\ HasGroups(v \div B, n)
<1>. DEFINE p == Power(B, n - 1)
            q == v \div B
            r == v % B
<1>1. n - 1 \in Nat /\ (n - 1) + 1 = n /\ (n + 1) - 1 = n /\ n + 1 # 1 /\ n \in Nat
  OBVIOUS
<1>2. B \in Nat \ {0} /\ B > 1
  BY ByteFacts, GroupHasBits
<1>3. p \in Nat \ {0} /\ Power(B, n) = B * p /\ Power(B, n + 1) = B * (B * p)
  BY <1>1, GroupPowers
<1>4. v < B * (B * p) /\ v >= B * p
  BY <1>1, <1>3 DEF HasGroups
<1>5. q \in Nat /\ r \in 0 .. B - 1 /\ v = q * B + r
  BY <1>2, Divided
<1>. HIDE DEF p, q, r
<1>6. B * p \in Nat /\ B * p >= B
  BY <1>2, <1>3
<1>7. q < B * p
  <2>1. SUFFICES ASSUME q >= B * p PROVE FALSE
    BY <1>5, <1>6
  <2>2. q * B >= (B * p) * B
    BY <1>2, <1>5, <1>6, <2>1
  <2>3. (B * p) * B = B * (B * p)
    BY <1>2, <1>6
  <2>. DEFINE x == q * B
              y == B * (B * p)
  <2>4. x \in Nat /\ y \in Nat
    BY <1>2, <1>5, <1>6
  <2>5. x >= y /\ v = x + r /\ v < y /\ r \in Nat
    BY <1>4, <1>5, <2>2, <2>3
  <2>. HIDE DEF x, y
  <2>. QED
    BY <2>4, <2>5
<1>8. q >= p
  <2>1. SUFFICES ASSUME q < p PROVE FALSE
    BY <1>3, <1>5
  <2>2. (q + 1) * B <= p * B
    BY <1>2, <1>3, <1>5, <2>1
  <2>3. (q + 1) * B = q * B + B /\ p * B = B * p
    BY <1>2, <1>3, <1>5
  <2>. DEFINE x == q * B
              y == B * p
  <2>4. x \in Nat /\ y \in Nat
    BY <1>2, <1>5, <1>6
  <2>5. x + B <= y /\ v = x + r /\ v >= y /\ r \in Nat /\ r < B
    BY <1>2, <1>4, <1>5, <2>2, <2>3
  <2>. HIDE DEF x, y
  <2>. QED
    BY <1>2, <2>4, <2>5
<1>9. v >= B
  BY <1>2, <1>4, <1>6
<1>. QED
  BY <1>3, <1>5, <1>7, <1>8, <1>9 DEF HasGroups, q, p

\* The varint of a value is the one with its number of groups.
LEMMA VarintGroups ==
  \A n \in Nat \ {0} : \A v \in Nat : HasGroups(v, n) => EncodeVarint64[v] = VarintOf(v, n)
<1>. DEFINE P(n) == \A v \in Nat : HasGroups(v, n) => EncodeVarint64[v] = VarintOf(v, n)
            T == {n \in Nat : P(n + 1)}
<1>1. 0 \in T
  <2>. SUFFICES ASSUME NEW v \in Nat, HasGroups(v, 1) PROVE EncodeVarint64[v] = VarintOf(v, 1)
    OBVIOUS
  <2>1. v < B
    BY GroupPowers DEF HasGroups
  <2>2. VarintOf(v, 1) = [k \in 1 .. 1 |-> v]
    BY GroupPowers DEF VarintOf
  <2>3. [k \in 1 .. 1 |-> v] = << v >>
    OBVIOUS
  <2>. QED
    BY <2>1, <2>2, <2>3, EncodeVarint64Def
<1>2. ASSUME NEW m \in Nat, m \in T PROVE m + 1 \in T
  <2>. DEFINE n == m + 1
  <2>0. n \in Nat \ {0} /\ n + 1 \in Nat /\ (m + 1) + 1 = n + 1 /\ P(n)
    BY <1>2
  <2>. HIDE DEF n, P
  <2>1. ASSUME NEW v \in Nat, HasGroups(v, n + 1) PROVE EncodeVarint64[v] = VarintOf(v, n + 1)
    <3>. DEFINE q == v \div B
                c == (v % B) + B
                s == VarintOf(q, n)
    <3>1. v >= B /\ q \in Nat /\ HasGroups(q, n)
      BY <2>0, <2>1, FewerGroups
    <3>2. EncodeVarint64[q] = s
      BY <2>0, <3>1 DEF P
    <3>3. EncodeVarint64[v] = << c >> \o s
      <4>1. ~(v < B)
        BY <3>1, ByteFacts
      <4>. QED
        BY <3>2, <4>1, EncodeVarint64Def
    <3>4. c \in Nat
      BY ByteFacts, Divided
    <3>5. \A k \in 1 .. n : k - 1 \in Nat /\ Power(B, k - 1) \in Nat \ {0} /\ Power(B, k) = B * Power(B, k - 1)
      <4>1. \A k \in 1 .. n : k - 1 \in Nat /\ (k - 1) + 1 = k
        OBVIOUS
      <4>. QED
        BY <4>1, GroupPowers
    <3>6. ASSUME NEW k \in 1 .. n
          PROVE  (q \div Power(B, k - 1)) = v \div Power(B, k)
      <4>. DEFINE p == Power(B, k - 1)
      <4>1. p \in Nat \ {0} /\ Power(B, k) = B * p
        BY <3>5
      <4>. HIDE DEF p
      <4>2. v \div (p * B) = (v \div B) \div p
        <5>1. B \in Nat \ {0}
          BY ByteFacts
        <5>. QED
          BY <4>1, <5>1, DividedTwice
      <4>3. p * B = B * p
        BY <4>1, ByteFacts
      <4>. QED
        BY <4>1, <4>2, <4>3 DEF p
    <3>7. s \in [1 .. n -> Int] /\ s \in Seq(Int) /\ Len(s) = n
      <4>1. ASSUME NEW k \in 1 .. n PROVE q \div Power(B, k - 1) \in Nat
        <5>. DEFINE p == Power(B, k - 1)
        <5>1. p \in Nat \ {0}
          BY <3>5
        <5>. HIDE DEF p, q
        <5>2. q \div p \in Nat
          BY <3>1, <5>1, Divided
        <5>. QED
          BY <5>2 DEF p
      <4>2. ASSUME NEW k \in 1 .. n
            PROVE  (IF k < n THEN ((q \div Power(B, k - 1)) % B) + B ELSE q \div Power(B, n - 1)) \in Int
        <5>. DEFINE a == q \div Power(B, k - 1)
        <5>1. a \in Nat
          BY <4>1
        <5>2. ~(k < n) => k = n
          BY <2>0
        <5>. HIDE DEF a
        <5>3. (a % B) + B \in Int
          BY <5>1, ByteFacts
        <5>. QED
          BY <5>1, <5>2, <5>3 DEF a
      <4>3. s = [k \in 1 .. n |-> IF k < n THEN ((q \div Power(B, k - 1)) % B) + B ELSE q \div Power(B, n - 1)]
        BY DEF VarintOf
      <4>. HIDE DEF s, q
      <4>4. s \in [1 .. n -> Int]
        BY <4>2, <4>3
      <4>. QED
        BY <2>0, <4>4
    <3>8. << c >> \o s = [k \in 1 .. n + 1 |-> IF k = 1 THEN c ELSE s[k - 1]]
      <4>. HIDE DEF c, s
      <4>. QED
        BY <2>0, <3>4, <3>7
    <3>9. ASSUME NEW k \in 1 .. n + 1
          PROVE  (IF k = 1 THEN c ELSE s[k - 1])
                   = IF k < n + 1 THEN ((v \div Power(B, k - 1)) % B) + B ELSE v \div Power(B, (n + 1) - 1)
      <4>1. CASE k = 1
        <5>1. v \div Power(B, k - 1) = v /\ k < n + 1
          BY <2>0, <4>1, GroupPowers
        <5>. QED
          BY <4>1, <5>1
      <4>2. CASE k # 1
        <5>. DEFINE j == k - 1
        <5>1. j \in 1 .. n /\ (k < n + 1 <=> j < n) /\ (~(j < n) => j = n) /\ (n + 1) - 1 = n
          BY <2>0, <4>2
        <5>2. s[j] = IF j < n THEN ((q \div Power(B, j - 1)) % B) + B ELSE q \div Power(B, n - 1)
          BY <5>1 DEF VarintOf
        <5>3. q \div Power(B, j - 1) = v \div Power(B, j)
          BY <3>6, <5>1
        <5>4. CASE j < n
          BY <4>2, <5>1, <5>2, <5>3, <5>4
        <5>5. CASE j = n
          BY <4>2, <5>1, <5>2, <5>3, <5>5
        <5>. QED
          BY <5>1, <5>4, <5>5
      <4>. QED
        BY <4>1, <4>2
    <3>10. VarintOf(v, n + 1) = [k \in 1 .. n + 1 |-> IF k = 1 THEN c ELSE s[k - 1]]
      <4>. HIDE DEF c, s
      <4>. QED
        BY <3>9 DEF VarintOf
    <3>. QED
      BY <3>3, <3>8, <3>10
  <2>2. P(n + 1)
    BY <2>1 DEF P
  <2>. QED
    BY <2>2 DEF n
<1>3. Nat \subseteq T
  <2>. HIDE DEF T
  <2>. QED
    BY <1>1, <1>2, Induction
<1>4. ASSUME NEW n \in Nat \ {0} PROVE P(n)
  <2>1. n - 1 \in Nat /\ (n - 1) + 1 = n
    OBVIOUS
  <2>2. n - 1 \in T
    BY <1>3, <2>1
  <2>3. P((n - 1) + 1)
    <3>. HIDE DEF P
    <3>. QED
      BY <2>2
  <2>. QED
    BY <2>1, <2>3
<1>. QED
  BY <1>4

\* The least of a set of numbers, and of two.
LEMMA MinFacts ==
  ASSUME NEW S \in SUBSET Nat, S # {}
  PROVE  Min(S) \in S /\ \A y \in S : Min(S) <= y
<1>1. \E x \in S : \A y \in S : x <= y
  BY LeastElement
<1>. QED
  BY <1>1 DEF Min

\* The smaller of two numbers, as coding.h takes it of a length and a limit.
LEMMA MinPair ==
  ASSUME NEW a \in Nat, NEW b \in Nat
  PROVE  Min({a, b}) = IF a <= b THEN a ELSE b
<1>. DEFINE S == {a, b}
<1>1. S \in SUBSET Nat /\ S # {} /\ a \in S /\ b \in S /\ \A y \in S : y = a \/ y = b
  OBVIOUS
<1>. HIDE DEF S
<1>2. Min(S) \in S /\ \A y \in S : Min(S) <= y
  BY <1>1, MinFacts
<1>. DEFINE m == Min(S)
<1>3. m \in Nat /\ (m = a \/ m = b) /\ m <= a /\ m <= b
  BY <1>1, <1>2
<1>. HIDE DEF m
<1>4. m = IF a <= b THEN a ELSE b
  BY <1>3
<1>. QED
  BY <1>4 DEF S, m

\* A value below the power of m has a number of groups, and no more than m.
LEMMA GroupsExist ==
  ASSUME NEW m \in Nat \ {0}, NEW v \in Nat, v < Power(B, m)
  PROVE  \E n \in 1 .. m : HasGroups(v, n) /\ \A l \in 1 .. n - 1 : v >= Power(B, l)
<1>. DEFINE T == {n \in 1 .. m : v < Power(B, n)}
<1>1. m \in T /\ T \in SUBSET Nat
  OBVIOUS
<1>2. PICK n \in T : \A k \in T : n <= k
  BY <1>1, LeastElement
<1>3. ASSUME NEW l \in 1 .. n - 1 PROVE v >= Power(B, l)
  <2>1. l \in 1 .. m /\ ~(n <= l) /\ l \in Nat
    BY <1>2
  <2>2. ~(v < Power(B, l))
    BY <1>2, <2>1
  <2>3. Power(B, l) \in Nat
    BY <2>1, GroupPowers
  <2>. QED
    BY <2>2, <2>3
<1>4. n \in 1 .. m /\ v < Power(B, n) /\ (n = 1 \/ n - 1 \in 1 .. n - 1)
  BY <1>2
<1>. QED
  BY <1>3, <1>4 DEF HasGroups

\* Unrolled or as a loop, a 32 bit value has one varint.
LEMMA Varint32Is64 ==
  ASSUME NEW v \in 0 .. UInt32 - 1
  PROVE  EncodeVarint32(v) = EncodeVarint64[v]
<1>. DEFINE P(m) == /\ v < Power(B, m) \/ m = Groups32
                    /\ \A l \in 1 .. m - 1 : v >= Power(B, l)
            n == CHOOSE m \in 1 .. Groups32 : P(m)
<1>1. v \in Nat /\ v < Power(B, Groups32) /\ Groups32 \in Nat \ {0}
  <2>1. UInt32 \in Nat /\ Power(B, Groups32) \in Nat
    BY ByteFacts, GroupPowers, WidthAssumption DEF UInt32
  <2>. QED
    BY <2>1, WidthAssumption
<1>2. \E m \in 1 .. Groups32 : P(m)
  <2>1. PICK m \in 1 .. Groups32 : HasGroups(v, m) /\ \A l \in 1 .. m - 1 : v >= Power(B, l)
    BY <1>1, GroupsExist
  <2>. QED
    BY <2>1 DEF HasGroups
<1>3. n \in 1 .. Groups32 /\ P(n)
  <2>. HIDE DEF P
  <2>. QED
    BY <1>2
<1>4. EncodeVarint32(v) = VarintOf(v, n)
  BY Zenon DEF EncodeVarint32, VarintOf
<1>. HIDE DEF n
<1>5. HasGroups(v, n) /\ n \in Nat \ {0}
  <2>1. n \in Nat \ {0} /\ (n = 1 \/ n - 1 \in 1 .. n - 1)
    BY <1>1, <1>3
  <2>2. v < Power(B, n)
    BY <1>1, <1>3
  <2>. QED
    BY <1>3, <2>1, <2>2 DEF HasGroups
<1>. QED
  BY <1>1, <1>4, <1>5, VarintGroups

\* The bytes of a string.
LEMMA StringBytes ==
  ASSUME NEW s \in Strings
  PROVE  /\ Len(s) \in Nat
         /\ \A k \in 1 .. Len(s) : s[k] \in Nat /\ s[k] < ByteRange
<1>. DEFINE S == 0 .. ByteRange - 1
<1>1. s \in Seq(S)
  BY DEF Strings
<1>2. \A b \in S : b \in Nat /\ b < ByteRange
  BY ByteFacts
<1>. HIDE DEF S
<1>3. Len(s) \in Nat /\ \A k \in 1 .. Len(s) : s[k] \in S
  BY <1>1
<1>. QED
  BY <1>2, <1>3

\* What GetVarint adds up, from the lowest group.
LEMMA GetVarintSum ==
  ASSUME NEW s \in Strings, NEW groups \in Nat, NEW modulus \in Nat \ {0}
  PROVE  LET limit == Min({Len(s), groups})
             ends == {k \in 1 .. limit : s[k] < B}
         IN  \E sum \in [0 .. limit -> Nat] :
               /\ sum[0] = 0
               /\ \A k \in 1 .. limit : sum[k] = sum[k - 1] + (s[k] % B) * Power(B, k - 1)
               /\ GetVarint(s, groups, modulus) =
                    IF ends = {} THEN Failed
                    ELSE [ok |-> TRUE, value |-> sum[Min(ends)] % modulus, used |-> Min(ends)]
<1>. DEFINE n == Min({Len(s), groups})
            Def(f) == [k \in 0 .. n |-> IF k = 0 THEN 0 ELSE f[k - 1] + (s[k] % B) * Power(B, k - 1)]
            sum == CHOOSE f : f = Def(f)
            ends == {k \in 1 .. n : s[k] < B}
<1>1. GetVarint(s, groups, modulus) =
        IF ends = {} THEN Failed
        ELSE [ok |-> TRUE, value |-> sum[Min(ends)] % modulus, used |-> Min(ends)]
  BY Zenon DEF GetVarint
<1>2. n \in Nat /\ n <= Len(s) /\ n <= groups
  <2>1. Len(s) \in Nat
    BY DEF Strings
  <2>. QED
    BY <2>1, MinPair
<1>. HIDE DEF n
<1>3. ASSUME NEW k \in 1 .. n
      PROVE  k - 1 \in Nat /\ k \in 0 .. n /\ k - 1 \in 0 .. n /\ k # 0
             /\ (s[k] % B) * Power(B, k - 1) \in Nat
  <2>1. k - 1 \in Nat /\ k \in 0 .. n /\ k - 1 \in 0 .. n /\ k # 0 /\ k \in 1 .. Len(s)
    BY <1>2 DEF Strings
  <2>2. s[k] \in Nat
    BY <2>1, StringBytes
  <2>. DEFINE c == s[k] % B
              p == Power(B, k - 1)
  <2>3. c \in Nat
    <3>. DEFINE d == s[k]
    <3>1. d \in Nat /\ c = d % B /\ B \in Nat \ {0}
      BY <2>2, ByteFacts
    <3>. HIDE DEF d, c
    <3>. QED
      BY <3>1, Divided
  <2>4. p \in Nat
    BY <2>1, GroupPowers
  <2>. HIDE DEF c, p
  <2>5. c * p \in Nat
    BY <2>3, <2>4
  <2>. QED
    BY <2>1, <2>5 DEF c, p
<1>4. \E f \in [0 .. n -> Nat] : f = Def(f)
  <2>. DEFINE G == [k \in 1 .. n |-> [v \in Nat |-> v + (s[k] % B) * Power(B, k - 1)]]
  <2>1. \A k \in 1 .. n : \A v \in Nat : /\ G[k][v] \in Nat
                                         /\ G[k][v] = v + (s[k] % B) * Power(B, k - 1)
    BY <1>3
  <2>2. PICK f \in [0 .. n -> Nat] : f[0] = 0 /\ \A k \in 1 .. n : f[k] = G[k][f[k - 1]]
    <3>. HIDE DEF G
    <3>. DEFINE V == Nat
                v0 == 0
    <3>1. StepsIn(n, V, G) /\ v0 \in V
      BY <2>1 DEF StepsIn
    <3>. HIDE DEF V, v0
    <3>2. \E f \in [0 .. n -> V] : f[0] = v0 /\ \A k \in 1 .. n : f[k] = G[k][f[k - 1]]
      BY <1>2, <3>1, LinearRecursion
    <3>. QED
      BY <3>2 DEF V, v0
  <2>. HIDE DEF G
  <2>3. \A k \in 1 .. n : f[k] = f[k - 1] + (s[k] % B) * Power(B, k - 1)
    BY <1>3, <2>1, <2>2
  <2>4. \A k \in 0 .. n : f[k] = IF k = 0 THEN 0 ELSE f[k - 1] + (s[k] % B) * Power(B, k - 1)
    <3>1. \A k \in 0 .. n : k = 0 \/ k \in 1 .. n
      BY <1>2
    <3>. QED
      BY <1>3, <2>2, <2>3, <3>1
  <2>5. f = [k \in 0 .. n |-> f[k]]
    OBVIOUS
  <2>6. f = Def(f)
    BY <2>4, <2>5
  <2>. QED
    BY <2>6
<1>5. sum = Def(sum)
  BY <1>4
<1>. HIDE DEF sum
<1>6. \A k \in 0 .. n : sum[k] = Def(sum)[k]
  BY <1>5
<1>7. sum[0] = 0 /\ \A k \in 1 .. n : sum[k] = sum[k - 1] + (s[k] % B) * Power(B, k - 1)
  BY <1>2, <1>3, <1>6
<1>8. sum \in [0 .. n -> Nat]
  <2>. DEFINE T == {k \in 0 .. n : sum[k] \in Nat}
  <2>1. 0 \in T
    BY <1>2, <1>7
  <2>2. ASSUME NEW k \in 1 .. n, k - 1 \in T PROVE k \in T
    BY <1>3, <1>7, <2>2
  <2>. HIDE DEF T
  <2>3. 0 .. n \subseteq T
    BY <1>2, <2>1, <2>2, BoundedInduction
  <2>4. sum = [k \in 0 .. n |-> sum[k]]
    BY <1>5
  <2>. QED
    BY <2>3, <2>4 DEF T
<1>9. \E m \in [0 .. n -> Nat] :
        /\ m[0] = 0
        /\ \A k \in 1 .. n : m[k] = m[k - 1] + (s[k] % B) * Power(B, k - 1)
        /\ GetVarint(s, groups, modulus) =
             IF ends = {} THEN Failed
             ELSE [ok |-> TRUE, value |-> m[Min(ends)] % modulus, used |-> Min(ends)]
  BY <1>1, <1>7, <1>8
<1>. QED
  BY Zenon, <1>9 DEF n

\* Whatever the bytes, GetVarint fails or takes bytes that are there.
LEMMA GetVarintRange ==
  ASSUME NEW s \in Strings, NEW groups \in Nat, NEW modulus \in Nat \ {0}
  PROVE  \/ GetVarint(s, groups, modulus) = Failed
         \/ \E v \in Nat, u \in 1 .. Len(s) :
              GetVarint(s, groups, modulus) = [ok |-> TRUE, value |-> v, used |-> u]
<1>. DEFINE n == Min({Len(s), groups})
            ends == {k \in 1 .. n : s[k] < B}
            last == Min(ends)
<1>1. PICK sum \in [0 .. n -> Nat] :
        GetVarint(s, groups, modulus) =
          IF ends = {} THEN Failed
          ELSE [ok |-> TRUE, value |-> sum[last] % modulus, used |-> last]
  BY Zenon, GetVarintSum
<1>2. n \in Nat /\ n <= Len(s) /\ Len(s) \in Nat
  <2>1. Len(s) \in Nat
    BY DEF Strings
  <2>. QED
    BY <2>1, MinPair
<1>. HIDE DEF n
<1>3. CASE ends # {}
  <2>1. last \in ends
    <3>1. ends \in SUBSET Nat
      OBVIOUS
    <3>. HIDE DEF ends
    <3>. QED
      BY <1>3, <3>1, MinFacts
  <2>2. last \in 1 .. Len(s) /\ last \in 0 .. n
    BY <1>2, <2>1
  <2>. HIDE DEF last, ends
  <2>3. sum[last] \in Nat
    BY <2>2
  <2>4. sum[last] % modulus \in Nat
    BY <2>3, Divided
  <2>. QED
    BY <1>1, <1>3, <2>2, <2>4
<1>. QED
  BY <1>1, <1>3

\* Each byte of a varint carries its group, and only the last is below the flag bit.
LEMMA VarintBytes ==
  ASSUME NEW v \in Nat, NEW n \in Nat \ {0}, HasGroups(v, n), NEW k \in 1 .. n
  PROVE  /\ VarintOf(v, n)[k] \in Nat /\ VarintOf(v, n)[k] < ByteRange
         /\ VarintOf(v, n)[k] % B = (v \div Power(B, k - 1)) % B
         /\ VarintOf(v, n)[k] < B <=> k = n
<1>. DEFINE p == Power(B, k - 1)
            d == v \div p
            c == VarintOf(v, n)[k]
<1>1. k - 1 \in Nat /\ (k - 1) + 1 = k /\ k \in Nat /\ (~(k < n) <=> k = n)
  OBVIOUS
<1>2. p \in Nat \ {0} /\ Power(B, k) = B * p
  BY <1>1, GroupPowers
<1>3. c = IF k < n THEN (d % B) + B ELSE v \div Power(B, n - 1)
  BY DEF VarintOf
<1>4. c = IF k < n THEN (d % B) + B ELSE d
  <2>1. CASE k < n
    BY <1>3, <2>1
  <2>2. CASE k = n
    BY <1>3, <2>2
  <2>. QED
    BY <1>1, <2>1, <2>2
<1>5. B \in Nat \ {0} /\ ByteRange = 2 * B
  BY ByteFacts
<1>. HIDE DEF p, c
<1>6. d \in Nat /\ v % p \in 0 .. p - 1 /\ v = d * p + (v % p)
  BY <1>2, Divided
<1>. DEFINE x == v % p
<1>. HIDE DEF d, x
<1>7. CASE k < n
  <2>. DEFINE e == d % B
  <2>1. e \in 0 .. B - 1 /\ c = e + B
    BY <1>4, <1>5, <1>6, <1>7, Divided
  <2>. HIDE DEF e
  <2>2. (1 * B + e) % B = e
    BY <1>5, <2>1, FooterParts
  <2>3. 1 * B + e = e + B
    BY <1>5, <2>1
  <2>4. c % B = e /\ c \in Nat /\ c < ByteRange /\ ~(c < B)
    BY <1>5, <2>1, <2>2, <2>3
  <2>. QED
    BY <1>1, <1>7, <2>4 DEF p, d, e, c
<1>8. CASE k = n
  <2>1. v < B * p
    BY <1>2, <1>8 DEF HasGroups
  <2>2. c = d
    BY <1>4, <1>8
  <2>3. d < B
    <3>1. SUFFICES ASSUME d >= B PROVE FALSE
      BY <1>5, <1>6
    <3>2. d * p >= B * p
      BY <1>2, <1>5, <1>6, <3>1
    <3>. DEFINE y == d * p
                z == B * p
    <3>3. y \in Nat /\ z \in Nat /\ x \in Nat /\ v = y + x /\ y >= z /\ v < z
      BY <1>2, <1>5, <1>6, <2>1, <3>2 DEF x
    <3>. HIDE DEF y, z
    <3>. QED
      BY <3>3
  <2>4. c \in Nat /\ c < ByteRange /\ c < B
    BY <1>5, <1>6, <2>2, <2>3
  <2>. QED
    BY <1>8, <2>2, <2>4 DEF p, d, c
<1>. QED
  BY <1>1, <1>7, <1>8

\* The groups of a value, added up with their weights, are the value.
LEMMA GroupsSum ==
  ASSUME NEW v \in Nat, NEW n \in Nat \ {0}, HasGroups(v, n), NEW sum, sum[0] = 0,
         \A k \in 1 .. n : sum[k] = sum[k - 1] + ((v \div Power(B, k - 1)) % B) * Power(B, k - 1)
  PROVE  sum[n] = v
<1>. DEFINE T == {k \in 0 .. n : sum[k] = v % Power(B, k)}
<1>1. 0 \in T
  BY GroupPowers
<1>2. ASSUME NEW k \in 1 .. n, k - 1 \in T PROVE k \in T
  <2>. DEFINE p == Power(B, k - 1)
  <2>1. k - 1 \in Nat /\ (k - 1) + 1 = k /\ k \in 0 .. n
    OBVIOUS
  <2>2. p \in Nat \ {0} /\ Power(B, k) = B * p
    BY <2>1, GroupPowers
  <2>3. sum[k] = (v % p) + ((v \div p) % B) * p
    BY <1>2
  <2>. HIDE DEF p
  <2>4. v % (B * p) = (v % p) + ((v \div p) % B) * p
    BY <2>2, ByteFacts, DividedTwice
  <2>. QED
    BY <2>1, <2>2, <2>3, <2>4
<1>3. 0 .. n \subseteq T
  <2>. HIDE DEF T
  <2>. QED
    BY <1>1, <1>2, BoundedInduction
<1>. DEFINE q == Power(B, n)
<1>4. sum[n] = v % q /\ v < q /\ q \in Nat \ {0}
  BY <1>3, GroupPowers DEF HasGroups
<1>. HIDE DEF q
<1>5. v \in 0 .. q - 1
  BY <1>4
<1>. QED
  BY <1>4, <1>5, SmallRemainder

\* A whole varint is read.
LEMMA GetVarintReads ==
  ASSUME NEW s \in Strings, NEW groups \in Nat, NEW modulus \in Nat \ {0},
         NEW v \in Nat, v < modulus,
         NEW n \in Nat \ {0}, HasGroups(v, n), n <= groups, n <= Len(s),
         \A k \in 1 .. n : s[k] = VarintOf(v, n)[k]
  PROVE  GetVarint(s, groups, modulus) = [ok |-> TRUE, value |-> v, used |-> n]
<1>. DEFINE limit == Min({Len(s), groups})
            ends == {k \in 1 .. limit : s[k] < B}
            last == Min(ends)
<1>1. PICK sum \in [0 .. limit -> Nat] :
        /\ sum[0] = 0
        /\ \A k \in 1 .. limit : sum[k] = sum[k - 1] + (s[k] % B) * Power(B, k - 1)
        /\ GetVarint(s, groups, modulus) =
             IF ends = {} THEN Failed
             ELSE [ok |-> TRUE, value |-> sum[last] % modulus, used |-> last]
  BY Zenon, GetVarintSum
<1>2. limit \in Nat /\ n <= limit
  <2>1. Len(s) \in Nat
    BY StringBytes
  <2>. QED
    BY <2>1, MinPair
<1>. HIDE DEF limit
<1>3. \A k \in 1 .. n : (s[k] < B <=> k = n) /\ s[k] % B = (v \div Power(B, k - 1)) % B
  BY SMTT(60), VarintBytes
<1>4. n \in ends /\ \A k \in ends : k >= n
  BY <1>2, <1>3
<1>5. last = n
  <2>1. ends \in SUBSET Nat /\ ends # {}
    BY <1>4
  <2>. HIDE DEF ends
  <2>2. last \in ends /\ \A y \in ends : last <= y
    BY <2>1, MinFacts
  <2>3. last \in Nat /\ last <= n /\ last >= n
    BY <1>4, <2>1, <2>2
  <2>. HIDE DEF last
  <2>. QED
    BY <2>3
<1>6. sum[n] = v
  <2>1. \A k \in 1 .. n : sum[k] = sum[k - 1] + ((v \div Power(B, k - 1)) % B) * Power(B, k - 1)
    <3>1. \A k \in 1 .. n : k \in 1 .. limit
      BY <1>2
    <3>. QED
      BY <1>1, <1>3, <3>1
  <2>. QED
    BY ZenonT(60), <1>1, <2>1, GroupsSum
<1>7. v % modulus = v
  <2>1. v \in 0 .. modulus - 1
    OBVIOUS
  <2>. QED
    BY <2>1, SmallRemainder
<1>8. ends # {}
  BY <1>4
<1>. HIDE DEF ends, last
<1>. QED
  BY <1>1, <1>5, <1>6, <1>7, <1>8

\* A varint whose last byte is missing is not.
LEMMA GetVarintCut ==
  ASSUME NEW s \in Strings, NEW groups \in Nat, NEW modulus \in Nat \ {0},
         NEW v \in Nat, NEW n \in Nat \ {0}, HasGroups(v, n), Len(s) < n,
         \A k \in 1 .. Len(s) : s[k] = VarintOf(v, n)[k]
  PROVE  GetVarint(s, groups, modulus) = Failed
<1>. DEFINE limit == Min({Len(s), groups})
            ends == {k \in 1 .. limit : s[k] < B}
            last == Min(ends)
<1>1. PICK sum \in [0 .. limit -> Nat] :
        GetVarint(s, groups, modulus) =
             IF ends = {} THEN Failed
             ELSE [ok |-> TRUE, value |-> sum[last] % modulus, used |-> last]
  BY ZenonT(60), GetVarintSum
<1>2. limit \in Nat /\ limit <= Len(s) /\ Len(s) \in Nat
  <2>1. Len(s) \in Nat
    BY StringBytes
  <2>. QED
    BY <2>1, MinPair
<1>. HIDE DEF limit
<1>3. ASSUME NEW k \in 1 .. limit PROVE ~(s[k] < B)
  <2>1. k \in 1 .. Len(s) /\ k \in 1 .. n /\ k # n
    BY <1>2
  <2>. QED
    BY <2>1, VarintBytes
<1>4. ends = {}
  BY <1>3
<1>. QED
  BY <1>1, <1>4

-----------------------------------------------------------------------------
(***************************************************************************)
(* What a decoder answers.                                                 *)
(***************************************************************************)

\* As far as it goes, s is the encoding enc.
Matches(s, enc) == \A k \in 1 .. Len(s) : k <= Len(enc) => s[k] = enc[k]

\* A value and the bytes it took; or failure, which may have consumed some.
Reads(r, v, n) == r.ok = TRUE /\ "used" \in DOMAIN r /\ r.value = v /\ r.used = n
Refuses(r) == r.ok = FALSE /\ "used" \notin DOMAIN r
RefusesAfter(r, s) == r.ok = FALSE /\ ("used" \in DOMAIN r => r.used \in 0 .. Len(s))

\* A failure without a count has consumed nothing.
LEMMA FailedRefuses == Refuses(Failed)
BY DEF Refuses, Failed

\* EncodeFixed writes n bytes.
LEMMA EncodeFixedBytes ==
  ASSUME NEW v \in Nat, NEW n \in Nat
  PROVE  EncodeFixed(v, n) \in Strings /\ Len(EncodeFixed(v, n)) = n
<1>. DEFINE S == 0 .. ByteRange - 1
            e == EncodeFixed(v, n)
<1>1. ASSUME NEW k \in 1 .. n PROVE (v \div Bits(k - 1)) % ByteRange \in S
  <2>. DEFINE p == Bits(k - 1)
              a == v \div p
  <2>1. p \in Nat \ {0} /\ ByteRange \in Nat \ {0}
    BY ByteFacts
  <2>. HIDE DEF p
  <2>2. a \in Nat
    BY <2>1, Divided
  <2>. HIDE DEF a
  <2>3. a % ByteRange \in S
    BY <2>1, <2>2, Divided
  <2>. QED
    BY <2>3 DEF a, p
<1>2. e = [k \in 1 .. n |-> (v \div Bits(k - 1)) % ByteRange]
  BY DEF EncodeFixed
<1>. HIDE DEF S, e
<1>3. e \in [1 .. n -> S]
  BY <1>1, <1>2
<1>4. e \in Seq(S) /\ Len(e) = n
  BY <1>3
<1>. QED
  BY <1>4 DEF Strings, S, e

\* An integer of fixed width is read back, or refused if a byte is missing.
LEMMA FixedReads ==
  ASSUME NEW n \in Nat, NEW v \in 0 .. Bits(n) - 1, NEW s \in Strings,
         Matches(s, EncodeFixed(v, n))
  PROVE  IF Len(s) >= n THEN Reads(GetFixed(s, n), v, n) ELSE Refuses(GetFixed(s, n))
<1>1. v \in Nat /\ Len(s) \in Nat
  BY ByteFacts, StringBytes
<1>2. CASE Len(s) >= n
  <2>1. \A k \in 1 .. n : s[k] = EncodeFixed(v, n)[k]
    <3>1. Len(EncodeFixed(v, n)) = n
      BY <1>1, EncodeFixedBytes
    <3>2. \A k \in 1 .. n : k \in 1 .. Len(s) /\ k <= n
      BY <1>1, <1>2
    <3>. QED
      BY <3>1, <3>2 DEF Matches
  <2>2. DecodeFixed(s, n) = v
    BY <2>1, FixedRoundTrip
  <2>3. GetFixed(s, n) = [ok |-> TRUE, value |-> v, used |-> n]
    BY <1>1, <1>2, <2>2 DEF GetFixed
  <2>. QED
    BY <1>2, <2>3 DEF Reads
<1>3. CASE ~(Len(s) >= n)
  <2>1. GetFixed(s, n) = Failed
    BY <1>1, <1>3 DEF GetFixed
  <2>. QED
    BY <1>3, <2>1, FailedRefuses
<1>. QED
  BY <1>2, <1>3

\* A number is its remainder by a multiple, as far as the remainder by the factor goes.
LEMMA RemainderOfRemainder ==
  ASSUME NEW a \in Nat, NEW p \in Nat \ {0}, NEW r \in Nat \ {0}
  PROVE  (a % (r * p)) % p = a % p
<1>. DEFINE x == a % p
            y == (a \div p) % r
<1>1. a % (r * p) = x + y * p
  BY DividedTwice
<1>2. a \div p \in Nat /\ x \in 0 .. p - 1
  BY Divided
<1>3. y \in Nat
  BY <1>2, Divided
<1>. HIDE DEF x, y
<1>4. (y * p + x) % p = x
  BY <1>2, <1>3, FooterParts
<1>5. x + y * p = y * p + x
  BY <1>2, <1>3
<1>. QED
  BY <1>1, <1>4, <1>5 DEF x

\* DecodeFixed of n bytes is a number whose bytes they are.
LEMMA FixedBytesBack ==
  ASSUME NEW n \in Nat, NEW s, \A k \in 1 .. n : s[k] \in Nat /\ s[k] < ByteRange
  PROVE  /\ DecodeFixed(s, n) \in 0 .. Bits(n) - 1
         /\ \A k \in 1 .. n : EncodeFixed(DecodeFixed(s, n), n)[k] = s[k]
<1>1. PICK sum \in [0 .. n -> Nat] :
        /\ sum[0] = 0 /\ \A k \in 1 .. n : sum[k] = sum[k - 1] + s[k] * Bits(k - 1)
        /\ DecodeFixed(s, n) = sum[n]
  BY DecodeFixedSum
<1>2. ASSUME NEW k \in 1 .. n
      PROVE  /\ k - 1 \in Nat /\ k - 1 \in 0 .. n /\ k \in 0 .. n /\ k \in Nat
             /\ Bits(k - 1) \in Nat \ {0} /\ Bits(k) = ByteRange * Bits(k - 1)
  <2>1. k - 1 \in Nat /\ (k - 1) + 1 = k /\ k - 1 \in 0 .. n /\ k \in 0 .. n /\ k \in Nat
    OBVIOUS
  <2>. QED
    BY <2>1, ByteFacts
<1>. DEFINE T == {k \in 0 .. n : sum[k] < Bits(k)}
<1>3. 0 .. n \subseteq T
  <2>1. 0 \in T
    BY <1>1, ByteFacts
  <2>2. ASSUME NEW k \in 1 .. n, k - 1 \in T PROVE k \in T
    <3>. DEFINE p == Bits(k - 1)
                x == sum[k - 1]
                c == s[k]
    <3>1. /\ p \in Nat \ {0} /\ Bits(k) = ByteRange * p /\ sum[k] = x + c * p /\ x < p
          /\ x \in Nat /\ c \in Nat /\ c < ByteRange /\ k \in 0 .. n
      BY <1>1, <1>2, <2>2
    <3>. HIDE DEF p, x, c
    <3>2. (c + 1) * p <= ByteRange * p
      BY <3>1, ByteFacts
    <3>3. (c + 1) * p = c * p + p /\ c * p \in Nat /\ ByteRange * p \in Nat
      BY <3>1, ByteFacts
    <3>4. x + c * p < ByteRange * p
      BY <3>1, <3>2, <3>3
    <3>. QED
      BY <3>1, <3>4
  <2>. HIDE DEF T
  <2>. QED
    BY <2>1, <2>2, BoundedInduction
<1>4. DecodeFixed(s, n) \in 0 .. Bits(n) - 1
  <2>1. sum[n] < Bits(n) /\ sum[n] \in Nat /\ Bits(n) \in Nat
    BY <1>3, ByteFacts
  <2>. QED
    BY <1>1, <2>1
<1>. DEFINE a == sum[n]
            U == {j \in 0 .. n : a % Bits(n - j) = sum[n - j]}
<1>5. 0 .. n \subseteq U
  <2>1. 0 \in U
    <3>1. n - 0 = n /\ a \in 0 .. Bits(n) - 1 /\ Bits(n) \in Nat \ {0}
      BY <1>1, <1>4, ByteFacts
    <3>2. a % Bits(n) = a
      BY <3>1, SmallRemainder
    <3>. QED
      BY <3>1, <3>2
  <2>2. ASSUME NEW j \in 1 .. n, j - 1 \in U PROVE j \in U
    <3>. DEFINE k == n - (j - 1)
                p == Bits(k - 1)
                x == sum[k - 1]
                c == s[k]
    <3>1. k \in 1 .. n /\ n - j = k - 1 /\ j \in 0 .. n
      OBVIOUS
    <3>2. /\ p \in Nat \ {0} /\ Bits(k) = ByteRange * p /\ sum[k] = x + c * p
          /\ x \in Nat /\ c \in Nat /\ a % Bits(k) = sum[k] /\ a \in Nat
      BY <1>1, <1>2, <2>2, <3>1
    <3>3. x \in 0 .. p - 1
      <4>1. k - 1 \in T
        BY <1>2, <1>3, <3>1
      <4>. QED
        BY <3>2, <4>1
    <3>4. n - j \in 0 .. n /\ x = sum[n - j] /\ p = Bits(n - j)
      BY <3>1
    <3>. HIDE DEF a, p, x, c, k
    <3>5. (a % (ByteRange * p)) % p = a % p
      <4>1. ByteRange \in Nat \ {0}
        BY ByteFacts
      <4>. QED
        BY <3>2, <4>1, RemainderOfRemainder
    <3>6. (c * p + x) % p = x
      BY <3>2, <3>3, FooterParts
    <3>7. x + c * p = c * p + x
      BY <3>2
    <3>8. a % p = x
      BY <3>2, <3>5, <3>6, <3>7
    <3>. QED
      BY <3>1, <3>4, <3>8
  <2>. HIDE DEF U
  <2>. QED
    BY <2>1, <2>2, BoundedInduction
<1>6. ASSUME NEW k \in 0 .. n PROVE a % Bits(k) = sum[k]
  <2>1. n - k \in 0 .. n /\ n - (n - k) = k
    OBVIOUS
  <2>2. n - k \in U
    BY <1>5, <2>1
  <2>. QED
    BY <2>1, <2>2
<1>7. ASSUME NEW k \in 1 .. n PROVE EncodeFixed(DecodeFixed(s, n), n)[k] = s[k]
  <2>. DEFINE p == Bits(k - 1)
              x == sum[k - 1]
              c == s[k]
              d == (a \div p) % ByteRange
  <2>1. EncodeFixed(DecodeFixed(s, n), n)[k] = d
    BY <1>1 DEF EncodeFixed
  <2>2. /\ p \in Nat \ {0} /\ Bits(k) = ByteRange * p /\ sum[k] = x + c * p
        /\ x \in Nat /\ c \in Nat /\ a % p = x /\ a % Bits(k) = sum[k] /\ a \in Nat
    BY <1>1, <1>2, <1>6
  <2>. HIDE DEF a, p, x, c
  <2>3. a % (ByteRange * p) = (a % p) + d * p
    BY ZenonT(60), <2>2, ByteFacts, DividedTwice
  <2>4. d \in Nat
    <3>. DEFINE b == a \div p
    <3>1. b \in Nat /\ ByteRange \in Nat \ {0}
      BY <2>2, ByteFacts, Divided
    <3>. HIDE DEF b
    <3>2. b % ByteRange \in Nat
      BY <3>1, Divided
    <3>. QED
      BY <3>2 DEF b
  <2>. HIDE DEF d
  <2>5. c * p = d * p
    <3>. DEFINE y == c * p
                z == d * p
    <3>0. y \in Nat /\ z \in Nat
      BY <2>2, <2>4
    <3>1. x + y = x + z
      BY <2>2, <2>3
    <3>. HIDE DEF y, z
    <3>2. y = z
      BY <2>2, <3>0, <3>1
    <3>. QED
      BY <3>2 DEF y, z
  <2>6. c = d
    <3>1. c < d => FALSE
      <4>1. c < d => (c + 1) * p <= d * p
        BY <2>2, <2>4
      <4>2. (c + 1) * p = c * p + p /\ c * p \in Nat
        BY <2>2
      <4>. QED
        BY <2>2, <2>5, <4>1, <4>2
    <3>2. d < c => FALSE
      <4>1. d < c => (d + 1) * p <= c * p
        BY <2>2, <2>4
      <4>2. (d + 1) * p = d * p + p /\ d * p \in Nat
        BY <2>2, <2>4
      <4>. QED
        BY <2>2, <2>5, <4>1, <4>2
    <3>. QED
      BY <2>2, <2>4, <3>1, <3>2
  <2>. QED
    BY <2>1, <2>6 DEF c
<1>. QED
  BY <1>4, <1>7

\* Swapping the bytes of an integer twice gives it back.
LEMMA SwapTwice ==
  ASSUME NEW n \in Nat, NEW v \in 0 .. Bits(n) - 1
  PROVE  /\ EndianSwapValue(v, n) \in 0 .. Bits(n) - 1
         /\ EndianSwapValue(EndianSwapValue(v, n), n) = v
<1>. DEFINE e == EncodeFixed(v, n)
            r == Reverse(e)
            w == DecodeFixed(r, n)
            f == EncodeFixed(w, n)
            t == Reverse(f)
<1>1. v \in Nat
  BY ByteFacts
<1>2. e \in Strings /\ Len(e) = n
  BY <1>1, EncodeFixedBytes
<1>3. \A k \in 1 .. n : (n - k) + 1 \in 1 .. n /\ (n - ((n - k) + 1)) + 1 = k
  OBVIOUS
<1>4. \A k \in 1 .. n : r[k] = e[(n - k) + 1]
  <2>. HIDE DEF e
  <2>. QED
    BY <1>2 DEF Reverse
<1>5. \A k \in 1 .. n : r[k] \in Nat /\ r[k] < ByteRange
  <2>. HIDE DEF e, r
  <2>. QED
    BY ZenonT(60), <1>2, <1>3, <1>4, StringBytes
<1>. HIDE DEF r
<1>6. w \in 0 .. Bits(n) - 1 /\ \A k \in 1 .. n : f[k] = r[k]
  BY <1>5, FixedBytesBack
<1>7. Len(f) = n
  <2>1. w \in Nat
    BY <1>6, ByteFacts
  <2>. HIDE DEF w
  <2>. QED
    BY <2>1, EncodeFixedBytes
<1>8. \A k \in 1 .. n : t[k] = f[(n - k) + 1]
  <2>. HIDE DEF f
  <2>. QED
    BY <1>7 DEF Reverse
<1>. HIDE DEF f, t, w
<1>9. \A k \in 1 .. n : t[k] = e[k]
  <2>. HIDE DEF e
  <2>. QED
    BY <1>3, <1>4, <1>6, <1>8
<1>10. DecodeFixed(t, n) = v
  BY <1>9, FixedRoundTrip
<1>. QED
  BY <1>6, <1>10 DEF EndianSwapValue, r, w, f, t

\* A 64 bit integer in zigzag form is a 64 bit number, and comes back.
LEMMA ZigzagRoundTrip ==
  ASSUME NEW l \in Int, -UInt64 <= 2 * l, 2 * l < UInt64
  PROVE  i64ToZigzag(l) \in 0 .. UInt64 - 1 /\ zigzagToI64(i64ToZigzag(l)) = l
<1>. DEFINE z == i64ToZigzag(l)
<1>1. UInt64 \in Nat \ {0}
  BY ByteFacts DEF UInt64
<1>2. CASE l >= 0
  <2>1. 2 * l \in 0 .. UInt64 - 1
    BY <1>1, <1>2
  <2>2. z = 2 * l
    BY <1>1, <1>2, <2>1, SmallRemainder DEF i64ToZigzag
  <2>3. (2 * l) % 2 = 0 /\ (2 * l) \div 2 = l
    OBVIOUS
  <2>. QED
    BY <2>1, <2>2, <2>3 DEF zigzagToI64
<1>3. CASE l < 0
  <2>1. (2 * l) % UInt64 = IF 2 * l = -UInt64 THEN 0 ELSE 2 * l + UInt64
    BY <1>1, <1>3
  <2>2. z = 2 * (-l - 1) + 1
    BY <1>1, <1>3, <2>1 DEF i64ToZigzag
  <2>3. (2 * (-l - 1) + 1) % 2 = 1 /\ (2 * (-l - 1) + 1) \div 2 = -l - 1
    OBVIOUS
  <2>4. z \in 0 .. UInt64 - 1
    BY <1>1, <1>3, <2>2
  <2>5. zigzagToI64(z) = -(-l - 1) - 1
    BY <2>2, <2>3 DEF zigzagToI64
  <2>. QED
    BY <2>4, <2>5
<1>. QED
  BY <1>2, <1>3

\* A varint is read back, or refused if a byte is missing.
LEMMA VarintReads ==
  ASSUME NEW groups \in Nat \ {0}, NEW modulus \in Nat \ {0}, modulus <= Power(B, groups),
         NEW v \in 0 .. modulus - 1, NEW s \in Strings, Matches(s, EncodeVarint64[v])
  PROVE  GetVarint(s, groups, modulus) =
           IF Len(s) >= VarintLength[v] THEN [ok |-> TRUE, value |-> v, used |-> VarintLength[v]]
           ELSE Failed
<1>1. v \in Nat /\ v < modulus /\ Len(s) \in Nat /\ v < Power(B, groups)
  <2>1. Power(B, groups) \in Nat
    BY GroupPowers
  <2>. QED
    BY <2>1, StringBytes
<1>2. PICK n \in 1 .. groups : HasGroups(v, n)
  BY <1>1, GroupsExist
<1>3. n \in Nat \ {0} /\ n <= groups
  BY <1>2
<1>4. EncodeVarint64[v] = VarintOf(v, n)
  BY <1>1, <1>2, <1>3, VarintGroups
<1>5. VarintLength[v] = n /\ Len(VarintOf(v, n)) = n
  <2>. DEFINE w == VarintOf(v, n)
  <2>1. w \in Strings /\ VarintLength[v] = Len(w)
    BY <1>1, <1>4, EncodeVarint64Def, VarintLengthIsLen
  <2>2. DOMAIN w = 1 .. n
    BY DEF VarintOf
  <2>. HIDE DEF w
  <2>3. Len(w) = n
    BY <1>3, <2>1, <2>2 DEF Strings
  <2>. QED
    BY <2>1, <2>3 DEF w
<1>6. CASE Len(s) >= n
  <2>1. \A k \in 1 .. n : s[k] = VarintOf(v, n)[k]
    <3>1. \A k \in 1 .. n : k \in 1 .. Len(s) /\ k <= n
      BY <1>1, <1>3, <1>6
    <3>. QED
      BY <1>4, <1>5, <3>1 DEF Matches
  <2>2. GetVarint(s, groups, modulus) = [ok |-> TRUE, value |-> v, used |-> n]
    BY <1>1, <1>2, <1>3, <1>6, <2>1, GetVarintReads
  <2>. QED
    BY <1>5, <1>6, <2>2
<1>7. CASE ~(Len(s) >= n)
  <2>1. \A k \in 1 .. Len(s) : s[k] = VarintOf(v, n)[k]
    <3>1. \A k \in 1 .. Len(s) : k <= n
      BY <1>1, <1>3, <1>7
    <3>. QED
      BY <1>4, <1>5, <3>1 DEF Matches
  <2>2. Len(s) < n
    BY <1>1, <1>3, <1>7
  <2>3. GetVarint(s, groups, modulus) = Failed
    BY <1>1, <1>2, <1>3, <2>1, <2>2, GetVarintCut
  <2>. QED
    BY <1>5, <1>7, <2>3
<1>. QED
  BY <1>6, <1>7

\* Concatenating strings.
LEMMA StringConcat ==
  ASSUME NEW s \in Strings, NEW t \in Strings
  PROVE  /\ s \o t \in Strings /\ Len(s \o t) = Len(s) + Len(t)
         /\ \A k \in 1 .. Len(s) : (s \o t)[k] = s[k]
         /\ \A k \in 1 .. Len(t) : (s \o t)[Len(s) + k] = t[k]
<1>. DEFINE S == 0 .. ByteRange - 1
<1>1. s \in Seq(S) /\ t \in Seq(S)
  BY DEF Strings
<1>. HIDE DEF S
<1>2. s \o t \in Seq(S) /\ Len(s \o t) = Len(s) + Len(t)
  BY <1>1
<1>3. \A k \in 1 .. Len(s) : (s \o t)[k] = s[k]
  BY <1>1
<1>4. \A k \in 1 .. Len(t) : (s \o t)[Len(s) + k] = t[k]
  <2>. TAKE k \in 1 .. Len(t)
  <2>1. Len(s) \in Nat /\ Len(t) \in Nat
    BY <1>1
  <2>2. Len(s) + k \in 1 .. Len(s) + Len(t) /\ ~(Len(s) + k <= Len(s)) /\ (Len(s) + k) - Len(s) = k
    BY <2>1
  <2>. QED
    BY <1>1, <2>1, <2>2
<1>. QED
  BY <1>2, <1>3, <1>4 DEF Strings, S

\* A string is determined by its length and its bytes.
LEMMA StringEqual ==
  ASSUME NEW s \in Strings, NEW t \in Strings, Len(s) = Len(t),
         \A k \in 1 .. Len(s) : s[k] = t[k]
  PROVE  s = t
<1>. DEFINE S == 0 .. ByteRange - 1
<1>1. s \in Seq(S) /\ t \in Seq(S)
  BY DEF Strings
<1>. HIDE DEF S
<1>. QED
  BY <1>1

\* A part of a string.
LEMMA StringPart ==
  ASSUME NEW s \in Strings, NEW m \in Nat, NEW n \in Nat, n <= Len(s)
  PROVE  /\ SubSeq(s, m + 1, n) \in Strings
         /\ Len(SubSeq(s, m + 1, n)) = IF m <= n THEN n - m ELSE 0
         /\ \A k \in 1 .. Len(SubSeq(s, m + 1, n)) : SubSeq(s, m + 1, n)[k] = s[m + k]
<1>. DEFINE S == 0 .. ByteRange - 1
            t == SubSeq(s, m + 1, n)
<1>1. s \in Seq(S)
  BY DEF Strings
<1>. HIDE DEF S
<1>2. t \in Seq(S)
  BY <1>1
<1>3. Len(t) = IF m <= n THEN n - m ELSE 0
  BY <1>1
<1>4. \A k \in 1 .. Len(t) : t[k] = s[m + k]
  <2>. TAKE k \in 1 .. Len(t)
  <2>1. m <= n /\ k \in 1 .. n - m
    BY <1>3
  <2>. QED
    BY <1>1, <2>1
<1>. QED
  BY <1>2, <1>3, <1>4 DEF Strings, S

\* The padding.
LEMMA PaddingBytes ==
  ASSUME NEW pad \in Nat
  PROVE  [k \in 1 .. pad |-> 0] \in Strings /\ Len([k \in 1 .. pad |-> 0]) = pad
<1>. DEFINE S == 0 .. ByteRange - 1
            z == [k \in 1 .. pad |-> 0]
<1>1. 0 \in S
  BY ByteFacts
<1>. HIDE DEF S
<1>2. z \in Seq(S) /\ Len(z) = pad
  BY <1>1
<1>. QED
  BY <1>2 DEF Strings, S

\* A content with its padding.
Padded(s, pad) == s \o [k \in 1 .. pad |-> 0]

\* The encoding of a slice: its length as a varint, and its bytes.
SliceEncoding(v) == EncodeVarint64[Len(v)] \o v

\* A length-prefixed slice is the varint of its length followed by its padded bytes.
LEMMA LengthPrefixedIs ==
  ASSUME NEW s \in Strings, NEW pad \in Nat, Len(s) + pad < UInt32
  PROVE  /\ Padded(s, pad) \in Strings /\ Len(Padded(s, pad)) = Len(s) + pad
         /\ LengthPrefixed(s, pad) = SliceEncoding(Padded(s, pad))
<1>. DEFINE z == [k \in 1 .. pad |-> 0]
            n == Len(s) + pad
            e == EncodeVarint64[n]
<1>1. z \in Strings /\ Len(z) = pad
  BY PaddingBytes
<1>2. n \in Nat /\ UInt32 \in Nat \ {0} /\ n \in 0 .. UInt32 - 1
  <2>1. UInt32 \in Nat \ {0} /\ Len(s) \in Nat
    BY ByteFacts, StringBytes, WidthAssumption DEF UInt32
  <2>. QED
    BY <2>1
<1>3. n % UInt32 = n
  BY <1>2, SmallRemainder
<1>4. EncodeVarint32(n % UInt32) = e /\ e \in Strings
  BY <1>2, <1>3, Varint32Is64, EncodeVarint64Def
<1>. HIDE DEF z
<1>5. s \o z \in Strings /\ Len(s \o z) = n
  BY <1>1, StringConcat
<1>6. LengthPrefixed(s, pad) = (e \o s) \o z
  BY <1>4 DEF LengthPrefixed, z
<1>7. (e \o s) \o z = e \o (s \o z)
  <2>. DEFINE S == 0 .. ByteRange - 1
  <2>1. e \in Seq(S) /\ s \in Seq(S) /\ z \in Seq(S)
    BY <1>1, <1>4 DEF Strings
  <2>. HIDE DEF S, e
  <2>. QED
    BY SMTT(60), <2>1
<1>. QED
  BY <1>5, <1>6, <1>7 DEF SliceEncoding, Padded, z

\* A slice is read back whole; if its content is cut, only the length is consumed.
LEMMA SliceReads ==
  ASSUME NEW v \in Strings, Len(v) < UInt32, NEW s \in Strings, Matches(s, SliceEncoding(v))
  PROVE  LET L == VarintLength[Len(v)] + Len(v)
             r == GetLengthPrefixedSlice(s)
         IN  IF Len(s) >= L THEN r = [ok |-> TRUE, value |-> v, used |-> L]
             ELSE r = Failed \/ \E u \in 1 .. Len(s) : r = [ok |-> FALSE, used |-> u]
<1>. DEFINE m == Len(v)
            e == EncodeVarint64[m]
            n == VarintLength[m]
            L == n + m
            r == GetLengthPrefixedSlice(s)
<1>1. m \in Nat /\ Len(s) \in Nat
  BY StringBytes
<1>2. /\ UInt32 \in Nat \ {0} /\ m \in 0 .. UInt32 - 1
      /\ Groups32 \in Nat \ {0} /\ UInt32 <= Power(B, Groups32)
  <2>1. UInt32 \in Nat \ {0}
    BY ByteFacts, WidthAssumption DEF UInt32
  <2>. QED
    BY <1>1, <2>1, WidthAssumption
<1>3. e \in Strings /\ Len(e) = n /\ n \in Nat \ {0}
  BY <1>1, EncodeVarint64Def, VarintLengthDef, VarintLengthIsLen
<1>. HIDE DEF m, e, n
<1>4. /\ Len(e \o v) = n + m
      /\ \A k \in 1 .. n : (e \o v)[k] = e[k]
      /\ \A k \in 1 .. m : (e \o v)[n + k] = v[k]
  BY ZenonT(60), <1>3, StringConcat DEF m
<1>5. \A k \in 1 .. Len(s) : k <= n + m => s[k] = (e \o v)[k]
  BY <1>4 DEF Matches, SliceEncoding, e, m
<1>6. Matches(s, e)
  <2>1. ASSUME NEW k \in 1 .. Len(s), k <= Len(e) PROVE s[k] = e[k]
    <3>1. k \in 1 .. n /\ k <= n + m
      BY <1>1, <1>3, <2>1
    <3>. QED
      BY <1>4, <1>5, <3>1
  <2>. QED
    BY <2>1 DEF Matches
<1>7. GetVarint32(s) = IF Len(s) >= n THEN [ok |-> TRUE, value |-> m, used |-> n] ELSE Failed
  BY <1>2, <1>6, VarintReads DEF GetVarint32, e, n
<1>8. CASE Len(s) < n
  <2>1. GetVarint32(s) = Failed
    BY <1>1, <1>3, <1>7, <1>8
  <2>2. r = Failed
    BY <2>1 DEF GetLengthPrefixedSlice, Failed
  <2>3. ~(Len(s) >= L)
    BY <1>1, <1>3, <1>8
  <2>. QED
    BY <2>2, <2>3 DEF n, m
<1>9. CASE Len(s) >= n /\ Len(s) < L
  <2>1. GetVarint32(s) = [ok |-> TRUE, value |-> m, used |-> n]
    BY <1>7, <1>9
  <2>2. Len(s) - n < m /\ n \in 1 .. Len(s) /\ ~(Len(s) >= L)
    BY <1>1, <1>3, <1>9
  <2>3. r = [ok |-> FALSE, used |-> n]
    BY <2>1, <2>2 DEF GetLengthPrefixedSlice
  <2>. QED
    BY <2>2, <2>3 DEF n, m
<1>10. CASE Len(s) >= L
  <2>1. GetVarint32(s) = [ok |-> TRUE, value |-> m, used |-> n]
    BY <1>1, <1>3, <1>7, <1>10
  <2>2. ~(Len(s) - n < m) /\ n + m \in Nat /\ n + m <= Len(s)
    BY <1>1, <1>3, <1>10
  <2>. DEFINE t == SubSeq(s, n + 1, n + m)
  <2>3. r = [ok |-> TRUE, value |-> t, used |-> n + m]
    BY <2>1, <2>2 DEF GetLengthPrefixedSlice
  <2>4. t \in Strings /\ Len(t) = m /\ \A k \in 1 .. m : t[k] = s[n + k]
    <3>1. n <= n + m /\ (n + m) - n = m /\ n \in Nat
      BY <1>1, <1>3
    <3>. QED
      BY <2>2, <3>1, StringPart
  <2>5. ASSUME NEW k \in 1 .. m PROVE s[n + k] = v[k]
    <3>1. n + k \in 1 .. Len(s) /\ n + k <= n + m
      BY <1>1, <1>3, <2>2
    <3>. QED
      BY <1>4, <1>5, <3>1
  <2>. HIDE DEF t
  <2>6. t = v
    BY <2>4, <2>5, StringEqual DEF m
  <2>. QED
    BY <1>10, <2>3, <2>6 DEF n, m
<1>. QED
  BY <1>1, <1>3, <1>8, <1>9, <1>10

\* The bytes generated for a user key.
UserBytes(p) == GenerateKeyFromInt(p.user_key, NumKeys, KeySize)

\* GenerateKeyFromInt fills KeySize bytes, whatever the number.
LEMMA GeneratedBytesAre ==
  ASSUME NEW p \in ParsedInternalKey
  PROVE  UserBytes(p) \in Strings /\ Len(UserBytes(p)) = KeySize
<1>. DEFINE S == 0 .. ByteRange - 1
            filled == Min({KeySize, Bytes64})
            number == p.user_key % NumKeys
            u == UserBytes(p)
<1>1. number \in Nat
  <2>1. p.user_key \in Nat /\ NumKeys \in Nat \ {0}
    BY KeyAssumption, KeyParts
  <2>. QED
    BY <2>1, Divided
<1>2. filled \in Nat
  <2>1. KeySize \in Nat /\ Bytes64 \in Nat
    BY KeyAssumption, ByteFacts
  <2>. QED
    BY <2>1, MinPair
<1>3. u = [k \in 1 .. KeySize |-> IF k <= filled THEN (number \div Bits(filled - k)) % ByteRange ELSE Char0]
  BY DEF UserBytes, GenerateKeyFromInt
<1>. HIDE DEF filled, number, u
<1>4. ASSUME NEW k \in 1 .. KeySize, k <= filled PROVE (number \div Bits(filled - k)) % ByteRange \in S
  <2>. DEFINE b == Bits(filled - k)
              a == number \div b
  <2>1. b \in Nat \ {0} /\ ByteRange \in Nat \ {0}
    <3>1. filled - k \in Nat
      BY <1>2, <1>4
    <3>. QED
      BY <3>1, ByteFacts
  <2>. HIDE DEF b
  <2>2. a \in Nat
    BY <1>1, <2>1, Divided
  <2>. HIDE DEF a
  <2>3. a % ByteRange \in S
    BY <2>1, <2>2, Divided
  <2>. QED
    BY <2>3 DEF a, b
<1>5. Char0 \in S /\ KeySize \in Nat
  BY ByteAssumption, KeyAssumption
<1>. HIDE DEF S
<1>6. u \in [1 .. KeySize -> S]
  BY <1>3, <1>4, <1>5
<1>7. u \in Seq(S) /\ Len(u) = KeySize
  BY <1>5, <1>6
<1>. QED
  BY <1>7 DEF u, S, Strings

LEMMA UserBytesAre ==
  ASSUME NEW p \in Keys
  PROVE  UserBytes(p) \in Strings /\ Len(UserBytes(p)) = KeySize
BY GeneratedBytesAre, KeyAssumption

\* The footer fits 64 bits.
Footer(p) == PackSequenceAndType(p.sequence, p.type)

\* A packed sequence number and type fit eight bytes.
LEMMA FooterFits ==
  ASSUME NEW p \in Keys
  PROVE  Footer(p) \in 0 .. UInt64 - 1
<1>1. p \in ParsedInternalKey
  BY KeyAssumption
<1>2. /\ p.sequence \in Nat /\ p.type \in Nat /\ p.sequence <= kMaxSequenceNumber
      /\ p.type <= TypeRange - 1 /\ TypeRange \in Nat \ {0} /\ kMaxSequenceNumber \in Nat
  BY <1>1, KeyParts, TypeFacts
<1>. DEFINE x == p.sequence * TypeRange
            y == kMaxSequenceNumber * TypeRange
<1>3. x \in Nat /\ y \in Nat /\ x <= y
  BY <1>2
<1>4. Footer(p) = x + p.type /\ y + (TypeRange - 1) < UInt64 /\ UInt64 \in Nat
  BY KeyAssumption, ByteFacts DEF Footer, PackSequenceAndType, UInt64
<1>. HIDE DEF x, y
<1>. QED
  BY <1>2, <1>3, <1>4

\* The stored key of p: its user bytes and its footer.
KeyEncoding(p) == AppendInternalKey(KeyOf(p))

\* AppendInternalKey lays down the user key and its footer, and reading them back gives the key.
LEMMA KeyEncodingIs ==
  ASSUME NEW p \in Keys
  PROVE  /\ KeyEncoding(p) = UserBytes(p) \o EncodeFixed(Footer(p), Bytes64)
         /\ KeyEncoding(p) \in Strings /\ Len(KeyEncoding(p)) = KeySize + Bytes64
         /\ KeyOf(p) = [user_key |-> UserBytes(p), sequence |-> p.sequence, type |-> p.type]
<1>1. p \in ParsedInternalKey
  BY KeyAssumption
<1>2. KeyOf(p) = [user_key |-> UserBytes(p), sequence |-> p.sequence, type |-> p.type]
  <2>1. p = [user_key |-> p.user_key, sequence |-> p.sequence, type |-> p.type]
    BY <1>1, KeyParts
  <2>. QED
    BY <2>1 DEF KeyOf, UserBytes
<1>3. KeyEncoding(p) = UserBytes(p) \o EncodeFixed(Footer(p), Bytes64)
  BY <1>2 DEF KeyEncoding, AppendInternalKey, Footer
<1>4. UserBytes(p) \in Strings /\ Len(UserBytes(p)) = KeySize
  BY UserBytesAre
<1>5. EncodeFixed(Footer(p), Bytes64) \in Strings /\ Len(EncodeFixed(Footer(p), Bytes64)) = Bytes64
  <2>1. Footer(p) \in Nat /\ Bytes64 \in Nat
    BY FooterFits, ByteFacts
  <2>. QED
    BY <2>1, EncodeFixedBytes
<1>. QED
  BY <1>2, <1>3, <1>4, <1>5, StringConcat

\* The parts that are extracted from a stored key.
LEMMA KeyExtracts ==
  ASSUME NEW p \in Keys
  PROVE  /\ ExtractUserKey(KeyEncoding(p)) = UserBytes(p)
         /\ ExtractInternalKeyFooter(KeyEncoding(p)) = Footer(p)
<1>. DEFINE u == UserBytes(p)
            f == EncodeFixed(Footer(p), Bytes64)
            e == KeyEncoding(p)
            t == SubSeq(e, 0 + 1, KeySize)
            b == SubSeq(e, KeySize + 1, KeySize + Bytes64)
<1>1. u \in Strings /\ Len(u) = KeySize /\ e = u \o f /\ e \in Strings /\ Len(e) = KeySize + Bytes64
  BY KeyEncodingIs, UserBytesAre
<1>2. f \in Strings /\ Len(f) = Bytes64 /\ Bytes64 \in Nat /\ KeySize \in Nat /\ 0 \in Nat
  <2>1. Footer(p) \in Nat /\ Bytes64 \in Nat
    BY FooterFits, ByteFacts
  <2>. QED
    BY <2>1, EncodeFixedBytes, KeyAssumption
<1>. HIDE DEF u, e, f
<1>3. /\ \A k \in 1 .. KeySize : e[k] = u[k]
      /\ \A k \in 1 .. Bytes64 : e[KeySize + k] = f[k]
  BY <1>1, <1>2, StringConcat
<1>4. t = u
  <2>1. KeySize <= Len(e) /\ 0 <= KeySize /\ KeySize - 0 = KeySize
    BY <1>1, <1>2
  <2>2. t \in Strings /\ Len(t) = KeySize /\ \A k \in 1 .. KeySize : t[k] = e[0 + k]
    <3>. DEFINE m == 0
                x == SubSeq(e, m + 1, KeySize)
    <3>1. m \in Nat /\ m <= KeySize /\ KeySize - m = KeySize
      BY <1>2
    <3>. HIDE DEF m
    <3>2. x \in Strings /\ Len(x) = KeySize /\ \A k \in 1 .. Len(x) : x[k] = e[m + k]
      BY ZenonT(60), <1>1, <1>2, <2>1, <3>1, StringPart
    <3>. QED
      BY <3>2 DEF m
  <2>3. \A k \in 1 .. KeySize : 0 + k = k
    OBVIOUS
  <2>. HIDE DEF t
  <2>. QED
    BY <1>1, <1>3, <2>2, <2>3, StringEqual
<1>5. \A k \in 1 .. Bytes64 : b[k] = f[k]
  <2>1. /\ KeySize + Bytes64 \in Nat /\ KeySize + Bytes64 <= Len(e)
        /\ KeySize <= KeySize + Bytes64 /\ (KeySize + Bytes64) - KeySize = Bytes64
    BY <1>1, <1>2
  <2>2. Len(b) = Bytes64 /\ \A k \in 1 .. Bytes64 : b[k] = e[KeySize + k]
    BY SMTT(60), <1>1, <1>2, <2>1, StringPart
  <2>. QED
    BY <1>3, <2>2
<1>6. DecodeFixed(b, Bytes64) = Footer(p)
  <2>1. Footer(p) \in 0 .. Bits(Bytes64) - 1
    BY FooterFits DEF UInt64
  <2>. HIDE DEF b
  <2>. QED
    BY <1>2, <1>5, <2>1, FixedRoundTrip DEF f
<1>7. Len(e) - Bytes64 = KeySize /\ Len(e) - Bytes64 + 1 = KeySize + 1 /\ Len(e) = KeySize + Bytes64 /\ 0 + 1 = 1
  BY <1>1, <1>2
<1>8. ExtractUserKey(e) = t
  BY <1>7 DEF ExtractUserKey
<1>9. ExtractInternalKeyFooter(e) = DecodeFixed(b, Bytes64)
  BY <1>7 DEF ExtractInternalKeyFooter
<1>. QED
  BY <1>4, <1>6, <1>8, <1>9 DEF e, u

\* What InternalKey's setters of the seek keys append.
LEMMA AppendedLength ==
  ASSUME NEW p \in ParsedInternalKey, NEW rep \in Strings
  PROVE  /\ rep \o KeyEncoding(p) \in Strings
         /\ Len(rep \o KeyEncoding(p)) = Len(rep) + KeySize + Bytes64
<1>1. KeyOf(p) = [user_key |-> UserBytes(p), sequence |-> p.sequence, type |-> p.type]
  <2>1. p = [user_key |-> p.user_key, sequence |-> p.sequence, type |-> p.type]
    BY KeyParts
  <2>. QED
    BY <2>1 DEF KeyOf, UserBytes
<1>2. KeyEncoding(p) = UserBytes(p) \o EncodeFixed(Footer(p), Bytes64)
  BY <1>1 DEF KeyEncoding, AppendInternalKey, Footer
<1>3. Bytes64 \in Nat /\ KeySize \in Nat /\ Footer(p) \in Nat
  <2>1. p.sequence \in Nat /\ p.type \in Nat /\ TypeRange \in Nat
    BY KeyParts, TypeFacts
  <2>2. p.sequence * TypeRange + p.type \in Nat
    BY <2>1
  <2>. QED
    BY <2>2, ByteFacts, KeyAssumption DEF Footer, PackSequenceAndType
<1>4. UserBytes(p) \in Strings /\ Len(UserBytes(p)) = KeySize
  BY GeneratedBytesAre
<1>5. EncodeFixed(Footer(p), Bytes64) \in Strings /\ Len(EncodeFixed(Footer(p), Bytes64)) = Bytes64
  BY <1>3, EncodeFixedBytes
<1>6. KeyEncoding(p) \in Strings /\ Len(KeyEncoding(p)) = KeySize + Bytes64
  BY <1>2, <1>4, <1>5, StringConcat
<1>7. Len(rep) \in Nat
  BY StringBytes
<1>8. Len(rep \o KeyEncoding(p)) = Len(rep) + (KeySize + Bytes64) /\ rep \o KeyEncoding(p) \in Strings
  BY <1>6, StringConcat
<1>. QED
  BY <1>3, <1>7, <1>8

\* SetMinPossibleForUserKey and SetMaxPossibleForUserKey (dbformat.h:246-256) are
\* said to set the internal key to a bound of a user key's keys.  They append to
\* rep_: the object has that user key only if it held nothing before.
THEOREM SeekKeysNeedFreshKey ==
  \A rep \in Strings, u \in Nat :
    /\ ExtractUserKey(SetMinPossibleForUserKey(rep, u)) = UserBytes(MinPossible(u)) => Len(rep) = 0
    /\ ExtractUserKey(SetMaxPossibleForUserKey(rep, u)) = UserBytes(MaxPossible(u)) => Len(rep) = 0
<1>. SUFFICES ASSUME NEW rep \in Strings, NEW u \in Nat
              PROVE  /\ ExtractUserKey(SetMinPossibleForUserKey(rep, u)) = UserBytes(MinPossible(u))
                          => Len(rep) = 0
                     /\ ExtractUserKey(SetMaxPossibleForUserKey(rep, u)) = UserBytes(MaxPossible(u))
                          => Len(rep) = 0
  OBVIOUS
<1>1. MinPossible(u) \in ParsedInternalKey
  BY EndKeyNotFirst
<1>2. MaxPossible(u) \in ParsedInternalKey
  BY TypeAssumption DEF MaxPossible, ParsedInternalKey, SequenceNumbers, ValueTypes,
     IsExtendedValueType, IsValueType, kValueTypeForSeek, kTypeDeletionWithTimestamp, kTypeMerge
<1>3. ASSUME NEW p \in ParsedInternalKey, ExtractUserKey(rep \o KeyEncoding(p)) = UserBytes(p)
      PROVE  Len(rep) = 0
  <2>. DEFINE e == rep \o KeyEncoding(p)
              n == Len(rep) + KeySize
              m == 0
  <2>1. e \in Strings /\ Len(e) = n + Bytes64
    BY AppendedLength
  <2>2. Len(rep) \in Nat /\ KeySize \in Nat /\ Bytes64 \in Nat /\ m \in Nat /\ m + 1 = 1
    BY StringBytes, KeyAssumption, ByteFacts
  <2>3. ExtractUserKey(e) = UserBytes(p) /\ Len(UserBytes(p)) = KeySize
    BY <1>3, GeneratedBytesAre
  <2>. HIDE DEF e
  <2>4. n \in Nat /\ n <= Len(e) /\ m <= n /\ n - m = n /\ Len(e) - Bytes64 = n
    BY <2>1, <2>2
  <2>5. ExtractUserKey(e) = SubSeq(e, m + 1, n)
    BY <2>2, <2>4 DEF ExtractUserKey
  <2>. HIDE DEF m, n
  <2>6. Len(SubSeq(e, m + 1, n)) = n
    BY <2>1, <2>2, <2>4, StringPart
  <2>. QED
    BY <2>2, <2>3, <2>5, <2>6 DEF n
<1>. QED
  BY <1>1, <1>2, <1>3 DEF SetMinPossibleForUserKey, SetMaxPossibleForUserKey, KeyEncoding

\* Parsing a stored key gives its parts back.
LEMMA KeyParses ==
  ASSUME NEW p \in Keys
  PROVE  ParseInternalKey(KeyEncoding(p)) = [ok |-> TRUE, value |-> KeyOf(p)]
<1>. DEFINE e == KeyEncoding(p)
            u == UserBytes(p)
            f == Footer(p)
<1>1. p \in ParsedInternalKey /\ p.type \in ValueTypes
  BY KeyAssumption DEF ParsedInternalKey
<1>2. UnPackSequence(f) = p.sequence /\ UnPackType(f) = p.type
  BY <1>1, KeyParts, TypeFacts, FooterParts
     DEF UnPackSequence, UnPackType, PackSequenceAndType, Footer
<1>3. ~(Len(e) < Bytes64)
  <2>1. Len(e) = KeySize + Bytes64 /\ KeySize \in Nat /\ Bytes64 \in Nat
    BY KeyEncodingIs, KeyAssumption, ByteFacts
  <2>. HIDE DEF e
  <2>. QED
    BY <2>1
<1>4. ExtractUserKey(e) = u /\ ExtractInternalKeyFooter(e) = f
  BY KeyExtracts
<1>. HIDE DEF e, u, f
<1>5. Parse([user_key |-> u, footer |-> f]) = [user_key |-> u, sequence |-> p.sequence, type |-> p.type]
  BY <1>2 DEF Parse
<1>6. KeyOf(p) = [user_key |-> u, sequence |-> p.sequence, type |-> p.type]
  BY KeyEncodingIs DEF u
<1>7. Parse([user_key |-> ExtractUserKey(e), footer |-> ExtractInternalKeyFooter(e)]) = KeyOf(p)
  BY <1>4, <1>5, <1>6
<1>8. KeyOf(p).type \in ValueTypes
  BY <1>1, <1>6
<1>9. ParseInternalKey(e) = [ok |-> KeyOf(p).type \in ValueTypes, value |-> KeyOf(p)]
  BY <1>3, <1>7 DEF ParseInternalKey
<1>. QED
  BY <1>8, <1>9 DEF e

\* A stored key is read back whole; if it is cut, at most its length is consumed.
LEMMA KeyReads ==
  ASSUME NEW p \in Keys, NEW s \in Strings, Matches(s, SliceEncoding(KeyEncoding(p)))
  PROVE  LET L == VarintLength[KeySize + Bytes64] + KeySize + Bytes64
             r == GetInternalKey(s)
         IN  IF Len(s) >= L THEN Reads(r, KeyOf(p), L) ELSE RefusesAfter(r, s)
<1>. DEFINE e == KeyEncoding(p)
            n == VarintLength[KeySize + Bytes64]
            L == n + KeySize + Bytes64
            q == GetLengthPrefixedSlice(s)
            r == GetInternalKey(s)
<1>1. /\ e \in Strings /\ Len(e) = KeySize + Bytes64 /\ KeySize + Bytes64 < UInt32
      /\ KeySize \in Nat /\ Bytes64 \in Nat
  BY KeyEncodingIs, KeyAssumption, ByteFacts
<1>2. n \in Nat
  BY <1>1, VarintLengthDef
<1>. HIDE DEF e, n
<1>3. L = n + (KeySize + Bytes64)
  BY <1>1, <1>2
<1>4. IF Len(s) >= L THEN q = [ok |-> TRUE, value |-> e, used |-> L]
      ELSE q = Failed \/ \E u \in 1 .. Len(s) : q = [ok |-> FALSE, used |-> u]
  BY <1>1, <1>3, SliceReads DEF e, n
<1>. HIDE DEF L, q
<1>5. CASE Len(s) >= L
  <2>1. q = [ok |-> TRUE, value |-> e, used |-> L]
    BY <1>4, <1>5
  <2>2. ParseInternalKey(e) = [ok |-> TRUE, value |-> KeyOf(p)]
    BY KeyParses DEF e
  <2>3. r = Taking(ParseInternalKey(e), L)
    BY <2>1 DEF GetInternalKey, q
  <2>4. r = [ok |-> TRUE, value |-> KeyOf(p), used |-> L]
    BY <2>2, <2>3 DEF Taking
  <2>5. Reads(r, KeyOf(p), L)
    BY <2>4 DEF Reads
  <2>. QED
    BY <1>5, <2>5 DEF L, n
<1>6. CASE ~(Len(s) >= L)
  <2>1. r = q
    BY <1>4, <1>6 DEF GetInternalKey, Failed, q
  <2>2. RefusesAfter(q, s)
    <3>1. CASE q = Failed
      BY <3>1 DEF RefusesAfter, Failed
    <3>2. CASE \E u \in 1 .. Len(s) : q = [ok |-> FALSE, used |-> u]
      <4>1. PICK u \in 1 .. Len(s) : q = [ok |-> FALSE, used |-> u]
        BY <3>2
      <4>2. u \in 0 .. Len(s)
        BY StringBytes
      <4>. QED
        BY <4>1, <4>2 DEF RefusesAfter
    <3>. QED
      BY <1>4, <1>6, <3>1, <3>2
  <2>. QED
    BY <1>6, <2>1, <2>2 DEF L, n
<1>. QED
  BY <1>5, <1>6

-----------------------------------------------------------------------------
(***************************************************************************)
(* Texts up to a delimiter.                                                *)
(***************************************************************************)

\* The answer for a text of which L bytes, the delimiter included, were written:
\* its value if at most the delimiter is missing, else a refusal or a value whose
\* text is the beginning of what was written.
TextRead(kind, v, L, s, r) ==
  IF Len(s) >= L - 1 THEN Reads(r, v, IF Len(s) >= L THEN L ELSE Len(s))
  ELSE \/ RefusesAfter(r, s)
       \/ \E g : Reads(r, g, Len(s)) /\ IsPrefix(Written(kind, g), Written(kind, v))

\* The codes are bytes.
LEMMA CodeFacts ==
  /\ Char0 \in Nat /\ CharA \in Nat /\ Char0 + 9 < ByteRange /\ CharA + 5 < ByteRange
  /\ \A c \in {CharA, LF, CR, Charn, Charr, Backslash, Hash, Colon, Minus} : c \in Nat /\ c < ByteRange
BY SMTT(60), ByteAssumption, TextAssumption, ByteFacts

\* One byte, as a string.
LEMMA ByteString ==
  ASSUME NEW c \in Nat, c < ByteRange
  PROVE  << c >> \in Strings /\ Len(<< c >>) = 1 /\ << c >>[1] = c
<1>1. c \in 0 .. ByteRange - 1
  BY ByteFacts
<1>. QED
  BY <1>1, SeqParts DEF Strings

\* A text t ended by c, which it does not contain: GetSliceUntil finds its end, or
\* takes what there is of it.
LEMMA SliceUntil ==
  ASSUME NEW t \in Strings, NEW c \in Nat, c < ByteRange, \A k \in 1 .. Len(t) : t[k] # c,
         NEW s \in Strings, Matches(s, t \o << c >>)
  PROVE  IF Len(s) > Len(t) THEN GetSliceUntil(s, c) = [value |-> t, used |-> Len(t) + 1]
         ELSE /\ GetSliceUntil(s, c) = [value |-> s, used |-> Len(s)]
              /\ \A k \in 1 .. Len(s) : s[k] = t[k]
<1>. DEFINE n == Len(t)
            m == Len(s)
            P == {k \in 1 .. m : s[k] = c} \cup {m + 1}
            p == Min(P)
<1>1. n \in Nat /\ m \in Nat
  BY StringBytes
<1>2. /\ Len(t \o << c >>) = n + 1
      /\ \A k \in 1 .. n : (t \o << c >>)[k] = t[k]
      /\ (t \o << c >>)[n + 1] = c
  <2>1. << c >> \in Strings /\ Len(<< c >>) = 1 /\ << c >>[1] = c /\ 1 \in 1 .. 1
    BY ByteString
  <2>. QED
    BY <2>1, StringConcat
<1>3. \A k \in 1 .. m : /\ k <= n => s[k] = t[k] /\ s[k] # c
                        /\ k = n + 1 => s[k] = c
  <2>. TAKE k \in 1 .. m
  <2>1. k <= n + 1 => s[k] = (t \o << c >>)[k]
    BY <1>2 DEF Matches
  <2>2. CASE k <= n
    <3>1. k \in 1 .. n /\ k <= n + 1 /\ k # n + 1
      BY <1>1, <2>2
    <3>. QED
      BY <1>2, <2>1, <3>1
  <2>3. CASE k = n + 1
    <3>1. ~(k <= n)
      BY <1>1, <2>3
    <3>. QED
      BY <1>2, <2>1, <2>3, <3>1
  <2>. QED
    BY <2>2, <2>3
<1>. HIDE DEF n, m
<1>4. p \in P /\ \A y \in P : p <= y
  <2>1. P \in SUBSET Nat /\ P # {}
    BY <1>1
  <2>. HIDE DEF P
  <2>. QED
    BY <2>1, MinFacts
<1>5. GetSliceUntil(s, c) = [value |-> SubSeq(s, 1, p - 1), used |-> Min({p, m})]
  BY DEF GetSliceUntil, PositionOf, m
<1>6. CASE m > n
  <2>1. n + 1 \in P
    BY <1>1, <1>3, <1>6
  <2>2. \A y \in P : y \in Nat /\ y >= n + 1
    BY <1>1, <1>3, <1>6
  <2>. HIDE DEF P
  <2>3. p \in Nat /\ p <= n + 1 /\ p >= n + 1
    BY <1>4, <2>1, <2>2
  <2>. HIDE DEF p
  <2>4. p = n + 1
    BY <1>1, <2>3
  <2>5. Min({p, m}) = n + 1
    BY <1>1, <1>6, <2>4, MinPair
  <2>6. SubSeq(s, 1, n) = t
    <3>. DEFINE z == 0
                x == SubSeq(s, z + 1, n)
    <3>1. z \in Nat /\ n <= m /\ z <= n /\ n - z = n /\ z + 1 = 1 /\ \A k \in 1 .. n : z + k = k /\ k \in 1 .. m
      BY <1>1, <1>6
    <3>. HIDE DEF z
    <3>2. x \in Strings /\ Len(x) = n /\ \A k \in 1 .. Len(x) : x[k] = s[z + k]
      BY <1>1, <3>1, StringPart DEF m
    <3>. HIDE DEF x
    <3>3. \A k \in 1 .. Len(x) : x[k] = t[k]
      BY <1>3, <3>1, <3>2
    <3>4. x = t
      BY <3>2, <3>3, StringEqual DEF n
    <3>. QED
      BY <3>1, <3>4 DEF x
  <2>7. p - 1 = n
    BY <1>1, <2>4
  <2>. QED
    BY <1>5, <1>6, <2>5, <2>6, <2>7 DEF n, m
<1>7. CASE ~(m > n)
  <2>1. \A k \in 1 .. m : k <= n
    BY <1>1, <1>7
  <2>2. p = m + 1
    BY <1>1, <1>3, <1>4, <2>1
  <2>. HIDE DEF p
  <2>3. Min({p, m}) = m
    BY <1>1, <2>2, MinPair
  <2>4. p - 1 = m
    BY <1>1, <2>2
  <2>5. SubSeq(s, 1, m) = s
    <3>. DEFINE S == 0 .. ByteRange - 1
    <3>1. s \in Seq(S)
      BY DEF Strings
    <3>. HIDE DEF S
    <3>. QED
      BY <3>1 DEF m
  <2>. QED
    BY <1>3, <1>5, <1>7, <2>1, <2>3, <2>4, <2>5 DEF n, m
<1>. QED
  BY <1>6, <1>7 DEF n, m

\* Beginnings.
LEMMA PrefixFacts ==
  ASSUME NEW S, NEW v \in Seq(S), NEW m \in 0 .. Len(v)
  PROVE  /\ IsPrefix(SubSeq(v, 1, m), v) /\ Len(SubSeq(v, 1, m)) = m /\ SubSeq(v, 1, m) \in Seq(S)
         /\ \A k \in 1 .. m : SubSeq(v, 1, m)[k] = v[k]
<1>. DEFINE t == SubSeq(v, 1, m)
<1>1. t \in Seq(S) /\ Len(t) = m /\ m <= Len(v)
  OBVIOUS
<1>2. SubSeq(t, 1, m) = t
  BY <1>1
<1>3. \A k \in 1 .. m : t[k] = v[k]
  OBVIOUS
<1>. QED
  BY <1>1, <1>2, <1>3 DEF IsPrefix

-----------------------------------------------------------------------------
(***************************************************************************)
(* Hexadecimal texts.                                                      *)
(***************************************************************************)

\* Digits are bytes, and no delimiters; the two ranges of them are disjoint.
LEMMA CodesApart ==
  /\ \A c \in Char0 .. Char0 + 9 :
       /\ c \in Nat /\ c < ByteRange /\ c \notin CharA .. CharA + 5
       /\ c \notin {LF, CR, Charn, Charr, Backslash, Hash, Colon, Minus}
  /\ \A c \in CharA .. CharA + 5 :
       /\ c \in Nat /\ c < ByteRange /\ c \notin Char0 .. Char0 + 9
       /\ c \notin {LF, CR, Charn, Charr, Backslash, Hash, Colon, Minus}
<1>. DEFINE D == {LF, CR, Charn, Charr, Backslash, Hash, Colon, Minus}
            X == Char0 .. Char0 + 9
            Y == CharA .. CharA + 5
<1>1. D \cap X = {} /\ D \cap Y = {} /\ X \cap Y = {}
  BY Zenon, TextAssumption
<1>2. \A c \in X : c \in Nat /\ c < ByteRange
  BY CodeFacts, ByteFacts
<1>3. \A c \in Y : c \in Nat /\ c < ByteRange
  BY CodeFacts, ByteFacts
<1>. HIDE DEF D, X, Y
<1>4. (\A c \in X : c \notin Y /\ c \notin D) /\ (\A c \in Y : c \notin X /\ c \notin D)
  BY <1>1
<1>. QED
  BY <1>2, <1>3, <1>4 DEF D, X, Y

\* A hexadecimal digit is a byte, no delimiter, and stands for its value.
LEMMA HexDigit ==
  ASSUME NEW x \in 0 .. 15
  PROVE  /\ ToHex(x) \in Nat /\ ToHex(x) < ByteRange /\ ToHex(x) # Colon
         /\ FromHex(ToHex(x)) = x
<1>. DEFINE c == ToHex(x)
<1>1. CASE x <= 9
  <2>1. c = Char0 + x /\ c \in Char0 .. Char0 + 9
    BY <1>1, CodeFacts DEF ToHex
  <2>. HIDE DEF c
  <2>2. c \in Nat /\ c < ByteRange /\ c # Colon
    BY <2>1, CodesApart
  <2>3. FromHex(c) = c - Char0
    <3>1. c \notin CharA .. CharA + 5
      BY <2>1, CodesApart
    <3>. QED
      BY <2>1, <3>1 DEF FromHex, IsDigit
  <2>4. c - Char0 = x
    BY <2>1, CodeFacts
  <2>. QED
    BY <2>2, <2>3, <2>4 DEF c
<1>2. CASE ~(x <= 9)
  <2>1. c = (CharA + x) - 10 /\ c \in CharA .. CharA + 5
    BY <1>2, CodeFacts DEF ToHex
  <2>. HIDE DEF c
  <2>2. c \in Nat /\ c < ByteRange /\ c # Colon /\ c \notin Char0 .. Char0 + 9
    BY <2>1, CodesApart
  <2>3. FromHex(c) = (c - CharA) + 10
    BY <2>1, <2>2 DEF FromHex, IsDigit
  <2>4. (c - CharA) + 10 = x
    BY <2>1, CodeFacts
  <2>. QED
    BY <2>2, <2>3, <2>4 DEF c
<1>. QED
  BY <1>1, <1>2

\* The two digits of a byte.
LEMMA Nibbles ==
  ASSUME NEW c \in Nat, c < ByteRange
  PROVE  /\ c \div NibbleRange \in 0 .. 15 /\ c % NibbleRange \in 0 .. 15
         /\ (c \div NibbleRange) * NibbleRange + (c % NibbleRange) = c
<1>. DEFINE n == NibbleRange
            q == c \div n
            r == c % n
<1>1. n \in Nat \ {0} /\ n <= 16 /\ ByteRange <= n * n /\ ByteRange \in Nat
  BY SMTT(60), TextAssumption, ByteFacts
<1>. HIDE DEF n
<1>2. q \in Nat /\ r \in 0 .. n - 1 /\ c = q * n + r
  BY <1>1, Divided
<1>. HIDE DEF q, r
<1>3. q < n
  <2>1. SUFFICES ASSUME q >= n PROVE FALSE
    BY <1>1, <1>2
  <2>2. q * n >= n * n
    BY <1>1, <1>2, <2>1
  <2>. DEFINE x == q * n
              y == n * n
  <2>3. x \in Nat /\ y \in Nat /\ x >= y /\ c = x + r /\ c < y /\ r \in Nat
    BY <1>1, <1>2, <2>2
  <2>. HIDE DEF x, y
  <2>. QED
    BY <2>3
<1>4. q \in 0 .. 15 /\ r \in 0 .. 15 /\ q * n + r = c
  BY <1>1, <1>2, <1>3
<1>. QED
  BY <1>4 DEF q, r, n

\* The digit at each place.
LEMMA HexTextDigits ==
  ASSUME NEW v \in Strings
  PROVE  /\ HexText(v) \in Strings /\ Len(HexText(v)) = 2 * Len(v)
         /\ \A k \in 1 .. 2 * Len(v) : HexText(v)[k] # Colon
         /\ \A k \in 1 .. 2 * Len(v) : FromHex(HexText(v)[k]) \in 0 .. 15
         /\ \A j \in 1 .. Len(v) : FromHex(HexText(v)[2 * j - 1]) * NibbleRange + FromHex(HexText(v)[2 * j]) = v[j]
<1>. DEFINE m == Len(v)
            h == HexText(v)
            D(k) == IF k % 2 = 1 THEN v[(k + 1) \div 2] \div NibbleRange
                    ELSE v[(k + 1) \div 2] % NibbleRange
            S == 0 .. ByteRange - 1
<1>1. m \in Nat
  BY StringBytes
<1>2. h = [k \in 1 .. 2 * m |-> ToHex(D(k))]
  BY DEF HexText
<1>3. ASSUME NEW k \in 1 .. 2 * m PROVE D(k) \in 0 .. 15
  <2>. DEFINE j == (k + 1) \div 2
              c == v[j]
  <2>1. j \in 1 .. m
    BY <1>1
  <2>2. c \in Nat /\ c < ByteRange
    BY <2>1, StringBytes
  <2>3. D(k) = IF k % 2 = 1 THEN c \div NibbleRange ELSE c % NibbleRange
    OBVIOUS
  <2>. HIDE DEF c, D
  <2>. QED
    BY <2>2, <2>3, Nibbles
<1>4. \A k \in 1 .. 2 * m : h[k] = ToHex(D(k))
  <2>. HIDE DEF m, D
  <2>. QED
    BY <1>2
<1>. HIDE DEF D
<1>5. \A k \in 1 .. 2 * m : h[k] \in S /\ h[k] # Colon /\ FromHex(h[k]) = D(k)
  <2>. TAKE k \in 1 .. 2 * m
  <2>1. ToHex(D(k)) \in Nat /\ ToHex(D(k)) < ByteRange /\ ToHex(D(k)) # Colon /\ FromHex(ToHex(D(k))) = D(k)
    BY <1>3, HexDigit
  <2>2. h[k] = ToHex(D(k))
    BY <1>4
  <2>. HIDE DEF h
  <2>3. h[k] \in S
    BY <2>1, <2>2, ByteFacts
  <2>. QED
    BY <2>1, <2>2, <2>3
<1>6. h \in Strings /\ Len(h) = 2 * m
  <2>1. DOMAIN h = 1 .. 2 * m /\ 2 * m \in Nat /\ h = [k \in 1 .. 2 * m |-> h[k]]
    BY <1>1, <1>2
  <2>. HIDE DEF h, S, m
  <2>2. h \in [1 .. 2 * m -> S]
    BY <1>5, <2>1
  <2>. DEFINE n == 2 * m
  <2>3. n \in Nat /\ h \in [1 .. n -> S]
    BY <2>1, <2>2
  <2>. HIDE DEF n
  <2>4. h \in Seq(S) /\ Len(h) = n
    BY <2>3
  <2>. QED
    BY <2>4 DEF Strings, S, n
<1>7. ASSUME NEW j \in 1 .. m
      PROVE  FromHex(h[2 * j - 1]) * NibbleRange + FromHex(h[2 * j]) = v[j]
  <2>. DEFINE a == 2 * j - 1
              b == 2 * j
              c == v[j]
  <2>1. /\ a \in 1 .. 2 * m /\ b \in 1 .. 2 * m /\ a % 2 = 1 /\ b % 2 = 0
        /\ (a + 1) \div 2 = j /\ (b + 1) \div 2 = j
    BY <1>1
  <2>2. D(a) = c \div NibbleRange
    BY <2>1 DEF D
  <2>3. D(b) = c % NibbleRange
    BY <2>1 DEF D
  <2>4. c \in Nat /\ c < ByteRange
    BY StringBytes
  <2>. HIDE DEF a, b, c, h
  <2>5. FromHex(h[a]) = c \div NibbleRange /\ FromHex(h[b]) = c % NibbleRange
    BY <1>5, <2>1, <2>2, <2>3
  <2>6. (c \div NibbleRange) * NibbleRange + (c % NibbleRange) = c
    BY <2>4, Nibbles
  <2>. QED
    BY <2>5, <2>6 DEF a, b, c
<1>. HIDE DEF h
<1>8. \A k \in 1 .. 2 * m : FromHex(h[k]) \in 0 .. 15
  BY <1>3, <1>5
<1>. QED
  BY <1>5, <1>6, <1>7, <1>8 DEF h, m

\* A hexadecimal text is decoded to its bytes; cut in the middle of a byte it is
\* refused, and between two bytes it gives the bytes before.
LEMMA HexReads ==
  ASSUME NEW v \in Strings, NEW s \in Strings, Matches(s, HexText(v) \o << Colon >>)
  PROVE  TextRead("hex", v, 2 * Len(v) + 1, s, GetHex(s))
<1>. DEFINE m == Len(v)
            h == HexText(v)
            n == Len(s)
            r == GetHex(s)
<1>1. m \in Nat /\ n \in Nat
  BY StringBytes
<1>2. /\ h \in Strings /\ Len(h) = 2 * m
      /\ \A k \in 1 .. 2 * m : h[k] # Colon /\ FromHex(h[k]) \in 0 .. 15
      /\ \A j \in 1 .. m : FromHex(h[2 * j - 1]) * NibbleRange + FromHex(h[2 * j]) = v[j]
  BY HexTextDigits
<1>3. IF n > 2 * m THEN GetSliceUntil(s, Colon) = [value |-> h, used |-> 2 * m + 1]
      ELSE /\ GetSliceUntil(s, Colon) = [value |-> s, used |-> n]
           /\ \A k \in 1 .. n : s[k] = h[k]
  <2>1. Colon \in Nat /\ Colon < ByteRange
    BY CodeFacts
  <2>2. \A k \in 1 .. Len(h) : h[k] # Colon
    BY <1>2
  <2>. HIDE DEF h
  <2>. QED
    BY SMTT(60), <1>2, <2>1, <2>2, SliceUntil DEF h
<1>. HIDE DEF h
<1>4. ASSUME NEW t \in Strings, NEW j \in 0 .. m, Len(t) = 2 * j, \A k \in 1 .. 2 * j : t[k] = h[k]
      PROVE  DecodeHex(t) = [ok |-> TRUE, value |-> SubSeq(v, 1, j)]
  <2>1. Len(t) % 2 = 0 /\ Len(t) \div 2 = j
    BY <1>1, <1>4
  <2>2. \A k \in 1 .. Len(t) : FromHex(t[k]) >= 0
    <3>. TAKE k \in 1 .. Len(t)
    <3>1. k \in 1 .. 2 * j /\ k \in 1 .. 2 * m
      BY <1>1, <1>4
    <3>2. FromHex(h[k]) \in 0 .. 15 /\ t[k] = h[k]
      BY <1>2, <1>4, <3>1
    <3>. QED
      BY SMTT(60), <3>2
  <2>3. \A k \in 1 .. j : FromHex(t[2 * k - 1]) * NibbleRange + FromHex(t[2 * k]) = v[k]
    <3>. TAKE k \in 1 .. j
    <3>1. 2 * k - 1 \in 1 .. 2 * j /\ 2 * k \in 1 .. 2 * j /\ k \in 1 .. m
      BY <1>1, <1>4
    <3>. QED
      BY <1>2, <1>4, <3>1
  <2>4. SubSeq(v, 1, j) = [k \in 1 .. j |-> v[k]]
    <3>. DEFINE S == 0 .. ByteRange - 1
    <3>1. v \in Seq(S)
      BY DEF Strings
    <3>. HIDE DEF S
    <3>. QED
      BY <1>1, <3>1
  <2>5. DecodeHex(t) = [ok |-> TRUE, value |-> [k \in 1 .. j |-> FromHex(t[2 * k - 1]) * NibbleRange + FromHex(t[2 * k])]]
    BY <2>1, <2>2 DEF DecodeHex
  <2>. QED
    BY <2>3, <2>4, <2>5
<1>5. CASE n >= 2 * m
  <2>. DEFINE t == GetSliceUntil(s, Colon).value
              u == GetSliceUntil(s, Colon).used
  <2>1. t \in Strings /\ Len(t) = 2 * m /\ \A k \in 1 .. 2 * m : t[k] = h[k]
    <3>1. CASE n > 2 * m
      BY <1>2, <1>3, <3>1
    <3>2. CASE n = 2 * m
      <4>1. ~(n > 2 * m)
        BY <1>1, <3>2
      <4>. QED
        BY <1>3, <3>2, <4>1
    <3>. QED
      BY <1>1, <1>5, <3>1, <3>2
  <2>2. u = IF n >= 2 * m + 1 THEN 2 * m + 1 ELSE n
    <3>1. n > 2 * m <=> n >= 2 * m + 1
      BY <1>1
    <3>. QED
      BY <1>3, <3>1
  <2>3. r = Taking(DecodeHex(t), u)
    BY DEF GetHex
  <2>. HIDE DEF t, u, r
  <2>4. m \in 0 .. m /\ SubSeq(v, 1, m) = v
    <3>. DEFINE S == 0 .. ByteRange - 1
    <3>1. v \in Seq(S)
      BY DEF Strings
    <3>. HIDE DEF S
    <3>. QED
      BY <1>1, <3>1
  <2>5. DecodeHex(t) = [ok |-> TRUE, value |-> v]
    BY <1>4, <2>1, <2>4
  <2>6. r = [ok |-> TRUE, value |-> v, used |-> u]
    BY <2>3, <2>5 DEF Taking
  <2>7. Reads(r, v, u)
    BY <2>6 DEF Reads
  <2>8. n >= (2 * m + 1) - 1
    BY <1>1, <1>5
  <2>. QED
    BY <2>2, <2>7, <2>8 DEF TextRead, m, n, r
<1>6. CASE n < 2 * m
  <2>1. ~(n > 2 * m) /\ ~(n >= (2 * m + 1) - 1)
    BY <1>1, <1>6
  <2>2. r = Taking(DecodeHex(s), n) /\ \A k \in 1 .. n : s[k] = h[k]
    BY <1>3, <2>1 DEF GetHex
  <2>3. CASE n % 2 = 0
    <3>. DEFINE j == n \div 2
                g == SubSeq(v, 1, j)
    <3>1. j \in 0 .. m /\ n = 2 * j
      BY <1>1, <1>6, <2>3
    <3>2. DecodeHex(s) = [ok |-> TRUE, value |-> g]
      BY <1>4, <2>2, <3>1 DEF n
    <3>. HIDE DEF g, r
    <3>3. r = [ok |-> TRUE, value |-> g, used |-> n]
      BY <2>2, <3>2 DEF Taking
    <3>4. Reads(r, g, n)
      BY <3>3 DEF Reads
    <3>5. IsPrefix(g, v)
      BY <3>1, PrefixFacts DEF g, m, Strings
    <3>6. Written("hex", g) = g /\ Written("hex", v) = v
      BY DEF Written
    <3>. QED
      BY <2>1, <3>4, <3>5, <3>6 DEF TextRead, m, n, r
  <2>4. CASE ~(n % 2 = 0)
    <3>1. DecodeHex(s).ok = FALSE
      BY <2>4 DEF DecodeHex, n
    <3>2. r = [ok |-> FALSE, used |-> n]
      <4>. HIDE DEF r
      <4>. QED
        BY <2>2, <3>1 DEF Taking
    <3>3. RefusesAfter(r, s)
      <4>. HIDE DEF r
      <4>1. n \in 0 .. n
        BY <1>1
      <4>. QED
        BY <3>2, <4>1 DEF RefusesAfter, n
    <3>. QED
      BY <2>1, <3>3 DEF TextRead, m, n, r
  <2>. QED
    BY <2>3, <2>4
<1>. QED
  BY <1>1, <1>5, <1>6

-----------------------------------------------------------------------------
(***************************************************************************)
(* Decimal numbers.                                                        *)
(***************************************************************************)

\* The text of a number: digits, and so bytes and no delimiters.
LEMMA DecimalText ==
  ASSUME NEW v \in Nat
  PROVE  /\ Decimal[v] \in Strings /\ Len(Decimal[v]) \in Nat \ {0}
         /\ \A k \in 1 .. Len(Decimal[v]) : Decimal[v][k] \in Char0 .. Char0 + 9
<1>. DEFINE X == Char0 .. Char0 + 9
            S == 0 .. ByteRange - 1
            t == Decimal[v]
<1>1. t \in Seq(X)
  BY DecimalDef DEF Digits
<1>2. X \subseteq S
  <2>1. \A c \in X : c \in Nat /\ c < ByteRange
    BY CodesApart
  <2>. HIDE DEF X
  <2>. QED
    BY <2>1, ByteFacts
<1>3. Len(t) # 0
  <2>1. CASE v < 10
    <3>1. t = << Char0 + v >>
      BY <2>1, DecimalDef
    <3>. QED
      BY <3>1
  <2>2. CASE ~(v < 10)
    <3>. DEFINE q == Decimal[v \div 10]
    <3>1. v \div 10 \in Nat
      OBVIOUS
    <3>2. t = Append(q, Char0 + (v % 10)) /\ q \in Digits
      BY <2>2, <3>1, DecimalDef
    <3>. HIDE DEF t, q
    <3>. QED
      BY <3>2 DEF Digits
  <2>. QED
    BY <2>1, <2>2
<1>. HIDE DEF X, S, t
<1>4. t \in Seq(S) /\ Len(t) \in Nat /\ \A k \in 1 .. Len(t) : t[k] \in X
  BY <1>1, <1>2
<1>. QED
  BY <1>3, <1>4 DEF Strings, S, X, t

\* The last digit of a number of several.
LEMMA DecimalLast ==
  ASSUME NEW v \in Nat, v >= 10
  PROVE  /\ v \div 10 \in Nat /\ v = 10 * (v \div 10) + (v % 10) /\ v % 10 \in 0 .. 9
         /\ Len(Decimal[v]) = Len(Decimal[v \div 10]) + 1
         /\ \A k \in 1 .. Len(Decimal[v \div 10]) : Decimal[v][k] = Decimal[v \div 10][k]
         /\ Decimal[v][Len(Decimal[v])] = Char0 + (v % 10)
<1>. DEFINE q == v \div 10
            d == Char0 + (v % 10)
            t == Decimal[q]
<1>1. q \in Nat /\ v = 10 * q + (v % 10) /\ v % 10 \in 0 .. 9
  OBVIOUS
<1>2. Decimal[v] = Append(t, d) /\ t \in Digits
  BY <1>1, DecimalDef
<1>. HIDE DEF t, d
<1>3. /\ Len(Append(t, d)) = Len(t) + 1 /\ Append(t, d)[Len(t) + 1] = d
      /\ \A k \in 1 .. Len(t) : Append(t, d)[k] = t[k]
  BY <1>2 DEF Digits
<1>. QED
  BY <1>1, <1>2, <1>3 DEF t, d

\* A text that is empty or not, up to its length.
LEMMA LastOrBefore ==
  ASSUME NEW n \in Nat, NEW m \in 1 .. n + 1
  PROVE  m = n + 1 \/ m \in 1 .. n
OBVIOUS

\* The first digits of a number are the text of a number that is no larger.
DecimalCut(v) ==
  \A m \in 1 .. Len(Decimal[v]) :
    \E w \in Nat : /\ w <= v /\ (v > 0 => w > 0) /\ Len(Decimal[w]) = m
                  /\ \A k \in 1 .. m : Decimal[w][k] = Decimal[v][k]

\* Every beginning of a decimal text is the text of a number no greater.
LEMMA DecimalPrefix == \A v \in Nat : DecimalCut(v)
<1>. DEFINE T == {v \in Nat : DecimalCut(v)}
<1>1. ASSUME NEW v \in Nat, v < 10 PROVE v \in T
  <2>1. Len(Decimal[v]) = 1
    BY <1>1, DecimalDef
  <2>2. ASSUME NEW m \in 1 .. Len(Decimal[v]) PROVE m = Len(Decimal[v]) /\ v <= v
    BY <2>1
  <2>. QED
    BY <2>2 DEF DecimalCut
<1>2. ASSUME NEW v \in Nat, v >= 10, v \div 10 \in T PROVE v \in T
  <2>. DEFINE q == v \div 10
              n == Len(Decimal[q])
  <2>1. /\ q \in Nat /\ v = 10 * q + (v % 10) /\ v % 10 \in 0 .. 9 /\ Len(Decimal[v]) = n + 1
        /\ \A k \in 1 .. n : Decimal[v][k] = Decimal[q][k]
    BY <1>2, DecimalLast
  <2>2. n \in Nat /\ DecimalCut(q) /\ q <= v
    BY <1>2, <2>1, DecimalText
  <2>. HIDE DEF q
  <2>3. ASSUME NEW m \in 1 .. n + 1
        PROVE  \E w \in Nat : /\ w <= v /\ (v > 0 => w > 0) /\ Len(Decimal[w]) = m
                              /\ \A k \in 1 .. m : Decimal[w][k] = Decimal[v][k]
    <3>1. CASE m = n + 1
      BY <2>1, <3>1
    <3>2. CASE m \in 1 .. n
      <4>1. PICK w \in Nat : /\ w <= q /\ (q > 0 => w > 0) /\ Len(Decimal[w]) = m
                             /\ \A k \in 1 .. m : Decimal[w][k] = Decimal[q][k]
        BY <2>2, <3>2 DEF DecimalCut
      <4>2. w <= v /\ w > 0
        <5>1. q > 0
          BY <1>2, <2>1
        <5>. QED
          BY <2>1, <2>2, <4>1, <5>1
      <4>3. \A k \in 1 .. m : k \in 1 .. n
        BY <2>2, <3>2
      <4>4. \A k \in 1 .. m : Decimal[w][k] = Decimal[v][k]
        BY <2>1, <4>1, <4>3
      <4>. QED
        BY <4>1, <4>2, <4>4
    <3>. HIDE DEF n
    <3>. QED
      BY <2>2, <3>1, <3>2, LastOrBefore
  <2>. QED
    BY <2>1, <2>3 DEF DecimalCut
<1>3. Nat \subseteq T
  <2>. DEFINE c == 10
  <2>1. c \in Nat /\ c > 1
    OBVIOUS
  <2>2. \A v \in Nat : v < c => v \in T
    BY <1>1
  <2>3. \A v \in Nat : v >= c /\ v \div c \in T => v \in T
    BY <1>2
  <2>. HIDE DEF T, c
  <2>. QED
    BY <2>1, <2>2, <2>3, DigitInduction
<1>. QED
  BY <1>3

\* The overflow test of ConsumeDecimalNumber is exact.
LEMMA FitsExactly ==
  ASSUME NEW v \in Nat, NEW digit \in 0 .. 9
  PROVE  FitsUint64(v, digit) <=> 10 * v + digit < UInt64
<1>. DEFINE m == UInt64 - 1
            q == m \div 10
            r == m % 10
<1>1. m \in Nat /\ UInt64 = m + 1
  BY SMTT(60), ByteFacts DEF UInt64
<1>2. q \in Nat /\ r \in 0 .. 9 /\ m = 10 * q + r
  BY <1>1
<1>3. FitsUint64(v, digit) <=> v < q \/ (v = q /\ digit <= r)
  BY DEF FitsUint64
<1>. HIDE DEF m, q, r
<1>. QED
  BY <1>1, <1>2, <1>3

\* ConsumeDecimalNumber's state after each digit, and one step of it.
TakeStates(s) == [fits : BOOLEAN, value : Nat, used : 0 .. Len(s)]

TakeStep(s, k, before) ==
  IF ~before.fits \/ ~FitsUint64(before.value, s[k] - Char0)
  THEN [before EXCEPT !.fits = FALSE]
  ELSE [fits |-> TRUE, value |-> (before.value * 10 + (s[k] - Char0)) % UInt64, used |-> k]

\* n digits, and then none.
DigitsFirst(s, n) ==
  /\ \A k \in 1 .. n : s[k] \in Char0 .. Char0 + 9
  /\ n = Len(s) \/ s[n + 1] \notin Char0 .. Char0 + 9

\* What ConsumeDecimalNumber does with them.
LEMMA ConsumeSteps ==
  ASSUME NEW s \in Strings, NEW n \in 0 .. Len(s), DigitsFirst(s, n)
  PROVE  \E take \in [0 .. n -> TakeStates(s)] :
           /\ take[0] = [fits |-> TRUE, value |-> 0, used |-> 0]
           /\ \A k \in 1 .. n : take[k] = TakeStep(s, k, take[k - 1])
           /\ ConsumeDecimalNumber(s) =
                [ok |-> take[n].fits /\ n > 0, value |-> take[n].value, used |-> take[n].used]
<1>. DEFINE V == TakeStates(s)
            v0 == [fits |-> TRUE, value |-> 0, used |-> 0]
            digits == Min({k \in 1 .. Len(s) : ~IsDigit(s[k])} \cup {Len(s) + 1}) - 1
            Def(f) == [k \in 0 .. n |-> IF k = 0 THEN v0 ELSE TakeStep(s, k, f[k - 1])]
            take == CHOOSE f : f = Def(f)
<1>1. Len(s) \in Nat /\ n \in Nat /\ n <= Len(s)
  BY StringBytes
<1>2. digits = n
  <2>. DEFINE P == {k \in 1 .. Len(s) : ~IsDigit(s[k])} \cup {Len(s) + 1}
              p == Min(P)
  <2>1. P \in SUBSET Nat /\ P # {}
    BY <1>1
  <2>2. p \in P /\ \A y \in P : p <= y
    <3>. HIDE DEF P
    <3>. QED
      BY <2>1, MinFacts
  <2>3. \A y \in P : y \in Nat /\ y >= n + 1
    BY <1>1 DEF DigitsFirst, IsDigit
  <2>4. n + 1 \in P
    BY <1>1 DEF DigitsFirst, IsDigit
  <2>5. p = n + 1
    <3>. HIDE DEF P
    <3>1. p \in Nat /\ p >= n + 1 /\ p <= n + 1
      BY <2>2, <2>3, <2>4
    <3>. HIDE DEF p
    <3>. QED
      BY <1>1, <3>1
  <2>6. digits = p - 1
    OBVIOUS
  <2>. HIDE DEF p, digits
  <2>. QED
    BY <1>1, <2>5, <2>6
<1>. DEFINE DefD(f) == [k \in 0 .. digits |->
                          IF k = 0 THEN [fits |-> TRUE, value |-> 0, used |-> 0]
                          ELSE LET before == f[k - 1]
                                   digit == s[k] - Char0
                               IN  IF ~before.fits \/ ~FitsUint64(before.value, digit)
                                   THEN [before EXCEPT !.fits = FALSE]
                                   ELSE [fits |-> TRUE,
                                         value |-> (before.value * 10 + digit) % UInt64, used |-> k]]
            takeD == CHOOSE f : f = DefD(f)
<1>3. ConsumeDecimalNumber(s) =
        [ok |-> takeD[digits].fits /\ digits > 0, value |-> takeD[digits].value,
         used |-> takeD[digits].used]
  BY Zenon DEF ConsumeDecimalNumber
<1>4. takeD = take
  <2>1. \A f : DefD(f) = Def(f)
    <3>. TAKE f
    <3>. HIDE DEF digits
    <3>. QED
      BY Zenon, <1>2 DEF TakeStep
  <2>. HIDE DEF DefD, Def
  <2>. QED
    BY Zenon, <2>1
<1>. HIDE DEF takeD, digits, DefD
<1>5. ASSUME NEW k \in 1 .. n, NEW v \in V PROVE TakeStep(s, k, v) \in V
  <2>. DEFINE a == v.value * 10 + (s[k] - Char0)
  <2>1. v.value \in Nat /\ v.used \in 0 .. Len(s) /\ v = [fits |-> v.fits, value |-> v.value, used |-> v.used]
    BY DEF TakeStates
  <2>2. s[k] - Char0 \in Nat
    <3>1. s[k] \in Char0 .. Char0 + 9
      BY DEF DigitsFirst
    <3>. QED
      BY SMTT(60), <3>1, CodeFacts
  <2>3. a \in Nat /\ UInt64 \in Nat \ {0}
    <3>. DEFINE x == v.value
                y == s[k] - Char0
    <3>1. x \in Nat /\ y \in Nat
      BY <2>1, <2>2
    <3>. HIDE DEF x, y
    <3>2. x * 10 + y \in Nat
      BY <3>1
    <3>3. UInt64 \in Nat \ {0}
      BY ByteFacts DEF UInt64
    <3>. QED
      BY <3>2, <3>3 DEF x, y
  <2>. HIDE DEF a
  <2>4. a % UInt64 \in Nat
    BY <2>3, Divided
  <2>5. k \in 0 .. Len(s)
    BY <1>1
  <2>6. [v EXCEPT !.fits = FALSE] \in V
    BY DEF TakeStates
  <2>7. [fits |-> TRUE, value |-> a % UInt64, used |-> k] \in V
    BY <2>4, <2>5 DEF TakeStates
  <2>. QED
    BY <2>6, <2>7 DEF TakeStep, a
<1>6. v0 \in V
  BY <1>1 DEF TakeStates
<1>7. \A k \in 1 .. n : k \in 0 .. n /\ k - 1 \in 0 .. n /\ k # 0
  BY <1>1
<1>8. \E f \in [0 .. n -> V] : f = Def(f)
  <2>. DEFINE G == [k \in 1 .. n |-> [v \in V |-> TakeStep(s, k, v)]]
  <2>1. StepsIn(n, V, G) /\ \A k \in 1 .. n : \A v \in V : G[k][v] = TakeStep(s, k, v)
    <3>. HIDE DEF V
    <3>. QED
      BY <1>5 DEF StepsIn
  <2>. HIDE DEF G, V, v0
  <2>2. PICK f \in [0 .. n -> V] : f[0] = v0 /\ \A k \in 1 .. n : f[k] = G[k][f[k - 1]]
    BY <1>1, <1>6, <2>1, LinearRecursion
  <2>3. \A k \in 0 .. n : f[k] = IF k = 0 THEN v0 ELSE TakeStep(s, k, f[k - 1])
    <3>. TAKE k \in 0 .. n
    <3>1. CASE k = 0
      BY <2>2, <3>1
    <3>2. CASE k # 0
      <4>1. k \in 1 .. n
        BY <1>1, <3>2
      <4>2. f[k - 1] \in V
        BY <1>7, <4>1
      <4>. QED
        BY <2>1, <2>2, <3>2, <4>1, <4>2
    <3>. QED
      BY <3>1, <3>2
  <2>4. f = [k \in 0 .. n |-> f[k]]
    OBVIOUS
  <2>5. f = Def(f)
    BY <2>3, <2>4
  <2>. QED
    BY <2>5
<1>9. take = Def(take)
  <2>. HIDE DEF Def, V
  <2>. QED
    BY <1>8
<1>. HIDE DEF take
<1>10. take[0] = v0 /\ \A k \in 1 .. n : take[k] = TakeStep(s, k, take[k - 1])
  <2>1. \A k \in 0 .. n : take[k] = Def(take)[k]
    BY <1>9
  <2>2. 0 \in 0 .. n
    BY <1>1
  <2>. HIDE DEF v0
  <2>. QED
    BY <1>7, <2>1, <2>2
<1>11. take \in [0 .. n -> V]
  <2>. DEFINE T == {k \in 0 .. n : take[k] \in V}
  <2>1. 0 \in T
    <3>. HIDE DEF V, v0
    <3>. QED
      BY <1>1, <1>6, <1>10
  <2>2. ASSUME NEW k \in 1 .. n, k - 1 \in T PROVE k \in T
    <3>. HIDE DEF V
    <3>. QED
      BY <1>5, <1>7, <1>10, <2>2
  <2>. HIDE DEF T
  <2>3. 0 .. n \subseteq T
    BY <1>1, <2>1, <2>2, BoundedInduction
  <2>4. take = [k \in 0 .. n |-> take[k]]
    BY <1>9
  <2>. HIDE DEF V
  <2>. QED
    BY <2>3, <2>4 DEF T
<1>12. ConsumeDecimalNumber(s) =
        [ok |-> take[n].fits /\ n > 0, value |-> take[n].value, used |-> take[n].used]
  BY Zenon, <1>2, <1>3, <1>4
<1>. QED
  BY <1>10, <1>11, <1>12

DigitAt(s, k, d) == d \in 0 .. 9 /\ s[k] = Char0 + d

GrowsBy(step, x, k) ==
  IF x < UInt64 THEN step = [fits |-> TRUE, value |-> x, used |-> k] ELSE step.fits = FALSE

\* One more digit: the number grows by it, or no longer fits.
LEMMA TakeOne ==
  ASSUME NEW s \in Strings, NEW k \in Nat, NEW q \in Nat, NEW u \in 0 .. Len(s), NEW d, DigitAt(s, k, d)
  PROVE  GrowsBy(TakeStep(s, k, [fits |-> TRUE, value |-> q, used |-> u]), 10 * q + d, k)
<1>. DEFINE before == [fits |-> TRUE, value |-> q, used |-> u]
            step == TakeStep(s, k, before)
            x == 10 * q + d
<1>0. d \in 0 .. 9 /\ s[k] = Char0 + d
  BY DEF DigitAt
<1>1. s[k] - Char0 = d /\ UInt64 \in Nat \ {0} /\ x \in Nat /\ q * 10 + d = x
  <2>1. Char0 \in Nat
    BY CodeFacts
  <2>2. UInt64 \in Nat \ {0}
    BY ByteFacts DEF UInt64
  <2>3. Char0 + d - Char0 = d
    BY <1>0, <2>1
  <2>4. s[k] - Char0 = d
    <3>1. \A c : c = Char0 + d => c - Char0 = d
      BY <1>0, <2>1
    <3>. QED
      BY <1>0, <3>1
  <2>5. x \in Nat /\ q * 10 + d = x
    BY <1>0
  <2>. QED
    BY <2>2, <2>4, <2>5
<1>2. before.fits = TRUE /\ before.value = q /\ before \in TakeStates(s)
  BY DEF TakeStates
<1>3. FitsUint64(q, d) <=> x < UInt64
  BY <1>0, FitsExactly
<1>. HIDE DEF before, x
<1>4. CASE x < UInt64
  <2>1. x \in 0 .. UInt64 - 1
    BY <1>1, <1>4
  <2>2. x % UInt64 = x
    BY <1>1, <2>1, SmallRemainder
  <2>3. step = [fits |-> TRUE, value |-> x % UInt64, used |-> k]
    BY <1>1, <1>2, <1>3, <1>4 DEF TakeStep
  <2>. QED
    BY <1>4, <2>2, <2>3 DEF before, x, GrowsBy
<1>5. CASE ~(x < UInt64)
  <2>1. step = [before EXCEPT !.fits = FALSE]
    BY <1>1, <1>2, <1>3, <1>5 DEF TakeStep
  <2>2. step.fits = FALSE
    BY <1>2, <2>1 DEF TakeStates
  <2>. QED
    BY <1>5, <2>2 DEF before, x, GrowsBy
<1>. QED
  BY <1>4, <1>5

\* Once the number does not fit, no digit changes that.
LEMMA TakeNone ==
  ASSUME NEW s \in Strings, NEW k, NEW before \in TakeStates(s), before.fits = FALSE
  PROVE  TakeStep(s, k, before).fits = FALSE
<1>1. TakeStep(s, k, before) = [before EXCEPT !.fits = FALSE]
  BY DEF TakeStep
<1>. QED
  BY <1>1 DEF TakeStates

\* The states of ConsumeDecimalNumber over n digits.
Takes(s, n, take) ==
  /\ take \in [0 .. n -> TakeStates(s)]
  /\ take[0] = [fits |-> TRUE, value |-> 0, used |-> 0]
  /\ \A k \in 1 .. n : take[k] = TakeStep(s, k, take[k - 1])

\* s begins with the text of w.
BeginsWith(s, w) ==
  /\ Len(Decimal[w]) <= Len(s)
  /\ \A k \in 1 .. Len(Decimal[w]) : s[k] = Decimal[w][k]

TakenAs(take, w) ==
  IF w < UInt64 THEN take[Len(Decimal[w])] = [fits |-> TRUE, value |-> w, used |-> Len(Decimal[w])]
  ELSE take[Len(Decimal[w])].fits = FALSE

\* After the digits of w the state has w, or w does not fit.
LEMMA TakeNumber ==
  ASSUME NEW s \in Strings, NEW n \in 0 .. Len(s), NEW take, Takes(s, n, take)
  PROVE  \A w \in Nat : BeginsWith(s, w) /\ Len(Decimal[w]) <= n => TakenAs(take, w)
<1>. DEFINE P(w) == BeginsWith(s, w) /\ Len(Decimal[w]) <= n => TakenAs(take, w)
            T == {w \in Nat : P(w)}
<1>0. Len(s) \in Nat /\ n \in Nat
  BY StringBytes
<1>1. ASSUME NEW w \in Nat, w < 10 PROVE w \in T
  <2>. SUFFICES ASSUME BeginsWith(s, w), Len(Decimal[w]) <= n PROVE TakenAs(take, w)
    OBVIOUS
  <2>1. Decimal[w] = << Char0 + w >>
    BY <1>1, DecimalDef
  <2>2. Len(Decimal[w]) = 1 /\ Decimal[w][1] = Char0 + w
    BY <2>1
  <2>3. s[1] = Char0 + w /\ 1 \in 1 .. n /\ 1 - 1 = 0 /\ w \in 0 .. 9 /\ 10 * 0 + w = w /\ 0 \in 0 .. Len(s) /\ 0 \in Nat
    BY <1>0, <1>1, <2>2 DEF BeginsWith
  <2>4. take[1] = TakeStep(s, 1, [fits |-> TRUE, value |-> 0, used |-> 0])
    BY <2>3 DEF Takes
  <2>5. GrowsBy(take[1], 10 * 0 + w, 1)
    <3>. DEFINE z == 0
                o == 1
    <3>1. z \in Nat /\ o \in Nat /\ z \in 0 .. Len(s) /\ DigitAt(s, o, w)
      BY <2>3 DEF DigitAt
    <3>2. take[o] = TakeStep(s, o, [fits |-> TRUE, value |-> z, used |-> z])
      BY <2>4
    <3>. HIDE DEF z, o
    <3>3. GrowsBy(take[o], 10 * z + w, o)
      BY <3>1, <3>2, TakeOne
    <3>. QED
      BY <3>3 DEF z, o
  <2>. QED
    BY <2>2, <2>3, <2>5 DEF TakenAs, GrowsBy
<1>2. ASSUME NEW w \in Nat, w >= 10, w \div 10 \in T PROVE w \in T
  <2>. SUFFICES ASSUME BeginsWith(s, w), Len(Decimal[w]) <= n PROVE TakenAs(take, w)
    OBVIOUS
  <2>. DEFINE q == w \div 10
              d == w % 10
              m == Len(Decimal[q])
  <2>1. /\ q \in Nat /\ w = 10 * q + d /\ d \in 0 .. 9 /\ Len(Decimal[w]) = m + 1
        /\ \A k \in 1 .. m : Decimal[w][k] = Decimal[q][k]
        /\ Decimal[w][m + 1] = Char0 + d
    BY <1>2, DecimalLast
  <2>2. P(q)
    BY <1>2
  <2>3. m \in Nat
    BY <2>1, DecimalText
  <2>. HIDE DEF q, d
  <2>4. BeginsWith(s, q) /\ m <= n
    <3>1. m <= Len(s) /\ m <= n /\ \A k \in 1 .. m : k \in 1 .. m + 1
      BY <1>0, <2>1, <2>3 DEF BeginsWith
    <3>. QED
      BY <2>1, <3>1 DEF BeginsWith
  <2>5. TakenAs(take, q)
    BY <2>2, <2>4
  <2>. HIDE DEF P
  <2>6. m + 1 \in 1 .. n /\ (m + 1) - 1 = m /\ m + 1 \in 1 .. m + 1 /\ m \in 0 .. Len(s) /\ m \in 0 .. n
    BY <1>0, <2>1, <2>3, <2>4
  <2>7. s[m + 1] = Char0 + d
    BY <2>1, <2>6 DEF BeginsWith
  <2>8. take[m + 1] = TakeStep(s, m + 1, take[m])
    BY <2>6 DEF Takes
  <2>9. CASE q < UInt64
    <3>1. take[m] = [fits |-> TRUE, value |-> q, used |-> m]
      BY <2>5, <2>9 DEF TakenAs
    <3>2. GrowsBy(take[m + 1], 10 * q + d, m + 1)
      <4>. DEFINE o == m + 1
      <4>1. DigitAt(s, o, d) /\ o \in Nat
        BY <2>1, <2>3, <2>7 DEF DigitAt
      <4>2. take[o] = TakeStep(s, o, [fits |-> TRUE, value |-> q, used |-> m])
        BY <2>8, <3>1
      <4>. HIDE DEF o, m
      <4>3. GrowsBy(take[o], 10 * q + d, o)
        BY <2>1, <2>6, <4>1, <4>2, TakeOne
      <4>. QED
        BY <4>3 DEF o, m
    <3>. QED
      BY <2>1, <3>2 DEF TakenAs, GrowsBy
  <2>10. CASE ~(q < UInt64)
    <3>1. take[m].fits = FALSE /\ take[m] \in TakeStates(s)
      BY <2>5, <2>6, <2>10 DEF TakenAs, Takes
    <3>2. take[m + 1].fits = FALSE
      BY <2>8, <3>1, TakeNone
    <3>3. ~(w < UInt64)
      <4>1. UInt64 \in Nat
        BY ByteFacts DEF UInt64
      <4>. QED
        BY <2>1, <2>10, <4>1
    <3>. QED
      BY <2>1, <3>2, <3>3 DEF TakenAs
  <2>. QED
    BY <2>9, <2>10
<1>3. Nat \subseteq T
  <2>. DEFINE c == 10
  <2>1. c \in Nat /\ c > 1
    OBVIOUS
  <2>2. \A w \in Nat : w < c => w \in T
    BY <1>1
  <2>3. \A w \in Nat : w >= c /\ w \div c \in T => w \in T
    BY <1>2
  <2>. HIDE DEF T, c
  <2>. QED
    BY <2>1, <2>2, <2>3, DigitInduction
<1>. QED
  BY <1>3

\* A number is consumed if it fits 64 bits, and refused if not.
LEMMA ConsumeNumber ==
  ASSUME NEW s \in Strings, NEW w \in Nat, BeginsWith(s, w), DigitsFirst(s, Len(Decimal[w]))
  PROVE  LET r == ConsumeDecimalNumber(s)
         IN  IF w < UInt64 THEN r = [ok |-> TRUE, value |-> w, used |-> Len(Decimal[w])]
             ELSE \E x \in Nat, u \in 0 .. Len(s) : r = [ok |-> FALSE, value |-> x, used |-> u]
<1>. DEFINE n == Len(Decimal[w])
            r == ConsumeDecimalNumber(s)
<1>1. n \in 0 .. Len(s) /\ n \in Nat /\ n > 0 /\ n <= n
  BY DecimalText, StringBytes DEF BeginsWith
<1>. HIDE DEF n
<1>2. PICK take \in [0 .. n -> TakeStates(s)] :
        /\ take[0] = [fits |-> TRUE, value |-> 0, used |-> 0]
        /\ \A k \in 1 .. n : take[k] = TakeStep(s, k, take[k - 1])
        /\ r = [ok |-> take[n].fits /\ n > 0, value |-> take[n].value, used |-> take[n].used]
  BY <1>1, ConsumeSteps DEF n
<1>3. TakenAs(take, w)
  <2>1. Takes(s, n, take)
    BY <1>2 DEF Takes
  <2>. QED
    BY <1>1, <2>1, TakeNumber DEF n
<1>. HIDE DEF r
<1>4. CASE w < UInt64
  <2>1. take[n] = [fits |-> TRUE, value |-> w, used |-> n]
    BY <1>3, <1>4 DEF TakenAs, n
  <2>2. take[n].fits = TRUE /\ take[n].value = w /\ take[n].used = n
    BY <2>1
  <2>3. (take[n].fits /\ n > 0) = TRUE
    BY <1>1, <2>2
  <2>4. r = [ok |-> TRUE, value |-> w, used |-> n]
    BY Zenon, <1>2, <2>2, <2>3
  <2>. QED
    BY <1>4, <2>4 DEF r, n
<1>5. CASE ~(w < UInt64)
  <2>1. take[n].fits = FALSE /\ take[n] \in TakeStates(s)
    BY SMTT(60), <1>1, <1>2, <1>3, <1>5 DEF TakenAs, n
  <2>2. take[n].value \in Nat /\ take[n].used \in 0 .. Len(s)
    BY <2>1 DEF TakeStates
  <2>3. (take[n].fits /\ n > 0) = FALSE
    BY <2>1
  <2>4. r = [ok |-> FALSE, value |-> take[n].value, used |-> take[n].used]
    BY Zenon, <1>2, <2>3
  <2>. QED
    BY <1>5, <2>2, <2>4 DEF r, n
<1>. QED
  BY <1>4, <1>5 DEF r, n

\* Without a digit there is no number.
LEMMA ConsumeNothing ==
  ASSUME NEW s \in Strings, DigitsFirst(s, 0)
  PROVE  ConsumeDecimalNumber(s) = [ok |-> FALSE, value |-> 0, used |-> 0]
<1>. DEFINE n == 0
            r == ConsumeDecimalNumber(s)
<1>1. n \in 0 .. Len(s) /\ DigitsFirst(s, n) /\ ~(n > 0) /\ n = 0
  BY StringBytes
<1>. HIDE DEF n
<1>2. PICK take \in [0 .. n -> TakeStates(s)] :
        /\ take[0] = [fits |-> TRUE, value |-> 0, used |-> 0]
        /\ r = [ok |-> take[n].fits /\ n > 0, value |-> take[n].value, used |-> take[n].used]
  BY <1>1, ConsumeSteps
<1>. HIDE DEF r
<1>3. take[n] = [fits |-> TRUE, value |-> 0, used |-> 0]
  BY <1>1, <1>2
<1>4. take[n].value = 0 /\ take[n].used = 0 /\ (take[n].fits /\ n > 0) = FALSE
  BY <1>1, <1>3
<1>5. r = [ok |-> FALSE, value |-> 0, used |-> 0]
  BY Zenon, <1>2, <1>4
<1>. QED
  BY <1>5 DEF r

\* After the digits of a number there is the delimiter, or nothing.
LEMMA AfterNumber ==
  ASSUME NEW s \in Strings, NEW m \in 0 .. Len(s), m < Len(s) => s[m + 1] = Colon
  PROVE  GetSliceUntil(SubSeq(s, m + 1, Len(s)), Colon).used = IF m < Len(s) THEN 1 ELSE 0
<1>. DEFINE n == Len(s)
            t == SubSeq(s, m + 1, n)
            e == << >>
<1>1. n \in Nat /\ m \in Nat /\ m <= n /\ n <= Len(s)
  BY StringBytes
<1>2. t \in Strings /\ Len(t) = n - m /\ \A k \in 1 .. n - m : t[k] = s[m + k]
  BY <1>1, StringPart
<1>. HIDE DEF n, t
<1>3. e \in Strings /\ Len(e) = 0 /\ \A k \in 1 .. Len(e) : e[k] # Colon
  BY DEF Strings
<1>4. e \o << Colon >> = << Colon >>
  OBVIOUS
<1>5. Colon \in Nat /\ Colon < ByteRange
  BY CodeFacts
<1>6. << Colon >> \in Strings /\ Len(<< Colon >>) = 1 /\ << Colon >>[1] = Colon
  BY <1>5, ByteString
<1>7. Matches(t, e \o << Colon >>)
  <2>. SUFFICES ASSUME NEW k \in 1 .. Len(t), k <= 1 PROVE t[k] = << Colon >>[k]
    BY <1>4, <1>6 DEF Matches
  <2>1. k = 1 /\ k \in 1 .. n - m /\ m + k = m + 1 /\ m < n
    BY <1>1, <1>2
  <2>. QED
    BY <1>2, <1>6, <2>1 DEF n
<1>. HIDE DEF e
<1>8. IF Len(t) > Len(e) THEN GetSliceUntil(t, Colon) = [value |-> e, used |-> Len(e) + 1]
      ELSE GetSliceUntil(t, Colon) = [value |-> t, used |-> Len(t)]
  BY ZenonT(60), <1>2, <1>3, <1>5, <1>7, SliceUntil
<1>9. CASE m < n
  <2>1. Len(t) > Len(e) /\ Len(e) + 1 = 1
    BY <1>1, <1>2, <1>3, <1>9
  <2>. QED
    BY <1>8, <1>9, <2>1 DEF t, n
<1>10. CASE ~(m < n)
  <2>1. ~(Len(t) > Len(e)) /\ Len(t) = 0
    BY <1>1, <1>2, <1>3, <1>10
  <2>. QED
    BY <1>8, <1>10, <2>1 DEF t, n
<1>. QED
  BY <1>9, <1>10

\* The answer for a number that does not fit 64 bits: it is refused, or cut and
\* what is left of it is read.
LargeRead(v, L, s, r) ==
  \/ RefusesAfter(r, s)
  \/ Len(s) < L - 1 /\ \E g : Reads(r, g, Len(s)) /\ IsPrefix(Written("decimal", g), Written("decimal", v))

DecimalRead(v, L, s, r) ==
  IF v < UInt64 THEN TextRead("decimal", v, L, s, r) ELSE LargeRead(v, L, s, r)

\* What GetDecimal answers for s, when s begins with the digits of w and then has
\* the delimiter or ends.
LEMMA GetDecimalOf ==
  ASSUME NEW s \in Strings, NEW w \in Nat, BeginsWith(s, w),
         Len(Decimal[w]) < Len(s) => s[Len(Decimal[w]) + 1] = Colon
  PROVE  IF w < UInt64
         THEN Reads(GetDecimal(s), w, IF Len(Decimal[w]) < Len(s) THEN Len(Decimal[w]) + 1 ELSE Len(s))
         ELSE RefusesAfter(GetDecimal(s), s)
<1>. DEFINE m == Len(Decimal[w])
            n == ConsumeDecimalNumber(s)
            after == GetSliceUntil(SubSeq(s, m + 1, Len(s)), Colon).used
<1>1. /\ m \in 0 .. Len(s) /\ m \in Nat /\ Len(s) \in Nat /\ m <= Len(s)
      /\ \A k \in 1 .. m : Decimal[w][k] \in Char0 .. Char0 + 9 /\ s[k] = Decimal[w][k]
  BY DecimalText, StringBytes DEF BeginsWith
<1>2. DigitsFirst(s, m)
  <2>1. \A k \in 1 .. m : s[k] \in Char0 .. Char0 + 9
    BY <1>1
  <2>2. Colon \notin Char0 .. Char0 + 9
    BY CodesApart
  <2>3. m = Len(s) \/ s[m + 1] \notin Char0 .. Char0 + 9
    <3>1. m = Len(s) \/ m < Len(s)
      BY <1>1
    <3>. QED
      BY <2>2, <3>1
  <2>. QED
    BY <2>1, <2>3 DEF DigitsFirst
<1>3. IF w < UInt64 THEN n = [ok |-> TRUE, value |-> w, used |-> m]
      ELSE \E x \in Nat, u \in 0 .. Len(s) : n = [ok |-> FALSE, value |-> x, used |-> u]
  BY <1>2, ConsumeNumber
<1>4. after = IF m < Len(s) THEN 1 ELSE 0
  BY <1>1, AfterNumber
<1>5. GetDecimal(s) = IF n.ok
                      THEN [n EXCEPT !.used = @ + GetSliceUntil(SubSeq(s, n.used + 1, Len(s)), Colon).used]
                      ELSE n
  BY DEF GetDecimal
<1>. HIDE DEF n
<1>6. CASE w < UInt64
  <2>1. n = [ok |-> TRUE, value |-> w, used |-> m] /\ n.ok = TRUE /\ n.used = m
    BY <1>3, <1>6
  <2>2. GetDecimal(s) = [n EXCEPT !.used = @ + after]
    BY <1>5, <2>1
  <2>. HIDE DEF after, m
  <2>3. GetDecimal(s) = [ok |-> TRUE, value |-> w, used |-> m + after]
    BY <2>1, <2>2
  <2>4. m + after = IF m < Len(s) THEN m + 1 ELSE Len(s)
    BY <1>1, <1>4
  <2>5. Reads(GetDecimal(s), w, m + after)
    BY <2>3 DEF Reads
  <2>. QED
    BY <1>6, <2>4, <2>5 DEF m
<1>7. CASE ~(w < UInt64)
  <2>1. PICK x \in Nat, u \in 0 .. Len(s) : n = [ok |-> FALSE, value |-> x, used |-> u]
    BY <1>3, <1>7
  <2>2. n.ok = FALSE /\ n.used = u
    BY <2>1
  <2>3. GetDecimal(s) = n
    BY <1>5, <2>2
  <2>4. RefusesAfter(GetDecimal(s), s)
    BY <2>1, <2>2, <2>3 DEF RefusesAfter
  <2>. QED
    BY <1>7, <2>4
<1>. QED
  BY <1>6, <1>7

\* A number as text, cut anywhere.
LEMMA DecimalReads ==
  ASSUME NEW v \in Nat, NEW s \in Strings, Matches(s, Decimal[v] \o << Colon >>)
  PROVE  DecimalRead(v, Len(Decimal[v]) + 1, s, GetDecimal(s))
<1>. DEFINE D == Decimal[v]
            L == Len(D)
            n == Len(s)
            r == GetDecimal(s)
<1>1. n \in Nat /\ D \in Strings /\ L \in Nat \ {0} /\ (L + 1) - 1 = L
  BY StringBytes, DecimalText
<1>2. \A k \in 1 .. n : /\ k <= L => s[k] = D[k]
                        /\ k = L + 1 => s[k] = Colon
  <2>1. Colon \in Nat /\ Colon < ByteRange
    BY CodeFacts
  <2>2. << Colon >> \in Strings /\ Len(<< Colon >>) = 1 /\ << Colon >>[1] = Colon /\ 1 \in 1 .. 1
    BY <2>1, ByteString
  <2>3. /\ Len(D \o << Colon >>) = L + 1 /\ (D \o << Colon >>)[L + 1] = Colon
        /\ \A k \in 1 .. L : (D \o << Colon >>)[k] = D[k]
    BY <1>1, <2>2, StringConcat
  <2>. HIDE DEF D
  <2>4. \A k \in 1 .. n : k <= L + 1 => s[k] = (D \o << Colon >>)[k]
    BY <2>3 DEF Matches, D
  <2>. TAKE k \in 1 .. n
  <2>5. CASE k <= L
    <3>1. k \in 1 .. L /\ k <= L + 1 /\ k # L + 1
      BY <1>1, <2>5
    <3>. QED
      BY <2>3, <2>4, <3>1
  <2>6. CASE k = L + 1
    <3>1. ~(k <= L) /\ k <= L + 1
      BY <1>1, <2>6
    <3>. QED
      BY <2>3, <2>4, <2>6, <3>1
  <2>. QED
    BY <2>5, <2>6
<1>3. CASE n >= L
  <2>1. BeginsWith(s, v)
    <3>1. L <= n /\ \A k \in 1 .. L : k \in 1 .. n /\ k <= L
      BY <1>1, <1>3
    <3>. QED
      BY <1>2, <3>1 DEF BeginsWith
  <2>2. L < n => s[L + 1] = Colon
    <3>. SUFFICES ASSUME L < n PROVE s[L + 1] = Colon
      OBVIOUS
    <3>1. L + 1 \in 1 .. n
      BY <1>1
    <3>. QED
      BY <1>2, <3>1
  <2>3. IF v < UInt64 THEN Reads(r, v, IF L < n THEN L + 1 ELSE n) ELSE RefusesAfter(r, s)
    BY <2>1, <2>2, GetDecimalOf
  <2>4. (IF L < n THEN L + 1 ELSE n) = (IF n >= L + 1 THEN L + 1 ELSE n) /\ n >= (L + 1) - 1
    BY <1>1, <1>3
  <2>. HIDE DEF r, L, n
  <2>5. CASE v < UInt64
    <3>1. TextRead("decimal", v, L + 1, s, r)
      BY <2>3, <2>4, <2>5 DEF TextRead, n
    <3>. QED
      BY <2>5, <3>1 DEF DecimalRead, r, L
  <2>6. CASE ~(v < UInt64)
    BY <2>3, <2>6 DEF DecimalRead, LargeRead, r, L
  <2>. QED
    BY <2>5, <2>6
<1>4. CASE n < L
  <2>0. ~(n >= (L + 1) - 1) /\ n < (L + 1) - 1
    BY <1>1, <1>4
  <2>. SUFFICES RefusesAfter(r, s) \/ \E g : Reads(r, g, n) /\ IsPrefix(Written("decimal", g), Written("decimal", v))
    BY <2>0 DEF DecimalRead, LargeRead, TextRead
  <2>1. CASE n = 0
    <3>1. DigitsFirst(s, 0)
      BY <2>1 DEF DigitsFirst
    <3>2. ConsumeDecimalNumber(s) = [ok |-> FALSE, value |-> 0, used |-> 0]
      BY <3>1, ConsumeNothing
    <3>3. r = [ok |-> FALSE, value |-> 0, used |-> 0]
      BY <3>2 DEF GetDecimal
    <3>4. RefusesAfter(r, s)
      <4>. HIDE DEF r
      <4>. QED
        BY <1>1, <2>1, <3>3 DEF RefusesAfter
    <3>. QED
      BY <3>4
  <2>2. CASE n # 0
    <3>1. n \in 1 .. L
      BY <1>1, <1>4, <2>2
    <3>2. PICK w \in Nat : Len(Decimal[w]) = n /\ \A k \in 1 .. n : Decimal[w][k] = D[k]
      BY <3>1, DecimalPrefix DEF DecimalCut
    <3>3. BeginsWith(s, w)
      <4>1. n <= n /\ \A k \in 1 .. n : k <= L
        BY <1>1, <1>4
      <4>. QED
        BY <1>2, <3>2, <4>1 DEF BeginsWith
    <3>4. ~(n < n)
      BY <1>1
    <3>5. IF w < UInt64 THEN Reads(r, w, n) ELSE RefusesAfter(r, s)
      BY <3>2, <3>3, <3>4, GetDecimalOf
    <3>6. IsPrefix(Decimal[w], D)
      <4>. DEFINE S == 0 .. ByteRange - 1
                  p == SubSeq(D, 1, n)
      <4>1. D \in Seq(S) /\ n \in 0 .. Len(D)
        BY <1>1, <1>4 DEF Strings
      <4>. HIDE DEF S, D
      <4>2. IsPrefix(p, D) /\ Len(p) = n /\ p \in Seq(S) /\ \A k \in 1 .. n : p[k] = D[k]
        BY <4>1, PrefixFacts
      <4>3. p \in Strings /\ Decimal[w] \in Strings
        BY <4>2, DecimalText DEF S, Strings
      <4>4. Decimal[w] = p
        <5>. HIDE DEF p
        <5>. QED
          BY <3>2, <4>2, <4>3, StringEqual
      <4>. QED
        BY <4>2, <4>4
    <3>7. Written("decimal", w) = Decimal[w] /\ Written("decimal", v) = D
      BY DEF Written
    <3>. QED
      BY <3>5, <3>6, <3>7
  <2>. QED
    BY <2>1, <2>2
<1>. QED
  BY <1>1, <1>3, <1>4

-----------------------------------------------------------------------------
(***************************************************************************)
(* Option strings: escaping doubles the special characters.                *)
(***************************************************************************)

\* FlattenSeq appends the parts one after the other.
LEMMA FlattenSteps ==
  ASSUME NEW n \in Nat, NEW parts \in [1 .. n -> Strings]
  PROVE  \E flat \in [0 .. n -> Strings] :
           /\ flat[0] = << >>
           /\ \A k \in 1 .. n : flat[k] = flat[k - 1] \o parts[k]
           /\ FlattenSeq(parts) = flat[n]
<1>. DEFINE e == << >>
<1>1. e \in Strings
  BY DEF Strings
<1>2. parts \in Seq(Strings) /\ Len(parts) = n
  OBVIOUS
<1>3. ASSUME NEW s \in Strings PROVE << >> \o s = s
  <2>. DEFINE S == 0 .. ByteRange - 1
  <2>1. s \in Seq(S)
    BY DEF Strings
  <2>. HIDE DEF S
  <2>. QED
    BY <2>1
<1>4. CASE n = 0
  <2>1. parts = << >>
    BY <1>4
  <2>2. FlattenSeq(parts) = parts
    BY <1>2, <1>4 DEF FlattenSeq
  <2>. DEFINE flat == [k \in 0 .. n |-> e]
  <2>3. /\ flat \in [0 .. n -> Strings] /\ flat[0] = e /\ flat[n] = e
        /\ \A k \in 1 .. n : flat[k] = flat[k - 1] \o parts[k]
    BY <1>1, <1>4
  <2>. QED
    BY <2>1, <2>2, <2>3
<1>5. CASE n # 0
  <2>. DEFINE Def(f) == [i \in 1 .. n |-> IF i = 1 THEN parts[i] ELSE f[i - 1] \o parts[i]]
              flatten == CHOOSE f : f = Def(f)
              DefL(f) == [i \in 1 .. Len(parts) |-> IF i = 1 THEN parts[i] ELSE f[i - 1] \o parts[i]]
              flattenL == CHOOSE f : f = DefL(f)
  <2>1. FlattenSeq(parts) = flattenL[Len(parts)]
    BY Zenon, <1>2, <1>5 DEF FlattenSeq
  <2>2. FlattenSeq(parts) = flatten[n]
    BY Zenon, <1>2, <2>1
  <2>. HIDE DEF flattenL
  <2>3. \A k \in 1 .. n : /\ k \in 0 .. n /\ k - 1 \in 0 .. n /\ k # 0 /\ parts[k] \in Strings
                          /\ (k # 1 => k - 1 \in 1 .. n) /\ (k = 1 => k - 1 = 0)
    OBVIOUS
  <2>4. \E f : f = Def(f)
    <3>. DEFINE G == [k \in 1 .. n |-> [v \in Strings |-> v \o parts[k]]]
    <3>1. StepsIn(n, Strings, G) /\ \A k \in 1 .. n : \A v \in Strings : G[k][v] = v \o parts[k]
      <4>1. \A k \in 1 .. n : \A v \in Strings : v \o parts[k] \in Strings
        BY <2>3, StringConcat
      <4>. QED
        BY <4>1 DEF StepsIn
    <3>. HIDE DEF G, e
    <3>2. PICK g \in [0 .. n -> Strings] : g[0] = e /\ \A k \in 1 .. n : g[k] = G[k][g[k - 1]]
      <4>. DEFINE V == Strings
                  v0 == e
      <4>1. StepsIn(n, V, G) /\ v0 \in V
        BY <1>1, <3>1
      <4>. HIDE DEF V, v0
      <4>2. \E f \in [0 .. n -> V] : f[0] = v0 /\ \A k \in 1 .. n : f[k] = G[k][f[k - 1]]
        BY <4>1, LinearRecursion
      <4>. QED
        BY <4>2 DEF V, v0
    <3>3. \A k \in 1 .. n : g[k] = g[k - 1] \o parts[k]
      BY <2>3, <3>1, <3>2
    <3>. DEFINE f == [i \in 1 .. n |-> g[i]]
    <3>4. \A i \in 1 .. n : g[i] = IF i = 1 THEN parts[i] ELSE f[i - 1] \o parts[i]
      <4>. TAKE i \in 1 .. n
      <4>1. CASE i = 1
        <5>1. g[i - 1] = << >>
          BY <2>3, <3>2, <4>1 DEF e
        <5>. QED
          BY <1>3, <2>3, <3>3, <4>1, <5>1
      <4>2. CASE i # 1
        <5>1. f[i - 1] = g[i - 1]
          BY <2>3, <4>2
        <5>. QED
          BY <3>3, <4>2, <5>1
      <4>. QED
        BY <4>1, <4>2
    <3>5. f = Def(f)
      BY <3>4
    <3>. QED
      BY <3>5
  <2>5. flatten = Def(flatten)
    <3>. HIDE DEF Def
    <3>. QED
      BY <2>4
  <2>. HIDE DEF flatten
  <2>6. \A k \in 1 .. n : flatten[k] = IF k = 1 THEN parts[k] ELSE flatten[k - 1] \o parts[k]
    <3>1. \A k \in 1 .. n : flatten[k] = Def(flatten)[k]
      BY <2>5
    <3>. QED
      BY <3>1
  <2>. DEFINE flat == [k \in 0 .. n |-> IF k = 0 THEN e ELSE flatten[k]]
  <2>7. flat[0] = e /\ \A k \in 1 .. n : flat[k] = flatten[k]
    BY <2>3
  <2>. DEFINE T == {k \in 0 .. n : flat[k] \in Strings}
  <2>8. 0 \in T
    BY <1>1, <2>7
  <2>9. ASSUME NEW k \in 1 .. n, k - 1 \in T PROVE k \in T
    <3>. HIDE DEF flat
    <3>1. CASE k = 1
      BY <2>3, <2>6, <2>7, <3>1
    <3>2. CASE k # 1
      <4>1. flatten[k - 1] \in Strings
        BY <2>3, <2>7, <2>9, <3>2
      <4>. QED
        BY <2>3, <2>6, <2>7, <3>2, <4>1, StringConcat
    <3>. QED
      BY <3>1, <3>2
  <2>10. 0 .. n \subseteq T
    <3>. HIDE DEF T
    <3>. QED
      BY <2>8, <2>9, BoundedInduction
  <2>11. flat \in [0 .. n -> Strings]
    <3>1. \A k \in 0 .. n : flat[k] \in Strings
      BY <2>10
    <3>2. flat = [k \in 0 .. n |-> flat[k]]
      OBVIOUS
    <3>. HIDE DEF flat
    <3>. QED
      BY <3>1, <3>2
  <2>12. \A k \in 1 .. n : flat[k] = flat[k - 1] \o parts[k]
    <3>. HIDE DEF flat
    <3>. TAKE k \in 1 .. n
    <3>1. CASE k = 1
      <4>1. flat[k - 1] = << >>
        BY <2>3, <2>7, <3>1
      <4>. QED
        BY <1>3, <2>3, <2>6, <2>7, <3>1, <4>1
    <3>2. CASE k # 1
      BY <2>3, <2>6, <2>7, <3>2
    <3>. QED
      BY <3>1, <3>2
  <2>13. flat[n] = flatten[n]
    BY <1>5, <2>7
  <2>. HIDE DEF flat
  <2>. QED
    BY <2>2, <2>7, <2>11, <2>12, <2>13
<1>. QED
  BY <1>4, <1>5

\* flat holds the first parts appended, for each number of them.
Flattens(n, parts, flat) ==
  /\ parts \in [1 .. n -> Strings]
  /\ flat \in [0 .. n -> Strings]
  /\ flat[0] = << >>
  /\ \A k \in 1 .. n : flat[k] = flat[k - 1] \o parts[k]

Begins(s, t) == Len(s) <= Len(t) /\ \A j \in 1 .. Len(s) : t[j] = s[j]

\* c is a followed by b.
Joined(a, b, c) ==
  /\ a \in Strings /\ b \in Strings /\ c \in Strings
  /\ Len(a) \in Nat /\ Len(b) \in Nat /\ Len(c) = Len(a) + Len(b)
  /\ \A j \in 1 .. Len(a) : c[j] = a[j]
  /\ \A j \in 1 .. Len(b) : c[Len(a) + j] = b[j]

\* Where the bytes of each part lie.
LEMMA FlattenGrows ==
  ASSUME NEW n \in Nat, NEW parts, NEW flat, Flattens(n, parts, flat), NEW k \in 1 .. n
  PROVE  Joined(flat[k - 1], parts[k], flat[k])
<1>1. k \in 0 .. n /\ k - 1 \in 0 .. n
  OBVIOUS
<1>2. flat[k] = flat[k - 1] \o parts[k] /\ flat[k - 1] \in Strings /\ parts[k] \in Strings
  BY <1>1 DEF Flattens
<1>. DEFINE a == flat[k - 1]
            b == parts[k]
            c == flat[k]
<1>3. c = a \o b /\ a \in Strings /\ b \in Strings
  BY <1>2
<1>. HIDE DEF a, b, c
<1>4. Joined(a, b, c)
  BY <1>3, StringConcat, StringBytes DEF Joined
<1>. QED
  BY <1>4 DEF a, b, c

\* Each is the beginning of the longer ones.
LEMMA FlattenBegins ==
  ASSUME NEW n \in Nat, NEW parts, NEW flat, Flattens(n, parts, flat)
  PROVE  \A m \in 0 .. n : \A k \in 0 .. m : Begins(flat[k], flat[m])
<1>. DEFINE T == {m \in 0 .. n : \A k \in 0 .. m : Begins(flat[k], flat[m])}
<1>1. 0 \in T
  <2>1. flat[0] \in Strings
    BY DEF Flattens
  <2>2. Begins(flat[0], flat[0])
    BY <2>1, StringBytes DEF Begins
  <2>3. \A k \in 0 .. 0 : k = 0
    OBVIOUS
  <2>. QED
    BY <2>2, <2>3
<1>2. ASSUME NEW m \in 1 .. n, m - 1 \in T PROVE m \in T
  <2>. SUFFICES ASSUME NEW k \in 0 .. m PROVE Begins(flat[k], flat[m])
    BY <1>2
  <2>. DEFINE a == flat[m - 1]
              c == flat[m]
              b == parts[m]
  <2>1. Joined(a, b, c)
    BY FlattenGrows
  <2>2. \A l \in 0 .. m - 1 : Begins(flat[l], a)
    BY <1>2
  <2>. HIDE DEF a, b, c
  <2>3. CASE k = m
    <3>1. Len(c) \in Nat
      BY <2>1 DEF Joined
    <3>. QED
      BY <2>3, <3>1 DEF Begins, c
  <2>4. CASE k # m
    <3>. DEFINE d == flat[k]
    <3>1. k \in 0 .. m - 1 /\ k \in 0 .. n
      BY <2>4
    <3>2. Begins(d, a)
      BY <2>2, <3>1
    <3>3. Len(d) \in Nat
      <4>1. flat[k] \in Strings
        BY <3>1 DEF Flattens
      <4>. QED
        BY <4>1, StringBytes
    <3>. HIDE DEF d
    <3>4. Begins(d, c)
      BY <2>1, <3>2, <3>3 DEF Begins, Joined
    <3>. QED
      BY <3>4 DEF c, d
  <2>. QED
    BY <2>3, <2>4
<1>. HIDE DEF T
<1>3. 0 .. n \subseteq T
  BY <1>1, <1>2, BoundedInduction
<1>. QED
  BY <1>3 DEF T

\* A character that is in no part is not in the whole.
Lacks(s, c) == \A j \in 1 .. Len(s) : s[j] # c
AllLack(n, parts, c) == \A k \in 1 .. n : Lacks(parts[k], c)

\* A byte that no part holds is not in their concatenation.
LEMMA FlattenWithout ==
  ASSUME NEW n \in Nat, NEW parts, NEW flat, Flattens(n, parts, flat), NEW c, AllLack(n, parts, c)
  PROVE  Lacks(flat[n], c)
<1>. DEFINE T == {m \in 0 .. n : \A j \in 1 .. Len(flat[m]) : flat[m][j] # c}
<1>1. 0 \in T
  BY DEF Flattens
<1>2. ASSUME NEW m \in 1 .. n, m - 1 \in T PROVE m \in T
  <2>. DEFINE a == flat[m - 1]
              c0 == flat[m]
              b == parts[m]
  <2>1. Joined(a, b, c0)
    BY FlattenGrows
  <2>2. (\A j \in 1 .. Len(a) : a[j] # c) /\ \A j \in 1 .. Len(b) : b[j] # c
    BY <1>2 DEF AllLack, Lacks
  <2>. HIDE DEF a, b, c0
  <2>3. ASSUME NEW j \in 1 .. Len(c0) PROVE c0[j] # c
    <3>0. Len(a) \in Nat /\ Len(b) \in Nat /\ Len(c0) = Len(a) + Len(b)
      BY <2>1 DEF Joined
    <3>1. CASE j <= Len(a)
      <4>1. j \in 1 .. Len(a)
        BY <3>0, <3>1
      <4>. QED
        BY <2>1, <2>2, <4>1 DEF Joined
    <3>2. CASE ~(j <= Len(a))
      <4>. DEFINE i == j - Len(a)
      <4>1. i \in 1 .. Len(b) /\ j = Len(a) + i
        BY <2>3, <3>0, <3>2
      <4>. HIDE DEF i
      <4>. QED
        BY <2>1, <2>2, <4>1 DEF Joined
    <3>. QED
      BY <3>1, <3>2
  <2>. QED
    BY <1>2, <2>3 DEF c0
<1>. HIDE DEF T
<1>3. 0 .. n \subseteq T
  BY <1>1, <1>2, BoundedInduction
<1>4. n \in 0 .. n
  OBVIOUS
<1>. QED
  BY <1>3, <1>4 DEF T, Lacks

\* What is written of one character.
OptionPart(c) == IF IsSpecialChar(c) THEN << Backslash, EscapeChar(c) >> ELSE << c >>

\* The one or two bytes that EscapeOptionString writes for a character.
LEMMA OptionPartIs ==
  ASSUME NEW c \in Nat, c < ByteRange
  PROVE  /\ OptionPart(c) \in Strings
         /\ \A j \in 1 .. Len(OptionPart(c)) : OptionPart(c)[j] # LF
         /\ IF IsSpecialChar(c)
            THEN /\ Len(OptionPart(c)) = 2 /\ OptionPart(c)[1] = Backslash
                 /\ UnescapeChar(OptionPart(c)[2]) = c
            ELSE Len(OptionPart(c)) = 1 /\ OptionPart(c)[1] = c /\ c # Backslash
<1>. DEFINE S == 0 .. ByteRange - 1
            d == EscapeChar(c)
<1>1. /\ Backslash \in Nat /\ Backslash < ByteRange /\ Charn \in Nat /\ Charn < ByteRange
      /\ Charr \in Nat /\ Charr < ByteRange /\ ByteRange \in Nat
  BY CodeFacts, ByteFacts
<1>2. /\ LF \notin {Charn, Charr, Backslash, Hash, Colon} /\ Charn # Charr
      /\ \A x \in {Backslash, Hash, Colon} : x # Charn /\ x # Charr
  BY TextAssumption
<1>3. CASE IsSpecialChar(c)
  <2>1. c \in {Backslash, Hash, Colon, CR, LF}
    BY <1>3 DEF IsSpecialChar
  <2>2. d # LF /\ UnescapeChar(d) = c
    BY Zenon, <1>2, <2>1 DEF EscapeChar, UnescapeChar
  <2>3. d \in Nat /\ d < ByteRange
    BY <1>1 DEF EscapeChar
  <2>4. Backslash \in S /\ d \in S
    BY <1>1, <2>3
  <2>. HIDE DEF d, S
  <2>5. OptionPart(c) = << Backslash, d >>
    BY <1>3 DEF OptionPart, d
  <2>6. OptionPart(c) \in Seq(S) /\ Len(OptionPart(c)) = 2 /\ OptionPart(c)[1] = Backslash /\ OptionPart(c)[2] = d
    BY <2>4, <2>5
  <2>7. \A j \in 1 .. 2 : j = 1 \/ j = 2
    OBVIOUS
  <2>. QED
    BY <1>2, <1>3, <2>2, <2>6, <2>7 DEF Strings, S
<1>4. CASE ~IsSpecialChar(c)
  <2>1. c # Backslash /\ c # LF
    BY <1>4 DEF IsSpecialChar
  <2>2. OptionPart(c) = << c >>
    BY <1>4 DEF OptionPart
  <2>3. << c >> \in Strings /\ Len(<< c >>) = 1 /\ << c >>[1] = c
    BY ByteString
  <2>4. \A j \in 1 .. 1 : j = 1
    OBVIOUS
  <2>. QED
    BY <1>4, <2>1, <2>2, <2>3, <2>4
<1>. QED
  BY <1>3, <1>4

\* EscapeOptionString writes one part for each character.
OptionParts(v) == [k \in 1 .. Len(v) |-> OptionPart(v[k])]

\* EscapeOptionString concatenates the parts of the characters, in order.
LEMMA EscapeIs ==
  ASSUME NEW v \in Strings
  PROVE  \E flat : Flattens(Len(v), OptionParts(v), flat) /\ EscapeOptionString(v) = flat[Len(v)]
<1>. DEFINE n == Len(v)
            parts == OptionParts(v)
<1>1. n \in Nat /\ \A k \in 1 .. n : v[k] \in Nat /\ v[k] < ByteRange
  BY StringBytes
<1>2. parts \in [1 .. n -> Strings]
  <2>1. \A k \in 1 .. n : OptionPart(v[k]) \in Strings
    BY <1>1, OptionPartIs
  <2>. QED
    BY <2>1 DEF OptionParts
<1>3. EscapeOptionString(v) = FlattenSeq(parts)
  BY DEF EscapeOptionString, OptionParts, OptionPart
<1>. HIDE DEF parts, n
<1>4. PICK flat \in [0 .. n -> Strings] :
        /\ flat[0] = << >>
        /\ \A k \in 1 .. n : flat[k] = flat[k - 1] \o parts[k]
        /\ FlattenSeq(parts) = flat[n]
  BY <1>1, <1>2, FlattenSteps
<1>5. Flattens(n, parts, flat)
  BY <1>2, <1>4 DEF Flattens
<1>. QED
  BY <1>3, <1>4, <1>5 DEF n, parts

\* UnescapeOptionString's state after each character, and one step of it.
UnescapeStates == [escaped : BOOLEAN, output : Strings]

UnescapeStep(s, k, before) ==
  IF before.escaped
  THEN [escaped |-> FALSE, output |-> Append(before.output, UnescapeChar(s[k]))]
  ELSE IF s[k] = Backslash THEN [before EXCEPT !.escaped = TRUE]
  ELSE [before EXCEPT !.output = Append(@, s[k])]

\* A string with one more byte.
LEMMA StringAppend ==
  ASSUME NEW s \in Strings, NEW c \in Nat, c < ByteRange
  PROVE  /\ Append(s, c) \in Strings /\ Len(Append(s, c)) = Len(s) + 1
         /\ \A k \in 1 .. Len(s) : Append(s, c)[k] = s[k]
         /\ Append(s, c)[Len(s) + 1] = c
<1>. DEFINE S == 0 .. ByteRange - 1
<1>1. s \in Seq(S) /\ c \in S
  BY ByteFacts DEF Strings
<1>. HIDE DEF S
<1>2. /\ Append(s, c) \in Seq(S) /\ Len(Append(s, c)) = Len(s) + 1
      /\ \A k \in 1 .. Len(s) : Append(s, c)[k] = s[k]
      /\ Append(s, c)[Len(s) + 1] = c
  BY <1>1
<1>. QED
  BY <1>2 DEF S, Strings

\* UnescapeOptionString takes one step for each character.
LEMMA UnescapeSteps ==
  ASSUME NEW s \in Strings
  PROVE  \E take \in [0 .. Len(s) -> UnescapeStates] :
           /\ take[0] = [escaped |-> FALSE, output |-> << >>]
           /\ \A k \in 1 .. Len(s) : take[k] = UnescapeStep(s, k, take[k - 1])
           /\ UnescapeOptionString(s) = take[Len(s)].output
<1>. DEFINE n == Len(s)
            V == UnescapeStates
            v0 == [escaped |-> FALSE, output |-> << >>]
            Def(f) == [k \in 0 .. n |-> IF k = 0 THEN v0 ELSE UnescapeStep(s, k, f[k - 1])]
            take == CHOOSE f : f = Def(f)
            DefD(f) == [k \in 0 .. Len(s) |->
                          IF k = 0 THEN [escaped |-> FALSE, output |-> << >>]
                          ELSE LET before == f[k - 1]
                               IN  IF before.escaped
                                   THEN [escaped |-> FALSE, output |-> Append(before.output, UnescapeChar(s[k]))]
                                   ELSE IF s[k] = Backslash THEN [before EXCEPT !.escaped = TRUE]
                                   ELSE [before EXCEPT !.output = Append(@, s[k])]]
            takeD == CHOOSE f : f = DefD(f)
<1>1. n \in Nat /\ \A k \in 1 .. n : s[k] \in Nat /\ s[k] < ByteRange
  BY StringBytes
<1>2. UnescapeOptionString(s) = takeD[Len(s)].output
  BY Zenon DEF UnescapeOptionString
<1>3. takeD = take
  <2>1. \A f : DefD(f) = Def(f)
    <3>. TAKE f
    <3>. QED
      BY Zenon DEF UnescapeStep
  <2>. HIDE DEF DefD, Def
  <2>. QED
    BY Zenon, <2>1
<1>. HIDE DEF takeD, DefD
<1>4. UnescapeOptionString(s) = take[n].output
  BY Zenon, <1>2, <1>3
<1>5. ASSUME NEW k \in 1 .. n, NEW v \in V PROVE UnescapeStep(s, k, v) \in V
  <2>1. v.output \in Strings
    BY DEF UnescapeStates
  <2>2. UnescapeChar(s[k]) \in Nat /\ UnescapeChar(s[k]) < ByteRange
    BY <1>1, CodeFacts DEF UnescapeChar
  <2>3. Append(v.output, UnescapeChar(s[k])) \in Strings /\ Append(v.output, s[k]) \in Strings
    BY <1>1, <2>1, <2>2, StringAppend
  <2>4. [v EXCEPT !.escaped = TRUE] \in V
    BY DEF UnescapeStates
  <2>5. [v EXCEPT !.output = Append(@, s[k])] \in V
    BY <2>3 DEF UnescapeStates
  <2>6. [escaped |-> FALSE, output |-> Append(v.output, UnescapeChar(s[k]))] \in V
    BY <2>3 DEF UnescapeStates
  <2>. QED
    BY <2>4, <2>5, <2>6 DEF UnescapeStep
<1>6. v0 \in V
  BY DEF UnescapeStates, Strings
<1>. HIDE DEF n
<1>7. \A k \in 1 .. n : k \in 0 .. n /\ k - 1 \in 0 .. n /\ k # 0
  BY <1>1
<1>8. \E f \in [0 .. n -> V] : f = Def(f)
  <2>. DEFINE G == [k \in 1 .. n |-> [v \in V |-> UnescapeStep(s, k, v)]]
  <2>1. StepsIn(n, V, G) /\ \A k \in 1 .. n : \A v \in V : G[k][v] = UnescapeStep(s, k, v)
    <3>. HIDE DEF V
    <3>. QED
      BY <1>5 DEF StepsIn
  <2>. HIDE DEF G, V, v0
  <2>2. PICK f \in [0 .. n -> V] : f[0] = v0 /\ \A k \in 1 .. n : f[k] = G[k][f[k - 1]]
    <3>1. n \in Nat /\ v0 \in V /\ StepsIn(n, V, G)
      BY <1>1, <1>6, <2>1
    <3>. QED
      BY <3>1, LinearRecursion
  <2>3. \A k \in 0 .. n : f[k] = IF k = 0 THEN v0 ELSE UnescapeStep(s, k, f[k - 1])
    <3>. TAKE k \in 0 .. n
    <3>1. CASE k = 0
      BY <2>2, <3>1
    <3>2. CASE k # 0
      <4>1. k \in 1 .. n
        BY <1>1, <3>2
      <4>2. f[k - 1] \in V
        BY <1>7, <4>1
      <4>. QED
        BY <2>1, <2>2, <3>2, <4>1, <4>2
    <3>. QED
      BY <3>1, <3>2
  <2>4. f = [k \in 0 .. n |-> f[k]]
    OBVIOUS
  <2>5. f = Def(f)
    BY <2>3, <2>4
  <2>. QED
    BY <2>5
<1>9. take = Def(take)
  <2>. HIDE DEF Def, V
  <2>. QED
    BY <1>8
<1>. HIDE DEF take
<1>10. take[0] = v0 /\ \A k \in 1 .. n : take[k] = UnescapeStep(s, k, take[k - 1])
  <2>1. \A k \in 0 .. n : take[k] = Def(take)[k]
    BY <1>9
  <2>2. 0 \in 0 .. n
    BY <1>1
  <2>. HIDE DEF v0
  <2>. QED
    BY <1>7, <2>1, <2>2
<1>11. take \in [0 .. n -> V]
  <2>. DEFINE T == {k \in 0 .. n : take[k] \in V}
  <2>1. 0 \in T
    <3>. HIDE DEF V, v0
    <3>. QED
      BY <1>1, <1>6, <1>10
  <2>2. ASSUME NEW k \in 1 .. n, k - 1 \in T PROVE k \in T
    <3>. HIDE DEF V
    <3>. QED
      BY <1>5, <1>7, <1>10, <2>2
  <2>. HIDE DEF T
  <2>3. 0 .. n \subseteq T
    BY <1>1, <2>1, <2>2, BoundedInduction
  <2>4. take = [k \in 0 .. n |-> take[k]]
    BY <1>9
  <2>. HIDE DEF V
  <2>. QED
    BY <2>3, <2>4 DEF T
<1>. QED
  BY <1>4, <1>10, <1>11 DEF n

\* One character: taken as it is, or a backslash, or what a backslash is before.
LEMMA UnescapeOne ==
  ASSUME NEW s, NEW k, NEW o \in Strings
  PROVE  /\ UnescapeStep(s, k, [escaped |-> TRUE, output |-> o]) =
              [escaped |-> FALSE, output |-> Append(o, UnescapeChar(s[k]))]
         /\ s[k] = Backslash => UnescapeStep(s, k, [escaped |-> FALSE, output |-> o]) =
              [escaped |-> TRUE, output |-> o]
         /\ s[k] # Backslash => UnescapeStep(s, k, [escaped |-> FALSE, output |-> o]) =
              [escaped |-> FALSE, output |-> Append(o, s[k])]
<1>. DEFINE t == [escaped |-> TRUE, output |-> o]
            f == [escaped |-> FALSE, output |-> o]
<1>1. UnescapeStep(s, k, t) = [escaped |-> FALSE, output |-> Append(o, UnescapeChar(s[k]))]
  BY DEF UnescapeStep
<1>2. ASSUME s[k] = Backslash PROVE UnescapeStep(s, k, f) = t
  <2>1. UnescapeStep(s, k, f) = [f EXCEPT !.escaped = TRUE]
    BY <1>2 DEF UnescapeStep
  <2>. QED
    BY <2>1
<1>3. ASSUME s[k] # Backslash PROVE UnescapeStep(s, k, f) = [escaped |-> FALSE, output |-> Append(o, s[k])]
  <2>1. UnescapeStep(s, k, f) = [f EXCEPT !.output = Append(@, s[k])]
    BY <1>3 DEF UnescapeStep
  <2>. QED
    BY <2>1
<1>. QED
  BY <1>1, <1>2, <1>3

\* The first bytes of a string with one more.
LEMMA PrefixAppend ==
  ASSUME NEW v \in Strings, NEW i \in 1 .. Len(v)
  PROVE  SubSeq(v, 1, i - 1) \in Strings /\ Append(SubSeq(v, 1, i - 1), v[i]) = SubSeq(v, 1, i)
<1>. DEFINE a == SubSeq(v, 1, i - 1)
            c == SubSeq(v, 1, i)
            S == 0 .. ByteRange - 1
            p == i - 1
<1>1. Len(v) \in Nat /\ i \in Nat /\ p \in 0 .. Len(v) /\ i \in 0 .. Len(v) /\ v \in Seq(S)
  BY StringBytes DEF Strings
<1>. HIDE DEF S, p
<1>2. a \in Strings /\ Len(a) = i - 1 /\ \A k \in 1 .. i - 1 : a[k] = v[k]
  <2>. DEFINE b == SubSeq(v, 1, p)
  <2>1. b \in Seq(S) /\ Len(b) = p /\ \A k \in 1 .. p : b[k] = v[k]
    BY <1>1, PrefixFacts
  <2>. QED
    BY <2>1 DEF p, S, Strings
<1>3. c \in Strings /\ Len(c) = i /\ \A k \in 1 .. i : c[k] = v[k]
  <2>1. c \in Seq(S) /\ Len(c) = i /\ \A k \in 1 .. i : c[k] = v[k]
    BY <1>1, PrefixFacts
  <2>. QED
    BY <2>1 DEF S, Strings
<1>4. v[i] \in Nat /\ v[i] < ByteRange
  BY StringBytes
<1>. DEFINE d == Append(a, v[i])
<1>. HIDE DEF a, c
<1>5. /\ d \in Strings /\ Len(d) = Len(a) + 1
      /\ \A k \in 1 .. Len(a) : d[k] = a[k]
      /\ d[Len(a) + 1] = v[i]
  BY <1>2, <1>4, StringAppend
<1>. HIDE DEF d
<1>6. Len(d) = Len(c)
  BY <1>1, <1>2, <1>3, <1>5
<1>7. \A k \in 1 .. Len(d) : d[k] = c[k]
  <2>. TAKE k \in 1 .. Len(d)
  <2>1. CASE k = i
    <3>1. k = Len(a) + 1 /\ k \in 1 .. i
      BY <1>1, <1>2, <2>1
    <3>. QED
      BY <1>3, <1>5, <2>1, <3>1
  <2>2. CASE k # i
    <3>1. k \in 1 .. i - 1 /\ k \in 1 .. i /\ k \in 1 .. Len(a)
      BY <1>1, <1>2, <1>3, <1>6, <2>2
    <3>. QED
      BY <1>2, <1>3, <1>5, <3>1
  <2>. QED
    BY <2>1, <2>2
<1>8. d = c
  BY <1>3, <1>5, <1>6, <1>7, StringEqual
<1>. QED
  BY <1>2, <1>8 DEF a, c, d

\* The states of UnescapeOptionString over the characters of s.
Unescapes(s, take) ==
  /\ take \in [0 .. Len(s) -> UnescapeStates]
  /\ take[0] = [escaped |-> FALSE, output |-> << >>]
  /\ \A k \in 1 .. Len(s) : take[k] = UnescapeStep(s, k, take[k - 1])

\* After t characters the output is o, and a backslash is not, or is, the last.
Plain(take, t, o) == take[t] = [escaped |-> FALSE, output |-> o]
Behind(take, t, o) == take[t] = [escaped |-> TRUE, output |-> o]

\* What it does between characters that are not escaped.
LEMMA UnescapeAt ==
  ASSUME NEW s \in Strings, NEW take, Unescapes(s, take), NEW t \in Nat, t + 1 <= Len(s),
         NEW o \in Strings, Plain(take, t, o)
  PROVE  /\ s[t + 1] # Backslash => Plain(take, t + 1, Append(o, s[t + 1]))
         /\ s[t + 1] = Backslash =>
              /\ Behind(take, t + 1, o)
              /\ t + 2 <= Len(s) => Plain(take, t + 2, Append(o, UnescapeChar(s[t + 2])))
<1>. DEFINE x == t + 1
            y == t + 2
<1>1. Len(s) \in Nat /\ x \in 1 .. Len(s) /\ x - 1 = t
  BY StringBytes
<1>2. take[x] = UnescapeStep(s, x, [escaped |-> FALSE, output |-> o])
  BY <1>1 DEF Unescapes, Plain
<1>3. y <= Len(s) => take[y] = UnescapeStep(s, y, take[x])
  <2>. SUFFICES ASSUME y <= Len(s) PROVE take[y] = UnescapeStep(s, y, take[x])
    OBVIOUS
  <2>1. y \in 1 .. Len(s) /\ y - 1 = x
    BY <1>1
  <2>. HIDE DEF x, y
  <2>2. take[y] = UnescapeStep(s, y, take[y - 1])
    BY <2>1 DEF Unescapes
  <2>. QED
    BY <2>1, <2>2
<1>. HIDE DEF x, y
<1>4. s[x] # Backslash => take[x] = [escaped |-> FALSE, output |-> Append(o, s[x])]
  BY <1>2, UnescapeOne
<1>5. s[x] = Backslash => take[x] = [escaped |-> TRUE, output |-> o]
  BY <1>2, UnescapeOne
<1>6. s[x] = Backslash /\ y <= Len(s) =>
        take[y] = [escaped |-> FALSE, output |-> Append(o, UnescapeChar(s[y]))]
  <2>. SUFFICES ASSUME s[x] = Backslash, y <= Len(s)
                PROVE  take[y] = [escaped |-> FALSE, output |-> Append(o, UnescapeChar(s[y]))]
    OBVIOUS
  <2>1. take[y] = UnescapeStep(s, y, [escaped |-> TRUE, output |-> o])
    BY <1>3, <1>5
  <2>2. UnescapeStep(s, y, [escaped |-> TRUE, output |-> o]) =
          [escaped |-> FALSE, output |-> Append(o, UnescapeChar(s[y]))]
    BY UnescapeOne
  <2>. QED
    BY <2>1, <2>2
<1>. QED
  BY <1>4, <1>5, <1>6 DEF x, y, Plain, Behind

\* Each special character takes one byte more.
LEMMA OptionLength ==
  ASSUME NEW v \in Strings, NEW flat, Flattens(Len(v), OptionParts(v), flat)
  PROVE  /\ Len(flat[Len(v)]) = Len(v) + Cardinality({k \in 1 .. Len(v) : IsSpecialChar(v[k])})
         /\ Cardinality({k \in 1 .. Len(v) : IsSpecialChar(v[k])}) \in Nat
<1>. DEFINE n == Len(v)
            C(m) == {k \in 1 .. m : IsSpecialChar(v[k])}
            T == {m \in 0 .. n : /\ IsFiniteSet(C(m)) /\ Cardinality(C(m)) \in Nat
                                 /\ Len(flat[m]) = m + Cardinality(C(m))}
<1>1. n \in Nat
  BY StringBytes
<1>2. 0 \in T
  <2>1. C(0) = {} /\ Cardinality({}) = 0 /\ IsFiniteSet({})
    BY FS_EmptySet
  <2>2. flat[0] = << >> /\ Len(flat[0]) = 0
    BY DEF Flattens
  <2>. QED
    BY <1>1, <2>1, <2>2
<1>3. ASSUME NEW m \in 1 .. n, m - 1 \in T PROVE m \in T
  <2>. DEFINE p == m - 1
              D == C(p)
              E == C(m)
              a == flat[p]
              b == flat[m]
  <2>1. Joined(flat[m - 1], OptionParts(v)[m], flat[m])
    BY <1>1, FlattenGrows
  <2>2. OptionParts(v)[m] = OptionPart(v[m]) /\ v[m] \in Nat /\ v[m] < ByteRange
    BY StringBytes DEF OptionParts
  <2>3. Len(OptionPart(v[m])) = IF IsSpecialChar(v[m]) THEN 2 ELSE 1
    BY <2>2, OptionPartIs
  <2>4. Len(a) \in Nat /\ Len(b) = Len(a) + IF IsSpecialChar(v[m]) THEN 2 ELSE 1
    BY <2>1, <2>2, <2>3 DEF Joined
  <2>5. IsFiniteSet(D) /\ Cardinality(D) \in Nat /\ Len(a) = p + Cardinality(D)
    BY <1>3
  <2>6. m \notin D /\ E = IF IsSpecialChar(v[m]) THEN D \cup {m} ELSE D
    BY <1>1
  <2>7. IsFiniteSet(D \cup {m}) /\ Cardinality(D \cup {m}) = Cardinality(D) + 1
    <3>. HIDE DEF D
    <3>. QED
      BY <2>5, <2>6, FS_AddElement
  <2>. HIDE DEF D, E, a, b
  <2>8. IsFiniteSet(E) /\ Cardinality(E) \in Nat /\ Len(b) = m + Cardinality(E)
    <3>1. CASE IsSpecialChar(v[m])
      BY SMTT(60), <1>1, <2>4, <2>5, <2>6, <2>7, <3>1
    <3>2. CASE ~IsSpecialChar(v[m])
      BY <1>1, <2>4, <2>5, <2>6, <3>2
    <3>. QED
      BY <3>1, <3>2
  <2>. QED
    BY <2>8 DEF E, b
<1>. HIDE DEF T
<1>4. 0 .. n \subseteq T
  <2>. HIDE DEF n
  <2>. QED
    BY <1>1, <1>2, <1>3, BoundedInduction
<1>5. n \in T
  BY <1>1, <1>4
<1>. QED
  BY <1>5 DEF T

\* Of a string cut anywhere, the characters that were escaped whole are found.
LEMMA UnescapeBegins ==
  ASSUME NEW v \in Strings, NEW flat, Flattens(Len(v), OptionParts(v), flat),
         NEW s \in Strings, Begins(s, flat[Len(v)]), NEW take, Unescapes(s, take)
  PROVE  \A i \in 0 .. Len(v) :
           /\ Len(flat[i]) <= Len(s) => Plain(take, Len(flat[i]), SubSeq(v, 1, i))
           /\ \A t \in 0 .. Len(s) : t <= Len(flat[i]) => \E j \in 0 .. Len(v) : take[t].output = SubSeq(v, 1, j)
<1>. DEFINE n == Len(v)
            Q(i) == /\ Len(flat[i]) <= Len(s) =>
                         Plain(take, Len(flat[i]), SubSeq(v, 1, i))
                    /\ \A t \in 0 .. Len(s) : t <= Len(flat[i]) =>
                         \E j \in 0 .. n : take[t].output = SubSeq(v, 1, j)
            T == {i \in 0 .. n : Q(i)}
<1>1. n \in Nat /\ Len(s) \in Nat
  BY StringBytes
<1>2. 0 \in T
  <2>1. Len(flat[0]) = 0
    BY DEF Flattens
  <2>2. SubSeq(v, 1, 0) = << >>
    <3>. DEFINE S == 0 .. ByteRange - 1
    <3>1. v \in Seq(S)
      BY DEF Strings
    <3>. HIDE DEF S
    <3>. QED
      BY <3>1
  <2>3. Plain(take, 0, SubSeq(v, 1, 0))
    BY <2>2 DEF Unescapes, Plain
  <2>4. \A t \in 0 .. Len(s) : t <= 0 => t = 0
    BY <1>1
  <2>5. take[0].output = SubSeq(v, 1, 0) /\ 0 \in 0 .. n
    BY <1>1, <2>3 DEF Plain
  <2>. QED
    BY <2>1, <2>3, <2>4, <2>5
<1>3. ASSUME NEW i \in 1 .. n, i - 1 \in T PROVE i \in T
  <2>. DEFINE a == flat[i - 1]
              b == OptionPart(v[i])
              c == flat[i]
              la == Len(a)
              o == SubSeq(v, 1, i - 1)
              oo == SubSeq(v, 1, i)
  <2>1. v[i] \in Nat /\ v[i] < ByteRange /\ i \in 0 .. n /\ i - 1 \in 0 .. n
    BY <1>1, StringBytes
  <2>2. Joined(a, b, c)
    <3>1. Joined(flat[i - 1], OptionParts(v)[i], flat[i])
      BY <1>1, FlattenGrows
    <3>2. OptionParts(v)[i] = b
      BY DEF OptionParts
    <3>. QED
      BY <3>1, <3>2
  <2>3. la \in Nat /\ Len(b) \in Nat /\ Len(c) = la + Len(b)
    BY <2>2 DEF Joined
  <2>4. \A x \in 1 .. Len(b) : la + x <= Len(s) => s[la + x] = b[x]
    <3>. HIDE DEF a, b, c, la
    <3>. TAKE x \in 1 .. Len(b)
    <3>. SUFFICES ASSUME la + x <= Len(s) PROVE s[la + x] = b[x]
      OBVIOUS
    <3>1. la + x \in 1 .. Len(s) /\ la + x \in 1 .. Len(c)
      BY <1>1, <2>3
    <3>2. Begins(c, flat[n])
      <4>1. n \in 0 .. n /\ i \in 0 .. n
        BY <1>1
      <4>. QED
        BY <1>1, <4>1, FlattenBegins DEF c
    <3>3. flat[n][la + x] = c[la + x]
      BY <3>1, <3>2 DEF Begins
    <3>4. flat[n][la + x] = s[la + x]
      BY <3>1 DEF Begins
    <3>5. c[la + x] = b[x]
      BY <2>2 DEF Joined, la
    <3>. QED
      BY <3>3, <3>4, <3>5
  <2>5. o \in Strings /\ Append(o, v[i]) = oo
    BY PrefixAppend
  <2>6. la <= Len(s) => Plain(take, la, o)
    BY <1>3
  <2>7. \A t \in 0 .. Len(s) : t <= la => \E j \in 0 .. n : take[t].output = SubSeq(v, 1, j)
    BY <1>3
  <2>8. /\ Len(b) = 1 \/ Len(b) = 2
        /\ Len(b) = 2 => b[1] = Backslash /\ UnescapeChar(b[2]) = v[i]
        /\ Len(b) = 1 => b[1] = v[i] /\ v[i] # Backslash
    <3>1. /\ IsSpecialChar(v[i]) => Len(b) = 2 /\ b[1] = Backslash /\ UnescapeChar(b[2]) = v[i]
          /\ ~IsSpecialChar(v[i]) => Len(b) = 1 /\ b[1] = v[i] /\ v[i] # Backslash
      BY <2>1, OptionPartIs
    <3>2. 1 # 2
      OBVIOUS
    <3>. HIDE DEF b
    <3>. QED
      BY Zenon, <3>1, <3>2
  <2>. HIDE DEF T, a, b, c, la, o, oo
  <2>9. ASSUME la + 1 <= Len(s)
        PROVE  /\ Len(b) = 2 => /\ Behind(take, la + 1, o)
                                /\ la + 2 <= Len(s) => Plain(take, la + 2, oo)
               /\ Len(b) = 1 => Plain(take, la + 1, oo)
    <3>1. la <= Len(s) /\ Plain(take, la, o)
      BY <1>1, <2>3, <2>6, <2>9
    <3>2. /\ s[la + 1] # Backslash => Plain(take, la + 1, Append(o, s[la + 1]))
          /\ s[la + 1] = Backslash =>
               /\ Behind(take, la + 1, o)
               /\ la + 2 <= Len(s) =>
                    Plain(take, la + 2, Append(o, UnescapeChar(s[la + 2])))
      BY <2>3, <2>5, <2>9, <3>1, UnescapeAt
    <3>3. CASE Len(b) = 2
      <4>1. 1 \in 1 .. Len(b) /\ 2 \in 1 .. Len(b)
        BY <2>8, <3>3
      <4>2. s[la + 1] = Backslash /\ (la + 2 <= Len(s) => s[la + 2] = b[2])
        BY <2>4, <2>8, <2>9, <3>3, <4>1
      <4>. QED
        BY <2>5, <2>8, <3>2, <3>3, <4>2
    <3>4. CASE Len(b) = 1
      <4>1. 1 \in 1 .. Len(b)
        BY <2>8, <3>4
      <4>2. s[la + 1] = v[i] /\ v[i] # Backslash
        BY <2>4, <2>8, <2>9, <3>4, <4>1
      <4>3. ~(Len(b) = 2)
        BY <3>4
      <4>. QED
        BY <2>5, <3>2, <3>4, <4>2, <4>3
    <3>. QED
      BY <2>8, <3>3, <3>4
  <2>10. Len(c) <= Len(s) => Plain(take, Len(c), oo)
    <3>. SUFFICES ASSUME Len(c) <= Len(s) PROVE Plain(take, Len(c), oo)
      OBVIOUS
    <3>1. CASE Len(b) = 2
      <4>1. Len(c) = la + 2 /\ la + 1 <= Len(s) /\ la + 2 <= Len(s)
        BY <1>1, <2>3, <2>8, <3>1
      <4>. QED
        BY <2>9, <3>1, <4>1
    <3>2. CASE Len(b) = 1
      <4>1. Len(c) = la + 1 /\ la + 1 <= Len(s)
        BY <1>1, <2>3, <2>8, <3>2
      <4>. QED
        BY <2>9, <3>2, <4>1
    <3>. QED
      BY <2>8, <3>1, <3>2
  <2>11. \A t \in 0 .. Len(s) : t <= Len(c) => \E j \in 0 .. n : take[t].output = SubSeq(v, 1, j)
    <3>. SUFFICES ASSUME NEW t \in 0 .. Len(s), t <= Len(c)
                  PROVE  \E j \in 0 .. n : take[t].output = SubSeq(v, 1, j)
      OBVIOUS
    <3>1. CASE t <= la
      BY <2>7, <3>1
    <3>2. CASE t = Len(c)
      <4>1. take[t].output = oo
        BY <2>10, <3>2 DEF Plain
      <4>. QED
        BY <2>1, <4>1 DEF oo
    <3>3. CASE ~(t <= la) /\ t # Len(c)
      <4>0. Len(b) = 1 \/ Len(b) = 2
        BY <2>8
      <4>1. Len(b) = 2 /\ t = la + 1 /\ la + 1 <= Len(s)
        <5>. DEFINE x == Len(b)
                    y == Len(c)
        <5>1. (x = 1 \/ x = 2) /\ y = la + x /\ la \in Nat /\ t \in Nat /\ t <= y /\ t <= Len(s)
          BY <1>1, <2>3, <4>0
        <5>2. ~(t <= la) /\ t # y
          BY <3>3
        <5>. HIDE DEF x, y
        <5>3. x = 2 /\ t = la + 1
          BY <5>1, <5>2
        <5>. QED
          BY <5>1, <5>3 DEF x
      <4>2. take[t].output = o
        BY <2>9, <4>1 DEF Behind
      <4>. QED
        BY <2>1, <4>2 DEF o
    <3>. QED
      BY <3>1, <3>2, <3>3
  <2>. QED
    BY <2>1, <2>10, <2>11 DEF T, c, oo
<1>. HIDE DEF T
<1>4. 0 .. n \subseteq T
  <2>. HIDE DEF n
  <2>. QED
    BY <1>1, <1>2, <1>3, BoundedInduction
<1>. QED
  BY <1>4 DEF T

\* What EscapeOptionString writes is a string without line breaks, and
\* UnescapeOptionString finds in it, or in a beginning of it, the characters.
LEMMA EscapeText ==
  ASSUME NEW v \in Strings
  PROVE  /\ EscapeOptionString(v) \in Strings
         /\ Len(EscapeOptionString(v)) = Len(v) + Cardinality({k \in 1 .. Len(v) : IsSpecialChar(v[k])})
         /\ \A j \in 1 .. Len(EscapeOptionString(v)) : EscapeOptionString(v)[j] # LF
         /\ \A s \in Strings : Begins(s, EscapeOptionString(v)) =>
              /\ \E j \in 0 .. Len(v) : UnescapeOptionString(s) = SubSeq(v, 1, j)
              /\ Len(s) = Len(EscapeOptionString(v)) => UnescapeOptionString(s) = v
<1>. DEFINE n == Len(v)
            parts == OptionParts(v)
<1>1. PICK flat : Flattens(n, parts, flat) /\ EscapeOptionString(v) = flat[n]
  BY EscapeIs
<1>2. n \in Nat /\ n \in 0 .. n /\ \A k \in 1 .. n : v[k] \in Nat /\ v[k] < ByteRange
  BY StringBytes
<1>3. EscapeOptionString(v) \in Strings
  BY <1>1, <1>2 DEF Flattens
<1>4. Len(EscapeOptionString(v)) = n + Cardinality({k \in 1 .. n : IsSpecialChar(v[k])})
  BY <1>1, OptionLength
<1>5. \A j \in 1 .. Len(EscapeOptionString(v)) : EscapeOptionString(v)[j] # LF
  <2>1. AllLack(n, parts, LF)
    <3>. SUFFICES ASSUME NEW k \in 1 .. n PROVE \A j \in 1 .. Len(parts[k]) : parts[k][j] # LF
      BY DEF AllLack, Lacks
    <3>1. parts[k] = OptionPart(v[k])
      BY DEF OptionParts
    <3>. HIDE DEF parts
    <3>. QED
      BY <1>2, <3>1, OptionPartIs
  <2>. HIDE DEF parts, n
  <2>2. Lacks(flat[n], LF)
    BY <1>1, <1>2, <2>1, FlattenWithout
  <2>. QED
    BY <1>1, <2>2 DEF Lacks
<1>6. ASSUME NEW s \in Strings, Begins(s, EscapeOptionString(v))
      PROVE  /\ \E j \in 0 .. n : UnescapeOptionString(s) = SubSeq(v, 1, j)
             /\ Len(s) = Len(EscapeOptionString(v)) => UnescapeOptionString(s) = v
  <2>1. PICK take \in [0 .. Len(s) -> UnescapeStates] :
           /\ take[0] = [escaped |-> FALSE, output |-> << >>]
           /\ \A k \in 1 .. Len(s) : take[k] = UnescapeStep(s, k, take[k - 1])
           /\ UnescapeOptionString(s) = take[Len(s)].output
    BY UnescapeSteps
  <2>2. Unescapes(s, take)
    BY <2>1 DEF Unescapes
  <2>3. Len(s) \in Nat /\ Len(s) \in 0 .. Len(s) /\ Len(s) <= Len(flat[n])
    BY <1>1, <1>6, StringBytes DEF Begins
  <2>4. /\ Len(flat[n]) <= Len(s) => Plain(take, Len(flat[n]), SubSeq(v, 1, n))
        /\ \A t \in 0 .. Len(s) : t <= Len(flat[n]) => \E j \in 0 .. n : take[t].output = SubSeq(v, 1, j)
    BY <1>1, <1>2, <1>6, <2>2, UnescapeBegins
  <2>5. \E j \in 0 .. n : UnescapeOptionString(s) = SubSeq(v, 1, j)
    BY <2>1, <2>3, <2>4
  <2>6. ASSUME Len(s) = Len(EscapeOptionString(v)) PROVE UnescapeOptionString(s) = v
    <3>1. Plain(take, Len(s), SubSeq(v, 1, n))
      BY <1>1, <2>3, <2>4, <2>6
    <3>2. take[Len(s)].output = SubSeq(v, 1, n)
      BY <3>1 DEF Plain
    <3>3. SubSeq(v, 1, n) = v
      <4>. DEFINE S == 0 .. ByteRange - 1
      <4>1. v \in Seq(S)
        BY DEF Strings
      <4>. HIDE DEF S
      <4>. QED
        BY <4>1
    <3>. QED
      BY <2>1, <3>2, <3>3
  <2>. QED
    BY <2>5, <2>6
<1>. QED
  BY <1>3, <1>4, <1>5, <1>6

\* An option as text, cut anywhere.
LEMMA OptionReads ==
  ASSUME NEW v \in Strings, NEW s \in Strings, Matches(s, EscapeOptionString(v) \o << LF >>)
  PROVE  TextRead("option", v, Len(EscapeOptionString(v)) + 1, s, GetOption(s))
<1>. DEFINE t == EscapeOptionString(v)
            L == Len(t)
            n == Len(s)
            r == GetOption(s)
            text == GetSliceUntil(s, LF)
<1>1. t \in Strings /\ L \in Nat /\ n \in Nat /\ (L + 1) - 1 = L
  <2>1. t \in Strings
    BY EscapeText
  <2>2. L \in Nat /\ n \in Nat
    <3>. HIDE DEF t
    <3>. QED
      BY <2>1, StringBytes
  <2>. HIDE DEF t, L
  <2>. QED
    BY <2>1, <2>2
<1>2. IF n > L THEN text = [value |-> t, used |-> L + 1]
      ELSE text = [value |-> s, used |-> n] /\ \A k \in 1 .. n : s[k] = t[k]
  <2>1. LF \in Nat /\ LF < ByteRange
    BY CodeFacts
  <2>2. \A k \in 1 .. Len(t) : t[k] # LF
    BY EscapeText
  <2>. HIDE DEF t
  <2>. QED
    BY SMTT(60), <1>1, <2>1, <2>2, SliceUntil DEF t
<1>3. r = [ok |-> TRUE, value |-> UnescapeOptionString(text.value), used |-> text.used]
  BY DEF GetOption
<1>4. \A u \in Strings : Begins(u, t) =>
        /\ \E j \in 0 .. Len(v) : UnescapeOptionString(u) = SubSeq(v, 1, j)
        /\ Len(u) = L => UnescapeOptionString(u) = v
  BY EscapeText
<1>. HIDE DEF t, L, r, text
<1>5. CASE n >= L
  <2>1. text.value \in Strings /\ Begins(text.value, t) /\ Len(text.value) = L
    <3>1. CASE n > L
      <4>1. text.value = t
        BY <1>2, <3>1
      <4>. QED
        BY <1>1, <4>1 DEF Begins, L
    <3>2. CASE ~(n > L)
      <4>1. text.value = s /\ n = L /\ \A k \in 1 .. n : s[k] = t[k]
        BY <1>1, <1>2, <1>5, <3>2
      <4>. QED
        BY <1>1, <4>1 DEF Begins, L
    <3>. QED
      BY <3>1, <3>2
  <2>2. UnescapeOptionString(text.value) = v
    BY <1>4, <2>1
  <2>3. text.used = IF n >= L + 1 THEN L + 1 ELSE n
    <3>1. n > L <=> n >= L + 1
      BY <1>1
    <3>. QED
      BY <1>2, <3>1
  <2>4. Reads(r, v, text.used)
    BY <1>3, <2>2 DEF Reads
  <2>5. n >= (L + 1) - 1
    BY <1>1, <1>5
  <2>. QED
    BY <2>3, <2>4, <2>5 DEF TextRead, L, t, n, r
<1>6. CASE n < L
  <2>1. ~(n > L) /\ ~(n >= (L + 1) - 1)
    BY <1>1, <1>6
  <2>2. text.value = s /\ text.used = n /\ \A k \in 1 .. n : s[k] = t[k]
    BY <1>2, <2>1
  <2>3. Begins(s, t)
    BY <1>1, <1>6, <2>2 DEF Begins, L
  <2>4. PICK j \in 0 .. Len(v) : UnescapeOptionString(s) = SubSeq(v, 1, j)
    BY <1>4, <2>3
  <2>. DEFINE g == SubSeq(v, 1, j)
  <2>5. Reads(r, g, n)
    BY <1>3, <2>2, <2>4 DEF Reads
  <2>6. IsPrefix(g, v)
    BY PrefixFacts DEF Strings
  <2>7. Written("option", g) = g /\ Written("option", v) = v
    BY DEF Written
  <2>. QED
    BY <2>1, <2>5, <2>6, <2>7 DEF TextRead, L, t, n, r
<1>. QED
  BY <1>1, <1>5, <1>6

-----------------------------------------------------------------------------
(***************************************************************************)
(* Lists of integers.                                                      *)
(***************************************************************************)

\* A digit is none of the marks.
LEMMA DigitsLack ==
  ASSUME NEW w \in Nat
  PROVE  /\ Lacks(Decimal[w], Colon) /\ Lacks(Decimal[w], LF) /\ Lacks(Decimal[w], Minus)
<1>1. \A k \in 1 .. Len(Decimal[w]) : Decimal[w][k] \in Char0 .. Char0 + 9
  BY DecimalText
<1>2. \A c \in Char0 .. Char0 + 9 : c # Colon /\ c # LF /\ c # Minus
  BY CodesApart
<1>. QED
  BY <1>1, <1>2 DEF Lacks

\* The text of a negative number.
Negative(w) == << Minus >> \o Decimal[w]

\* A negative number is a minus sign and the digits of its magnitude.
LEMMA NegativeIs ==
  ASSUME NEW w \in Nat
  PROVE  /\ Negative(w) \in Strings /\ Len(Negative(w)) = Len(Decimal[w]) + 1
         /\ Negative(w)[1] = Minus /\ Tail(Negative(w)) = Decimal[w]
         /\ \A k \in 1 .. Len(Decimal[w]) : Negative(w)[k + 1] = Decimal[w][k]
         /\ Lacks(Negative(w), Colon) /\ Lacks(Negative(w), LF)
<1>. DEFINE D == Decimal[w]
            M == << Minus >>
            x == M \o D
            S == 0 .. ByteRange - 1
<1>1. D \in Strings /\ Len(D) \in Nat
  BY DecimalText
<1>2. Minus \in Nat /\ Minus < ByteRange
  BY CodeFacts
<1>3. M \in Strings /\ Len(M) = 1 /\ M[1] = Minus
  BY <1>2, ByteString
<1>4. Minus \in S /\ D \in Seq(S)
  BY <1>1, <1>2, ByteFacts DEF Strings
<1>. HIDE DEF S
<1>5. Tail(x) = D
  <2>. HIDE DEF D
  <2>. QED
    BY <1>4
<1>6. x = Negative(w)
  BY DEF Negative
<1>. HIDE DEF D, M
<1>7. /\ x \in Strings /\ Len(x) = 1 + Len(D) /\ x[1] = Minus
      /\ \A k \in 1 .. Len(D) : x[1 + k] = D[k]
  <2>1. 1 \in 1 .. 1
    OBVIOUS
  <2>2. /\ x \in Strings /\ Len(x) = Len(M) + Len(D)
        /\ \A k \in 1 .. Len(M) : x[k] = M[k]
        /\ \A k \in 1 .. Len(D) : x[Len(M) + k] = D[k]
    BY <1>1, <1>3, StringConcat
  <2>. HIDE DEF x
  <2>3. x[1] = Minus
    BY <1>3, <2>1, <2>2
  <2>. QED
    BY <1>3, <2>2, <2>3
<1>. HIDE DEF x
<1>8. Len(x) = Len(D) + 1 /\ \A k \in 1 .. Len(D) : k + 1 = 1 + k
  BY <1>1, <1>7
<1>9. \A k \in 1 .. Len(D) : x[k + 1] = D[k]
  BY <1>7, <1>8
<1>10. ASSUME NEW c, c # Minus, Lacks(D, c) PROVE Lacks(x, c)
  <2>. SUFFICES ASSUME NEW j \in 1 .. Len(x) PROVE x[j] # c
    BY DEF Lacks
  <2>1. CASE j = 1
    BY <1>7, <1>10, <2>1
  <2>2. CASE j # 1
    <3>. DEFINE k == j - 1
    <3>1. k \in 1 .. Len(D) /\ j = k + 1
      BY <1>1, <1>8, <2>2
    <3>. HIDE DEF k
    <3>. QED
      BY <1>9, <1>10, <3>1 DEF Lacks
  <2>. QED
    BY <2>1, <2>2
<1>11. Lacks(x, Colon) /\ Lacks(x, LF)
  <2>1. Colon # Minus /\ LF # Minus
    BY TextAssumption
  <2>2. Lacks(D, Colon) /\ Lacks(D, LF)
    BY DigitsLack DEF D
  <2>. QED
    BY <1>10, <2>1, <2>2
<1>. QED
  BY <1>5, <1>6, <1>7, <1>8, <1>9, <1>11 DEF D

\* What ConsumeDecimalNumber makes of a text that is a number.
LEMMA ConsumeDecimal ==
  ASSUME NEW w \in Nat, w < UInt64
  PROVE  /\ ConsumeDecimalNumber(Decimal[w]).ok = TRUE
         /\ ConsumeDecimalNumber(Decimal[w]).value = w
<1>. DEFINE x == Decimal[w]
            m == Len(x)
<1>1. x \in Strings /\ m \in Nat /\ \A k \in 1 .. m : x[k] \in Char0 .. Char0 + 9
  BY DecimalText
<1>2. BeginsWith(x, w)
  <2>1. m <= m
    BY <1>1
  <2>. QED
    BY <2>1 DEF BeginsWith
<1>3. DigitsFirst(x, m)
  BY <1>1 DEF DigitsFirst
<1>4. ConsumeDecimalNumber(x) = [ok |-> TRUE, value |-> w, used |-> m]
  BY <1>1, <1>2, <1>3, ConsumeNumber
<1>. QED
  BY <1>4

\* StoI of the texts of numbers, and of a sign alone.
LEMMA StoIReads ==
  /\ \A w \in Nat : w < UInt64 => StoI(Decimal[w]) = [ok |-> TRUE, value |-> w]
  /\ \A w \in Nat : w < UInt64 => StoI(Negative(w)) = [ok |-> TRUE, value |-> -w]
  /\ StoI(<< Minus >>).ok = FALSE
<1>1. ASSUME NEW w \in Nat, w < UInt64 PROVE StoI(Decimal[w]) = [ok |-> TRUE, value |-> w]
  <2>. DEFINE x == Decimal[w]
              r == ConsumeDecimalNumber(x)
  <2>1. 1 \in 1 .. Len(x) /\ Lacks(x, Minus)
    BY DecimalText, DigitsLack
  <2>2. x[1] # Minus
    BY <2>1 DEF Lacks
  <2>3. r.ok = TRUE /\ r.value = w
    BY <1>1, ConsumeDecimal
  <2>. HIDE DEF x
  <2>4. StoI(x) = [ok |-> r.ok, value |-> r.value]
    BY <2>2 DEF StoI
  <2>. HIDE DEF r
  <2>. QED
    BY <2>3, <2>4 DEF x
<1>2. ASSUME NEW w \in Nat, w < UInt64 PROVE StoI(Negative(w)) = [ok |-> TRUE, value |-> -w]
  <2>. DEFINE x == Negative(w)
              r == ConsumeDecimalNumber(Tail(x))
  <2>1. x[1] = Minus /\ Tail(x) = Decimal[w] /\ Len(x) = Len(Decimal[w]) + 1
    BY NegativeIs
  <2>2. x # << >>
    <3>1. Len(Decimal[w]) \in Nat /\ Len(<< >>) = 0
      BY DecimalText
    <3>. HIDE DEF x
    <3>. QED
      BY <2>1, <3>1
  <2>3. r.ok = TRUE /\ r.value = w
    BY <1>2, <2>1, ConsumeDecimal
  <2>. HIDE DEF x
  <2>4. StoI(x) = [ok |-> r.ok, value |-> -r.value]
    BY <2>1, <2>2 DEF StoI
  <2>. HIDE DEF r
  <2>. QED
    BY <2>3, <2>4 DEF x
<1>3. StoI(<< Minus >>).ok = FALSE
  <2>. DEFINE x == << Minus >>
              e == << >>
              r == ConsumeDecimalNumber(e)
  <2>1. x # << >> /\ x[1] = Minus /\ Tail(x) = e
    OBVIOUS
  <2>2. e \in Strings /\ DigitsFirst(e, 0)
    BY DEF Strings, DigitsFirst
  <2>. HIDE DEF e
  <2>3. r = [ok |-> FALSE, value |-> 0, used |-> 0]
    BY <2>2, ConsumeNothing
  <2>4. r.ok = FALSE
    BY <2>3
  <2>. HIDE DEF x, r
  <2>5. StoI(x).ok = r.ok
    BY <2>1 DEF StoI, r, e
  <2>. QED
    BY <2>4, <2>5 DEF x
<1>. QED
  BY <1>1, <1>2, <1>3

Small(n) == n \in Int /\ -UInt64 < n /\ n < UInt64

\* The text of a number, and that StoI reads it.
LEMMA ToTextIs ==
  ASSUME NEW n, Small(n)
  PROVE  /\ ToText(n) \in Strings /\ Len(ToText(n)) \in Nat \ {0}
         /\ Lacks(ToText(n), Colon) /\ Lacks(ToText(n), LF)
         /\ StoI(ToText(n)) = [ok |-> TRUE, value |-> n]
         /\ n >= 0 => ToText(n) = Decimal[n]
         /\ n < 0 => ToText(n) = Negative(-n)
<1>1. n \in Int /\ -UInt64 < n /\ n < UInt64 /\ UInt64 \in Nat
  BY ByteFacts DEF Small, UInt64
<1>2. CASE n >= 0
  <2>1. n \in Nat /\ ~(n < 0)
    BY <1>1, <1>2
  <2>2. ToText(n) = Decimal[n]
    BY <2>1 DEF ToText
  <2>. QED
    BY <1>1, <1>2, <2>1, <2>2, DecimalText, DigitsLack, StoIReads
<1>3. CASE n < 0
  <2>. DEFINE w == -n
  <2>1. w \in Nat /\ w < UInt64 /\ -w = n /\ ~(n >= 0)
    BY <1>1, <1>3
  <2>2. ToText(n) = Negative(w)
    BY <1>3 DEF ToText, Negative
  <2>. HIDE DEF w
  <2>3. Len(Decimal[w]) \in Nat
    BY <2>1, DecimalText
  <2>4. /\ Negative(w) \in Strings /\ Len(Negative(w)) = Len(Decimal[w]) + 1
        /\ Lacks(Negative(w), Colon) /\ Lacks(Negative(w), LF)
    BY <2>1, NegativeIs
  <2>5. StoI(Negative(w)) = [ok |-> TRUE, value |-> n]
    BY <2>1, StoIReads
  <2>6. Len(Negative(w)) \in Nat \ {0}
    BY <2>3, <2>4
  <2>. QED
    BY <2>1, <2>2, <2>4, <2>5, <2>6 DEF w
<1>. QED
  BY <1>1, <1>2, <1>3

\* The answer of StoI for a beginning of a number's text: it is a number with
\* this text, or refused.
CutNumber(x, n, r) ==
  \/ r.ok = FALSE /\ Len(x) < Len(ToText(n))
  \/ \E g \in Int : /\ Small(g) /\ r = [ok |-> TRUE, value |-> g] /\ ToText(g) = x
                    /\ Len(x) = Len(ToText(n)) => g = n

\* The beginning of a number is refused, or it is the text of the number that stoi reads.
LEMMA StoIPrefix ==
  ASSUME NEW n, Small(n), NEW x \in Strings, Begins(x, ToText(n)), Len(x) # 0
  PROVE  CutNumber(x, n, StoI(x))
<1>. DEFINE t == ToText(n)
            m == Len(x)
<1>1. /\ t \in Strings /\ Len(t) \in Nat \ {0} /\ StoI(t) = [ok |-> TRUE, value |-> n]
      /\ n >= 0 => t = Decimal[n]
      /\ n < 0 => t = Negative(-n)
  BY ToTextIs
<1>2. m \in Nat /\ m # 0 /\ m <= Len(t) /\ \A k \in 1 .. m : x[k] = t[k]
  BY StringBytes DEF Begins
<1>3. n \in Int /\ -UInt64 < n /\ n < UInt64 /\ UInt64 \in Nat
  BY ByteFacts DEF Small, UInt64
<1>4. CASE m = Len(t)
  <2>1. x = t
    <3>. HIDE DEF t
    <3>. QED
      BY <1>1, <1>2, <1>4, StringEqual
  <2>. QED
    BY <1>1, <1>3, <2>1 DEF CutNumber
<1>5. CASE m # Len(t) /\ n >= 0
  <2>1. n \in Nat /\ t = Decimal[n] /\ m \in 1 .. Len(t)
    BY <1>1, <1>2, <1>3, <1>5
  <2>2. PICK w \in Nat : w <= n /\ Len(Decimal[w]) = m /\ \A k \in 1 .. m : Decimal[w][k] = Decimal[n][k]
    BY <2>1, DecimalPrefix DEF DecimalCut
  <2>3. Decimal[w] \in Strings
    BY DecimalText
  <2>. HIDE DEF t
  <2>4. x = Decimal[w]
    BY <1>2, <2>1, <2>2, <2>3, StringEqual
  <2>5. w < UInt64 /\ w \in Int /\ -UInt64 < w /\ ~(w < 0)
    BY <1>3, <2>1, <2>2
  <2>6. StoI(x) = [ok |-> TRUE, value |-> w] /\ ToText(w) = x /\ Small(w)
    BY <2>4, <2>5, StoIReads DEF ToText, Small
  <2>. QED
    BY <1>5, <2>5, <2>6 DEF CutNumber, t
<1>6. CASE m # Len(t) /\ ~(n >= 0)
  <2>. DEFINE v == -n
              D == Decimal[v]
  <2>1. v \in Nat /\ v > 0 /\ v < UInt64 /\ t = Negative(v)
    BY <1>1, <1>3, <1>6
  <2>. HIDE DEF v, t
  <2>2. /\ t[1] = Minus /\ Len(t) = Len(D) + 1 /\ Len(D) \in Nat \ {0}
        /\ \A k \in 1 .. Len(D) : t[k + 1] = D[k]
    BY <2>1, NegativeIs, DecimalText
  <2>. HIDE DEF D
  <2>3. x[1] = Minus
    <3>1. 1 \in 1 .. m
      BY <1>2
    <3>. QED
      BY <1>2, <2>2, <3>1
  <2>4. CASE m = 1
    <3>1. x = << Minus >>
      <4>1. Minus \in Nat /\ Minus < ByteRange
        BY CodeFacts
      <4>2. << Minus >> \in Strings /\ Len(<< Minus >>) = 1 /\ << Minus >>[1] = Minus
        BY <4>1, ByteString
      <4>3. \A k \in 1 .. Len(x) : x[k] = << Minus >>[k]
        BY <2>3, <2>4, <4>2
      <4>. QED
        BY <2>4, <4>2, <4>3, StringEqual
    <3>2. StoI(x).ok = FALSE
      BY <3>1, StoIReads
    <3>3. m < Len(t)
      BY <2>2, <2>4
    <3>. QED
      BY <3>2, <3>3 DEF CutNumber, t
  <2>5. CASE m # 1
    <3>. DEFINE p == m - 1
    <3>1. p \in 1 .. Len(D) /\ m = p + 1
      <4>1. m \in Nat /\ m # 0 /\ m # 1 /\ m <= Len(D) + 1 /\ Len(D) \in Nat
        BY <1>2, <2>2, <2>5
      <4>. HIDE DEF m
      <4>. QED
        BY <4>1
    <3>. HIDE DEF p
    <3>2. PICK w \in Nat : /\ w <= v /\ (v > 0 => w > 0) /\ Len(Decimal[w]) = p
                           /\ \A k \in 1 .. p : Decimal[w][k] = Decimal[v][k]
      BY <2>1, <3>1, DecimalPrefix DEF DecimalCut, D
    <3>3. /\ Negative(w) \in Strings /\ Len(Negative(w)) = p + 1 /\ Negative(w)[1] = Minus
          /\ \A k \in 1 .. p : Negative(w)[k + 1] = Decimal[w][k]
      BY <3>2, NegativeIs
    <3>4. \A k \in 1 .. m : x[k] = Negative(w)[k]
      <4>. TAKE k \in 1 .. m
      <4>1. CASE k = 1
        BY <2>3, <3>3, <4>1
      <4>2. CASE k # 1
        <5>. DEFINE j == k - 1
        <5>1. j \in 1 .. p /\ j \in 1 .. Len(D) /\ k = j + 1
          BY <1>2, <2>2, <3>1, <4>2
        <5>. HIDE DEF j
        <5>2. t[k] = D[j] /\ Negative(w)[k] = Decimal[w][j] /\ Decimal[w][j] = D[j]
          BY <2>2, <3>2, <3>3, <5>1 DEF D
        <5>. QED
          BY <1>2, <5>2
      <4>. QED
        BY <4>1, <4>2
    <3>5. x = Negative(w)
      BY <3>1, <3>3, <3>4, StringEqual
    <3>. DEFINE g == -w
    <3>6. g \in Int /\ -UInt64 < g /\ g < UInt64 /\ w < UInt64 /\ g < 0 /\ -g = w
      BY <1>3, <2>1, <3>2
    <3>7. StoI(x) = [ok |-> TRUE, value |-> g]
      BY <3>5, <3>6, StoIReads
    <3>8. ToText(g) = x /\ Small(g)
      <4>. HIDE DEF g
      <4>. QED
        BY <3>5, <3>6 DEF ToText, Negative, Small
    <3>. HIDE DEF g
    <3>. QED
      BY <1>6, <3>6, <3>7, <3>8 DEF CutNumber, t
  <2>. QED
    BY <2>4, <2>5
<1>. QED
  BY <1>4, <1>5, <1>6

\* What SerializeIntVector writes of an element: after the first, a colon before it.
IntPart(vec, k) == IF k > 1 THEN << Colon >> \o ToText(vec[k]) ELSE ToText(vec[k])
IntParts(vec) == [k \in 1 .. Len(vec) |-> IntPart(vec, k)]

IntVector(vec) == vec \in Seq(Int) /\ \A k \in 1 .. Len(vec) : Small(vec[k])

\* An element of a serialized list: a colon, unless it is the first, and its text.
LEMMA IntPartIs ==
  ASSUME NEW vec, NEW k \in Nat, Small(vec[k])
  PROVE  /\ IntPart(vec, k) \in Strings /\ Lacks(IntPart(vec, k), LF)
         /\ k > 1 => /\ Len(IntPart(vec, k)) = Len(ToText(vec[k])) + 1
                     /\ IntPart(vec, k)[1] = Colon
                     /\ \A j \in 1 .. Len(ToText(vec[k])) : IntPart(vec, k)[j + 1] = ToText(vec[k])[j]
         /\ ~(k > 1) => IntPart(vec, k) = ToText(vec[k])
<1>. DEFINE t == ToText(vec[k])
            C == << Colon >>
            x == C \o t
<1>1. t \in Strings /\ Len(t) \in Nat /\ Lacks(t, LF)
  BY ToTextIs
<1>2. CASE ~(k > 1)
  BY <1>1, <1>2 DEF IntPart
<1>3. CASE k > 1
  <2>1. IntPart(vec, k) = x
    BY <1>3 DEF IntPart
  <2>2. Colon \in Nat /\ Colon < ByteRange
    BY CodeFacts
  <2>3. C \in Strings /\ Len(C) = 1 /\ C[1] = Colon /\ 1 \in 1 .. 1
    BY <2>2, ByteString
  <2>. HIDE DEF t, C
  <2>4. /\ x \in Strings /\ Len(x) = Len(C) + Len(t)
        /\ \A j \in 1 .. Len(C) : x[j] = C[j]
        /\ \A j \in 1 .. Len(t) : x[Len(C) + j] = t[j]
    BY <1>1, <2>3, StringConcat
  <2>. HIDE DEF x
  <2>5. x[1] = Colon /\ Len(x) = Len(t) + 1
    BY <1>1, <2>3, <2>4
  <2>6. ASSUME NEW j \in 1 .. Len(t) PROVE x[j + 1] = t[j]
    <3>1. j + 1 = Len(C) + j
      BY <1>1, <2>3
    <3>. QED
      BY <2>4, <3>1
  <2>7. Lacks(x, LF)
    <3>. SUFFICES ASSUME NEW j \in 1 .. Len(x) PROVE x[j] # LF
      BY DEF Lacks
    <3>1. CASE j = 1
      BY <2>5, <3>1, TextAssumption
    <3>2. CASE j # 1
      <4>. DEFINE i == j - 1
      <4>1. i \in 1 .. Len(t) /\ j = i + 1
        BY <1>1, <2>5, <3>2
      <4>. HIDE DEF i
      <4>. QED
        BY <1>1, <2>6, <4>1 DEF Lacks
    <3>. QED
      BY <3>1, <3>2
  <2>. QED
    BY <1>3, <2>1, <2>4, <2>5, <2>6, <2>7 DEF t
<1>. QED
  BY <1>2, <1>3

\* SerializeIntVector concatenates its elements and never writes a line feed.
LEMMA SerializeIs ==
  ASSUME NEW vec, IntVector(vec)
  PROVE  /\ Len(vec) \in Nat /\ SerializeIntVector(vec) \in Strings /\ Lacks(SerializeIntVector(vec), LF)
         /\ \E flat : Flattens(Len(vec), IntParts(vec), flat) /\ SerializeIntVector(vec) = flat[Len(vec)]
<1>. DEFINE n == Len(vec)
            parts == IntParts(vec)
<1>1. n \in Nat /\ n \in 0 .. n /\ \A k \in 1 .. n : k \in Nat /\ Small(vec[k])
  BY DEF IntVector
<1>2. parts \in [1 .. n -> Strings] /\ AllLack(n, parts, LF)
  <2>1. \A k \in 1 .. n : parts[k] = IntPart(vec, k)
    BY DEF IntParts
  <2>2. \A k \in 1 .. n : IntPart(vec, k) \in Strings /\ Lacks(IntPart(vec, k), LF)
    BY <1>1, IntPartIs
  <2>3. parts = [k \in 1 .. n |-> IntPart(vec, k)]
    BY DEF IntParts
  <2>. QED
    BY <2>1, <2>2, <2>3 DEF AllLack
<1>3. SerializeIntVector(vec) = FlattenSeq(parts)
  BY DEF SerializeIntVector, IntParts, IntPart
<1>. HIDE DEF parts, n
<1>4. PICK flat \in [0 .. n -> Strings] :
        /\ flat[0] = << >>
        /\ \A k \in 1 .. n : flat[k] = flat[k - 1] \o parts[k]
        /\ FlattenSeq(parts) = flat[n]
  BY <1>1, <1>2, FlattenSteps
<1>5. Flattens(n, parts, flat)
  BY <1>2, <1>4 DEF Flattens
<1>6. Lacks(flat[n], LF)
  BY <1>1, <1>2, <1>5, FlattenWithout
<1>7. flat[n] \in Strings
  BY <1>1
<1>. QED
  BY <1>1, <1>3, <1>4, <1>5, <1>6, <1>7 DEF n, parts

\* Where element i begins, counting from 0, and ends.
Start(flat, i) == IF i = 1 THEN 0 ELSE Len(flat[i - 1]) + 1

\* Where the text of an element lies in the serialized list.
LEMMA ElementAt ==
  ASSUME NEW vec, IntVector(vec), NEW flat, Flattens(Len(vec), IntParts(vec), flat), NEW i \in 1 .. Len(vec)
  PROVE  /\ Start(flat, i) \in Nat /\ flat[i] \in Strings /\ Len(flat[i]) = Start(flat, i) + Len(ToText(vec[i]))
         /\ \A j \in 1 .. Len(ToText(vec[i])) : flat[i][Start(flat, i) + j] = ToText(vec[i])[j]
         /\ i > 1 => flat[i][Len(flat[i - 1]) + 1] = Colon
<1>. DEFINE n == Len(vec)
            t == ToText(vec[i])
            a == flat[i - 1]
            b == IntPart(vec, i)
            c == flat[i]
            p == Start(flat, i)
<1>1. n \in Nat /\ Small(vec[i]) /\ i \in Nat
  BY DEF IntVector
<1>2. Joined(a, b, c)
  <2>1. Joined(flat[i - 1], IntParts(vec)[i], flat[i])
    BY <1>1, FlattenGrows
  <2>2. IntParts(vec)[i] = b
    BY DEF IntParts
  <2>. QED
    BY <2>1, <2>2
<1>3. t \in Strings /\ Len(t) \in Nat
  BY <1>1, ToTextIs
<1>4. /\ i > 1 => Len(b) = Len(t) + 1 /\ b[1] = Colon /\ \A j \in 1 .. Len(t) : b[j + 1] = t[j]
      /\ ~(i > 1) => b = t
  BY <1>1, IntPartIs
<1>5. p = IF i = 1 THEN 0 ELSE Len(a) + 1
  BY DEF Start
<1>6. i = 1 => Len(a) = 0
  BY DEF Flattens
<1>. HIDE DEF t, a, b, c, p
<1>7. /\ c \in Strings /\ Len(a) \in Nat /\ Len(b) \in Nat /\ Len(c) = Len(a) + Len(b)
      /\ \A j \in 1 .. Len(b) : c[Len(a) + j] = b[j]
  BY <1>2 DEF Joined
<1>8. CASE i = 1
  <2>1. b = t /\ p = 0 /\ Len(a) = 0 /\ ~(i > 1)
    BY <1>4, <1>5, <1>6, <1>8
  <2>2. \A j \in 1 .. Len(t) : c[p + j] = t[j]
    BY <1>7, <2>1
  <2>3. p \in Nat /\ Len(c) = p + Len(t)
    BY <1>3, <1>7, <2>1
  <2>. QED
    BY <1>7, <2>1, <2>2, <2>3 DEF t, a, c, p
<1>9. CASE i # 1
  <2>0. i > 1
    BY <1>1, <1>9
  <2>1. p = Len(a) + 1 /\ Len(b) = Len(t) + 1 /\ b[1] = Colon /\ \A j \in 1 .. Len(t) : b[j + 1] = t[j]
    BY <1>4, <1>5, <1>9, <2>0
  <2>2. p \in Nat /\ Len(c) = p + Len(t)
    BY <1>3, <1>7, <2>1
  <2>3. ASSUME NEW j \in 1 .. Len(t) PROVE c[p + j] = t[j]
    <3>1. j + 1 \in 1 .. Len(b) /\ p + j = Len(a) + (j + 1)
      BY <1>3, <1>7, <2>1
    <3>2. c[Len(a) + (j + 1)] = b[j + 1]
      BY <1>7, <3>1
    <3>. QED
      BY <2>1, <3>1, <3>2
  <2>4. c[Len(a) + 1] = Colon
    <3>1. 1 \in 1 .. Len(b)
      BY <1>3, <2>1
    <3>. QED
      BY <1>7, <2>1, <3>1
  <2>. QED
    BY <1>7, <2>2, <2>3, <2>4 DEF t, a, c, p
<1>. QED
  BY <1>8, <1>9

\* GetSliceUntil takes no more than there is.
LEMMA SliceUntilWithin ==
  ASSUME NEW s \in Strings, NEW c
  PROVE  /\ GetSliceUntil(s, c).value \in Strings
         /\ Len(GetSliceUntil(s, c).value) \in Nat /\ Len(GetSliceUntil(s, c).value) <= Len(s)
<1>. DEFINE n == Len(s)
            P == {k \in 1 .. n : s[k] = c} \cup {n + 1}
            p == Min(P)
            S == 0 .. ByteRange - 1
<1>1. n \in Nat
  BY StringBytes
<1>2. P \in SUBSET Nat /\ P # {} /\ \A k \in P : k \in 1 .. n + 1
  BY <1>1
<1>3. p \in P
  <2>. HIDE DEF P
  <2>. QED
    BY <1>2, MinFacts
<1>. DEFINE m == p - 1
<1>4. p \in 1 .. n + 1
  <2>. HIDE DEF P, p
  <2>. QED
    BY <1>2, <1>3
<1>5. GetSliceUntil(s, c).value = SubSeq(s, 1, m)
  BY DEF GetSliceUntil, PositionOf
<1>. HIDE DEF P, p
<1>6. m \in 0 .. n /\ s \in Seq(S)
  BY <1>1, <1>4 DEF Strings
<1>. HIDE DEF m, S
<1>7. Len(SubSeq(s, 1, m)) = m /\ SubSeq(s, 1, m) \in Seq(S)
  BY <1>6, PrefixFacts
<1>. QED
  BY <1>1, <1>5, <1>6, <1>7 DEF S, Strings

\* The text that ParseVectorInt takes at a position, and the number it is.
PartAt(s, from) == GetSliceUntil(SubSeq(s, from, Len(s)), Colon).value
NumAt(s, from) == StoI(PartAt(s, from))

\* The element that starts at a place ends within the string.
LEMMA PartWithin ==
  ASSUME NEW s \in Strings, NEW from \in 1 .. Len(s)
  PROVE  Len(PartAt(s, from)) \in Nat /\ from + Len(PartAt(s, from)) <= Len(s) + 1
<1>. DEFINE n == Len(s)
            m == from - 1
            t == SubSeq(s, m + 1, n)
<1>1. n \in Nat /\ m \in Nat /\ from = m + 1 /\ n <= Len(s) /\ m <= n
  BY StringBytes
<1>. HIDE DEF m
<1>2. t \in Strings /\ Len(t) = n - m
  BY <1>1, StringPart
<1>3. PartAt(s, from) = GetSliceUntil(t, Colon).value
  BY <1>1 DEF PartAt
<1>. HIDE DEF t
<1>4. Len(PartAt(s, from)) \in Nat /\ Len(PartAt(s, from)) <= Len(t)
  BY <1>2, <1>3, SliceUntilWithin
<1>. QED
  BY <1>1, <1>2, <1>4

Parses(s, parse) ==
  \A from \in 1 .. Len(s) + 2 :
    parse[from] =
      IF from > Len(s) THEN [ok |-> TRUE, value |-> << >>]
      ELSE IF ~NumAt(s, from).ok THEN [ok |-> FALSE, value |-> << >>]
      ELSE [parse[from + Len(PartAt(s, from)) + 1] EXCEPT !.value = << NumAt(s, from).value >> \o @]

\* ParseVectorInt goes from part to part.
LEMMA ParseSteps ==
  ASSUME NEW s \in Strings
  PROVE  \E parse : ParseVectorInt(s) = parse[1] /\ Parses(s, parse)
<1>. DEFINE n == Len(s)
            D == 1 .. n + 2
            W == {NumAt(s, k).value : k \in D}
            V == [ok : BOOLEAN, value : Seq(W)]
            C == {k \in D : ~(k > n) /\ NumAt(s, k).ok}
            next == [k \in D |-> k + Len(PartAt(s, k)) + 1]
            base == [k \in D |-> IF k > n THEN [ok |-> TRUE, value |-> << >>] ELSE [ok |-> FALSE, value |-> << >>]]
            G == [k \in D |-> [v \in V |-> [v EXCEPT !.value = << NumAt(s, k).value >> \o @]]]
            mu == [k \in D |-> n + 2 - k]
            Def(f) == [from \in 1 .. Len(s) + 2 |->
                         IF from > Len(s) THEN [ok |-> TRUE, value |-> << >>]
                         ELSE LET rest == SubSeq(s, from, Len(s))
                                  part == GetSliceUntil(rest, Colon).value
                                  num == StoI(part)
                              IN  IF ~num.ok THEN [ok |-> FALSE, value |-> << >>]
                                  ELSE LET tail == f[from + Len(part) + 1]
                                       IN  [tail EXCEPT !.value = << num.value >> \o @]]
            parse == CHOOSE f : f = Def(f)
<1>1. ParseVectorInt(s) = parse[1]
  BY Zenon DEF ParseVectorInt
<1>2. n \in Nat
  BY StringBytes
<1>3. \A k \in D : k \in C => next[k] \in D /\ mu[next[k]] < mu[k]
  <2>. TAKE k \in D
  <2>. SUFFICES ASSUME k \in C PROVE next[k] \in D /\ mu[next[k]] < mu[k]
    OBVIOUS
  <2>. DEFINE l == Len(PartAt(s, k))
  <2>1. k \in 1 .. n
    BY <1>2
  <2>2. l \in Nat /\ k + l <= n + 1
    BY <2>1, PartWithin
  <2>3. next[k] = k + l + 1
    OBVIOUS
  <2>. HIDE DEF l
  <2>4. k + l + 1 \in D /\ n + 2 - (k + l + 1) < n + 2 - k
    BY <1>2, <2>1, <2>2
  <2>. QED
    BY <2>3, <2>4
<1>4. base \in [D -> V]
  <2>1. << >> \in Seq(W)
    OBVIOUS
  <2>. HIDE DEF W
  <2>2. [ok |-> TRUE, value |-> << >>] \in V /\ [ok |-> FALSE, value |-> << >>] \in V
    BY <2>1
  <2>. HIDE DEF V
  <2>. QED
    BY <2>2
<1>5. \A k \in D : \A v \in V : G[k][v] \in V /\ G[k][v] = [v EXCEPT !.value = << NumAt(s, k).value >> \o @]
  <2>. TAKE k \in D
  <2>. TAKE v \in V
  <2>1. NumAt(s, k).value \in W
    OBVIOUS
  <2>. HIDE DEF W
  <2>2. v.value \in Seq(W)
    OBVIOUS
  <2>3. << NumAt(s, k).value >> \o v.value \in Seq(W)
    BY <2>1, <2>2, SeqParts
  <2>4. [v EXCEPT !.value = << NumAt(s, k).value >> \o @] \in V
    BY <2>3
  <2>5. G[k][v] = [v EXCEPT !.value = << NumAt(s, k).value >> \o @]
    <3>. HIDE DEF V, D
    <3>. QED
      OBVIOUS
  <2>. QED
    BY <2>4, <2>5
<1>6. mu \in [D -> Nat]
  BY <1>2
<1>7. Descends(D, V, mu, C, next, base, G)
  <2>. HIDE DEF D, V, mu, C, next, base, G
  <2>. QED
    BY <1>3, <1>4, <1>5, <1>6 DEF Descends
<1>8. PICK f \in [D -> V] : \A k \in D : f[k] = IF k \in C THEN G[k][f[next[k]]] ELSE base[k]
  <2>. HIDE DEF D, V, mu, C, next, base, G
  <2>. QED
    BY <1>7, RecursiveFunction
<1>9. ASSUME NEW k \in D
      PROVE  f[k] = IF k > n THEN [ok |-> TRUE, value |-> << >>]
                    ELSE IF ~NumAt(s, k).ok THEN [ok |-> FALSE, value |-> << >>]
                    ELSE [f[k + Len(PartAt(s, k)) + 1] EXCEPT !.value = << NumAt(s, k).value >> \o @]
  <2>1. CASE k \in C
    <3>1. ~(k > n) /\ NumAt(s, k).ok
      BY <2>1
    <3>2. next[k] = k + Len(PartAt(s, k)) + 1 /\ next[k] \in D
      BY <1>3, <2>1
    <3>3. f[next[k]] \in V
      <4>. HIDE DEF V, D
      <4>. QED
        BY <3>2
    <3>4. f[k] = G[k][f[next[k]]]
      <4>. HIDE DEF V, D, G, C, next, base
      <4>. QED
        BY <1>8, <2>1
    <3>5. G[k][f[next[k]]] = [f[next[k]] EXCEPT !.value = << NumAt(s, k).value >> \o @]
      <4>. DEFINE v == f[next[k]]
      <4>1. v \in V
        BY <3>3
      <4>. HIDE DEF v, V, D, G, next
      <4>2. G[k][v] = [v EXCEPT !.value = << NumAt(s, k).value >> \o @]
        BY <1>5, <4>1
      <4>. QED
        BY Zenon, <4>2 DEF v
    <3>. HIDE DEF V, D, G, C, next, base
    <3>. QED
      BY Zenon, <3>1, <3>2, <3>4, <3>5
  <2>2. CASE k \notin C
    <3>1. f[k] = base[k]
      <4>. HIDE DEF V, D, G, C, next, base
      <4>. QED
        BY <1>8, <2>2
    <3>2. base[k] = IF k > n THEN [ok |-> TRUE, value |-> << >>] ELSE [ok |-> FALSE, value |-> << >>]
      OBVIOUS
    <3>3. k > n \/ ~NumAt(s, k).ok
      BY <2>2
    <3>. HIDE DEF V, D, G, C, next, base
    <3>. QED
      BY Zenon, <3>1, <3>2, <3>3
  <2>. QED
    BY <2>1, <2>2
<1>10. f = Def(f)
  <2>1. f = [k \in D |-> f[k]]
    <3>. HIDE DEF V, D
    <3>. QED
      OBVIOUS
  <2>2. Def(f) = [k \in D |-> IF k > n THEN [ok |-> TRUE, value |-> << >>]
                    ELSE IF ~NumAt(s, k).ok THEN [ok |-> FALSE, value |-> << >>]
                    ELSE [f[k + Len(PartAt(s, k)) + 1] EXCEPT !.value = << NumAt(s, k).value >> \o @]]
    BY Zenon DEF NumAt, PartAt
  <2>. DEFINE E(k) == IF k > n THEN [ok |-> TRUE, value |-> << >>]
                      ELSE IF ~NumAt(s, k).ok THEN [ok |-> FALSE, value |-> << >>]
                      ELSE [f[k + Len(PartAt(s, k)) + 1] EXCEPT !.value = << NumAt(s, k).value >> \o @]
  <2>3. \A k \in D : f[k] = E(k)
    <3>. HIDE DEF D, V, n
    <3>. QED
      BY ZenonT(60), <1>9
  <2>4. Def(f) = [k \in D |-> E(k)]
    BY ZenonT(60), <2>2
  <2>. HIDE DEF V, D, n, Def, E
  <2>. QED
    BY <2>1, <2>3, <2>4
<1>11. parse = Def(parse)
  <2>. HIDE DEF Def
  <2>. QED
    BY <1>10
<1>. HIDE DEF parse
<1>12. ASSUME NEW k \in 1 .. Len(s) + 2
       PROVE  parse[k] = IF k > Len(s) THEN [ok |-> TRUE, value |-> << >>]
                    ELSE IF ~NumAt(s, k).ok THEN [ok |-> FALSE, value |-> << >>]
                    ELSE [parse[k + Len(PartAt(s, k)) + 1] EXCEPT !.value = << NumAt(s, k).value >> \o @]
  <2>1. parse[k] = Def(parse)[k]
    BY ZenonT(60), <1>11
  <2>2. Def(parse)[k] = IF k > Len(s) THEN [ok |-> TRUE, value |-> << >>]
                    ELSE IF ~NumAt(s, k).ok THEN [ok |-> FALSE, value |-> << >>]
                    ELSE [parse[k + Len(PartAt(s, k)) + 1] EXCEPT !.value = << NumAt(s, k).value >> \o @]
    BY Zenon DEF NumAt, PartAt
  <2>. HIDE DEF Def
  <2>. QED
    BY Zenon, <2>1, <2>2
<1>13. Parses(s, parse)
  BY <1>12 DEF Parses
<1>. QED
  BY <1>1, <1>13

\* w is what is left of vec after its first i elements, whole or with the end of
\* its text cut off.
CutFrom(w, i, vec) ==
  /\ IntVector(w) /\ i + Len(w) <= Len(vec)
  /\ \A k \in 1 .. Len(w) : /\ Begins(ToText(w[k]), ToText(vec[i + k]))
                            /\ k < Len(w) => w[k] = vec[i + k]

WholeFrom(w, i, vec) == i + Len(w) = Len(vec) /\ \A k \in 1 .. Len(w) : w[k] = vec[i + k]

\* The answer of ParseVectorInt after i elements.
ParsedFrom(r, i, vec, full) ==
  \/ ~full /\ \E w : r = [ok |-> FALSE, value |-> w]
  \/ \E w : r = [ok |-> TRUE, value |-> w] /\ CutFrom(w, i, vec) /\ (full => WholeFrom(w, i, vec))

\* An element in front of a vector.
LEMMA PrependInt ==
  ASSUME NEW w, IntVector(w), NEW g, Small(g)
  PROVE  /\ IntVector(<< g >> \o w) /\ Len(<< g >> \o w) = Len(w) + 1 /\ Len(w) \in Nat
         /\ (<< g >> \o w)[1] = g
         /\ \A k \in 1 .. Len(w) : (<< g >> \o w)[k + 1] = w[k]
<1>. DEFINE x == << g >> \o w
<1>1. w \in Seq(Int) /\ g \in Int /\ Len(w) \in Nat
  BY DEF IntVector, Small
<1>2. /\ x \in Seq(Int) /\ Len(x) = Len(w) + 1 /\ x[1] = g
      /\ \A k \in 1 .. Len(w) : x[k + 1] = w[k]
  BY <1>1
<1>. HIDE DEF x
<1>3. ASSUME NEW j \in 1 .. Len(x) PROVE Small(x[j])
  <2>1. CASE j = 1
    BY <1>2, <2>1
  <2>2. CASE j # 1
    <3>. DEFINE k == j - 1
    <3>1. k \in 1 .. Len(w) /\ j = k + 1
      BY <1>1, <1>2, <2>2
    <3>. HIDE DEF k
    <3>. QED
      BY <1>2, <3>1 DEF IntVector
  <2>. QED
    BY <2>1, <2>2
<1>. QED
  BY <1>1, <1>2, <1>3 DEF IntVector, x

\* An element that was read whole.
LEMMA PrependWhole ==
  ASSUME NEW vec, IntVector(vec), NEW i \in Nat, i + 1 <= Len(vec), NEW w, CutFrom(w, i + 1, vec)
  PROVE  /\ CutFrom(<< vec[i + 1] >> \o w, i, vec)
         /\ WholeFrom(w, i + 1, vec) => WholeFrom(<< vec[i + 1] >> \o w, i, vec)
<1>. DEFINE g == vec[i + 1]
            x == << g >> \o w
<1>1. Len(vec) \in Nat /\ i + 1 \in 1 .. Len(vec) /\ Small(g) /\ IntVector(w)
  BY DEF IntVector, CutFrom
<1>. HIDE DEF g
<1>2. /\ IntVector(x) /\ Len(x) = Len(w) + 1 /\ Len(w) \in Nat /\ x[1] = g
      /\ \A k \in 1 .. Len(w) : x[k + 1] = w[k]
  BY <1>1, PrependInt
<1>. HIDE DEF x
<1>3. i + Len(x) <= Len(vec) /\ (i + Len(x) = Len(vec) <=> (i + 1) + Len(w) = Len(vec))
  BY <1>1, <1>2 DEF CutFrom
<1>4. ASSUME NEW j \in 1 .. Len(x)
      PROVE  \/ j = 1 /\ x[j] = vec[i + j]
             \/ \E k \in 1 .. Len(w) : j = k + 1 /\ x[j] = w[k] /\ i + j = (i + 1) + k
  <2>1. CASE j = 1
    BY <1>2, <2>1 DEF g
  <2>2. CASE j # 1
    <3>. DEFINE k == j - 1
    <3>1. k \in 1 .. Len(w) /\ j = k + 1 /\ i + j = (i + 1) + k
      BY <1>2, <2>2
    <3>. HIDE DEF k
    <3>. QED
      BY <1>2, <3>1
  <2>. QED
    BY <2>1, <2>2
<1>5. Begins(ToText(g), ToText(g))
  <2>1. Len(ToText(g)) \in Nat
    BY <1>1, ToTextIs
  <2>. QED
    BY <2>1 DEF Begins
<1>6. CutFrom(x, i, vec)
  <2>. SUFFICES ASSUME NEW j \in 1 .. Len(x)
                PROVE  Begins(ToText(x[j]), ToText(vec[i + j])) /\ (j < Len(x) => x[j] = vec[i + j])
    BY <1>2, <1>3 DEF CutFrom
  <2>1. CASE j = 1 /\ x[j] = vec[i + j]
    <3>1. x[j] = g
      BY <1>2, <2>1
    <3>. QED
      BY <1>5, <2>1, <3>1
  <2>2. CASE \E k \in 1 .. Len(w) : j = k + 1 /\ x[j] = w[k] /\ i + j = (i + 1) + k
    <3>1. PICK k \in 1 .. Len(w) : j = k + 1 /\ x[j] = w[k] /\ i + j = (i + 1) + k
      BY <2>2
    <3>2. j < Len(x) => k < Len(w)
      BY <1>2, <3>1
    <3>. QED
      BY <3>1, <3>2 DEF CutFrom
  <2>. QED
    BY <1>4, <2>1, <2>2
<1>7. ASSUME WholeFrom(w, i + 1, vec) PROVE WholeFrom(x, i, vec)
  <2>1. i + Len(x) = Len(vec)
    BY <1>3, <1>7 DEF WholeFrom
  <2>2. \A j \in 1 .. Len(x) : x[j] = vec[i + j]
    BY <1>4, <1>7 DEF WholeFrom
  <2>. QED
    BY <2>1, <2>2 DEF WholeFrom
<1>. QED
  BY <1>6, <1>7 DEF x, g

\* The last element that was read, whose text may be cut.
LEMMA PrependCut ==
  ASSUME NEW vec, IntVector(vec), NEW i \in Nat, i + 1 <= Len(vec), NEW g, Small(g),
         Begins(ToText(g), ToText(vec[i + 1]))
  PROVE  /\ CutFrom(<< g >> \o << >>, i, vec)
         /\ g = vec[i + 1] /\ i + 1 = Len(vec) => WholeFrom(<< g >> \o << >>, i, vec)
<1>. DEFINE e == << >>
            x == << g >> \o e
<1>1. Len(vec) \in Nat /\ IntVector(e) /\ Len(e) = 0
  BY DEF IntVector
<1>. HIDE DEF e
<1>2. IntVector(x) /\ Len(x) = 1 /\ x[1] = g
  <2>1. IntVector(x) /\ Len(x) = Len(e) + 1 /\ x[1] = g
    BY ZenonT(60), <1>1, PrependInt
  <2>. HIDE DEF x
  <2>. QED
    BY <1>1, <2>1
<1>. HIDE DEF x
<1>3. \A k \in 1 .. Len(x) : k = 1 /\ ~(k < Len(x))
  BY <1>2
<1>4. CutFrom(x, i, vec)
  BY <1>2, <1>3 DEF CutFrom
<1>5. g = vec[i + 1] /\ i + 1 = Len(vec) => WholeFrom(x, i, vec)
  BY <1>2, <1>3 DEF WholeFrom
<1>. QED
  BY <1>4, <1>5 DEF x, e

\* A reader of vec's text, which may be cut.
Parsing(vec, flat, s, parse) ==
  /\ IntVector(vec) /\ Flattens(Len(vec), IntParts(vec), flat)
  /\ s \in Strings /\ Begins(s, flat[Len(vec)]) /\ Parses(s, parse)

\* From the start of an element the text has the element and then, if it goes on,
\* a colon.
LEMMA ElementMatches ==
  ASSUME NEW vec, NEW flat, NEW s, NEW parse, Parsing(vec, flat, s, parse),
         NEW e \in 1 .. Len(vec), Start(flat, e) <= Len(s)
  PROVE  LET p == Start(flat, e)
             rest == SubSeq(s, p + 1, Len(s))
             t == ToText(vec[e])
         IN  /\ rest \in Strings /\ Len(rest) = Len(s) - p
             /\ Matches(rest, t \o << Colon >>)
             /\ Len(rest) > Len(t) => e < Len(vec)
<1>. DEFINE n == Len(vec)
            p == Start(flat, e)
            rest == SubSeq(s, p + 1, Len(s))
            t == ToText(vec[e])
            z == flat[n]
<1>1. /\ IntVector(vec) /\ Flattens(n, IntParts(vec), flat) /\ s \in Strings
      /\ n \in Nat /\ n \in 0 .. n /\ e \in 0 .. n /\ Small(vec[e])
  BY DEF Parsing, IntVector
<1>2. Len(s) \in Nat /\ Len(s) <= Len(z) /\ \A j \in 1 .. Len(s) : z[j] = s[j]
  BY <1>1, StringBytes DEF Parsing, Begins
<1>3. /\ p \in Nat /\ Len(flat[e]) = p + Len(t)
      /\ \A j \in 1 .. Len(t) : flat[e][p + j] = t[j]
  BY <1>1, ElementAt
<1>4. t \in Strings /\ Len(t) \in Nat
  BY <1>1, ToTextIs
<1>5. Begins(flat[e], z)
  BY <1>1, FlattenBegins
<1>. HIDE DEF p
<1>6. rest \in Strings /\ Len(rest) = Len(s) - p /\ \A k \in 1 .. Len(rest) : rest[k] = s[p + k]
  <2>1. p <= Len(s) /\ Len(s) <= Len(s)
    BY <1>2 DEF p
  <2>. QED
    BY <1>1, <1>2, <1>3, <2>1, StringPart
<1>. HIDE DEF rest, t, z
<1>7. /\ t \o << Colon >> \in Strings /\ Len(t \o << Colon >>) = Len(t) + 1
      /\ \A k \in 1 .. Len(t) : (t \o << Colon >>)[k] = t[k]
      /\ (t \o << Colon >>)[Len(t) + 1] = Colon
  <2>1. Colon \in Nat /\ Colon < ByteRange
    BY CodeFacts
  <2>. DEFINE C == << Colon >>
  <2>2. C \in Strings /\ Len(C) = 1 /\ C[1] = Colon /\ 1 \in 1 .. Len(C)
    BY <2>1, ByteString
  <2>. HIDE DEF C
  <2>3. /\ t \o C \in Strings /\ Len(t \o C) = Len(t) + Len(C)
        /\ \A k \in 1 .. Len(t) : (t \o C)[k] = t[k]
        /\ \A k \in 1 .. Len(C) : (t \o C)[Len(t) + k] = C[k]
    BY <1>4, <2>2, StringConcat
  <2>4. (t \o C)[Len(t) + 1] = Colon /\ Len(t \o C) = Len(t) + 1
    BY <2>2, <2>3
  <2>. QED
    BY <2>3, <2>4 DEF C
<1>8. ASSUME NEW k \in 1 .. Len(rest), k <= Len(t) PROVE rest[k] = t[k]
  <2>1. k \in 1 .. Len(t) /\ p + k \in 1 .. Len(s) /\ p + k \in 1 .. Len(flat[e])
    BY <1>2, <1>3, <1>4, <1>6, <1>8
  <2>2. flat[e][p + k] = t[k] /\ z[p + k] = flat[e][p + k] /\ z[p + k] = s[p + k]
    BY <1>2, <1>3, <1>5, <2>1 DEF Begins
  <2>. QED
    BY <1>6, <2>2
<1>9. ASSUME Len(rest) > Len(t) PROVE e < n /\ s[p + (Len(t) + 1)] = Colon
  <2>1. Len(s) > Len(flat[e]) /\ Len(flat[e]) \in Nat /\ p + (Len(t) + 1) = Len(flat[e]) + 1
    BY <1>2, <1>3, <1>4, <1>6, <1>9
  <2>2. e < n
    <3>1. e # n
      <4>. SUFFICES ASSUME e = n PROVE FALSE
        OBVIOUS
      <4>1. Len(flat[e]) = Len(z)
        BY DEF z
      <4>. QED
        BY <1>2, <2>1, <4>1
    <3>. QED
      BY <1>1, <3>1
  <2>. DEFINE f == e + 1
  <2>3. f \in 1 .. n /\ f \in 0 .. n /\ f > 1 /\ f - 1 = e
    BY <1>1, <2>2
  <2>. HIDE DEF f
  <2>4. /\ flat[f][Len(flat[f - 1]) + 1] = Colon /\ Start(flat, f) \in Nat
        /\ Len(flat[f]) = Start(flat, f) + Len(ToText(vec[f]))
    <3>1. f \in 1 .. Len(vec)
      BY <2>3
    <3>2. /\ Start(flat, f) \in Nat /\ Len(flat[f]) = Start(flat, f) + Len(ToText(vec[f]))
          /\ f > 1 => flat[f][Len(flat[f - 1]) + 1] = Colon
      BY <1>1, <3>1, ElementAt
    <3>. QED
      BY <2>3, <3>2
  <2>5. Begins(flat[f], z)
    BY <1>1, <2>3, FlattenBegins DEF z
  <2>6. Len(flat[e]) + 1 \in 1 .. Len(flat[f])
    <3>1. Start(flat, f) = Len(flat[e]) + 1
      BY <2>3 DEF Start
    <3>2. Small(vec[f])
      BY <1>1, <2>3 DEF IntVector
    <3>3. Len(ToText(vec[f])) \in Nat
      BY <3>2, ToTextIs
    <3>. DEFINE x == Len(flat[e])
                y == Len(flat[f])
                u == Len(ToText(vec[f]))
    <3>4. x \in Nat /\ u \in Nat /\ y = (x + 1) + u
      BY <2>1, <2>4, <3>1, <3>3
    <3>. HIDE DEF x, y, u
    <3>5. x + 1 \in 1 .. y
      BY <3>4
    <3>. QED
      BY <3>5 DEF x, y
  <2>7. z[Len(flat[e]) + 1] = Colon
    BY <2>3, <2>4, <2>5, <2>6 DEF Begins
  <2>8. Len(flat[e]) + 1 \in 1 .. Len(s)
    BY <1>2, <2>1
  <2>9. s[Len(flat[e]) + 1] = Colon
    BY <1>2, <2>7, <2>8
  <2>. QED
    BY <2>1, <2>2, <2>9
<1>10. Matches(rest, t \o << Colon >>)
  <2>. SUFFICES ASSUME NEW k \in 1 .. Len(rest), k <= Len(t) + 1 PROVE rest[k] = (t \o << Colon >>)[k]
    BY <1>7 DEF Matches
  <2>1. CASE k <= Len(t)
    <3>1. k \in 1 .. Len(t)
      BY <1>4, <2>1
    <3>. QED
      BY <1>7, <1>8, <2>1, <3>1
  <2>2. CASE ~(k <= Len(t))
    <3>1. k = Len(t) + 1 /\ Len(rest) > Len(t)
      <4>1. Len(rest) \in Nat
        BY <1>6, StringBytes
      <4>. QED
        BY <1>4, <2>2, <4>1
    <3>. QED
      BY <1>6, <1>7, <1>9, <3>1
  <2>. QED
    BY <2>1, <2>2
<1>. QED
  BY <1>6, <1>9, <1>10 DEF rest, t, p

\* What ParseVectorInt answers from element e on.
ParsedAt(vec, flat, s, parse, e) ==
  Start(flat, e) <= Len(s) + 1 =>
    ParsedFrom(parse[Start(flat, e) + 1], e - 1, vec, Len(s) = Len(flat[Len(vec)]))

\* An element is read as it was written when the ones after it are: one step of the parse.
LEMMA ParseElement ==
  ASSUME NEW vec, NEW flat, NEW s, NEW parse, Parsing(vec, flat, s, parse),
         NEW e \in 1 .. Len(vec), e < Len(vec) => ParsedAt(vec, flat, s, parse, e + 1)
  PROVE  ParsedAt(vec, flat, s, parse, e)
<1>. DEFINE n == Len(vec)
            p == Start(flat, e)
            from == p + 1
            i == e - 1
            t == ToText(vec[e])
            g0 == vec[e]
            full == Len(s) = Len(flat[n])
            nothing == [ok |-> TRUE, value |-> << >>]
<1>. SUFFICES ASSUME p <= Len(s) + 1 PROVE ParsedFrom(parse[from], i, vec, full)
  BY DEF ParsedAt
<1>1. /\ IntVector(vec) /\ Flattens(n, IntParts(vec), flat) /\ s \in Strings
      /\ n \in Nat /\ n \in 0 .. n /\ e \in 0 .. n /\ Small(g0) /\ e \in Nat
      /\ i \in Nat /\ e = i + 1 /\ i + 1 <= Len(vec)
  BY DEF Parsing, IntVector
<1>2. Len(s) \in Nat
  BY <1>1, StringBytes
<1>3. p \in Nat /\ flat[e] \in Strings /\ Len(flat[e]) = p + Len(t)
  BY <1>1, ElementAt
<1>4. t \in Strings /\ Len(t) \in Nat \ {0} /\ StoI(t) = [ok |-> TRUE, value |-> g0] /\ Lacks(t, Colon)
  BY <1>1, ToTextIs
<1>5. Len(flat[e]) <= Len(flat[n]) /\ Len(s) <= Len(flat[n]) /\ Len(flat[n]) \in Nat
  <2>1. Begins(flat[e], flat[n])
    BY <1>1, FlattenBegins
  <2>2. flat[n] \in Strings
    BY <1>1 DEF Flattens
  <2>3. Len(flat[n]) \in Nat
    BY <2>2, StringBytes
  <2>. QED
    BY <2>1, <2>3 DEF Begins, Parsing
<1>6. parse[from] = IF from > Len(s) THEN nothing
                    ELSE IF ~NumAt(s, from).ok THEN [ok |-> FALSE, value |-> << >>]
                    ELSE [parse[from + Len(PartAt(s, from)) + 1] EXCEPT !.value = << NumAt(s, from).value >> \o @]
  <2>1. from \in 1 .. Len(s) + 2
    BY SMTT(60), <1>2, <1>3
  <2>. HIDE DEF from
  <2>. QED
    BY Zenon, <2>1 DEF Parsing, Parses
<1>7. \A x \in 1 .. Len(s) + 2 : x > Len(s) => parse[x] = nothing
  BY Zenon DEF Parsing, Parses
<1>. HIDE DEF nothing
<1>8. CASE from > Len(s)
  <2>1. ~full
    BY <1>2, <1>3, <1>4, <1>5, <1>8
  <2>2. parse[from] = nothing
    BY Zenon, <1>6, <1>8
  <2>. DEFINE w == << >>
  <2>3. CutFrom(w, i, vec)
    BY <1>1 DEF CutFrom, IntVector
  <2>4. parse[from] = [ok |-> TRUE, value |-> w]
    BY <2>2 DEF nothing
  <2>. HIDE DEF w, full, i, from
  <2>. QED
    BY <2>1, <2>3, <2>4 DEF ParsedFrom
<1>9. CASE ~(from > Len(s))
  <2>. DEFINE rest == SubSeq(s, p + 1, Len(s))
  <2>0. p <= Len(s)
    BY <1>2, <1>3, <1>9
  <2>1. /\ rest \in Strings /\ Len(rest) = Len(s) - p
        /\ Matches(rest, t \o << Colon >>)
        /\ Len(rest) > Len(t) => e < n
    BY <2>0, ElementMatches
  <2>2. PartAt(s, from) = GetSliceUntil(rest, Colon).value
    BY DEF PartAt
  <2>. HIDE DEF rest, t
  <2>3. IF Len(rest) > Len(t) THEN GetSliceUntil(rest, Colon) = [value |-> t, used |-> Len(t) + 1]
        ELSE /\ GetSliceUntil(rest, Colon) = [value |-> rest, used |-> Len(rest)]
             /\ \A k \in 1 .. Len(rest) : rest[k] = t[k]
    <3>1. Colon \in Nat /\ Colon < ByteRange
      BY CodeFacts
    <3>2. \A k \in 1 .. Len(t) : t[k] # Colon
      BY <1>4 DEF Lacks
    <3>. QED
      BY <1>4, <2>1, <3>1, <3>2, SliceUntil
  <2>4. CASE Len(rest) > Len(t)
    <3>. DEFINE f == e + 1
                from2 == from + Len(t) + 1
                r == parse[from2]
    <3>1. PartAt(s, from) = t
      BY <2>2, <2>3, <2>4
    <3>2. NumAt(s, from) = [ok |-> TRUE, value |-> g0]
      BY <1>4, <3>1 DEF NumAt
    <3>3. NumAt(s, from).ok = TRUE /\ NumAt(s, from).value = g0
      BY <3>2
    <3>4. parse[from] = [r EXCEPT !.value = << g0 >> \o @]
      <4>. HIDE DEF g0, from
      <4>. QED
        BY Zenon, <1>6, <1>9, <3>1, <3>3
    <3>5. e < n
      BY <2>1, <2>4
    <3>6. Start(flat, f) = p + Len(t) + 1 /\ f - 1 = e
      <4>1. f # 1 /\ f - 1 = e
        BY <1>1
      <4>2. Start(flat, f) = Len(flat[e]) + 1
        <5>. HIDE DEF f
        <5>. QED
          BY <4>1 DEF Start
      <4>. QED
        BY <1>3, <4>1, <4>2 DEF t
    <3>7. Start(flat, f) <= Len(s) + 1 /\ Start(flat, f) + 1 = from2
      BY SMTT(60), <1>2, <1>3, <1>4, <2>1, <2>4, <3>6
    <3>8. ParsedFrom(r, e, vec, full)
      <4>1. ParsedAt(vec, flat, s, parse, f)
        BY <3>5
      <4>. HIDE DEF f, from2
      <4>. QED
        BY <3>6, <3>7, <4>1 DEF ParsedAt
    <3>. HIDE DEF r, full, from
    <3>9. CASE ~full /\ \E w : r = [ok |-> FALSE, value |-> w]
      <4>1. PICK w : r = [ok |-> FALSE, value |-> w]
        BY <3>9
      <4>2. parse[from] = [ok |-> FALSE, value |-> << g0 >> \o w]
        BY <3>4, <4>1
      <4>. HIDE DEF g0
      <4>. QED
        BY <3>9, <4>2 DEF ParsedFrom
    <3>10. CASE \E w : r = [ok |-> TRUE, value |-> w] /\ CutFrom(w, e, vec) /\ (full => WholeFrom(w, e, vec))
      <4>1. PICK w : r = [ok |-> TRUE, value |-> w] /\ CutFrom(w, e, vec) /\ (full => WholeFrom(w, e, vec))
        BY <3>10
      <4>. DEFINE x == << vec[i + 1] >> \o w
      <4>2. parse[from] = [ok |-> TRUE, value |-> x]
        <5>1. vec[i + 1] = g0
          BY <1>1
        <5>. HIDE DEF g0, i
        <5>. QED
          BY <3>4, <4>1, <5>1
      <4>3. CutFrom(x, i, vec) /\ (full => WholeFrom(x, i, vec))
        <5>1. CutFrom(w, i + 1, vec) /\ (full => WholeFrom(w, i + 1, vec))
          BY <1>1, <4>1
        <5>. HIDE DEF i
        <5>. QED
          BY <1>1, <5>1, PrependWhole
      <4>. HIDE DEF x, i
      <4>. QED
        BY <4>2, <4>3 DEF ParsedFrom
    <3>. QED
      BY <3>8, <3>9, <3>10 DEF ParsedFrom
  <2>5. CASE ~(Len(rest) > Len(t))
    <3>. DEFINE from2 == from + Len(rest) + 1
                r == StoI(rest)
    <3>1. PartAt(s, from) = rest /\ \A k \in 1 .. Len(rest) : rest[k] = t[k]
      BY <2>2, <2>3, <2>5
    <3>2. NumAt(s, from) = r
      BY <3>1 DEF NumAt
    <3>3. Len(rest) # 0 /\ Len(rest) <= Len(t)
      BY SMTT(60), <1>2, <1>3, <1>4, <1>9, <2>1, <2>5
    <3>4. CutNumber(rest, g0, r)
      <4>1. Begins(rest, ToText(g0))
        BY <3>1, <3>3 DEF Begins, t
      <4>. QED
        BY <1>1, <2>1, <3>3, <4>1, StoIPrefix
    <3>5. from2 \in 1 .. Len(s) + 2 /\ from2 > Len(s)
      BY SMTT(60), <1>2, <1>3, <2>1
    <3>6. parse[from2] = nothing
      BY <1>7, <3>5
    <3>. HIDE DEF r
    <3>7. CASE r.ok = FALSE /\ Len(rest) < Len(ToText(g0))
      <4>1. parse[from] = [ok |-> FALSE, value |-> << >>]
        BY Zenon, <1>6, <1>9, <3>2, <3>7
      <4>2. Len(rest) < Len(t)
        BY <3>7 DEF t
      <4>3. ~full
        BY <1>2, <1>3, <1>4, <1>5, <2>1, <4>2 DEF t
      <4>. HIDE DEF full, from
      <4>. QED
        BY <4>1, <4>3 DEF ParsedFrom
    <3>8. CASE \E g \in Int : /\ Small(g) /\ r = [ok |-> TRUE, value |-> g] /\ ToText(g) = rest
                              /\ Len(rest) = Len(ToText(g0)) => g = g0
      <4>1. PICK g \in Int : /\ Small(g) /\ r = [ok |-> TRUE, value |-> g] /\ ToText(g) = rest
                             /\ Len(rest) = Len(ToText(g0)) => g = g0
        BY <3>8
      <4>2. r.ok = TRUE /\ r.value = g
        BY <4>1
      <4>3. parse[from] = [nothing EXCEPT !.value = << g >> \o @]
        <5>. HIDE DEF from
        <5>1. ~(from > Len(s)) /\ NumAt(s, from).ok = TRUE /\ NumAt(s, from).value = g /\ PartAt(s, from) = rest
          BY <1>9, <3>1, <3>2, <4>2
        <5>2. parse[from] = [parse[from2] EXCEPT !.value = << g >> \o @]
          BY Zenon, <1>6, <5>1
        <5>. HIDE DEF from2
        <5>. QED
          BY Zenon, <3>6, <5>2
      <4>. DEFINE x == << g >> \o << >>
      <4>4. parse[from] = [ok |-> TRUE, value |-> x]
        <5>. HIDE DEF from
        <5>. QED
          BY <4>3 DEF nothing
      <4>5. Begins(ToText(g), ToText(vec[i + 1]))
        <5>1. vec[i + 1] = g0
          BY <1>1
        <5>. HIDE DEF g0, i
        <5>2. Begins(rest, ToText(g0))
          BY <3>1, <3>3 DEF Begins, t, g0
        <5>. QED
          BY <4>1, <5>1, <5>2
      <4>6. full => g = vec[i + 1] /\ i + 1 = Len(vec)
        <5>. SUFFICES ASSUME full PROVE g = vec[i + 1] /\ i + 1 = Len(vec)
          OBVIOUS
        <5>1. Len(rest) = Len(t) /\ Len(s) = Len(flat[e])
          BY SMTT(60), <1>2, <1>3, <1>4, <1>5, <2>1, <3>3 DEF t
        <5>2. g = g0
          BY <4>1, <5>1 DEF t
        <5>3. e = n
          <6>. SUFFICES ASSUME e # n PROVE FALSE
            OBVIOUS
          <6>. DEFINE f == e + 1
          <6>1. f \in 1 .. n /\ f \in 0 .. n /\ f # 1 /\ f - 1 = e /\ Small(vec[f])
            BY <1>1 DEF IntVector
          <6>. HIDE DEF f
          <6>2. Len(flat[f]) = Start(flat, f) + Len(ToText(vec[f])) /\ Start(flat, f) = Len(flat[e]) + 1
            <7>1. f \in 1 .. Len(vec)
              BY <6>1
            <7>2. Len(flat[f]) = Start(flat, f) + Len(ToText(vec[f]))
              BY <1>1, <7>1, ElementAt
            <7>. QED
              BY <6>1, <7>2 DEF Start
          <6>3. Len(ToText(vec[f])) \in Nat
            BY <6>1, ToTextIs
          <6>4. Len(flat[f]) <= Len(flat[n])
            <7>1. Begins(flat[f], flat[n])
              BY <1>1, <6>1, FlattenBegins
            <7>. QED
              BY <7>1 DEF Begins
          <6>. DEFINE a == Len(flat[e])
                      y == Len(flat[f])
                      z == Len(flat[n])
                      u == Len(ToText(vec[f]))
          <6>5. y = (a + 1) + u /\ u \in Nat /\ y <= z /\ z = a /\ a \in Nat
            BY <1>2, <5>1, <6>2, <6>3, <6>4
          <6>. HIDE DEF a, y, z, u
          <6>. QED
            BY <6>5
        <5>. QED
          BY <1>1, <5>2, <5>3
      <4>7. CutFrom(x, i, vec) /\ (full => WholeFrom(x, i, vec))
        <5>. HIDE DEF i, full
        <5>. QED
          BY <1>1, <4>1, <4>5, <4>6, PrependCut
      <4>. HIDE DEF x, i, full, from
      <4>. QED
        BY <4>4, <4>7 DEF ParsedFrom
    <3>. QED
      BY <3>4, <3>7, <3>8 DEF CutNumber
  <2>. QED
    BY <2>4, <2>5
<1>. QED
  BY <1>8, <1>9

\* What ParseVectorInt answers for a text cut anywhere.
LEMMA ParseText ==
  ASSUME NEW vec, IntVector(vec), NEW s \in Strings, Begins(s, SerializeIntVector(vec))
  PROVE  ParsedFrom(ParseVectorInt(s), 0, vec, Len(s) = Len(SerializeIntVector(vec)))
<1>. DEFINE n == Len(vec)
            z == 0
<1>1. PICK flat : n \in Nat /\ Flattens(n, IntParts(vec), flat) /\ SerializeIntVector(vec) = flat[n]
  BY SerializeIs
<1>2. PICK parse : ParseVectorInt(s) = parse[1] /\ Parses(s, parse)
  BY ParseSteps
<1>3. Parsing(vec, flat, s, parse)
  BY <1>1, <1>2 DEF Parsing
<1>4. Len(s) \in Nat
  BY StringBytes
<1>5. CASE n = 0
  <2>1. flat[n] = << >> /\ Len(flat[n]) = 0
    BY <1>1, <1>5 DEF Flattens
  <2>2. Len(s) = 0
    BY <1>1, <1>4, <2>1 DEF Begins
  <2>3. parse[1] = [ok |-> TRUE, value |-> << >>]
    <3>1. 1 \in 1 .. Len(s) + 2 /\ 1 > Len(s)
      BY <2>2
    <3>. QED
      BY Zenon, <1>2, <3>1 DEF Parses
  <2>. DEFINE w == << >>
  <2>4. CutFrom(w, 0, vec) /\ WholeFrom(w, 0, vec)
    BY <1>5 DEF CutFrom, WholeFrom, IntVector
  <2>. HIDE DEF w
  <2>5. ParseVectorInt(s) = [ok |-> TRUE, value |-> w]
    BY <1>2, <2>3 DEF w
  <2>. QED
    BY <2>4, <2>5 DEF ParsedFrom
<1>6. CASE n # 0
  <2>. DEFINE Q(e) == ParsedAt(vec, flat, s, parse, e)
              T == {d \in 0 .. n : d > 0 => Q(n + 1 - d)}
  <2>1. 0 \in T
    BY <1>1
  <2>2. ASSUME NEW d \in 1 .. n, d - 1 \in T PROVE d \in T
    <3>. DEFINE e == n + 1 - d
    <3>1. e \in 1 .. n /\ (e < n => d - 1 > 0) /\ n + 1 - (d - 1) = e + 1
      BY <1>1
    <3>2. e < n => Q(e + 1)
      BY <2>2, <3>1
    <3>3. e \in 1 .. Len(vec) /\ (e < Len(vec) => ParsedAt(vec, flat, s, parse, e + 1))
      BY <3>1, <3>2
    <3>. HIDE DEF e
    <3>4. ParsedAt(vec, flat, s, parse, e)
      BY <1>3, <3>3, ParseElement
    <3>. HIDE DEF Q
    <3>. QED
      BY <1>1, <3>4 DEF e, Q
  <2>3. 0 .. n \subseteq T
    <3>. HIDE DEF T, n
    <3>. QED
      BY <1>1, <2>1, <2>2, BoundedInduction
  <2>4. n \in T /\ n > 0 /\ n + 1 - n = 1
    BY <1>1, <1>6, <2>3
  <2>5. ParsedAt(vec, flat, s, parse, 1)
    BY <2>4
  <2>6. Start(flat, 1) = 0 /\ 0 + 1 = 1 /\ 1 - 1 = 0 /\ 0 <= Len(s) + 1
    BY <1>4 DEF Start
  <2>7. ParsedFrom(parse[1], 0, vec, Len(s) = Len(flat[n]))
    BY <2>5, <2>6 DEF ParsedAt
  <2>. QED
    BY <1>1, <1>2, <2>7
<1>. QED
  BY <1>5, <1>6

\* The two ways to say that a string starts another agree.
LEMMA BeginsIsPrefix ==
  ASSUME NEW s \in Strings, NEW t \in Strings, Begins(s, t)
  PROVE  IsPrefix(s, t)
<1>. DEFINE S == 0 .. ByteRange - 1
            m == Len(s)
            p == SubSeq(t, 1, m)
<1>1. t \in Seq(S) /\ m \in 0 .. Len(t)
  BY StringBytes DEF Strings, Begins
<1>. HIDE DEF S
<1>2. IsPrefix(p, t) /\ Len(p) = m /\ p \in Seq(S) /\ \A k \in 1 .. m : p[k] = t[k]
  BY <1>1, PrefixFacts
<1>3. p \in Strings
  BY <1>2 DEF S, Strings
<1>. HIDE DEF p
<1>4. s = p
  BY <1>2, <1>3, StringEqual DEF Begins
<1>. QED
  BY <1>2, <1>4

\* A beginning of b after a is a beginning of the whole.
LEMMA JoinedBegins ==
  ASSUME NEW a, NEW b, NEW c, NEW b2, NEW c2, Joined(a, b, c), Joined(a, b2, c2), Begins(b, b2)
  PROVE  Begins(c, c2) /\ (b = b2 => c = c2)
<1>1. Len(c) = Len(a) + Len(b) /\ Len(c2) = Len(a) + Len(b2) /\ Len(b) <= Len(b2) /\ Len(c) <= Len(c2)
  BY DEF Joined, Begins
<1>2. ASSUME NEW j \in 1 .. Len(c) PROVE c2[j] = c[j]
  <2>0. Len(a) \in Nat /\ Len(b) \in Nat /\ Len(b2) \in Nat
    BY DEF Joined
  <2>1. CASE j <= Len(a)
    <3>1. j \in 1 .. Len(a)
      BY <1>1, <2>0, <2>1
    <3>. QED
      BY <3>1 DEF Joined
  <2>2. CASE ~(j <= Len(a))
    <3>. DEFINE i == j - Len(a)
    <3>1. i \in 1 .. Len(b) /\ i \in 1 .. Len(b2) /\ j = Len(a) + i
      BY <1>1, <1>2, <2>0, <2>2
    <3>. HIDE DEF i
    <3>2. c[Len(a) + i] = b[i] /\ c2[Len(a) + i] = b2[i] /\ b2[i] = b[i]
      BY <3>1 DEF Joined, Begins
    <3>. QED
      BY <3>1, <3>2
  <2>. QED
    BY <2>1, <2>2
<1>3. b = b2 => c = c2
  <2>. SUFFICES ASSUME b = b2 PROVE c = c2
    OBVIOUS
  <2>1. Len(c) = Len(c2) /\ c \in Strings /\ c2 \in Strings
    BY <1>1 DEF Joined
  <2>. QED
    BY <1>2, <2>1, StringEqual
<1>. QED
  BY <1>1, <1>2, <1>3 DEF Begins

\* A beginning of a beginning is a beginning.
LEMMA BeginsTransitive ==
  ASSUME NEW a \in Strings, NEW b \in Strings, NEW c \in Strings, Begins(a, b), Begins(b, c)
  PROVE  Begins(a, c)
<1>1. Len(a) \in Nat /\ Len(b) \in Nat /\ Len(c) \in Nat
  BY StringBytes
<1>. QED
  BY <1>1 DEF Begins

\* A cut number cuts the element that holds it.
LEMMA PartBegins ==
  ASSUME NEW vec, NEW w, NEW k \in Nat, Small(vec[k]), Small(w[k]), Begins(ToText(w[k]), ToText(vec[k]))
  PROVE  Begins(IntPart(w, k), IntPart(vec, k))
<1>. DEFINE a == ToText(w[k])
            b == ToText(vec[k])
            p == IntPart(w, k)
            q == IntPart(vec, k)
<1>1. CASE k > 1
  <2>1. /\ Len(p) = Len(a) + 1 /\ Len(q) = Len(b) + 1 /\ p[1] = Colon /\ q[1] = Colon
        /\ \A j \in 1 .. Len(a) : p[j + 1] = a[j]
        /\ \A j \in 1 .. Len(b) : q[j + 1] = b[j]
    BY <1>1, IntPartIs
  <2>2. Len(a) \in Nat /\ Len(b) \in Nat /\ Len(a) <= Len(b) /\ \A j \in 1 .. Len(a) : b[j] = a[j]
    BY ToTextIs DEF Begins
  <2>. HIDE DEF a, b, p, q
  <2>3. Len(p) <= Len(q)
    BY <2>1, <2>2
  <2>4. ASSUME NEW j \in 1 .. Len(p) PROVE q[j] = p[j]
    <3>1. CASE j = 1
      BY <2>1, <3>1
    <3>2. CASE j # 1
      <4>. DEFINE i == j - 1
      <4>1. i \in 1 .. Len(a) /\ i \in 1 .. Len(b) /\ j = i + 1
        BY <2>1, <2>2, <2>4, <3>2
      <4>. HIDE DEF i
      <4>. QED
        BY <2>1, <2>2, <4>1
    <3>. QED
      BY <3>1, <3>2
  <2>5. Begins(p, q)
    BY <2>3, <2>4 DEF Begins
  <2>. QED
    BY <2>5 DEF p, q
<1>2. CASE ~(k > 1)
  <2>1. p = a /\ q = b
    BY <1>2, IntPartIs
  <2>. QED
    BY <2>1
<1>. QED
  BY <1>1, <1>2

\* A list cut in its last number is written as a beginning of the whole list's text.
LEMMA CutPrefix ==
  ASSUME NEW vec, IntVector(vec), NEW w, CutFrom(w, 0, vec)
  PROVE  IsPrefix(SerializeIntVector(w), SerializeIntVector(vec))
<1>. DEFINE m == Len(w)
            n == Len(vec)
<1>1. /\ IntVector(w) /\ m \in Nat /\ n \in Nat /\ m <= n
      /\ SerializeIntVector(w) \in Strings /\ SerializeIntVector(vec) \in Strings
  <2>1. IntVector(w) /\ 0 + m <= n
    BY DEF CutFrom
  <2>. QED
    BY <2>1, SerializeIs
<1>2. PICK fw : Flattens(m, IntParts(w), fw) /\ SerializeIntVector(w) = fw[m]
  BY <1>1, SerializeIs
<1>3. PICK fv : Flattens(n, IntParts(vec), fv) /\ SerializeIntVector(vec) = fv[n]
  BY SerializeIs
<1>. DEFINE T == {k \in 0 .. m : Begins(fw[k], fv[k]) /\ (k < m => fw[k] = fv[k])}
<1>4. 0 \in T
  <2>1. fw[0] = << >> /\ fv[0] = << >>
    BY <1>2, <1>3 DEF Flattens
  <2>2. 0 \in 0 .. m
    BY <1>1
  <2>3. Begins(<< >>, << >>)
    BY DEF Begins
  <2>. QED
    BY <2>1, <2>2, <2>3
<1>5. ASSUME NEW k \in 1 .. m, k - 1 \in T PROVE k \in T
  <2>1. /\ k \in 0 .. m /\ k \in 1 .. n /\ k - 1 < m /\ k \in Nat /\ 0 + k = k
    BY <1>1
  <2>2. fw[k - 1] = fv[k - 1]
    BY <1>5, <2>1
  <2>3. Joined(fw[k - 1], IntParts(w)[k], fw[k])
    BY <1>1, <1>2, FlattenGrows
  <2>4. Joined(fv[k - 1], IntParts(vec)[k], fv[k])
    BY <1>1, <1>3, <2>1, FlattenGrows
  <2>5. IntParts(w)[k] = IntPart(w, k) /\ IntParts(vec)[k] = IntPart(vec, k)
    BY <2>1 DEF IntParts
  <2>6. Begins(ToText(w[k]), ToText(vec[k])) /\ (k < m => w[k] = vec[k])
    <3>1. Begins(ToText(w[k]), ToText(vec[0 + k])) /\ (k < m => w[k] = vec[0 + k])
      BY DEF CutFrom
    <3>. QED
      BY <2>1, <3>1
  <2>7. Small(w[k]) /\ Small(vec[k])
    BY <1>1, <2>1 DEF IntVector
  <2>8. Begins(IntPart(w, k), IntPart(vec, k))
    BY <2>1, <2>6, <2>7, PartBegins
  <2>9. k < m => IntPart(w, k) = IntPart(vec, k)
    BY <2>6 DEF IntPart
  <2>10. Begins(fw[k], fv[k]) /\ (IntPart(w, k) = IntPart(vec, k) => fw[k] = fv[k])
    BY <2>2, <2>3, <2>4, <2>5, <2>8, JoinedBegins
  <2>. QED
    BY <2>1, <2>9, <2>10
<1>. HIDE DEF T
<1>6. m \in T
  <2>1. 0 .. m \subseteq T
    BY <1>1, <1>4, <1>5, BoundedInduction
  <2>. QED
    BY <1>1, <2>1
<1>7. Begins(fw[m], fv[m])
  BY <1>6 DEF T
<1>8. Begins(fv[m], fv[n])
  <2>1. n \in 0 .. n /\ m \in 0 .. n
    BY <1>1
  <2>. QED
    BY <1>1, <1>3, <2>1, FlattenBegins
<1>9. fw[m] \in Strings /\ fv[m] \in Strings /\ fv[n] \in Strings
  <2>1. m \in 0 .. m /\ m \in 0 .. n /\ n \in 0 .. n
    BY <1>1
  <2>. QED
    BY <1>2, <1>3, <2>1 DEF Flattens
<1>10. Begins(fw[m], fv[n])
  BY <1>7, <1>8, <1>9, BeginsTransitive
<1>. QED
  BY <1>2, <1>3, <1>9, <1>10, BeginsIsPrefix

\* A list that agrees with another in length and in every element is that list.
LEMMA WholeIs ==
  ASSUME NEW vec, IntVector(vec), NEW w, IntVector(w), WholeFrom(w, 0, vec)
  PROVE  w = vec
<1>1. w \in Seq(Int) /\ vec \in Seq(Int)
  BY DEF IntVector
<1>2. Len(w) \in Nat /\ Len(vec) \in Nat
  BY <1>1
<1>3. Len(w) = Len(vec)
  BY <1>2 DEF WholeFrom
<1>4. ASSUME NEW k \in 1 .. Len(w) PROVE w[k] = vec[k]
  <2>1. w[k] = vec[0 + k] /\ 0 + k = k
    BY DEF WholeFrom
  <2>. QED
    BY <2>1
<1>. QED
  BY SMTT(60), <1>1, <1>3, <1>4

\* A list read back, whole or cut.
LEMMA IntsReads ==
  ASSUME NEW v, IntVector(v), NEW s \in Strings, Matches(s, SerializeIntVector(v) \o << LF >>)
  PROVE  TextRead("ints", v, Len(SerializeIntVector(v)) + 1, s, GetInts(s))
<1>. DEFINE t == SerializeIntVector(v)
            L == Len(t)
            n == Len(s)
            r == GetInts(s)
            text == GetSliceUntil(s, LF)
            a == ParseVectorInt(text.value)
<1>1. t \in Strings /\ L \in Nat /\ n \in Nat /\ (L + 1) - 1 = L /\ Lacks(t, LF)
  <2>1. t \in Strings /\ Lacks(t, LF)
    BY SerializeIs
  <2>2. L \in Nat /\ n \in Nat
    <3>. HIDE DEF t
    <3>. QED
      BY <2>1, StringBytes
  <2>. HIDE DEF t, L
  <2>. QED
    BY <2>1, <2>2
<1>2. IF n > L THEN text = [value |-> t, used |-> L + 1]
      ELSE text = [value |-> s, used |-> n] /\ \A k \in 1 .. n : s[k] = t[k]
  <2>1. LF \in Nat /\ LF < ByteRange
    BY CodeFacts
  <2>2. \A k \in 1 .. Len(t) : t[k] # LF
    BY <1>1 DEF Lacks
  <2>. HIDE DEF t
  <2>. QED
    BY <1>1, <2>1, <2>2, SliceUntil DEF t
<1>3. r = Taking(a, text.used)
  BY DEF GetInts
<1>4. \A u \in Strings : Begins(u, t) => ParsedFrom(ParseVectorInt(u), 0, v, Len(u) = L)
  BY ParseText
<1>. HIDE DEF t, L, r, text, a
<1>5. ASSUME NEW w, a = [ok |-> TRUE, value |-> w] PROVE Reads(r, w, text.used)
  BY <1>3, <1>5 DEF Reads, Taking
<1>6. ASSUME NEW w, a = [ok |-> FALSE, value |-> w], text.used \in 0 .. n PROVE RefusesAfter(r, s)
  BY <1>3, <1>6 DEF RefusesAfter, Taking, n
<1>7. CASE n >= L
  <2>1. text.value \in Strings /\ Begins(text.value, t) /\ Len(text.value) = L
    <3>1. CASE n > L
      <4>1. text.value = t
        BY <1>2, <3>1
      <4>. QED
        BY <1>1, <4>1 DEF Begins, L
    <3>2. CASE ~(n > L)
      <4>1. text.value = s /\ n = L /\ \A k \in 1 .. n : s[k] = t[k]
        BY <1>1, <1>2, <1>7, <3>2
      <4>. QED
        BY <1>1, <4>1 DEF Begins, L
    <3>. QED
      BY <3>1, <3>2
  <2>2. ParsedFrom(a, 0, v, TRUE)
    <3>1. ParsedFrom(ParseVectorInt(text.value), 0, v, Len(text.value) = L)
      BY <1>4, <2>1
    <3>2. (Len(text.value) = L) = TRUE
      BY <2>1
    <3>. QED
      BY <3>1, <3>2 DEF a
  <2>3. PICK w : a = [ok |-> TRUE, value |-> w] /\ CutFrom(w, 0, v) /\ WholeFrom(w, 0, v)
    BY <2>2 DEF ParsedFrom
  <2>4. w = v
    BY <2>3, WholeIs DEF CutFrom
  <2>5. text.used = IF n >= L + 1 THEN L + 1 ELSE n
    <3>1. n > L <=> n >= L + 1
      BY <1>1
    <3>. QED
      BY <1>2, <3>1
  <2>6. Reads(r, v, text.used)
    BY <1>5, <2>3, <2>4
  <2>7. n >= (L + 1) - 1
    BY <1>1, <1>7
  <2>. QED
    BY <2>5, <2>6, <2>7 DEF TextRead, L, t, n, r
<1>8. CASE n < L
  <2>1. ~(n > L) /\ ~(n >= (L + 1) - 1)
    BY <1>1, <1>8
  <2>2. text.value = s /\ text.used = n /\ \A k \in 1 .. n : s[k] = t[k]
    BY <1>2, <2>1
  <2>3. Begins(s, t)
    BY <1>1, <1>8, <2>2 DEF Begins, L
  <2>4. ParsedFrom(a, 0, v, n = L)
    BY <1>4, <2>2, <2>3 DEF a
  <2>5. \/ \E w : a = [ok |-> FALSE, value |-> w]
        \/ \E w : a = [ok |-> TRUE, value |-> w] /\ CutFrom(w, 0, v)
    BY <2>4 DEF ParsedFrom
  <2>6. text.used \in 0 .. n
    BY <1>1, <2>2
  <2>7. CASE \E w : a = [ok |-> FALSE, value |-> w]
    <3>1. RefusesAfter(r, s)
      BY <1>6, <2>6, <2>7
    <3>. QED
      BY <2>1, <3>1 DEF TextRead, L, t, n, r
  <2>8. CASE \E w : a = [ok |-> TRUE, value |-> w] /\ CutFrom(w, 0, v)
    <3>1. PICK g : a = [ok |-> TRUE, value |-> g] /\ CutFrom(g, 0, v)
      BY <2>8
    <3>2. Reads(r, g, n)
      BY <1>5, <2>2, <3>1
    <3>3. IsPrefix(SerializeIntVector(g), SerializeIntVector(v))
      BY <3>1, CutPrefix
    <3>4. Written("ints", g) = SerializeIntVector(g) /\ Written("ints", v) = SerializeIntVector(v)
      BY DEF Written
    <3>. QED
      BY <2>1, <3>2, <3>3, <3>4 DEF TextRead, L, t, n, r
  <2>. QED
    BY <2>5, <2>7, <2>8
<1>. QED
  BY <1>1, <1>7, <1>8

-----------------------------------------------------------------------------
(***************************************************************************)
(* The items of a stream: their encodings, and what a reader makes of each. *)
(***************************************************************************)
\* The number of bytes of the first n items of a sequence.
SumTo(its, n) ==
  LET sum[k \in 0 .. n] == IF k = 0 THEN 0 ELSE sum[k - 1] + ItemLength(its[k]) IN sum[n]

\* The sum of lengths exists and grows by one length at a time.
LEMMA SumExists ==
  ASSUME NEW its, NEW n \in Nat, \A k \in 1 .. n : ItemLength(its[k]) \in Nat
  PROVE  \E f \in [0 .. n -> Nat] :
           f[0] = 0 /\ \A k \in 1 .. n : f[k] = f[k - 1] + ItemLength(its[k])
<1>. DEFINE G == [k \in 1 .. n |-> [v \in Nat |-> v + ItemLength(its[k])]]
            V == Nat
            v0 == 0
<1>1. \A k \in 1 .. n : \A v \in Nat : G[k][v] \in Nat /\ G[k][v] = v + ItemLength(its[k])
  OBVIOUS
<1>. HIDE DEF G
<1>2. StepsIn(n, V, G) /\ v0 \in V
  BY <1>1 DEF StepsIn
<1>. HIDE DEF V, v0
<1>3. PICK f \in [0 .. n -> V] : f[0] = v0 /\ \A k \in 1 .. n : f[k] = G[k][f[k - 1]]
  BY <1>2, LinearRecursion
<1>4. f \in [0 .. n -> Nat] /\ f[0] = 0
  BY <1>3 DEF V, v0
<1>5. ASSUME NEW k \in 1 .. n PROVE f[k] = f[k - 1] + ItemLength(its[k])
  <2>1. k - 1 \in 0 .. n
    OBVIOUS
  <2>2. f[k - 1] \in Nat
    BY <1>4, <2>1
  <2>. QED
    BY <1>1, <1>3, <2>2
<1>. QED
  BY <1>4, <1>5

\* A running sum of the items' lengths is the one that SumTo defines.
LEMMA SumIs ==
  ASSUME NEW its, NEW n \in Nat, NEW f \in [0 .. n -> Nat],
         f[0] = 0, \A k \in 1 .. n : f[k] = f[k - 1] + ItemLength(its[k])
  PROVE  SumTo(its, n) = f[n]
<1>. DEFINE Def(h) == [k \in 0 .. n |-> IF k = 0 THEN 0 ELSE h[k - 1] + ItemLength(its[k])]
            sum == CHOOSE h : h = Def(h)
<1>1. SumTo(its, n) = sum[n]
  BY Zenon DEF SumTo
<1>2. \A k \in 0 .. n : k = 0 \/ k \in 1 .. n
  OBVIOUS
<1>3. f = Def(f)
  <2>1. f = [k \in 0 .. n |-> f[k]]
    OBVIOUS
  <2>2. \A k \in 0 .. n : f[k] = IF k = 0 THEN 0 ELSE f[k - 1] + ItemLength(its[k])
    BY <1>2
  <2>. QED
    BY <2>1, <2>2
<1>4. sum = Def(sum)
  BY <1>3
<1>. HIDE DEF sum
<1>5. \A k \in 0 .. n : sum[k] = IF k = 0 THEN 0 ELSE sum[k - 1] + ItemLength(its[k])
  BY <1>4
<1>. DEFINE T == {k \in 0 .. n : sum[k] = f[k]}
<1>6. 0 \in T
  BY <1>5
<1>7. ASSUME NEW k \in 1 .. n, k - 1 \in T PROVE k \in T
  <2>1. k \in 0 .. n /\ k # 0
    OBVIOUS
  <2>2. sum[k] = sum[k - 1] + ItemLength(its[k])
    BY <1>5, <2>1
  <2>. QED
    BY <1>7, <2>1, <2>2
<1>. HIDE DEF T
<1>8. n \in T
  <2>1. 0 .. n \subseteq T
    BY <1>6, <1>7, BoundedInduction
  <2>. QED
    BY <2>1
<1>. QED
  BY <1>1, <1>8 DEF T

\* SumTo starts at zero and adds the length of one item at a time.
LEMMA SumSteps ==
  ASSUME NEW its, NEW n \in Nat, \A k \in 1 .. n : ItemLength(its[k]) \in Nat
  PROVE  /\ SumTo(its, 0) = 0
         /\ \A k \in 0 .. n : SumTo(its, k) \in Nat
         /\ \A k \in 1 .. n : SumTo(its, k) = SumTo(its, k - 1) + ItemLength(its[k])
<1>1. PICK f \in [0 .. n -> Nat] :
        f[0] = 0 /\ \A k \in 1 .. n : f[k] = f[k - 1] + ItemLength(its[k])
  BY SumExists
<1>2. ASSUME NEW m \in 0 .. n PROVE SumTo(its, m) = f[m] /\ f[m] \in Nat
  <2>. DEFINE h == [k \in 0 .. m |-> f[k]]
  <2>1. m \in Nat /\ 0 \in 0 .. m /\ m \in 0 .. m
    OBVIOUS
  <2>2. \A k \in 0 .. m : k \in 0 .. n /\ h[k] = f[k] /\ f[k] \in Nat
    OBVIOUS
  <2>3. h \in [0 .. m -> Nat]
    BY <2>2
  <2>4. \A k \in 1 .. m : k \in 1 .. n /\ k \in 0 .. m /\ k - 1 \in 0 .. m
    OBVIOUS
  <2>. HIDE DEF h
  <2>5. h[0] = 0 /\ \A k \in 1 .. m : h[k] = h[k - 1] + ItemLength(its[k])
    BY <1>1, <2>1, <2>2, <2>4
  <2>6. SumTo(its, m) = h[m]
    BY ZenonT(60), <2>1, <2>3, <2>5, SumIs
  <2>. QED
    BY <2>1, <2>2, <2>6
<1>3. 0 \in 0 .. n /\ \A k \in 1 .. n : k \in 0 .. n /\ k - 1 \in 0 .. n
  OBVIOUS
<1>. QED
  BY <1>1, <1>2, <1>3

\* The sum up to n depends on the first n items only.
LEMMA SumSame ==
  ASSUME NEW its, NEW its2, NEW n \in Nat, \A k \in 1 .. n : its2[k] = its[k] /\ ItemLength(its[k]) \in Nat
  PROVE  \A k \in 0 .. n : SumTo(its2, k) = SumTo(its, k)
<1>1. \A k \in 1 .. n : ItemLength(its2[k]) \in Nat /\ ItemLength(its2[k]) = ItemLength(its[k])
  OBVIOUS
<1>2. /\ SumTo(its, 0) = 0 /\ SumTo(its2, 0) = 0
      /\ \A k \in 1 .. n : /\ SumTo(its, k) = SumTo(its, k - 1) + ItemLength(its[k])
                           /\ SumTo(its2, k) = SumTo(its2, k - 1) + ItemLength(its2[k])
  BY <1>1, SumSteps
<1>. DEFINE T == {k \in 0 .. n : SumTo(its2, k) = SumTo(its, k)}
<1>3. 0 \in T
  BY <1>2
<1>4. ASSUME NEW k \in 1 .. n, k - 1 \in T PROVE k \in T
  BY <1>1, <1>2, <1>4
<1>. HIDE DEF T
<1>5. 0 .. n \subseteq T
  BY <1>3, <1>4, BoundedInduction
<1>. QED
  BY <1>5 DEF T

\* The slices that can be written: their length fits 32 bits.
Sliced == {v \in Strings : Len(v) < UInt32}

\* What a reader gets for the value of an item.
ValueOf(kind, v) == IF kind = "key" THEN KeyOf(v) ELSE v

\* Why an item of L bytes may be refused: not all of it is there, or it is a number
\* that does not fit 64 bits.
MayRefuse(kind, v, L, s) == Len(s) < L \/ (kind = "decimal" /\ v >= UInt64)

\* The answers that a reader of s may get for an item of L bytes: its value; for a
\* text that is cut, a value whose text is a beginning of it, and the value itself
\* if only the delimiter is missing; or a refusal that takes nothing, or something
\* of a slice, a key or a text.
ReadWhole(kind, v, L, s, r) == Len(s) >= L /\ Reads(r, ValueOf(kind, v), L)
ReadCut(kind, v, L, s, r) ==
  /\ kind \in TextKinds /\ Len(s) < L
  /\ \E g : /\ Reads(r, g, Len(s))
            /\ Len(s) >= L - 1 => g = v
            /\ IsPrefix(Written(kind, g), Written(kind, v))
Refused(kind, v, L, s, r) ==
  /\ MayRefuse(kind, v, L, s)
  /\ Refuses(r) \/ (kind \in {"slice", "key"} \cup TextKinds /\ RefusesAfter(r, s))

Answers(kind, v, L, s, r) ==
  ReadWhole(kind, v, L, s, r) \/ ReadCut(kind, v, L, s, r) \/ Refused(kind, v, L, s, r)

\* enc is an encoding of a value, of the length predicted for it, that a reader of
\* the kind understands.
Understood(kind, v, enc) ==
  /\ enc \in Strings /\ Len(enc) \in Nat \ {0}
  /\ Len(enc) = ItemLength([kind |-> kind, value |-> v])
  /\ \A s \in Strings : Matches(s, enc) => Answers(kind, v, Len(enc), s, Decode(kind, s))

\* A fixed-width integer: its encoding has the width, GetFixed returns it whole and refuses a cut.
LEMMA FixedUnderstood ==
  ASSUME NEW kind, NEW n \in Nat \ {0}, NEW v \in 0 .. Bits(n) - 1, kind \notin TextKinds \cup {"key"},
         ItemLength([kind |-> kind, value |-> v]) = n,
         \A s \in Strings : Decode(kind, s) = GetFixed(s, n)
  PROVE  Understood(kind, v, EncodeFixed(v, n))
<1>. DEFINE enc == EncodeFixed(v, n)
<1>1. enc \in Strings /\ Len(enc) = n /\ v \in Nat /\ n \in Nat
  BY EncodeFixedBytes, ByteFacts
<1>2. ASSUME NEW s \in Strings, Matches(s, enc) PROVE Answers(kind, v, n, s, Decode(kind, s))
  <2>1. IF Len(s) >= n THEN Reads(GetFixed(s, n), v, n) ELSE Refuses(GetFixed(s, n))
    BY <1>1, <1>2, FixedReads
  <2>2. Len(s) \in Nat
    BY StringBytes
  <2>3. Decode(kind, s) = GetFixed(s, n) /\ ValueOf(kind, v) = v
    BY DEF ValueOf
  <2>4. CASE Len(s) >= n
    BY <2>1, <2>3, <2>4 DEF Answers, ReadWhole
  <2>5. CASE ~(Len(s) >= n)
    <3>1. Len(s) < n
      BY <2>2, <2>5
    <3>. QED
      BY <2>1, <2>3, <2>5, <3>1 DEF Answers, Refused, MayRefuse
  <2>. QED
    BY <2>4, <2>5
<1>. HIDE DEF enc
<1>3. Understood(kind, v, enc)
  BY <1>1, <1>2 DEF Understood
<1>. QED
  BY <1>3 DEF enc

\* PutFixed16 and GetFixed16.
LEMMA Fixed16Item ==
  ASSUME NEW v \in Values16 PROVE Understood("fixed16", v, EncodeFixed(v, Bytes16))
<1>1. Bytes16 \in Nat \ {0} /\ v \in 0 .. Bits(Bytes16) - 1
  BY WidthAssumption, ValueAssumption DEF UInt16
<1>2. ItemLength([kind |-> "fixed16", value |-> v]) = Bytes16 /\ "fixed16" \notin TextKinds \cup {"key"}
  BY DEF ItemLength, TextKinds
<1>3. \A s \in Strings : Decode("fixed16", s) = GetFixed(s, Bytes16)
  BY DEF Decode
<1>. QED
  BY <1>1, <1>2, <1>3, FixedUnderstood

\* PutFixed32 and GetFixed32.
LEMMA Fixed32Item ==
  ASSUME NEW v \in Values32 PROVE Understood("fixed32", v, EncodeFixed(v, Bytes32))
<1>1. Bytes32 \in Nat \ {0} /\ v \in 0 .. Bits(Bytes32) - 1
  BY WidthAssumption, ValueAssumption DEF UInt32
<1>2. ItemLength([kind |-> "fixed32", value |-> v]) = Bytes32 /\ "fixed32" \notin TextKinds \cup {"key"}
  BY DEF ItemLength, TextKinds
<1>3. \A s \in Strings : Decode("fixed32", s) = GetFixed(s, Bytes32)
  BY DEF Decode
<1>. QED
  BY <1>1, <1>2, <1>3, FixedUnderstood

\* PutFixed64 and GetFixed64.
LEMMA Fixed64Item ==
  ASSUME NEW v \in Values64 PROVE Understood("fixed64", v, EncodeFixed(v, Bytes64))
<1>1. Bytes64 \in Nat \ {0} /\ v \in 0 .. Bits(Bytes64) - 1
  BY ByteFacts, ValueAssumption DEF UInt64
<1>2. ItemLength([kind |-> "fixed64", value |-> v]) = Bytes64 /\ "fixed64" \notin TextKinds \cup {"key"}
  BY DEF ItemLength, TextKinds
<1>3. \A s \in Strings : Decode("fixed64", s) = GetFixed(s, Bytes64)
  BY DEF Decode
<1>. QED
  BY <1>1, <1>2, <1>3, FixedUnderstood

\* The big endian integer is swapped when it is put and swapped back when it is read.
LEMMA Swapped64Item ==
  ASSUME NEW v \in Values64
  PROVE  Understood("swapped64", v, EncodeFixed(EndianSwapValue(v, Bytes64), Bytes64))
<1>. DEFINE n == Bytes64
            x == EndianSwapValue(v, n)
            enc == EncodeFixed(x, n)
<1>1. n \in Nat \ {0} /\ v \in 0 .. Bits(n) - 1 /\ v \in Nat
  BY ByteFacts, ValueAssumption DEF UInt64
<1>2. ItemLength([kind |-> "swapped64", value |-> v]) = n /\ ValueOf("swapped64", v) = v
  BY DEF ItemLength, ValueOf
<1>3. x \in 0 .. Bits(n) - 1 /\ EndianSwapValue(x, n) = v
  BY <1>1, SwapTwice
<1>4. ASSUME NEW s \in Strings
      PROVE  Decode("swapped64", s) = LET r == GetFixed(s, n)
                                      IN  IF r.ok THEN [r EXCEPT !.value = EndianSwapValue(@, n)] ELSE r
  BY DEF Decode
<1>. HIDE DEF n, x
<1>5. enc \in Strings /\ Len(enc) = n
  <2>1. x \in Nat
    BY <1>1, <1>3, ByteFacts
  <2>. QED
    BY <1>1, <2>1, EncodeFixedBytes
<1>6. ASSUME NEW s \in Strings, Matches(s, enc) PROVE Answers("swapped64", v, n, s, Decode("swapped64", s))
  <2>. DEFINE r == GetFixed(s, n)
              d == Decode("swapped64", s)
  <2>1. IF Len(s) >= n THEN Reads(r, x, n) ELSE Refuses(r)
    BY <1>1, <1>3, <1>6, FixedReads
  <2>2. Len(s) \in Nat
    BY StringBytes
  <2>3. CASE Len(s) >= n
    <3>1. r = [ok |-> TRUE, value |-> DecodeFixed(s, n), used |-> n]
      <4>1. ~(Len(s) < n)
        BY <1>1, <2>2, <2>3
      <4>. QED
        BY <4>1 DEF GetFixed
    <3>2. DecodeFixed(s, n) = x
      BY <2>1, <2>3, <3>1 DEF Reads
    <3>3. d = [[ok |-> TRUE, value |-> x, used |-> n] EXCEPT !.value = EndianSwapValue(@, n)]
      <4>1. d = IF r.ok THEN [r EXCEPT !.value = EndianSwapValue(@, n)] ELSE r
        BY <1>4
      <4>2. r = [ok |-> TRUE, value |-> x, used |-> n] /\ r.ok
        BY <3>1, <3>2
      <4>. HIDE DEF d, r
      <4>3. d = [r EXCEPT !.value = EndianSwapValue(@, n)]
        BY <4>1, <4>2
      <4>. QED
        BY <4>2, <4>3
    <3>4. d = [ok |-> TRUE, value |-> EndianSwapValue(x, n), used |-> n]
      BY <3>3
    <3>5. Reads(d, v, n)
      BY <1>3, <3>4 DEF Reads
    <3>. QED
      BY <1>2, <2>3, <3>5 DEF Answers, ReadWhole
  <2>4. CASE ~(Len(s) >= n)
    <3>1. Len(s) < n
      BY <1>1, <2>2, <2>4
    <3>2. r.ok = FALSE /\ Refuses(r)
      BY <2>1, <2>4 DEF Refuses
    <3>3. d = r
      BY <1>4, <3>2
    <3>. QED
      BY <3>1, <3>2, <3>3 DEF Answers, Refused, MayRefuse
  <2>. QED
    BY <2>3, <2>4
<1>. HIDE DEF enc
<1>7. Understood("swapped64", v, enc)
  BY <1>1, <1>2, <1>5, <1>6 DEF Understood
<1>. QED
  BY <1>7 DEF enc, x, n

\* A varint: as long as VarintLength says, returned whole and refused when cut.
LEMMA VarintUnderstood ==
  ASSUME NEW kind, NEW groups \in Nat \ {0}, NEW modulus \in Nat \ {0}, modulus <= Power(B, groups),
         NEW v \in 0 .. modulus - 1, kind \notin TextKinds \cup {"key"},
         ItemLength([kind |-> kind, value |-> v]) = VarintLength[v],
         \A s \in Strings : Decode(kind, s) = GetVarint(s, groups, modulus)
  PROVE  Understood(kind, v, EncodeVarint64[v])
<1>. DEFINE enc == EncodeVarint64[v]
            n == VarintLength[v]
<1>1. enc \in Strings /\ Len(enc) = n /\ v \in Nat /\ n \in Nat \ {0}
  <2>1. v \in Nat
    OBVIOUS
  <2>. QED
    BY <2>1, EncodeVarint64Def, VarintLengthDef, VarintLengthIsLen
<1>2. ASSUME NEW s \in Strings, Matches(s, enc) PROVE Answers(kind, v, n, s, Decode(kind, s))
  <2>1. GetVarint(s, groups, modulus) =
          IF Len(s) >= n THEN [ok |-> TRUE, value |-> v, used |-> n] ELSE Failed
    BY <1>2, VarintReads
  <2>2. Len(s) \in Nat
    BY StringBytes
  <2>. DEFINE r == GetVarint(s, groups, modulus)
  <2>3. Decode(kind, s) = r /\ ValueOf(kind, v) = v
    BY DEF ValueOf
  <2>. HIDE DEF r, n
  <2>4. CASE Len(s) >= n
    <3>1. Reads(r, v, n)
      BY <2>1, <2>4 DEF Reads, r
    <3>. QED
      BY <2>3, <2>4, <3>1 DEF Answers, ReadWhole
  <2>5. CASE ~(Len(s) >= n)
    <3>1. Len(s) < n
      BY <1>1, <2>2, <2>5
    <3>2. Refuses(r)
      BY <2>1, <2>5, FailedRefuses DEF r
    <3>. QED
      BY <2>3, <3>1, <3>2 DEF Answers, Refused, MayRefuse
  <2>. QED
    BY <2>4, <2>5
<1>. HIDE DEF enc, n
<1>3. ItemLength([kind |-> kind, value |-> v]) = n
  BY DEF n
<1>4. Understood(kind, v, enc)
  BY <1>1, <1>2, <1>3 DEF Understood
<1>. QED
  BY <1>4 DEF enc

\* The widths are positive, and the groups of a varint hold every value of the width.
LEMMA WidthFacts ==
  /\ UInt32 \in Nat \ {0} /\ UInt64 \in Nat \ {0}
  /\ Groups32 \in Nat \ {0} /\ Groups64 \in Nat \ {0}
  /\ UInt32 <= Power(B, Groups32) /\ UInt64 <= Power(B, Groups64)
BY WidthAssumption, ByteFacts DEF UInt32, UInt64

\* PutVarint32 and GetVarint32.
LEMMA Varint32Item ==
  ASSUME NEW v \in Values32 PROVE Understood("varint32", v, EncodeVarint32(v))
<1>1. v \in 0 .. UInt32 - 1
  BY ValueAssumption
<1>2. ItemLength([kind |-> "varint32", value |-> v]) = VarintLength[v] /\ "varint32" \notin TextKinds \cup {"key"}
  BY DEF ItemLength, TextKinds
<1>3. \A s \in Strings : Decode("varint32", s) = GetVarint(s, Groups32, UInt32)
  BY DEF Decode, GetVarint32
<1>4. EncodeVarint32(v) = EncodeVarint64[v]
  BY <1>1, Varint32Is64
<1>. QED
  BY <1>1, <1>2, <1>3, <1>4, WidthFacts, VarintUnderstood

\* PutVarint64 and GetVarint64.
LEMMA Varint64Item ==
  ASSUME NEW v \in Values64 PROVE Understood("varint64", v, EncodeVarint64[v])
<1>1. v \in 0 .. UInt64 - 1
  BY ValueAssumption
<1>2. ItemLength([kind |-> "varint64", value |-> v]) = VarintLength[v] /\ "varint64" \notin TextKinds \cup {"key"}
  BY DEF ItemLength, TextKinds
<1>3. \A s \in Strings : Decode("varint64", s) = GetVarint(s, Groups64, UInt64)
  BY DEF Decode, GetVarint64
<1>. QED
  BY <1>1, <1>2, <1>3, WidthFacts, VarintUnderstood

\* PutVarsignedint64 and GetVarsignedint64, through the zigzag.
LEMMA Signed64Item ==
  ASSUME NEW v \in Signed64 PROVE Understood("signed64", v, EncodeVarint64[i64ToZigzag(v)])
<1>. DEFINE x == i64ToZigzag(v)
            enc == EncodeVarint64[x]
            n == VarintLength[x]
<1>1. x \in 0 .. UInt64 - 1 /\ zigzagToI64(x) = v
  BY ValueAssumption, ZigzagRoundTrip
<1>2. ItemLength([kind |-> "signed64", value |-> v]) = n /\ ValueOf("signed64", v) = v
  BY DEF ItemLength, ValueOf
<1>. HIDE DEF x
<1>3. enc \in Strings /\ Len(enc) = n /\ n \in Nat \ {0} /\ x \in Nat
  <2>1. x \in Nat
    BY <1>1, WidthFacts
  <2>. QED
    BY <2>1, EncodeVarint64Def, VarintLengthDef, VarintLengthIsLen
<1>4. ASSUME NEW s \in Strings, Matches(s, enc) PROVE Answers("signed64", v, n, s, Decode("signed64", s))
  <2>. DEFINE u == GetVarint64(s)
              d == Decode("signed64", s)
  <2>1. u = IF Len(s) >= n THEN [ok |-> TRUE, value |-> x, used |-> n] ELSE Failed
    BY <1>1, <1>4, WidthFacts, VarintReads DEF GetVarint64
  <2>2. Len(s) \in Nat
    BY StringBytes
  <2>3. d = IF u.ok THEN [u EXCEPT !.value = zigzagToI64(@)] ELSE Failed
    BY DEF Decode, GetVarsignedint64
  <2>. HIDE DEF u, d, n
  <2>4. CASE Len(s) >= n
    <3>1. u = [ok |-> TRUE, value |-> x, used |-> n] /\ u.ok
      BY <2>1, <2>4
    <3>2. d = [u EXCEPT !.value = zigzagToI64(@)]
      BY <2>3, <3>1
    <3>3. d = [ok |-> TRUE, value |-> zigzagToI64(x), used |-> n]
      BY <3>1, <3>2
    <3>4. Reads(d, v, n)
      BY <1>1, <3>3 DEF Reads
    <3>. QED
      BY <1>2, <2>4, <3>4 DEF Answers, ReadWhole, d
  <2>5. CASE ~(Len(s) >= n)
    <3>1. Len(s) < n
      BY <1>3, <2>2, <2>5
    <3>2. u.ok = FALSE
      BY <2>1, <2>5 DEF Failed
    <3>3. d = Failed
      BY <2>3, <3>2
    <3>. QED
      BY <3>1, <3>3, FailedRefuses DEF Answers, Refused, MayRefuse, d
  <2>. QED
    BY <2>4, <2>5
<1>. HIDE DEF enc, n
<1>5. Understood("signed64", v, enc)
  BY <1>2, <1>3, <1>4 DEF Understood
<1>. QED
  BY <1>5 DEF enc, x

\* PutLengthPrefixedSlice and GetLengthPrefixedSlice.
LEMMA SliceItem ==
  ASSUME NEW v \in Sliced PROVE Understood("slice", v, SliceEncoding(v))
<1>. DEFINE m == Len(v)
            p == EncodeVarint64[m]
            enc == SliceEncoding(v)
            L == VarintLength[m] + m
<1>1. v \in Strings /\ m < UInt32 /\ m \in Nat
  BY StringBytes DEF Sliced
<1>2. enc \in Strings /\ Len(enc) = L /\ L \in Nat \ {0}
  <2>1. p \in Strings /\ Len(p) = VarintLength[m] /\ VarintLength[m] \in Nat \ {0}
    BY <1>1, EncodeVarint64Def, VarintLengthDef, VarintLengthIsLen
  <2>2. enc = p \o v
    BY DEF SliceEncoding
  <2>3. p \o v \in Strings /\ Len(p \o v) = Len(p) + Len(v)
    <3>. HIDE DEF p
    <3>. QED
      BY <1>1, <2>1, StringConcat
  <2>4. L \in Nat \ {0}
    BY <1>1, <2>1
  <2>. QED
    BY <2>1, <2>2, <2>3, <2>4
<1>3. ItemLength([kind |-> "slice", value |-> v]) = L /\ ValueOf("slice", v) = v
  BY DEF ItemLength, ValueOf
<1>4. ASSUME NEW s \in Strings, Matches(s, enc) PROVE Answers("slice", v, L, s, Decode("slice", s))
  <2>. DEFINE r == GetLengthPrefixedSlice(s)
  <2>1. IF Len(s) >= L THEN r = [ok |-> TRUE, value |-> v, used |-> L]
        ELSE r = Failed \/ \E u \in 1 .. Len(s) : r = [ok |-> FALSE, used |-> u]
    BY <1>1, <1>4, SliceReads
  <2>2. Len(s) \in Nat
    BY StringBytes
  <2>3. Decode("slice", s) = r
    BY DEF Decode
  <2>. HIDE DEF r, L
  <2>4. CASE Len(s) >= L
    <3>1. Reads(r, v, L)
      BY <2>1, <2>4 DEF Reads
    <3>. QED
      BY <1>3, <2>3, <2>4, <3>1 DEF Answers, ReadWhole
  <2>5. CASE ~(Len(s) >= L)
    <3>1. Len(s) < L
      BY <1>2, <2>2, <2>5
    <3>2. r = Failed => Refuses(r)
      BY FailedRefuses
    <3>3. ASSUME NEW u \in 1 .. Len(s), r = [ok |-> FALSE, used |-> u] PROVE RefusesAfter(r, s)
      <4>1. u \in 0 .. Len(s)
        BY <2>2
      <4>. QED
        BY <3>3, <4>1 DEF RefusesAfter
    <3>4. Refuses(r) \/ RefusesAfter(r, s)
      BY <2>1, <2>5, <3>2, <3>3
    <3>. QED
      BY <2>3, <3>1, <3>4 DEF Answers, Refused, MayRefuse
  <2>. QED
    BY <2>4, <2>5
<1>. HIDE DEF enc, L
<1>5. Understood("slice", v, enc)
  BY <1>2, <1>3, <1>4 DEF Understood
<1>. QED
  BY <1>5 DEF enc

\* An internal key behind its length, as GetLengthPrefixedSlice and the extractors read it.
LEMMA KeyItem ==
  ASSUME NEW p \in Keys PROVE Understood("key", p, SliceEncoding(KeyEncoding(p)))
<1>. DEFINE v == KeyEncoding(p)
            enc == SliceEncoding(v)
            n == KeySize + Bytes64
            L == VarintLength[KeySize + Bytes64] + KeySize + Bytes64
<1>1. v \in Strings /\ Len(v) = n
  BY KeyEncodingIs
<1>2. v \in Sliced
  BY <1>1, KeyAssumption DEF Sliced
<1>3. ItemLength([kind |-> "key", value |-> p]) = L /\ ValueOf("key", p) = KeyOf(p)
  BY DEF ItemLength, ValueOf
<1>4. enc \in Strings /\ Len(enc) = L /\ L \in Nat \ {0}
  <2>1. Understood("slice", v, enc)
    BY <1>2, SliceItem
  <2>2. ItemLength([kind |-> "slice", value |-> v]) = VarintLength[n] + n
    BY <1>1 DEF ItemLength
  <2>3. enc \in Strings /\ Len(enc) = VarintLength[n] + n /\ Len(enc) \in Nat \ {0}
    BY <2>1, <2>2 DEF Understood
  <2>4. KeySize \in Nat /\ Bytes64 \in Nat /\ n \in Nat
    BY SMTT(60), KeyAssumption, ByteFacts
  <2>5. VarintLength[n] \in Nat
    BY <2>4, VarintLengthDef
  <2>6. VarintLength[n] + n = L
    BY <2>4, <2>5
  <2>. QED
    BY <2>3, <2>6
<1>5. ASSUME NEW s \in Strings, Matches(s, enc) PROVE Answers("key", p, L, s, Decode("key", s))
  <2>. DEFINE r == GetInternalKey(s)
  <2>1. IF Len(s) >= L THEN Reads(r, KeyOf(p), L) ELSE RefusesAfter(r, s)
    BY <1>5, KeyReads
  <2>2. Len(s) \in Nat
    BY StringBytes
  <2>3. Decode("key", s) = r
    BY DEF Decode
  <2>. HIDE DEF r, L
  <2>4. CASE Len(s) >= L
    BY <1>3, <2>1, <2>3, <2>4 DEF Answers, ReadWhole
  <2>5. CASE ~(Len(s) >= L)
    <3>1. Len(s) < L
      BY <1>4, <2>2, <2>5
    <3>. QED
      BY <2>1, <2>3, <2>5, <3>1 DEF Answers, Refused, MayRefuse
  <2>. QED
    BY <2>4, <2>5
<1>. HIDE DEF enc, L
<1>6. Understood("key", p, enc)
  BY <1>3, <1>4, <1>5 DEF Understood
<1>. QED
  BY <1>6 DEF enc, v

\* A string starts itself.
LEMMA PrefixSelf ==
  ASSUME NEW s \in Strings PROVE IsPrefix(s, s)
<1>1. Len(s) \in Nat
  BY StringBytes
<1>2. Begins(s, s)
  BY <1>1 DEF Begins
<1>. QED
  BY <1>2, BeginsIsPrefix

\* What a text reader returns, in the terms that Understood asks for.
LEMMA TextAnswers ==
  ASSUME NEW kind \in TextKinds, NEW v, NEW L \in Nat \ {0}, NEW s \in Strings, NEW r,
         TextRead(kind, v, L, s, r), Written(kind, v) \in Strings
  PROVE  Answers(kind, v, L, s, r)
<1>. DEFINE n == Len(s)
<1>1. n \in Nat /\ ValueOf(kind, v) = v
  BY StringBytes DEF ValueOf, TextKinds
<1>5. IsPrefix(Written(kind, v), Written(kind, v))
  BY PrefixSelf
<1>2. CASE n >= L
  <2>1. n >= L - 1
    BY <1>1, <1>2
  <2>2. Reads(r, v, L)
    BY <1>2, <2>1 DEF TextRead
  <2>. QED
    BY <1>1, <1>2, <2>2 DEF Answers, ReadWhole
<1>3. CASE ~(n >= L) /\ n >= L - 1
  <2>1. Reads(r, v, n)
    BY <1>3 DEF TextRead
  <2>2. n < L
    BY <1>1, <1>3
  <2>. QED
    BY <1>3, <1>5, <2>1, <2>2 DEF Answers, ReadCut
<1>4. CASE ~(n >= L - 1)
  <2>1. n < L
    BY <1>1, <1>4
  <2>2. \/ RefusesAfter(r, s)
        \/ \E g : Reads(r, g, n) /\ IsPrefix(Written(kind, g), Written(kind, v))
    BY <1>4 DEF TextRead
  <2>3. CASE RefusesAfter(r, s)
    BY <2>1, <2>3 DEF Answers, Refused, MayRefuse
  <2>4. CASE \E g : Reads(r, g, n) /\ IsPrefix(Written(kind, g), Written(kind, v))
    BY <1>4, <2>1, <2>4 DEF Answers, ReadCut
  <2>. QED
    BY <2>2, <2>3, <2>4
<1>. QED
  BY <1>2, <1>3, <1>4

\* The same for a decimal number past sixty-four bits, which ConsumeDecimalNumber refuses.
LEMMA LargeAnswers ==
  ASSUME NEW v \in Nat, v >= UInt64, NEW L \in Nat \ {0}, NEW s \in Strings, NEW r, LargeRead(v, L, s, r)
  PROVE  Answers("decimal", v, L, s, r)
<1>. DEFINE n == Len(s)
<1>1. n \in Nat
  BY StringBytes
<1>2. CASE RefusesAfter(r, s)
  BY <1>2 DEF Answers, Refused, MayRefuse, TextKinds
<1>3. CASE n < L - 1 /\ \E g : Reads(r, g, n) /\ IsPrefix(Written("decimal", g), Written("decimal", v))
  <2>1. n < L /\ ~(n >= L - 1)
    BY <1>1, <1>3
  <2>. QED
    BY <1>3, <2>1 DEF Answers, ReadCut, TextKinds
<1>. QED
  BY <1>2, <1>3 DEF LargeRead

\* A text and its delimiter are understood when every beginning of them is answered.
LEMMA TextUnderstood ==
  ASSUME NEW kind, NEW v, NEW t \in Strings, NEW c \in Nat, c < ByteRange,
         ItemLength([kind |-> kind, value |-> v]) = Len(t) + 1,
         \A s \in Strings : Matches(s, t \o << c >>) => Answers(kind, v, Len(t) + 1, s, Decode(kind, s))
  PROVE  Understood(kind, v, t \o << c >>)
<1>. DEFINE enc == t \o << c >>
<1>1. enc \in Strings /\ Len(enc) = Len(t) + 1
  BY ByteString, StringConcat
<1>2. Len(t) + 1 \in Nat \ {0}
  BY StringBytes
<1>3. \A s \in Strings : Matches(s, enc) => Answers(kind, v, Len(t) + 1, s, Decode(kind, s))
  OBVIOUS
<1>. HIDE DEF enc
<1>4. Understood(kind, v, enc)
  BY <1>1, <1>2, <1>3 DEF Understood
<1>. QED
  BY <1>4 DEF enc

\* AppendNumberTo and ConsumeDecimalNumber.
LEMMA DecimalItem ==
  ASSUME NEW v \in Numbers PROVE Understood("decimal", v, Decimal[v] \o << Colon >>)
<1>. DEFINE t == Decimal[v]
            L == Len(t) + 1
<1>1. v \in Nat /\ Colon \in Nat /\ Colon < ByteRange
  BY ValueAssumption, CodeFacts
<1>2. t \in Strings /\ L \in Nat \ {0}
  BY <1>1, DecimalText
<1>3. ItemLength([kind |-> "decimal", value |-> v]) = L /\ "decimal" \in TextKinds
      /\ Written("decimal", v) = t
  BY DEF ItemLength, TextKinds, Written
<1>4. ASSUME NEW s \in Strings, Matches(s, t \o << Colon >>)
      PROVE  Answers("decimal", v, L, s, Decode("decimal", s))
  <2>. DEFINE r == GetDecimal(s)
  <2>1. DecimalRead(v, L, s, r) /\ Decode("decimal", s) = r
    BY <1>1, <1>4, DecimalReads DEF Decode
  <2>. HIDE DEF r, L
  <2>2. CASE v < UInt64
    <3>1. TextRead("decimal", v, L, s, r)
      BY <2>1, <2>2 DEF DecimalRead
    <3>. QED
      BY <1>1, <1>2, <1>3, <2>1, <3>1, TextAnswers
  <2>3. CASE ~(v < UInt64)
    <3>1. LargeRead(v, L, s, r)
      BY <2>1, <2>3 DEF DecimalRead
    <3>2. v >= UInt64
      BY <1>1, <2>3, WidthFacts
    <3>. QED
      BY <1>1, <1>2, <2>1, <3>1, <3>2, LargeAnswers
  <2>. QED
    BY <2>2, <2>3
<1>. QED
  BY <1>1, <1>2, <1>3, <1>4, TextUnderstood

\* Slice::ToString(true) and Slice::DecodeHex.
LEMMA HexItem ==
  ASSUME NEW v \in Contents PROVE Understood("hex", v, HexText(v) \o << Colon >>)
<1>. DEFINE t == HexText(v)
            L == 2 * Len(v) + 1
<1>1. v \in Strings /\ Colon \in Nat /\ Colon < ByteRange
  BY ValueAssumption, CodeFacts
<1>2. t \in Strings /\ Len(t) + 1 = L /\ L \in Nat \ {0}
  <2>1. t \in Strings /\ Len(t) = 2 * Len(v) /\ Len(v) \in Nat
    BY <1>1, HexTextDigits, StringBytes
  <2>. QED
    BY <2>1
<1>3. ItemLength([kind |-> "hex", value |-> v]) = L /\ "hex" \in TextKinds
      /\ Written("hex", v) = v
  BY DEF ItemLength, TextKinds, Written
<1>4. ASSUME NEW s \in Strings, Matches(s, t \o << Colon >>)
      PROVE  Answers("hex", v, L, s, Decode("hex", s))
  <2>1. TextRead("hex", v, L, s, GetHex(s)) /\ Decode("hex", s) = GetHex(s)
    BY <1>1, <1>4, HexReads DEF Decode
  <2>. HIDE DEF L
  <2>. QED
    BY <1>1, <1>2, <1>3, <2>1, TextAnswers
<1>. HIDE DEF t, L
<1>5. Understood("hex", v, t \o << Colon >>)
  BY <1>1, <1>2, <1>3, <1>4, TextUnderstood
<1>. QED
  BY <1>5 DEF t

\* EscapeOptionString and UnescapeOptionString.
LEMMA OptionItem ==
  ASSUME NEW v \in Options PROVE Understood("option", v, EscapeOptionString(v) \o << LF >>)
<1>. DEFINE t == EscapeOptionString(v)
            L == Len(t) + 1
<1>1. v \in Strings /\ LF \in Nat /\ LF < ByteRange
  BY ValueAssumption, CodeFacts
<1>2. t \in Strings /\ L \in Nat \ {0}
  <2>1. t \in Strings
    BY <1>1, EscapeText
  <2>. HIDE DEF t
  <2>. QED
    BY <2>1, StringBytes
<1>3. ItemLength([kind |-> "option", value |-> v]) = L /\ "option" \in TextKinds
      /\ Written("option", v) = v
  <2>1. ItemLength([kind |-> "option", value |-> v]) =
          Len(v) + Cardinality({k \in 1 .. Len(v) : IsSpecialChar(v[k])}) + 1
    BY DEF ItemLength
  <2>. QED
    BY <1>1, <2>1, EscapeText DEF TextKinds, Written
<1>4. ASSUME NEW s \in Strings, Matches(s, t \o << LF >>)
      PROVE  Answers("option", v, L, s, Decode("option", s))
  <2>1. TextRead("option", v, L, s, GetOption(s)) /\ Decode("option", s) = GetOption(s)
    BY <1>1, <1>4, OptionReads DEF Decode
  <2>. HIDE DEF L
  <2>. QED
    BY <1>1, <1>2, <1>3, <2>1, TextAnswers
<1>. HIDE DEF t
<1>5. Understood("option", v, t \o << LF >>)
  BY <1>1, <1>2, <1>3, <1>4, TextUnderstood
<1>. QED
  BY <1>5 DEF t

\* SerializeIntVector and ParseVectorInt.
LEMMA IntsItem ==
  ASSUME NEW v \in IntVectors PROVE Understood("ints", v, SerializeIntVector(v) \o << LF >>)
<1>. DEFINE t == SerializeIntVector(v)
            L == Len(t) + 1
<1>1. LF \in Nat /\ LF < ByteRange
  BY CodeFacts
<1>2. IntVector(v)
  <2>1. v \in Seq(Int) /\ \A k \in 1 .. Len(v) : -UInt64 < v[k] /\ v[k] < UInt64
    BY ValueAssumption
  <2>2. \A k \in 1 .. Len(v) : v[k] \in Int
    BY <2>1
  <2>. QED
    BY <2>1, <2>2 DEF IntVector, Small
<1>3. t \in Strings /\ L \in Nat \ {0}
  <2>1. t \in Strings
    BY <1>2, SerializeIs
  <2>. HIDE DEF t
  <2>. QED
    BY <2>1, StringBytes
<1>4. ItemLength([kind |-> "ints", value |-> v]) = L /\ "ints" \in TextKinds
      /\ Written("ints", v) = t
  BY DEF ItemLength, TextKinds, Written
<1>5. ASSUME NEW s \in Strings, Matches(s, t \o << LF >>)
      PROVE  Answers("ints", v, L, s, Decode("ints", s))
  <2>1. TextRead("ints", v, L, s, GetInts(s)) /\ Decode("ints", s) = GetInts(s)
    BY <1>2, <1>5, IntsReads DEF Decode
  <2>. HIDE DEF L
  <2>. QED
    BY <1>3, <1>4, <2>1, TextAnswers
<1>. HIDE DEF t
<1>6. Understood("ints", v, t \o << LF >>)
  BY <1>1, <1>3, <1>4, <1>5, TextUnderstood
<1>. QED
  BY <1>6 DEF t

-----------------------------------------------------------------------------
(***************************************************************************)
(* The string written: the items' encodings, one after the other.          *)
(***************************************************************************)
\* The encoding of item k of its lies in d behind those of the items before it.
LaidAt(its, d, k) ==
  \E kind, v, enc : /\ its[k] = [kind |-> kind, value |-> v]
                    /\ Understood(kind, v, enc)
                    /\ \A j \in 1 .. Len(enc) : d[SumTo(its, k - 1) + j] = enc[j]

Laid(its, d) ==
  /\ Len(its) \in Nat
  /\ d \in Strings /\ Len(d) = SumTo(its, Len(its))
  /\ \A k \in 1 .. Len(its) : LaidAt(its, d, k)

\* The sums of the lengths of a string's items.
LEMMA LaidSums ==
  ASSUME NEW its, NEW d, Laid(its, d)
  PROVE  /\ \A k \in 1 .. Len(its) : ItemLength(its[k]) \in Nat \ {0}
         /\ SumTo(its, 0) = 0
         /\ \A k \in 0 .. Len(its) : SumTo(its, k) \in Nat
         /\ \A k \in 1 .. Len(its) : SumTo(its, k) = SumTo(its, k - 1) + ItemLength(its[k])
         /\ \A k \in 0 .. Len(its) : SumTo(its, k) <= Len(d)
<1>. DEFINE n == Len(its)
<1>1. n \in Nat /\ Len(d) = SumTo(its, n)
  BY DEF Laid
<1>2. ASSUME NEW k \in 1 .. n PROVE ItemLength(its[k]) \in Nat \ {0}
  <2>1. LaidAt(its, d, k)
    BY DEF Laid
  <2>. QED
    BY <2>1 DEF LaidAt, Understood
<1>3. /\ SumTo(its, 0) = 0
      /\ \A k \in 0 .. n : SumTo(its, k) \in Nat
      /\ \A k \in 1 .. n : SumTo(its, k) = SumTo(its, k - 1) + ItemLength(its[k])
  BY <1>1, <1>2, SumSteps
<1>. HIDE DEF n
<1>. DEFINE T == {i \in 0 .. n : SumTo(its, n - i) <= SumTo(its, n)}
<1>4. 0 \in T
  <2>1. n - 0 = n /\ n \in 0 .. n /\ 0 \in 0 .. n
    BY <1>1
  <2>. QED
    BY <1>3, <2>1
<1>5. ASSUME NEW i \in 1 .. n, i - 1 \in T PROVE i \in T
  <2>. DEFINE k == n - (i - 1)
              a == SumTo(its, k - 1)
              b == SumTo(its, k)
              c == SumTo(its, n)
              l == ItemLength(its[k])
  <2>1. k \in 1 .. n /\ k \in 0 .. n /\ k - 1 \in 0 .. n /\ n - i = k - 1 /\ n \in 0 .. n /\ i \in 0 .. n
    BY <1>1
  <2>2. b <= c
    BY <1>5
  <2>. HIDE DEF k
  <2>3. b = a + l /\ a \in Nat /\ b \in Nat /\ c \in Nat /\ l \in Nat
    BY <1>2, <1>3, <2>1 DEF n
  <2>. HIDE DEF a, b, c, l
  <2>4. a <= c
    BY <2>2, <2>3
  <2>. QED
    BY <2>1, <2>4 DEF a, c
<1>. HIDE DEF T
<1>6. 0 .. n \subseteq T
  BY <1>1, <1>4, <1>5, BoundedInduction
<1>7. ASSUME NEW k \in 0 .. n PROVE SumTo(its, k) <= Len(d)
  <2>1. n - k \in 0 .. n /\ n - (n - k) = k
    BY <1>1
  <2>2. n - k \in T
    BY <1>6, <2>1
  <2>. QED
    BY <1>1, <2>1, <2>2 DEF T
<1>. QED
  BY <1>2, <1>3, <1>7 DEF n

\* A put lays one more encoding behind the others.
LEMMA PutLays ==
  ASSUME NEW S, NEW its \in Seq(S), NEW d, Laid(its, d), NEW kind, NEW v, NEW enc, Understood(kind, v, enc)
  PROVE  Laid(Append(its, [kind |-> kind, value |-> v]), d \o enc)
<1>. DEFINE it == [kind |-> kind, value |-> v]
            its2 == Append(its, it)
            d2 == d \o enc
            n == Len(its)
<1>1. n \in Nat /\ Len(its2) = n + 1 /\ its2[n + 1] = it /\ \A k \in 1 .. n : its2[k] = its[k]
  <2>1. its \in Seq(S \cup {it}) /\ it \in S \cup {it}
    OBVIOUS
  <2>. HIDE DEF it
  <2>. QED
    BY <2>1
<1>2. /\ d \in Strings /\ Len(d) = SumTo(its, n) /\ enc \in Strings
      /\ Len(enc) = ItemLength(it) /\ Len(enc) \in Nat \ {0} /\ Len(d) \in Nat
  BY StringBytes DEF Laid, Understood
<1>. HIDE DEF it, its2
<1>3. /\ d2 \in Strings /\ Len(d2) = Len(d) + Len(enc)
      /\ \A k \in 1 .. Len(d) : d2[k] = d[k]
      /\ \A k \in 1 .. Len(enc) : d2[Len(d) + k] = enc[k]
  BY <1>2, StringConcat
<1>. HIDE DEF d2
<1>4. /\ \A k \in 1 .. n : ItemLength(its[k]) \in Nat
      /\ \A k \in 0 .. n : SumTo(its, k) \in Nat /\ SumTo(its, k) <= Len(d)
      /\ \A k \in 1 .. n : SumTo(its, k) = SumTo(its, k - 1) + ItemLength(its[k])
  BY LaidSums
<1>5. \A k \in 0 .. n : SumTo(its2, k) = SumTo(its, k)
  BY ZenonT(60), <1>1, <1>4, SumSame
<1>6. SumTo(its2, n + 1) = Len(d) + Len(enc)
  <2>1. \A k \in 1 .. n + 1 : ItemLength(its2[k]) \in Nat
    <3>1. \A k \in 1 .. n + 1 : k = n + 1 \/ k \in 1 .. n
      BY <1>1
    <3>. QED
      BY <1>1, <1>2, <1>4, <3>1
  <2>2. n + 1 \in Nat /\ n + 1 \in 1 .. n + 1 /\ (n + 1) - 1 = n /\ n \in 0 .. n
    BY <1>1
  <2>3. SumTo(its2, n + 1) = SumTo(its2, (n + 1) - 1) + ItemLength(its2[n + 1])
    BY <2>1, <2>2, SumSteps
  <2>. QED
    BY <1>1, <1>2, <1>5, <2>2, <2>3
<1>7. ASSUME NEW k \in 1 .. n PROVE LaidAt(its2, d2, k)
  <2>1. PICK kd, w, e : /\ its[k] = [kind |-> kd, value |-> w]
                        /\ Understood(kd, w, e)
                        /\ \A j \in 1 .. Len(e) : d[SumTo(its, k - 1) + j] = e[j]
    BY DEF Laid, LaidAt
  <2>. DEFINE a == SumTo(its, k - 1)
              b == SumTo(its, k)
  <2>2. k \in 0 .. n /\ k - 1 \in 0 .. n
    BY <1>1
  <2>3. a \in Nat /\ b \in Nat /\ b <= Len(d) /\ b = a + Len(e) /\ Len(e) \in Nat /\ SumTo(its2, k - 1) = a
    BY <1>4, <1>5, <2>1, <2>2 DEF Understood
  <2>4. ASSUME NEW j \in 1 .. Len(e) PROVE d2[SumTo(its2, k - 1) + j] = e[j]
    <3>1. d[a + j] = e[j]
      BY <2>1
    <3>. HIDE DEF a, b
    <3>2. a + j \in 1 .. Len(d)
      BY <1>2, <2>3
    <3>. QED
      BY <1>3, <2>3, <3>1, <3>2
  <2>. QED
    BY <1>1, <2>1, <2>4 DEF LaidAt
<1>8. LaidAt(its2, d2, n + 1)
  <2>1. (n + 1) - 1 = n /\ n \in 0 .. n
    BY <1>1
  <2>2. SumTo(its2, (n + 1) - 1) = Len(d)
    BY <1>2, <1>5, <2>1
  <2>3. its2[n + 1] = [kind |-> kind, value |-> v]
    BY <1>1 DEF it
  <2>4. \A j \in 1 .. Len(enc) : d2[SumTo(its2, (n + 1) - 1) + j] = enc[j]
    BY <1>3, <2>2
  <2>. QED
    BY <2>3, <2>4 DEF LaidAt
<1>9. \A k \in 1 .. Len(its2) : LaidAt(its2, d2, k)
  <2>1. \A k \in 1 .. n + 1 : k = n + 1 \/ k \in 1 .. n
    BY <1>1
  <2>. QED
    BY <1>1, <1>7, <1>8, <2>1
<1>10. Len(its2) \in Nat /\ Len(d2) = SumTo(its2, Len(its2))
  BY <1>1, <1>3, <1>6
<1>11. Laid(its2, d2)
  BY <1>3, <1>9, <1>10 DEF Laid
<1>. QED
  BY <1>11 DEF its2, it, d2

\* No padding leaves a string as it is.
LEMMA PaddedNone ==
  ASSUME NEW s \in Strings PROVE Padded(s, 0) = s
<1>. DEFINE z == [k \in 1 .. 0 |-> 0]
<1>1. z \in Strings /\ Len(z) = 0
  BY PaddingBytes
<1>2. Padded(s, 0) = s \o z
  BY DEF Padded
<1>. HIDE DEF z
<1>3. s \o z \in Strings /\ Len(s \o z) = Len(s) + 0 /\ \A k \in 1 .. Len(s) : (s \o z)[k] = s[k] /\ Len(s) \in Nat
  BY <1>1, StringConcat, StringBytes
<1>4. Len(s) \in Nat
  BY StringBytes
<1>5. Len(s \o z) = Len(s)
  BY <1>3, <1>4
<1>. DEFINE x == s \o z
<1>. HIDE DEF x
<1>6. x = s
  BY <1>3, <1>5, StringEqual DEF x
<1>. QED
  BY <1>2, <1>6 DEF x

-----------------------------------------------------------------------------
(***************************************************************************)
(* The reader: where it stands in the string, and what it takes from there. *)
(***************************************************************************)
\* s is what lies behind the first x bytes of d, when n bytes of d were handed over.
Rest(s, d, x, n) == s = SubSeq(d, x + 1, n)

\* The bytes that a reader has before it are those of the stream from its place to the cut.
LEMMA RestIs ==
  ASSUME NEW d \in Strings, NEW n \in 0 .. Len(d), NEW x \in Nat, NEW s, Rest(s, d, x, n)
  PROVE  /\ s \in Strings /\ Len(s) \in Nat /\ n \in Nat
         /\ Len(s) = IF x <= n THEN n - x ELSE 0
         /\ \A j \in 1 .. Len(s) : s[j] = d[x + j]
<1>1. Len(d) \in Nat /\ n \in Nat /\ n <= Len(d)
  BY StringBytes
<1>. DEFINE p == SubSeq(d, x + 1, n)
<1>2. /\ p \in Strings /\ Len(p) = (IF x <= n THEN n - x ELSE 0)
      /\ \A j \in 1 .. Len(p) : p[j] = d[x + j]
  BY <1>1, StringPart
<1>3. s = p
  BY DEF Rest
<1>. HIDE DEF p
<1>4. Len(p) \in Nat
  BY <1>2, StringBytes
<1>. QED
  BY <1>1, <1>2, <1>3, <1>4

\* The reader that has read k - 1 items stands where item k begins, and the answer
\* for item k is one of those that fit what is left of it.
LEMMA GetAnswers ==
  ASSUME NEW its, NEW d, Laid(its, d), NEW n \in 0 .. Len(d), NEW k \in 1 .. Len(its), NEW s,
         Rest(s, d, SumTo(its, k - 1), n)
  PROVE  Answers(its[k].kind, its[k].value, ItemLength(its[k]), s, Decode(its[k].kind, s))
<1>. DEFINE x == SumTo(its, k - 1)
<1>1. PICK kind, v, enc : /\ its[k] = [kind |-> kind, value |-> v]
                          /\ Understood(kind, v, enc)
                          /\ \A j \in 1 .. Len(enc) : d[SumTo(its, k - 1) + j] = enc[j]
  BY DEF Laid, LaidAt
<1>2. d \in Strings /\ Len(its) \in Nat /\ Len(d) \in Nat
  BY StringBytes DEF Laid
<1>3. x \in Nat
  <2>1. k - 1 \in 0 .. Len(its)
    BY <1>2
  <2>. QED
    BY <2>1, LaidSums
<1>. HIDE DEF x
<1>5. Rest(s, d, x, n)
  BY DEF x
<1>6. /\ s \in Strings
      /\ Len(s) = IF x <= n THEN n - x ELSE 0
      /\ \A j \in 1 .. Len(s) : s[j] = d[x + j]
  BY <1>2, <1>3, <1>5, RestIs
<1>7. Matches(s, enc)
  <2>1. Len(enc) \in Nat
    BY <1>1 DEF Understood
  <2>2. ASSUME NEW j \in 1 .. Len(s), j <= Len(enc) PROVE s[j] = enc[j]
    <3>1. j \in 1 .. Len(enc)
      BY <2>1, <2>2
    <3>2. d[x + j] = enc[j]
      BY <1>1, <3>1 DEF x
    <3>. QED
      BY <1>6, <3>2
  <2>. QED
    BY <2>2 DEF Matches
<1>8. Answers(kind, v, Len(enc), s, Decode(kind, s)) /\ Len(enc) = ItemLength([kind |-> kind, value |-> v])
  BY <1>1, <1>6, <1>7 DEF Understood
<1>9. its[k].kind = kind /\ its[k].value = v
  BY <1>1
<1>. QED
  BY <1>1, <1>8, <1>9

\* Taking an item of L bytes, or what there is of it, leads to where the next begins.
LEMMA NextPlace ==
  ASSUME NEW d \in Strings, NEW n \in 0 .. Len(d), NEW x \in Nat, NEW L \in Nat, NEW s,
         Rest(s, d, x, n), NEW u \in 0 .. Len(s), u = L \/ (u = Len(s) /\ Len(s) < L)
  PROVE  Rest(SubSeq(s, u + 1, Len(s)), d, x + L, n)
<1>1. Len(d) \in Nat /\ n \in Nat /\ n <= Len(d) /\ x + L \in Nat
  BY StringBytes
<1>2. /\ s \in Strings
      /\ Len(s) = IF x <= n THEN n - x ELSE 0
      /\ \A j \in 1 .. Len(s) : s[j] = d[x + j]
  BY RestIs
<1>. DEFINE m == Len(s)
            a == SubSeq(s, u + 1, m)
            y == x + L
            b == SubSeq(d, y + 1, n)
<1>3. m \in Nat /\ u \in Nat /\ u <= m
  BY <1>2, StringBytes
<1>4. /\ a \in Strings /\ Len(a) = (IF u <= m THEN m - u ELSE 0)
      /\ \A j \in 1 .. Len(a) : a[j] = s[u + j]
  <2>1. s \in Strings /\ m <= Len(s)
    BY <1>2, <1>3
  <2>. HIDE DEF m
  <2>. QED
    BY <1>3, <2>1, StringPart
<1>5. /\ b \in Strings /\ Len(b) = (IF y <= n THEN n - y ELSE 0)
      /\ \A j \in 1 .. Len(b) : b[j] = d[y + j]
  BY ZenonT(60), <1>1, StringPart
<1>. HIDE DEF a, b, y, m
<1>6. y = x + L /\ m = (IF x <= n THEN n - x ELSE 0) /\ (u = L \/ (u = m /\ m < L))
  BY <1>2 DEF y, m
<1>7. Len(a) = Len(b)
  <2>. DEFINE la == Len(a)
              lb == Len(b)
  <2>1. la = (IF u <= m THEN m - u ELSE 0) /\ lb = (IF y <= n THEN n - y ELSE 0)
    BY <1>4, <1>5
  <2>. HIDE DEF la, lb
  <2>2. la = lb
    BY <1>1, <1>3, <1>6, <2>1
  <2>. QED
    BY <2>2 DEF la, lb
<1>8. ASSUME NEW j \in 1 .. Len(a) PROVE a[j] = b[j]
  <2>1. Len(a) = m - u /\ Len(a) >= 1 /\ u = L
    BY <1>3, <1>4, <1>6
  <2>2. u + j \in 1 .. m /\ x + (u + j) = y + j
    BY <1>3, <1>6, <2>1
  <2>3. a[j] = s[u + j] /\ b[j] = d[y + j] /\ s[u + j] = d[x + (u + j)]
    BY <1>2, <1>4, <1>5, <1>7, <2>2 DEF m
  <2>. QED
    BY <2>2, <2>3
<1>9. a = b
  BY <1>4, <1>5, <1>7, <1>8, StringEqual
<1>. QED
  BY <1>9 DEF a, b, y, m, Rest

\* Item k as it was read: its value if it was handed over whole, but for the
\* delimiter of a text, else a beginning of the text.
ReadItem(its, out, n, k) ==
  IF SumTo(its, k) <= n + (IF its[k].kind \in TextKinds THEN 1 ELSE 0)
  THEN out[k] = ValueOf(its[k].kind, its[k].value)
  ELSE /\ its[k].kind \in TextKinds
       /\ IsPrefix(Written(its[k].kind, out[k]), Written(its[k].kind, its[k].value))

\* What a true answer for item k gives.
LEMMA TrueAnswer ==
  ASSUME NEW its, NEW d, Laid(its, d), NEW n \in 0 .. Len(d), NEW k \in 1 .. Len(its), NEW s,
         Rest(s, d, SumTo(its, k - 1), n), NEW r, r = Decode(its[k].kind, s), r.ok,
         NEW out, out[k] = r.value
  PROVE  /\ "used" \in DOMAIN r /\ r.used \in 0 .. Len(s)
         /\ Rest(SubSeq(s, r.used + 1, Len(s)), d, SumTo(its, k), n)
         /\ ReadItem(its, out, n, k)
<1>. DEFINE x == SumTo(its, k - 1)
            L == ItemLength(its[k])
            y == SumTo(its, k)
            kind == its[k].kind
            v == its[k].value
            e == IF kind \in TextKinds THEN 1 ELSE 0
<1>1. d \in Strings /\ Len(its) \in Nat /\ Len(d) \in Nat
  BY StringBytes DEF Laid
<1>2. x \in Nat /\ L \in Nat \ {0} /\ y \in Nat /\ y = x + L
  <2>1. k - 1 \in 0 .. Len(its) /\ k \in 0 .. Len(its)
    BY <1>1
  <2>. QED
    BY <2>1, LaidSums
<1>3. Answers(kind, v, L, s, r)
  BY GetAnswers
<1>4. s \in Strings /\ Len(s) = (IF x <= n THEN n - x ELSE 0) /\ n \in Nat /\ Len(s) \in Nat
  <2>1. Rest(s, d, x, n)
    OBVIOUS
  <2>. HIDE DEF x
  <2>. QED
    BY <1>1, <1>2, <2>1, RestIs
<1>5. ASSUME NEW u \in 0 .. Len(s), u = L \/ (u = Len(s) /\ Len(s) < L)
      PROVE  Rest(SubSeq(s, u + 1, Len(s)), d, y, n)
  <2>1. Rest(s, d, x, n)
    OBVIOUS
  <2>2. L \in Nat /\ y = x + L
    BY <1>2
  <2>. HIDE DEF x, y, L
  <2>. QED
    <3>1. Rest(SubSeq(s, u + 1, Len(s)), d, x + L, n)
      BY <1>1, <1>2, <1>5, <2>1, <2>2, NextPlace
    <3>. QED
      BY <2>2, <3>1
<1>6. ReadItem(its, out, n, k) <=>
        IF y <= n + e THEN r.value = ValueOf(kind, v)
        ELSE kind \in TextKinds /\ IsPrefix(Written(kind, r.value), Written(kind, v))
  BY DEF ReadItem
<1>. HIDE DEF x, y, L, kind, v, e
<1>7. CASE ReadWhole(kind, v, L, s, r)
  <2>1. Len(s) >= L /\ "used" \in DOMAIN r /\ r.value = ValueOf(kind, v) /\ r.used = L
    BY <1>7 DEF ReadWhole, Reads
  <2>2. L \in 0 .. Len(s) /\ y <= n
    BY <1>2, <1>4, <2>1
  <2>3. y <= n + e
    BY <1>2, <1>4, <2>2 DEF e
  <2>4. ReadItem(its, out, n, k)
    BY <1>6, <2>1, <2>3
  <2>5. Rest(SubSeq(s, r.used + 1, Len(s)), d, y, n)
    BY <1>5, <2>1, <2>2
  <2>. QED
    BY <2>1, <2>2, <2>4, <2>5 DEF y
<1>8. CASE ReadCut(kind, v, L, s, r)
  <2>1. PICK g : /\ Reads(r, g, Len(s))
                 /\ Len(s) >= L - 1 => g = v
                 /\ IsPrefix(Written(kind, g), Written(kind, v))
    BY <1>8 DEF ReadCut
  <2>2. Len(s) < L /\ kind \in TextKinds /\ "used" \in DOMAIN r /\ r.value = g /\ r.used = Len(s)
    BY <1>8, <2>1 DEF ReadCut, Reads
  <2>3. Len(s) \in 0 .. Len(s) /\ e = 1 /\ ValueOf(kind, v) = v
    BY <1>4, <2>2 DEF e, ValueOf, TextKinds
  <2>4. y <= n + 1 => Len(s) >= L - 1
    BY <1>2, <1>4
  <2>5. CASE y <= n + 1
    <3>1. g = v
      BY <2>1, <2>4, <2>5
    <3>. QED
      BY <1>5, <1>6, <2>2, <2>3, <2>5, <3>1 DEF y
  <2>6. CASE ~(y <= n + 1)
    BY <1>5, <1>6, <2>1, <2>2, <2>3, <2>6 DEF y
  <2>. QED
    BY <2>5, <2>6
<1>9. ~Refused(kind, v, L, s, r)
  BY DEF Refused, Refuses, RefusesAfter
<1>. QED
  BY <1>3, <1>7, <1>8, <1>9 DEF Answers

\* What a false answer for item k takes.
LEMMA FalseAnswer ==
  ASSUME NEW its, NEW d, Laid(its, d), NEW n \in 0 .. Len(d), NEW k \in 1 .. Len(its), NEW s,
         Rest(s, d, SumTo(its, k - 1), n), NEW r, r = Decode(its[k].kind, s), ~r.ok
  PROVE  LET used == IF "used" \in DOMAIN r THEN r.used ELSE 0
         IN  /\ Len(s) < ItemLength(its[k]) \/ (its[k].kind = "decimal" /\ its[k].value >= UInt64)
             /\ used \in 0 .. Len(s)
             /\ used > 0 => its[k].kind \in {"slice", "key"} \cup TextKinds
<1>. DEFINE L == ItemLength(its[k])
            kind == its[k].kind
            v == its[k].value
            used == IF "used" \in DOMAIN r THEN r.used ELSE 0
<1>1. Answers(kind, v, L, s, r)
  BY GetAnswers
<1>2. ~ReadWhole(kind, v, L, s, r) /\ ~ReadCut(kind, v, L, s, r)
  <2>. HIDE DEF kind, v, L
  <2>. QED
    BY DEF ReadWhole, ReadCut, Reads
<1>3. Refused(kind, v, L, s, r)
  <2>. HIDE DEF kind, v, L
  <2>. QED
    BY <1>1, <1>2 DEF Answers
<1>4. Len(s) \in Nat
  <2>. DEFINE x == SumTo(its, k - 1)
  <2>1. d \in Strings /\ Len(its) \in Nat /\ Len(d) \in Nat
    BY StringBytes DEF Laid
  <2>2. x \in Nat
    <3>1. k - 1 \in 0 .. Len(its)
      BY <2>1
    <3>. QED
      BY <3>1, LaidSums
  <2>3. Rest(s, d, x, n)
    OBVIOUS
  <2>. HIDE DEF x
  <2>. QED
    BY <2>1, <2>2, <2>3, RestIs
<1>. HIDE DEF L, kind, v
<1>5. Len(s) < L \/ (kind = "decimal" /\ v >= UInt64)
  BY <1>3 DEF Refused, MayRefuse
<1>6. CASE Refuses(r)
  <2>1. used = 0
    BY <1>6 DEF Refuses
  <2>. HIDE DEF used
  <2>2. used \in 0 .. Len(s) /\ ~(used > 0)
    BY <1>4, <2>1
  <2>. QED
    BY <1>5, <2>2 DEF used, L, kind, v
<1>7. CASE kind \in {"slice", "key"} \cup TextKinds /\ RefusesAfter(r, s)
  <2>1. used \in 0 .. Len(s)
    BY <1>4, <1>7 DEF RefusesAfter
  <2>. QED
    BY <1>5, <1>7, <2>1 DEF used, L, kind, v
<1>. QED
  BY <1>3, <1>6, <1>7 DEF Refused

-----------------------------------------------------------------------------
(***************************************************************************)
(* The stream: what was put into it and how much of it has been read.      *)
(***************************************************************************)
Items ==
  [kind : {"fixed16"}, value : Values16]
  \cup [kind : {"fixed32", "varint32"}, value : Values32]
  \cup [kind : {"fixed64", "swapped64", "varint64"}, value : Values64]
  \cup [kind : {"signed64"}, value : Signed64]
  \cup [kind : {"slice"}, value : Sliced]
  \cup [kind : {"key"}, value : Keys]
  \cup [kind : {"decimal"}, value : Numbers]
  \cup [kind : {"hex"}, value : Contents]
  \cup [kind : {"option"}, value : Options]
  \cup [kind : {"ints"}, value : IntVectors]

\* Each item put is a value of its kind, and none is read before it was put.
Stream ==
  /\ items \in Seq(Items)
  /\ \E S : got \in Seq(S)
  /\ Len(got) <= Len(items)

\* The reader got a part of the string, and stands behind what it has read of it.
Reading ==
  /\ phase \in {"write", "read", "stop"}
  /\ given \in 0 .. Len(dst)
  /\ input \in Strings /\ Len(input) <= given
  /\ phase = "write" => got = << >>
  /\ phase = "read" => Rest(input, dst, SumTo(items, Len(got)), given)
  /\ \A k \in 1 .. Len(got) : ReadItem(items, got, given, k)

StreamInv == Stream /\ Laid(items, dst) /\ Reading

\* A put adds one item of its kind, lays down its encoding, and reads none.
LEMMA PutKeeps ==
  ASSUME StreamInv, NEW kind, NEW v, NEW bytes, Put(kind, v, bytes),
         [kind |-> kind, value |-> v] \in Items, Understood(kind, v, bytes)
  PROVE  StreamInv'
<1>. DEFINE it == [kind |-> kind, value |-> v]
<1>1. /\ items' = Append(items, it) /\ dst' = dst \o bytes /\ it \in Items /\ phase = "write"
      /\ got' = got /\ phase' = phase /\ given' = given /\ input' = input
  BY DEF Put
<1>2. items \in Seq(Items) /\ Laid(items, dst)
  BY DEF StreamInv, Stream
<1>3. items' \in Seq(Items) /\ Len(items') = Len(items) + 1
  <2>. HIDE DEF it
  <2>. QED
    BY <1>1, <1>2
<1>4. Stream'
  <2>1. Len(items) \in Nat
    BY <1>2
  <2>2. got = << >>
    BY <1>1 DEF StreamInv, Reading
  <2>3. got' \in Seq({}) /\ Len(got') = 0
    BY <1>1, <2>2
  <2>4. Len(got') <= Len(items')
    BY <1>3, <2>1, <2>3
  <2>. QED
    BY <1>3, <2>3, <2>4 DEF Stream
<1>5. Laid(items', dst')
  BY <1>1, <1>2, PutLays
<1>6. Reading'
  <2>1. got = << >> /\ Len(got) = 0
    BY <1>1 DEF StreamInv, Reading
  <2>2. Len(dst') = Len(dst) + Len(bytes) /\ Len(dst) \in Nat /\ Len(bytes) \in Nat
    BY <1>1, <1>2, StringConcat, StringBytes DEF Laid, Understood
  <2>3. given' \in 0 .. Len(dst')
    BY <1>1, <2>2 DEF StreamInv, Reading
  <2>4. \A k \in 1 .. Len(got') : ReadItem(items', got', given', k)
    BY <1>1, <2>1
  <2>5. phase' = "write"
    BY <1>1
  <2>6. input' \in Strings /\ Len(input') <= given' /\ got' = << >>
    BY <1>1, <2>1 DEF StreamInv, Reading
  <2>. QED
    BY <2>3, <2>4, <2>5, <2>6 DEF Reading
<1>. QED
  BY <1>4, <1>5, <1>6 DEF StreamInv

\* Handing over the string stands the reader at its beginning.
LEMMA HandOverKeeps ==
  ASSUME StreamInv, NEW n \in 0 .. Len(dst), HandOver(n)
  PROVE  StreamInv'
<1>1. /\ items' = items /\ dst' = dst /\ got' = got /\ got = << >> /\ phase' = "read"
      /\ given' = n /\ input' = SubSeq(dst, 1, n)
  BY DEF HandOver, StreamInv, Reading
<1>2. dst \in Strings /\ Laid(items, dst) /\ Len(got) = 0 /\ Stream
  BY <1>1 DEF StreamInv, Laid
<1>3. SumTo(items, 0) = 0
  BY <1>2, LaidSums
<1>4. Rest(input', dst, 0, n)
  BY <1>1 DEF Rest
<1>5. /\ input' \in Strings /\ Len(input') \in Nat /\ n \in Nat
      /\ Len(input') = IF 0 <= n THEN n - 0 ELSE 0
  <2>. DEFINE z == 0
              s == input'
  <2>1. z \in Nat /\ Rest(s, dst, z, n)
    BY <1>4
  <2>. HIDE DEF z, s
  <2>2. /\ s \in Strings /\ Len(s) \in Nat /\ n \in Nat
        /\ Len(s) = IF z <= n THEN n - z ELSE 0
    BY <1>2, <2>1, RestIs
  <2>. QED
    BY <2>2 DEF s, z
<1>6. Len(input') <= n
  BY <1>5
<1>7. Stream' /\ Laid(items', dst')
  BY <1>1, <1>2 DEF Stream
<1>8. Reading'
  <2>1. Rest(input', dst', SumTo(items', Len(got')), given')
    BY <1>1, <1>2, <1>3, <1>4
  <2>2. \A k \in 1 .. Len(got') : ReadItem(items', got', given', k)
    BY <1>1, <1>2
  <2>3. input' \in Strings /\ Len(input') <= given' /\ given' \in 0 .. Len(dst')
    BY <1>1, <1>5, <1>6
  <2>. QED
    BY <1>1, <2>1, <2>2, <2>3 DEF Reading
<1>. QED
  BY <1>7, <1>8 DEF StreamInv

\* Whatever is appended to a sequence makes a sequence.
LEMMA AnySeqAppend ==
  ASSUME NEW S, NEW s \in Seq(S), NEW e
  PROVE  /\ Append(s, e) \in Seq(S \cup {e}) /\ Len(s) \in Nat /\ Len(Append(s, e)) = Len(s) + 1
         /\ Append(s, e)[Len(s) + 1] = e
         /\ \A k \in 1 .. Len(s) : Append(s, e)[k] = s[k]
<1>1. s \in Seq(S \cup {e})
  OBVIOUS
<1>. QED
  BY <1>1

\* The end of a string behind its first u bytes.
LEMMA Dropped ==
  ASSUME NEW s \in Strings, NEW u \in 0 .. Len(s)
  PROVE  /\ SubSeq(s, u + 1, Len(s)) \in Strings
         /\ Len(SubSeq(s, u + 1, Len(s))) = Len(s) - u
         /\ u = 0 => SubSeq(s, u + 1, Len(s)) = s
<1>. DEFINE m == Len(s)
            t == SubSeq(s, u + 1, m)
<1>1. m \in Nat
  BY StringBytes
<1>2. u \in Nat /\ u <= m /\ m <= Len(s)
  BY <1>1
<1>. HIDE DEF m
<1>3. t \in Strings /\ Len(t) = (IF u <= m THEN m - u ELSE 0) /\ \A k \in 1 .. Len(t) : t[k] = s[u + k]
  BY <1>1, <1>2, StringPart
<1>. HIDE DEF t
<1>4. Len(t) = m - u
  BY <1>2, <1>3
<1>5. u = 0 => t = s
  <2>. SUFFICES ASSUME u = 0 PROVE t = s
    OBVIOUS
  <2>1. Len(t) = Len(s)
    BY <1>1, <1>4 DEF m
  <2>2. \A k \in 1 .. Len(t) : u + k = k
    BY <1>1, <1>4
  <2>. QED
    BY <1>3, <2>1, <2>2, StringEqual
<1>. QED
  BY <1>3, <1>4, <1>5 DEF t, m

\* The place of the reader when it calls Get.
LEMMA GetPlace ==
  ASSUME StreamInv, Get
  PROVE  /\ Laid(items, dst) /\ dst \in Strings /\ given \in 0 .. Len(dst) /\ input \in Strings
         /\ Len(got) \in Nat /\ Len(got) + 1 \in 1 .. Len(items) /\ (Len(got) + 1) - 1 = Len(got)
         /\ Rest(input, dst, SumTo(items, (Len(got) + 1) - 1), given)
<1>1. Laid(items, dst) /\ dst \in Strings /\ given \in 0 .. Len(dst) /\ input \in Strings
  BY DEF StreamInv, Reading, Laid
<1>2. Len(got) \in Nat
  <2>1. PICK S : got \in Seq(S)
    BY DEF StreamInv, Stream
  <2>. QED
    BY <2>1
<1>3. Len(got) < Len(items) /\ phase = "read" /\ Len(items) \in Nat
  BY DEF Get, StreamInv, Laid
<1>4. Len(got) + 1 \in 1 .. Len(items) /\ (Len(got) + 1) - 1 = Len(got)
  BY <1>2, <1>3
<1>5. Rest(input, dst, SumTo(items, Len(got)), given)
  BY <1>3 DEF StreamInv, Reading
<1>. QED
  BY <1>1, <1>2, <1>4, <1>5

\* A get keeps the stream.
LEMMA GetKeeps ==
  ASSUME StreamInv, Get
  PROVE  StreamInv'
<1>. DEFINE k == Len(got) + 1
            r == Decode(items[k].kind, input)
            used == IF "used" \in DOMAIN r THEN r.used ELSE 0
<1>1. /\ input' = SubSeq(input, used + 1, Len(input))
      /\ IF r.ok THEN got' = Append(got, r.value) /\ phase' = phase ELSE phase' = "stop" /\ got' = got
      /\ dst' = dst /\ items' = items /\ given' = given /\ phase = "read"
  BY DEF Get
<1>2. /\ Laid(items, dst) /\ dst \in Strings /\ given \in 0 .. Len(dst) /\ input \in Strings
      /\ Len(got) \in Nat /\ k \in 1 .. Len(items) /\ k - 1 = Len(got)
      /\ Rest(input, dst, SumTo(items, k - 1), given)
  BY GetPlace
<1>3. /\ items \in Seq(Items) /\ Len(input) <= given
      /\ \A j \in 1 .. Len(got) : ReadItem(items, got, given, j)
  BY DEF StreamInv, Stream, Reading
<1>4. PICK S : got \in Seq(S)
  BY DEF StreamInv, Stream
<1>5. Len(input) \in Nat /\ Len(dst) \in Nat
  BY <1>2, StringBytes
<1>6. CASE r.ok
  <2>1. got' = Append(got, r.value) /\ phase' = "read"
    BY <1>1, <1>6
  <2>. DEFINE val == r.value
  <2>2. /\ got' \in Seq(S \cup {val}) /\ Len(got') = Len(got) + 1
        /\ got'[k] = val /\ \A j \in 1 .. Len(got) : got'[j] = got[j]
    <3>. HIDE DEF val
    <3>. QED
      BY <1>4, <2>1, AnySeqAppend DEF val
  <2>3. /\ "used" \in DOMAIN r /\ r.used \in 0 .. Len(input)
        /\ Rest(SubSeq(input, r.used + 1, Len(input)), dst, SumTo(items, k), given)
        /\ ReadItem(items, got', given, k)
    <3>. DEFINE out == got'
    <3>1. out[k] = r.value
      BY <2>2
    <3>. HIDE DEF k, r, out
    <3>2. r = Decode(items[k].kind, input)
      BY DEF r
    <3>3. /\ "used" \in DOMAIN r /\ r.used \in 0 .. Len(input)
          /\ Rest(SubSeq(input, r.used + 1, Len(input)), dst, SumTo(items, k), given)
          /\ ReadItem(items, out, given, k)
      BY <1>2, <1>6, <3>1, <3>2, TrueAnswer
    <3>. QED
      BY <3>3 DEF out
  <2>4. used = r.used
    BY <2>3
  <2>. HIDE DEF used, r, val
  <2>5. Rest(input', dst', SumTo(items', Len(got')), given')
    BY <1>1, <2>2, <2>3, <2>4
  <2>6. input' \in Strings /\ Len(input') = Len(input) - used
    BY <1>1, <1>2, <2>3, <2>4, Dropped
  <2>7. Len(input') <= given'
    BY SMTT(60), <1>1, <1>2, <1>3, <1>5, <2>3, <2>4, <2>6
  <2>8. ASSUME NEW j \in 1 .. Len(got') PROVE ReadItem(items', got', given', j)
    <3>1. CASE j = k
      BY <1>1, <2>3, <3>1
    <3>2. CASE j # k
      <4>1. j \in 1 .. Len(got)
        BY <1>2, <2>2, <2>8, <3>2
      <4>2. ReadItem(items, got, given, j) /\ got'[j] = got[j]
        BY <1>3, <2>2, <4>1
      <4>. QED
        BY <1>1, <4>2 DEF ReadItem
    <3>. QED
      BY <3>1, <3>2
  <2>9. Reading'
    BY <1>1, <1>2, <2>1, <2>5, <2>6, <2>7, <2>8 DEF Reading
  <2>10. Stream'
    <3>1. Len(got') <= Len(items')
      BY <1>1, <1>2, <2>2
    <3>. QED
      BY <1>1, <1>3, <2>2, <3>1 DEF Stream
  <2>. QED
    BY <1>1, <1>2, <2>9, <2>10 DEF StreamInv
<1>7. CASE ~r.ok
  <2>1. got' = got /\ phase' = "stop"
    BY <1>1, <1>7
  <2>2. used \in 0 .. Len(input)
    <3>. HIDE DEF k, r
    <3>1. r = Decode(items[k].kind, input)
      BY DEF r
    <3>. QED
      BY <1>2, <1>7, <3>1, FalseAnswer
  <2>. HIDE DEF used, r
  <2>3. input' \in Strings /\ Len(input') = Len(input) - used
    BY <1>1, <1>2, <2>2, Dropped
  <2>4. Len(input') <= given'
    BY <1>1, <1>2, <1>3, <1>5, <2>2, <2>3
  <2>5. Reading'
    BY <1>1, <1>2, <1>3, <2>1, <2>3, <2>4 DEF Reading
  <2>6. Stream'
    BY <1>1, <2>1 DEF StreamInv, Stream
  <2>. QED
    BY <1>1, <1>2, <2>5, <2>6 DEF StreamInv
<1>. QED
  BY <1>6, <1>7

\* The stream keeps its shape through puts, cuts and gets.
LEMMA StreamInvariant == Spec => []StreamInv
<1>1. Init => StreamInv
  <2>. SUFFICES ASSUME Init PROVE StreamInv
    OBVIOUS
  <2>1. /\ dst = << >> /\ items = << >> /\ phase = "write" /\ given = 0
        /\ input = << >> /\ got = << >>
    BY DEF Init
  <2>2. << >> \in Strings /\ << >> \in Seq(Items) /\ Len(<< >>) = 0
    BY DEF Strings
  <2>3. SumTo(items, 0) = 0
    <3>1. \A k \in 1 .. 0 : ItemLength(items[k]) \in Nat
      OBVIOUS
    <3>. DEFINE z == 0
    <3>2. z \in Nat /\ \A k \in 1 .. z : ItemLength(items[k]) \in Nat
      BY <3>1
    <3>. HIDE DEF z
    <3>. QED
      BY <3>2, SumSteps
  <2>4. Stream
    BY <2>1, <2>2 DEF Stream
  <2>5. Laid(items, dst)
    BY <2>1, <2>2, <2>3 DEF Laid
  <2>6. Reading
    BY <2>1, <2>2 DEF Reading
  <2>. QED
    BY <2>4, <2>5, <2>6 DEF StreamInv
<1>2. StreamInv /\ [Next]_vars => StreamInv'
  <2>. SUFFICES ASSUME StreamInv, [Next]_vars PROVE StreamInv'
    OBVIOUS
  <2>1. CASE \E v \in Values16 : PutFixed16(v)
    BY <2>1, PutKeeps, Fixed16Item DEF PutFixed16, Items
  <2>2. CASE \E v \in Values32 : PutFixed32(v) \/ PutVarint32(v)
    BY <2>2, PutKeeps, Fixed32Item, Varint32Item DEF PutFixed32, PutVarint32, Items
  <2>3. CASE \E v \in Values64 : PutFixed64(v) \/ PutSwapped64(v) \/ PutVarint64(v)
    BY <2>3, PutKeeps, Fixed64Item, Swapped64Item, Varint64Item
       DEF PutFixed64, PutSwapped64, PutVarint64, Items
  <2>4. CASE \E v \in Signed64 : PutVarsignedint64(v)
    BY <2>4, PutKeeps, Signed64Item DEF PutVarsignedint64, Items
  <2>5. CASE \E s \in Contents, pad \in Paddings : PutLengthPrefixedSlice(s, pad)
    <3>1. PICK s \in Contents, pad \in Paddings : PutLengthPrefixedSlice(s, pad)
      BY <2>5
    <3>. DEFINE value == Padded(s, pad)
    <3>2. s \in Strings /\ pad \in Nat /\ Len(s) + pad < UInt32
      BY <3>1, ValueAssumption, WidthFacts DEF PutLengthPrefixedSlice
    <3>3. value \in Sliced /\ LengthPrefixed(s, pad) = SliceEncoding(value)
      BY <3>2, LengthPrefixedIs DEF Sliced
    <3>4. Put("slice", value, LengthPrefixed(s, pad))
      BY <3>1 DEF PutLengthPrefixedSlice, Padded
    <3>. HIDE DEF value
    <3>5. [kind |-> "slice", value |-> value] \in Items
      BY <3>3 DEF Items
    <3>6. Understood("slice", value, LengthPrefixed(s, pad))
      BY <3>3, SliceItem
    <3>. QED
      BY <3>4, <3>5, <3>6, PutKeeps
  <2>6. CASE \E p \in Keys : PutInternalKey(p)
    <3>1. PICK p \in Keys : PutInternalKey(p)
      BY <2>6
    <3>. DEFINE key == KeyEncoding(p)
                bytes == LengthPrefixed(key, 0)
    <3>2. Put("key", p, bytes)
      BY <3>1 DEF PutInternalKey, KeyEncoding
    <3>3. key \in Strings /\ Len(key) + 0 < UInt32 /\ 0 \in Nat
      <4>1. key \in Strings /\ Len(key) = KeySize + Bytes64
        BY KeyEncodingIs
      <4>. HIDE DEF key
      <4>. QED
        BY <4>1, KeyAssumption, ByteFacts
    <3>. HIDE DEF key
    <3>4. bytes = SliceEncoding(Padded(key, 0)) /\ Padded(key, 0) = key
      BY <3>3, LengthPrefixedIs, PaddedNone
    <3>5. Understood("key", p, bytes)
      BY <3>4, KeyItem DEF key
    <3>6. [kind |-> "key", value |-> p] \in Items
      BY DEF Items
    <3>. HIDE DEF bytes
    <3>. QED
      BY <3>2, <3>5, <3>6, PutKeeps
  <2>7. CASE \E n \in Numbers : PutDecimal(n)
    BY <2>7, PutKeeps, DecimalItem DEF PutDecimal, Items
  <2>8. CASE \E s \in Contents : PutHex(s)
    BY <2>8, PutKeeps, HexItem DEF PutHex, Items
  <2>9. CASE \E s \in Options : PutOption(s)
    BY <2>9, PutKeeps, OptionItem DEF PutOption, Items
  <2>10. CASE \E vec \in IntVectors : PutInts(vec)
    BY <2>10, PutKeeps, IntsItem DEF PutInts, Items
  <2>11. CASE \E n \in 0 .. Len(dst) : HandOver(n)
    BY <2>11, HandOverKeeps
  <2>12. CASE Get
    BY <2>12, GetKeeps
  <2>13. CASE UNCHANGED vars
    BY <2>13 DEF vars, StreamInv, Stream, Reading
  <2>. QED
    BY <2>1, <2>2, <2>3, <2>4, <2>5, <2>6, <2>7, <2>8, <2>9, <2>10, <2>11, <2>12, <2>13
       DEF Next
<1>. QED
  BY <1>1, <1>2, PTL DEF Spec

\* The length of the string written is the one that VarintLength and the widths of
\* the fixed integers predict for its items, whatever was put into it, and the
\* variables keep their types.
THEOREM LengthIsPredicted == Spec => []LengthPredicted
<1>1. StreamInv => LengthPredicted
  <2>. SUFFICES ASSUME StreamInv PROVE LengthPredicted
    OBVIOUS
  <2>1. BytesUpTo(Len(items)) = SumTo(items, Len(items))
    BY DEF BytesUpTo, SumTo
  <2>2. dst \in Strings /\ Len(dst) = SumTo(items, Len(items))
    BY DEF StreamInv, Laid
  <2>3. TypeOK
    BY <2>2 DEF StreamInv, Stream, Reading, TypeOK
  <2>. QED
    BY <2>1, <2>2, <2>3 DEF LengthPredicted
<1>. QED
  BY <1>1, StreamInvariant, PTL

\* Wherever the string was cut, the values read are the first values written, in
\* their order; only a text whose end was cut off may be read as a beginning of it.
THEOREM ReadersGetWhatWasPut == Spec => []ReadsWhatWasWritten
<1>1. StreamInv => ReadsWhatWasWritten
  <2>. SUFFICES ASSUME StreamInv, NEW k \in 1 .. Len(got)
                PROVE  LET it == items[k]
                           value == IF it.kind = "key" THEN KeyOf(it.value) ELSE it.value
                       IN  IF Whole(k) THEN got[k] = value
                           ELSE /\ it.kind \in TextKinds
                                /\ IsPrefix(Written(it.kind, got[k]), Written(it.kind, value))
    BY DEF ReadsWhatWasWritten
  <2>1. ReadItem(items, got, given, k)
    BY DEF StreamInv, Reading
  <2>2. BytesUpTo(k) = SumTo(items, k)
    BY DEF BytesUpTo, SumTo
  <2>3. Whole(k) <=> SumTo(items, k) <= given + (IF items[k].kind \in TextKinds THEN 1 ELSE 0)
    BY <2>2 DEF Whole
  <2>4. items[k].kind \in TextKinds => items[k].kind # "key"
    BY DEF TextKinds
  <2>. QED
    BY <2>1, <2>3, <2>4 DEF ReadItem, ValueOf
<1>. QED
  BY <1>1, StreamInvariant, PTL

\* A reader stops only at an item of which bytes are missing, or at a number that is
\* too large, and takes nothing for it but the length of a slice or what was left of
\* a text.
THEOREM StopsOnlyAtTheCut == Spec => StopsAtTheCut
<1>. DEFINE Stops ==
       (phase = "read" /\ phase' = "stop") =>
         LET it == items[Len(got) + 1]
         IN  /\ Len(input) < ItemLength(it) \/ (it.kind = "decimal" /\ it.value >= UInt64)
             /\ input' = input
                \/ (it.kind \in {"slice", "key"} \cup TextKinds /\ Len(input') < Len(input))
<1>1. StreamInv /\ [Next]_vars => [Stops]_vars
  <2>. SUFFICES ASSUME StreamInv, Next, phase = "read", phase' = "stop" PROVE Stops
    OBVIOUS
  <2>1. Get
    BY DEF Next, Put, HandOver, PutFixed16, PutFixed32, PutFixed64, PutSwapped64, PutVarint32,
           PutVarint64, PutVarsignedint64, PutLengthPrefixedSlice, PutInternalKey, PutDecimal,
           PutHex, PutOption, PutInts
  <2>. DEFINE k == Len(got) + 1
              r == Decode(items[k].kind, input)
              used == IF "used" \in DOMAIN r THEN r.used ELSE 0
  <2>2. input' = SubSeq(input, used + 1, Len(input)) /\ ~r.ok
    BY <2>1 DEF Get
  <2>3. /\ Laid(items, dst) /\ given \in 0 .. Len(dst) /\ input \in Strings /\ k \in 1 .. Len(items)
        /\ Rest(input, dst, SumTo(items, k - 1), given)
    BY <2>1, GetPlace
  <2>4. /\ Len(input) < ItemLength(items[k]) \/ (items[k].kind = "decimal" /\ items[k].value >= UInt64)
        /\ used \in 0 .. Len(input)
        /\ used > 0 => items[k].kind \in {"slice", "key"} \cup TextKinds
    <3>. HIDE DEF k, r
    <3>1. r = Decode(items[k].kind, input)
      BY DEF r
    <3>. QED
      BY <2>2, <2>3, <3>1, FalseAnswer
  <2>. HIDE DEF used, r
  <2>5. Len(input') = Len(input) - used /\ (used = 0 => input' = input)
    BY <2>2, <2>3, <2>4, Dropped
  <2>6. Len(input) \in Nat /\ (used > 0 => Len(input') < Len(input)) /\ (used = 0 \/ used > 0)
    BY <2>3, <2>4, <2>5, StringBytes
  <2>. QED
    BY <2>4, <2>5, <2>6
<1>. QED
  BY <1>1, StreamInvariant, PTL DEF Spec, StopsAtTheCut

\* The keys that dbformat builds for seeking, separating and ending a range bound
\* every key that a reader takes from the stream.
THEOREM BuiltKeysBound == Spec => []KeysBounded
<1>1. StreamInv => KeysBounded
  <2>. SUFFICES ASSUME StreamInv, NEW k \in ReadBack("key"), NEW l \in ReadBack("key")
                PROVE  /\ SeekBounds(items[k].value)
                       /\ EndKeyBounds(items[k].value, items[l].value.user_key)
                       /\ \A tmp \in 0 .. items[l].value.user_key, shorter \in BOOLEAN :
                            SeparatorBetween(items[k].value, items[l].value, tmp, shorter)
    BY DEF KeysBounded
  <2>1. ASSUME NEW j \in ReadBack("key") PROVE items[j].value \in ParsedInternalKey
    <3>1. j \in 1 .. Len(items) /\ items[j].kind = "key"
      BY DEF ReadBack, StreamInv, Stream
    <3>2. items[j] \in Items
      BY <3>1 DEF StreamInv, Stream
    <3>3. items[j].value \in Keys
      BY <3>1, <3>2 DEF Items
    <3>. QED
      BY <3>3, KeyAssumption
  <2>. DEFINE p == items[k].value
              q == items[l].value
  <2>2. p \in ParsedInternalKey /\ q \in ParsedInternalKey
    BY <2>1
  <2>. HIDE DEF p, q
  <2>3. q.user_key \in Nat /\ 0 .. q.user_key \subseteq Nat
    BY <2>2, KeyParts
  <2>4. SeekBounds(p)
    BY <2>2, SeekKeysBound
  <2>5. EndKeyBounds(p, q.user_key)
    BY <2>2, <2>3, TombstoneEndBounds
  <2>6. \A tmp \in 0 .. q.user_key, shorter \in BOOLEAN : SeparatorBetween(p, q, tmp, shorter)
    BY <2>2, <2>3, SeparatorSeparates
  <2>. QED
    BY <2>4, <2>5, <2>6 DEF p, q
<1>. QED
  BY <1>1, StreamInvariant, PTL

-----------------------------------------------------------------------------
(***************************************************************************)
(* The order of strings.                                                   *)
(***************************************************************************)
\* The strings differ at d for the first time.
DifferAt(a, b, d) ==
  /\ d \in 1 .. Len(a) /\ d \in 1 .. Len(b) /\ a[d] # b[d]
  /\ \A k \in 1 .. d - 1 : a[k] = b[k]

\* Slice::compare goes by the first byte that differs.
LEMMA CompareAt ==
  ASSUME NEW a \in Strings, NEW b \in Strings, NEW d, DifferAt(a, b, d)
  PROVE  CompareBytes(a, b) = Sign(a[d], b[d])
<1>. DEFINE m == Len(a)
            n == Len(b)
            len == Min({m, n})
            P == {k \in 1 .. len : a[k] # b[k]} \cup {len + 1}
<1>1. m \in Nat /\ n \in Nat /\ d \in 1 .. m /\ d \in 1 .. n
  BY StringBytes DEF DifferAt
<1>2. len = IF m <= n THEN m ELSE n
  BY <1>1, MinPair
<1>3. CompareBytes(a, b) = IF Min(P) <= len THEN Sign(a[Min(P)], b[Min(P)]) ELSE Sign(m, n)
  BY DEF CompareBytes, DifferenceOffset
<1>. HIDE DEF len
<1>4. len \in Nat /\ d \in 1 .. len /\ d <= len
  BY <1>1, <1>2
<1>5. d \in P /\ P \in SUBSET Nat
  BY <1>4 DEF DifferAt
<1>6. ASSUME NEW k \in P PROVE d <= k
  <2>1. CASE k = len + 1
    BY <1>4, <2>1
  <2>2. CASE k \in 1 .. len /\ a[k] # b[k]
    <3>1. k \notin 1 .. d - 1
      BY <2>2 DEF DifferAt
    <3>. QED
      BY <1>1, <1>4, <2>2, <3>1
  <2>. QED
    BY <1>6, <2>1, <2>2
<1>. HIDE DEF P
<1>7. Min(P) = d
  <2>1. Min(P) \in P /\ Min(P) <= d
    BY <1>5, MinFacts
  <2>2. d <= Min(P) /\ Min(P) \in Nat /\ d \in Nat
    BY <1>4, <1>5, <1>6, <2>1
  <2>. QED
    BY <2>1, <2>2
<1>. QED
  BY <1>3, <1>4, <1>7

\* Without such a byte it goes by the lengths.
LEMMA CompareLengths ==
  ASSUME NEW a \in Strings, NEW b \in Strings, \A k \in 1 .. Len(a) : k <= Len(b) => a[k] = b[k]
  PROVE  CompareBytes(a, b) = Sign(Len(a), Len(b))
<1>. DEFINE m == Len(a)
            n == Len(b)
            len == Min({m, n})
            P == {k \in 1 .. len : a[k] # b[k]} \cup {len + 1}
<1>1. m \in Nat /\ n \in Nat
  BY StringBytes
<1>2. len = IF m <= n THEN m ELSE n
  BY <1>1, MinPair
<1>3. CompareBytes(a, b) = IF Min(P) <= len THEN Sign(a[Min(P)], b[Min(P)]) ELSE Sign(m, n)
  BY DEF CompareBytes, DifferenceOffset
<1>. HIDE DEF len
<1>4. len \in Nat
  BY <1>1, <1>2
<1>5. ASSUME NEW k \in 1 .. len PROVE a[k] = b[k]
  <2>1. k \in 1 .. m /\ k <= n
    BY <1>1, <1>2
  <2>. QED
    BY <2>1
<1>6. P = {len + 1}
  BY <1>5
<1>. HIDE DEF P
<1>7. P \in SUBSET Nat /\ P # {}
  BY <1>4, <1>6
<1>8. Min(P) = len + 1
  BY <1>6, <1>7, MinFacts
<1>9. ~(Min(P) <= len)
  BY <1>4, <1>8
<1>. QED
  BY <1>3, <1>9

\* The cases of the comparison.
LEMMA CompareCases ==
  ASSUME NEW a \in Strings, NEW b \in Strings
  PROVE  \/ \A k \in 1 .. Len(a) : k <= Len(b) => a[k] = b[k]
         \/ \E d : DifferAt(a, b, d)
<1>. SUFFICES ASSUME NEW k0 \in 1 .. Len(a), k0 <= Len(b), a[k0] # b[k0]
              PROVE  \E d : DifferAt(a, b, d)
  OBVIOUS
<1>1. Len(a) \in Nat /\ Len(b) \in Nat
  BY StringBytes
<1>. DEFINE T == {k \in 1 .. Len(a) : k <= Len(b) /\ a[k] # b[k]}
<1>2. T \in SUBSET Nat /\ T # {}
  BY <1>1
<1>3. PICK d \in T : \A k \in T : d <= k
  <2>. HIDE DEF T
  <2>. QED
    BY <1>2, LeastElement
<1>4. d \in 1 .. Len(a) /\ d \in 1 .. Len(b) /\ a[d] # b[d]
  BY <1>1
<1>5. ASSUME NEW k \in 1 .. d - 1 PROVE a[k] = b[k]
  <2>1. k \in 1 .. Len(a) /\ k <= Len(b) /\ ~(d <= k)
    BY <1>1, <1>4
  <2>2. k \notin T
    BY <1>3, <2>1
  <2>. QED
    BY <2>1, <2>2
<1>. QED
  BY <1>4, <1>5 DEF DifferAt

\* a comes before b or is equal to it: a beginning of b, or less where they differ.
NotAfter(a, b) == Begins(a, b) \/ \E d : DifferAt(a, b, d) /\ a[d] < b[d]

\* memcmp and the lengths: CompareBytes is at most zero for the strings that do not come after.
LEMMA CompareOrder ==
  ASSUME NEW a \in Strings, NEW b \in Strings
  PROVE  CompareBytes(a, b) <= 0 <=> NotAfter(a, b)
<1>1. Len(a) \in Nat /\ Len(b) \in Nat
  BY StringBytes
<1>2. CASE \A k \in 1 .. Len(a) : k <= Len(b) => a[k] = b[k]
  <2>1. CompareBytes(a, b) = Sign(Len(a), Len(b))
    BY <1>2, CompareLengths
  <2>2. Sign(Len(a), Len(b)) <= 0 <=> Len(a) <= Len(b)
    BY <1>1 DEF Sign
  <2>3. Len(a) <= Len(b) <=> Begins(a, b)
    <3>1. ASSUME Len(a) <= Len(b) PROVE \A k \in 1 .. Len(a) : b[k] = a[k]
      <4>. TAKE k \in 1 .. Len(a)
      <4>1. k <= Len(b)
        BY <1>1, <3>1
      <4>. QED
        BY <1>2, <4>1
    <3>. QED
      BY <3>1 DEF Begins
  <2>4. ~\E d : DifferAt(a, b, d)
    <3>. SUFFICES ASSUME NEW d, DifferAt(a, b, d) PROVE FALSE
      OBVIOUS
    <3>1. d \in 1 .. Len(a) /\ d <= Len(b) /\ a[d] # b[d]
      BY <1>1 DEF DifferAt
    <3>. QED
      BY <1>2, <3>1
  <2>. QED
    BY <2>1, <2>2, <2>3, <2>4 DEF NotAfter
<1>3. CASE \E d : DifferAt(a, b, d)
  <2>1. PICK d : DifferAt(a, b, d)
    BY <1>3
  <2>2. d \in 1 .. Len(a) /\ d \in 1 .. Len(b) /\ a[d] # b[d] /\ a[d] \in Nat /\ b[d] \in Nat
    BY <2>1, StringBytes DEF DifferAt
  <2>3. CompareBytes(a, b) <= 0 <=> a[d] < b[d]
    <3>1. CompareBytes(a, b) = Sign(a[d], b[d])
      BY <2>1, CompareAt
    <3>. DEFINE x == a[d]
                y == b[d]
    <3>2. x \in Nat /\ y \in Nat /\ x # y
      BY <2>2
    <3>. HIDE DEF x, y
    <3>3. Sign(x, y) <= 0 <=> x < y
      BY <3>2 DEF Sign
    <3>. QED
      BY <3>1, <3>3 DEF x, y
  <2>4. ~Begins(a, b)
    BY <2>2 DEF Begins
  <2>5. ASSUME NEW e, DifferAt(a, b, e) PROVE e = d
    <3>1. e \in 1 .. Len(a) /\ a[e] # b[e]
      BY <2>5 DEF DifferAt
    <3>2. d \notin 1 .. e - 1 /\ e \notin 1 .. d - 1
      BY <2>1, <2>2, <2>5, <3>1 DEF DifferAt
    <3>. QED
      BY <1>1, <2>2, <3>1, <3>2
  <2>. QED
    BY <2>1, <2>3, <2>4, <2>5 DEF NotAfter
<1>. QED
  BY <1>2, <1>3, CompareCases

-----------------------------------------------------------------------------
(***************************************************************************)
(* The prefix transforms.                                                  *)
(***************************************************************************)
\* The first bytes of s, at most n.
Capped(s, n) == SubSeq(s, 1, Min({n, Len(s)}))

\* A capped prefix holds the first bytes, as many as there are.
LEMMA FirstBytes ==
  ASSUME NEW s \in Strings, NEW n \in Nat
  PROVE  /\ Capped(s, n) \in Strings
         /\ Len(Capped(s, n)) = IF n <= Len(s) THEN n ELSE Len(s)
         /\ \A k \in 1 .. Len(Capped(s, n)) : Capped(s, n)[k] = s[k]
<1>. DEFINE m == Min({n, Len(s)})
            z == 0
            p == SubSeq(s, z + 1, m)
<1>1. Len(s) \in Nat /\ m = (IF n <= Len(s) THEN n ELSE Len(s))
  BY StringBytes, MinPair
<1>2. Capped(s, n) = p
  BY DEF Capped
<1>. HIDE DEF m
<1>3. m \in Nat /\ m <= Len(s) /\ z \in Nat /\ z <= m /\ m - z = m
  BY <1>1
<1>4. \A k \in 1 .. m : z + k = k
  BY <1>3
<1>. HIDE DEF z
<1>5. p \in Strings /\ Len(p) = m /\ \A k \in 1 .. Len(p) : p[k] = s[z + k]
  BY <1>3, StringPart
<1>. HIDE DEF p
<1>. QED
  BY <1>1, <1>2, <1>4, <1>5

\* More bytes behind n bytes do not change the first n.
LEMMA FirstOfMore ==
  ASSUME NEW s \in Strings, NEW t \in Strings, NEW n \in Nat, Len(s) >= n
  PROVE  Capped(s \o t, n) = Capped(s, n)
<1>. DEFINE x == s \o t
            a == Capped(x, n)
            b == Capped(s, n)
<1>1. x \in Strings /\ Len(x) = Len(s) + Len(t) /\ \A k \in 1 .. Len(s) : x[k] = s[k]
  BY StringConcat
<1>2. Len(s) \in Nat /\ Len(t) \in Nat
  BY StringBytes
<1>. HIDE DEF x
<1>3. n <= Len(s) /\ n <= Len(x)
  BY <1>1, <1>2
<1>4. /\ a \in Strings /\ Len(a) = n /\ \A k \in 1 .. Len(a) : a[k] = x[k]
      /\ b \in Strings /\ Len(b) = n /\ \A k \in 1 .. Len(b) : b[k] = s[k]
  BY <1>1, <1>3, FirstBytes
<1>. HIDE DEF a, b
<1>5. \A k \in 1 .. n : k \in 1 .. Len(s)
  BY <1>2, <1>3
<1>6. a = b
  BY <1>1, <1>4, <1>5, StringEqual
<1>. QED
  BY <1>6 DEF a, b, x

\* Prefixes of one length are in the order of the strings.
LEMMA FirstInOrder ==
  ASSUME NEW s \in Strings, NEW t \in Strings, NEW n \in Nat, NotAfter(s, t)
  PROVE  NotAfter(Capped(s, n), Capped(t, n))
<1>. DEFINE a == Capped(s, n)
            b == Capped(t, n)
<1>1. /\ a \in Strings /\ Len(a) = (IF n <= Len(s) THEN n ELSE Len(s)) /\ \A k \in 1 .. Len(a) : a[k] = s[k]
      /\ b \in Strings /\ Len(b) = (IF n <= Len(t) THEN n ELSE Len(t)) /\ \A k \in 1 .. Len(b) : b[k] = t[k]
  BY FirstBytes
<1>2. Len(s) \in Nat /\ Len(t) \in Nat
  BY StringBytes
<1>. HIDE DEF a, b
<1>3. CASE Begins(s, t)
  <2>1. Len(s) <= Len(t) /\ \A k \in 1 .. Len(s) : t[k] = s[k]
    BY <1>3 DEF Begins
  <2>2. Len(a) <= Len(b) /\ Len(a) \in Nat /\ Len(b) \in Nat /\ Len(a) <= Len(s)
    BY <1>1, <1>2, <2>1
  <2>3. ASSUME NEW k \in 1 .. Len(a) PROVE b[k] = a[k]
    <3>1. k \in 1 .. Len(b) /\ k \in 1 .. Len(s)
      BY <1>2, <2>2
    <3>. QED
      BY <1>1, <2>1, <3>1
  <2>. QED
    BY <2>2, <2>3 DEF NotAfter, Begins, a, b
<1>4. CASE \E d : DifferAt(s, t, d) /\ s[d] < t[d]
  <2>1. PICK d : DifferAt(s, t, d) /\ s[d] < t[d]
    BY <1>4
  <2>2. d \in 1 .. Len(s) /\ d \in 1 .. Len(t) /\ s[d] # t[d] /\ \A k \in 1 .. d - 1 : s[k] = t[k]
    BY <2>1 DEF DifferAt
  <2>3. CASE d <= n
    <3>1. d \in 1 .. Len(a) /\ d \in 1 .. Len(b)
      BY <1>1, <1>2, <2>2, <2>3
    <3>2. a[d] = s[d] /\ b[d] = t[d]
      BY <1>1, <3>1
    <3>3. ASSUME NEW k \in 1 .. d - 1 PROVE a[k] = b[k]
      <4>1. Len(a) \in Nat /\ Len(b) \in Nat
        BY <1>1, StringBytes
      <4>2. k \in 1 .. Len(a) /\ k \in 1 .. Len(b)
        BY <3>1, <4>1
      <4>. QED
        BY <1>1, <2>2, <4>2
    <3>4. DifferAt(a, b, d)
      BY <2>2, <3>1, <3>2, <3>3 DEF DifferAt
    <3>5. NotAfter(a, b)
      BY <2>1, <3>2, <3>4 DEF NotAfter
    <3>. QED
      BY <3>5 DEF a, b
  <2>4. CASE ~(d <= n)
    <3>1. Len(a) = n /\ Len(b) = n /\ Len(a) <= Len(b)
      BY <1>1, <1>2, <2>2, <2>4
    <3>2. \A k \in 1 .. n : k \in 1 .. d - 1
      BY <1>2, <2>2, <2>4
    <3>3. \A k \in 1 .. Len(a) : b[k] = a[k]
      BY <1>1, <2>2, <3>1, <3>2
    <3>. QED
      BY <3>1, <3>3 DEF NotAfter, Begins, a, b
  <2>. QED
    BY <2>3, <2>4
<1>. QED
  BY <1>3, <1>4 DEF NotAfter

\* The contract of SliceTransform, for all slices and prefix lengths.
TransformLaws(tr, n, s, t) ==
  /\ InDomain(tr, n, s) => InRange(tr, n, Transform(tr, n, s))
  /\ SameResultWhenAppended(tr, n, s) => Transform(tr, n, s \o t) = Transform(tr, n, s)
  /\ (InDomain(tr, n, s) /\ InDomain(tr, n, t) /\ CompareBytes(s, t) <= 0) =>
       CompareBytes(Transform(tr, n, s), Transform(tr, n, t)) <= 0

\* What a transform answers of a slice holds of every slice: its prefix is in the
\* transform's range, more bytes leave it as it is if SameResultWhenAppended says so,
\* and prefixes are in the order of the slices.
THEOREM TransformContract ==
  \A tr \in Transforms, n \in Nat, s, t \in Strings : TransformLaws(tr, n, s, t)
<1>. SUFFICES ASSUME NEW tr \in Transforms, NEW n \in Nat, NEW s \in Strings, NEW t \in Strings
              PROVE  TransformLaws(tr, n, s, t)
  OBVIOUS
<1>1. CASE tr = "noop"
  <2>1. \A x : Transform(tr, n, x) = x
    BY <1>1 DEF Transform
  <2>2. InRange(tr, n, Transform(tr, n, s)) /\ ~SameResultWhenAppended(tr, n, s)
    BY <1>1 DEF InRange, SameResultWhenAppended
  <2>. QED
    BY <2>1, <2>2 DEF TransformLaws
<1>2. CASE tr # "noop"
  <2>1. \A x : Transform(tr, n, x) = Capped(x, n)
    BY <1>2 DEF Transform, Capped
  <2>2. Len(s) \in Nat /\ Len(Capped(s, n)) = IF n <= Len(s) THEN n ELSE Len(s)
    BY StringBytes, FirstBytes
  <2>3. InDomain(tr, n, s) => InRange(tr, n, Capped(s, n))
    <3>. DEFINE c == Len(Capped(s, n))
    <3>1. CASE tr = "fixed"
      BY <2>2, <3>1 DEF InDomain, InRange
    <3>2. CASE tr = "capped"
      <4>1. c <= n
        BY <2>2
      <4>. QED
        BY <3>2, <4>1 DEF InRange
    <3>. QED
      BY <1>2, <3>1, <3>2 DEF Transforms
  <2>4. SameResultWhenAppended(tr, n, s) => Capped(s \o t, n) = Capped(s, n)
    BY FirstOfMore DEF SameResultWhenAppended
  <2>5. CompareBytes(s, t) <= 0 => CompareBytes(Capped(s, n), Capped(t, n)) <= 0
    <3>1. Capped(s, n) \in Strings /\ Capped(t, n) \in Strings
      BY FirstBytes
    <3>2. CompareBytes(s, t) <= 0 <=> NotAfter(s, t)
      BY CompareOrder
    <3>3. NotAfter(s, t) => NotAfter(Capped(s, n), Capped(t, n))
      BY FirstInOrder
    <3>4. CompareBytes(Capped(s, n), Capped(t, n)) <= 0 <=> NotAfter(Capped(s, n), Capped(t, n))
      BY <3>1, CompareOrder
    <3>. QED
      BY <3>2, <3>3, <3>4
  <2>. QED
    BY <2>1, <2>3, <2>4, <2>5 DEF TransformLaws
<1>. QED
  BY <1>1, <1>2

\* What was read back of an item other than a text.
LEMMA ReadBackItem ==
  ASSUME StreamInv, NEW kind, kind \notin TextKinds, NEW k \in ReadBack(kind)
  PROVE  items[k] \in Items /\ items[k].kind = kind /\ got[k] = ValueOf(kind, items[k].value)
<1>1. k \in 1 .. Len(got) /\ items[k].kind = kind
  BY DEF ReadBack
<1>2. ReadItem(items, got, given, k)
  BY <1>1 DEF StreamInv, Reading
<1>3. got[k] = ValueOf(kind, items[k].value)
  BY <1>1, <1>2 DEF ReadItem
<1>4. items[k] \in Items
  <2>1. items \in Seq(Items) /\ Len(got) <= Len(items) /\ \E S : got \in Seq(S)
    BY DEF StreamInv, Stream
  <2>2. Len(got) \in Nat /\ Len(items) \in Nat
    BY <2>1
  <2>3. k \in 1 .. Len(items)
    BY <1>1, <2>1, <2>2
  <2>. QED
    BY <2>1, <2>3
<1>. QED
  BY <1>1, <1>3, <1>4

\* The contract holds of the slices that a reader takes from the stream.
THEOREM SlicesTransformStably == Spec => []TransformsStable
<1>1. StreamInv => TransformsStable
  <2>. SUFFICES ASSUME StreamInv, NEW k \in ReadBack("slice"), NEW l \in ReadBack("slice"),
                       NEW tr \in Transforms, NEW n \in PrefixLengths
                PROVE  TransformLaws(tr, n, got[k], got[l])
    BY DEF TransformsStable, TransformLaws
  <2>1. ASSUME NEW j \in ReadBack("slice") PROVE got[j] \in Strings
    <3>1. items[j] \in Items /\ items[j].kind = "slice" /\ got[j] = ValueOf("slice", items[j].value)
      BY ReadBackItem DEF TextKinds
    <3>2. items[j].value \in Sliced
      BY <3>1 DEF Items
    <3>. QED
      BY <3>1, <3>2 DEF ValueOf, Sliced
  <2>2. n \in Nat /\ got[k] \in Strings /\ got[l] \in Strings
    BY <2>1, ValueAssumption
  <2>. QED
    BY <2>2, TransformContract
<1>. QED
  BY <1>1, StreamInvariant, PTL

-----------------------------------------------------------------------------
(***************************************************************************)
(* The order of the stored keys.                                           *)
(***************************************************************************)
LEMMA DividedMonotone ==
  ASSUME NEW x \in Nat, NEW y \in Nat, NEW m \in Nat \ {0}, x <= y
  PROVE  x \div m <= y \div m
<1>. DEFINE a == x \div m
            b == y \div m
            r == x % m
            q == y % m
<1>1. a \in Nat /\ r \in 0 .. m - 1 /\ x = a * m + r /\ b \in Nat /\ q \in 0 .. m - 1 /\ y = b * m + q
  BY Divided
<1>. HIDE DEF a, b, r, q
<1>2. ASSUME b < a PROVE FALSE
  <2>1. a >= b + 1
    BY <1>1, <1>2
  <2>2. a * m >= (b + 1) * m
    BY <1>1, <2>1
  <2>3. (b + 1) * m = b * m + m
    BY <1>1
  <2>. DEFINE am == a * m
              bm == b * m
              c == (b + 1) * m
  <2>4. am \in Nat /\ bm \in Nat
    BY <1>1
  <2>5. am >= c /\ c = bm + m /\ x = am + r /\ y = bm + q
    BY <1>1, <2>2, <2>3
  <2>. HIDE DEF am, bm, c
  <2>. QED
    BY <1>1, <2>4, <2>5
<1>3. a <= b
  BY <1>1, <1>2
<1>. QED
  BY <1>3 DEF a, b

\* The number whose digits are the first k bytes of x's F bytes, the highest first.
Leading(x, F, k) == x \div Bits(F - k)

\* The leading bytes of a number grow by one digit of base ByteRange at a time.
LEMMA LeadingStep ==
  ASSUME NEW F \in Nat, NEW x \in Nat, x < Bits(F)
  PROVE  /\ Leading(x, F, 0) = 0 /\ Leading(x, F, F) = x
         /\ \A k \in 0 .. F : Leading(x, F, k) \in Nat
         /\ \A k \in 1 .. F : /\ Leading(x, F, k) % ByteRange \in Nat
                              /\ Leading(x, F, k) = Leading(x, F, k - 1) * ByteRange + (Leading(x, F, k) % ByteRange)
<1>1. Leading(x, F, 0) = 0
  <2>. DEFINE m == Bits(F)
  <2>1. F - 0 = F /\ m \in Nat \ {0}
    BY ByteFacts
  <2>2. Leading(x, F, 0) = x \div m
    BY <2>1 DEF Leading
  <2>3. x \in 0 .. m - 1
    BY <2>1
  <2>. HIDE DEF m
  <2>. QED
    BY <2>1, <2>2, <2>3, SmallRemainder
<1>2. Leading(x, F, F) = x
  <2>1. F - F = 0 /\ Bits(0) = 1
    BY ByteFacts
  <2>2. Leading(x, F, F) = x \div 1
    BY <2>1 DEF Leading
  <2>. QED
    BY <2>2
<1>3. ASSUME NEW k \in 0 .. F PROVE Leading(x, F, k) \in Nat
  <2>. DEFINE m == Bits(F - k)
  <2>1. F - k \in Nat
    OBVIOUS
  <2>2. m \in Nat \ {0}
    BY <2>1, ByteFacts
  <2>3. Leading(x, F, k) = x \div m
    BY DEF Leading
  <2>. HIDE DEF m
  <2>. QED
    BY <2>2, <2>3, Divided
<1>4. ASSUME NEW k \in 1 .. F
      PROVE  /\ Leading(x, F, k) % ByteRange \in Nat
             /\ Leading(x, F, k) = Leading(x, F, k - 1) * ByteRange + (Leading(x, F, k) % ByteRange)
  <2>. DEFINE i == F - k
              m == Bits(i)
              a == Leading(x, F, k)
              b == Leading(x, F, k - 1)
  <2>1. i \in Nat /\ F - (k - 1) = i + 1
    OBVIOUS
  <2>2. a = x \div m
    BY DEF Leading
  <2>3. b = x \div Bits(i + 1)
    BY <2>1 DEF Leading
  <2>. HIDE DEF i, a, b
  <2>4. m \in Nat \ {0} /\ Bits(i + 1) = ByteRange * m /\ ByteRange \in Nat \ {0}
    BY <2>1, ByteFacts
  <2>. HIDE DEF m
  <2>5. x \div (ByteRange * m) = (x \div m) \div ByteRange
    BY <2>4, DividedTwice
  <2>6. b = a \div ByteRange
    BY <2>2, <2>3, <2>4, <2>5
  <2>7. a \in Nat
    BY <2>2, <2>4, Divided
  <2>8. a % ByteRange \in 0 .. ByteRange - 1 /\ a = (a \div ByteRange) * ByteRange + (a % ByteRange)
    BY <2>4, <2>7, Divided
  <2>9. a % ByteRange \in Nat
    BY <2>8
  <2>10. a = b * ByteRange + (a % ByteRange)
    BY <2>6, <2>8
  <2>. QED
    BY <2>9, <2>10 DEF a, b
<1>. QED
  BY <1>1, <1>2, <1>3, <1>4

\* While the bytes agree, so do the leading numbers.
LEMMA LeadingAgrees ==
  ASSUME NEW F \in Nat, NEW x \in Nat, NEW y \in Nat, x < Bits(F), y < Bits(F), NEW n \in 0 .. F,
         \A k \in 1 .. n : Leading(x, F, k) % ByteRange = Leading(y, F, k) % ByteRange
  PROVE  Leading(x, F, n) = Leading(y, F, n)
<1>. DEFINE T == {k \in 0 .. n : Leading(x, F, k) = Leading(y, F, k)}
<1>1. 0 \in T
  BY LeadingStep
<1>2. ASSUME NEW k \in 1 .. n, k - 1 \in T PROVE k \in T
  <2>1. k \in 1 .. F /\ k \in 0 .. n
    OBVIOUS
  <2>2. Leading(x, F, k - 1) = Leading(y, F, k - 1)
    BY <1>2
  <2>3. /\ Leading(x, F, k) = Leading(x, F, k - 1) * ByteRange + (Leading(x, F, k) % ByteRange)
        /\ Leading(y, F, k) = Leading(y, F, k - 1) * ByteRange + (Leading(y, F, k) % ByteRange)
    BY <2>1, LeadingStep
  <2>. QED
    BY <2>1, <2>2, <2>3
<1>. HIDE DEF T
<1>3. n \in T
  <2>1. n \in Nat /\ n \in 0 .. n
    OBVIOUS
  <2>2. 0 .. n \subseteq T
    BY <1>1, <1>2, <2>1, BoundedInduction
  <2>. QED
    BY <2>1, <2>2
<1>. QED
  BY <1>3 DEF T

\* Where the bytes of x and y differ for the first time, those of the smaller number
\* are the smaller ones.
LEMMA LeadingDiffers ==
  ASSUME NEW F \in Nat, NEW x \in Nat, NEW y \in Nat, x < y, y < Bits(F), NEW d \in 1 .. F,
         \A k \in 1 .. d - 1 : Leading(x, F, k) % ByteRange = Leading(y, F, k) % ByteRange,
         Leading(x, F, d) % ByteRange # Leading(y, F, d) % ByteRange
  PROVE  Leading(x, F, d) % ByteRange < Leading(y, F, d) % ByteRange
<1>1. x < Bits(F) /\ d - 1 \in 0 .. F /\ Bits(F) \in Nat
  BY ByteFacts
<1>2. Leading(x, F, d - 1) = Leading(y, F, d - 1)
  <2>. DEFINE e == d - 1
  <2>1. e \in 0 .. F /\ \A k \in 1 .. e : Leading(x, F, k) % ByteRange = Leading(y, F, k) % ByteRange
    OBVIOUS
  <2>. HIDE DEF e
  <2>2. Leading(x, F, e) = Leading(y, F, e)
    BY <1>1, <2>1, LeadingAgrees
  <2>. QED
    BY <2>2 DEF e
<1>. DEFINE a == Leading(x, F, d)
            b == Leading(y, F, d)
            c == Leading(x, F, d - 1) * ByteRange
            r == a % ByteRange
            q == b % ByteRange
<1>3. a = c + r /\ b = c + q /\ r \in Nat /\ q \in Nat /\ a \in Nat /\ b \in Nat
  <2>1. d \in 0 .. F
    OBVIOUS
  <2>. QED
    BY <1>1, <1>2, <2>1, LeadingStep
<1>4. c \in Nat
  <2>. DEFINE l == Leading(x, F, d - 1)
  <2>1. l \in Nat
    BY <1>1, LeadingStep
  <2>. HIDE DEF l
  <2>2. l * ByteRange \in Nat
    BY <2>1, ByteFacts
  <2>. QED
    BY <2>2 DEF l
<1>5. a <= b
  <2>. DEFINE m == Bits(F - d)
  <2>1. F - d \in Nat
    OBVIOUS
  <2>2. m \in Nat \ {0}
    BY <2>1, ByteFacts
  <2>3. a = x \div m /\ b = y \div m
    BY DEF Leading
  <2>. HIDE DEF m, a, b
  <2>4. x <= y
    OBVIOUS
  <2>. QED
    BY <2>2, <2>3, <2>4, DividedMonotone
<1>6. r # q
  OBVIOUS
<1>. HIDE DEF a, b, c, r, q
<1>7. r < q
  BY <1>3, <1>4, <1>5, <1>6
<1>. QED
  BY <1>7 DEF r, q, a, b

\* The bytes of a generated user key: its number's, the highest first, then the
\* character 0.
LEMMA UserByte ==
  ASSUME NEW p \in Keys
  PROVE  LET F == Min({KeySize, Bytes64})
         IN  /\ F \in Nat /\ F <= KeySize /\ p.user_key \in Nat /\ p.user_key < Bits(F)
             /\ \A k \in 1 .. KeySize :
                  UserBytes(p)[k] = IF k <= F THEN Leading(p.user_key, F, k) % ByteRange ELSE Char0
<1>. DEFINE F == Min({KeySize, Bytes64})
            x == p.user_key
            number == x % NumKeys
            u == UserBytes(p)
<1>1. x \in Nat /\ NumKeys \in Nat \ {0} /\ x < NumKeys /\ NumKeys <= Bits(F) /\ KeySize \in Nat /\ Bytes64 \in Nat
  BY KeyAssumption, KeyParts, ByteFacts
<1>2. F = IF KeySize <= Bytes64 THEN KeySize ELSE Bytes64
  BY <1>1, MinPair
<1>3. u = [k \in 1 .. KeySize |-> IF k <= F THEN (number \div Bits(F - k)) % ByteRange ELSE Char0]
  BY DEF UserBytes, GenerateKeyFromInt
<1>. HIDE DEF F, x, u
<1>4. F \in Nat /\ F <= KeySize
  BY <1>1, <1>2
<1>5. number = x
  <2>1. x \in 0 .. NumKeys - 1
    BY <1>1
  <2>. QED
    BY <1>1, <2>1, SmallRemainder
<1>6. x < Bits(F)
  <2>1. Bits(F) \in Nat
    BY <1>4, ByteFacts
  <2>. QED
    BY <1>1, <2>1
<1>. HIDE DEF number
<1>7. \A k \in 1 .. KeySize : u[k] = IF k <= F THEN Leading(x, F, k) % ByteRange ELSE Char0
  BY <1>3, <1>5 DEF Leading
<1>. QED
  BY <1>1, <1>4, <1>6, <1>7 DEF F, x, u

\* A smaller number has the smaller user key.
LEMMA SmallerUser ==
  ASSUME NEW p \in Keys, NEW q \in Keys, p.user_key < q.user_key
  PROVE  CompareBytes(UserBytes(p), UserBytes(q)) = -1 /\ CompareBytes(UserBytes(q), UserBytes(p)) = 1
<1>. DEFINE F == Min({KeySize, Bytes64})
            x == p.user_key
            y == q.user_key
            a == UserBytes(p)
            b == UserBytes(q)
            X(k) == Leading(x, F, k) % ByteRange
            Y(k) == Leading(y, F, k) % ByteRange
<1>1. a \in Strings /\ b \in Strings /\ Len(a) = KeySize /\ Len(b) = KeySize /\ KeySize \in Nat
  BY UserBytesAre, KeyAssumption
<1>2. /\ F \in Nat /\ F <= KeySize /\ x \in Nat /\ y \in Nat /\ x < Bits(F) /\ y < Bits(F)
      /\ \A k \in 1 .. KeySize : a[k] = (IF k <= F THEN X(k) ELSE Char0) /\ b[k] = (IF k <= F THEN Y(k) ELSE Char0)
  BY UserByte
<1>0. x < y
  OBVIOUS
<1>. HIDE DEF F, x, y, a, b
<1>3. \E d \in 1 .. F : X(d) # Y(d)
  <2>. SUFFICES ASSUME \A k \in 1 .. F : X(k) = Y(k) PROVE FALSE
    OBVIOUS
  <2>1. F \in 0 .. F
    BY <1>2
  <2>2. Leading(x, F, F) = Leading(y, F, F)
    BY <1>2, <2>1, LeadingAgrees
  <2>3. x = y
    BY <1>2, <2>2, LeadingStep
  <2>. QED
    BY <1>0, <1>2, <2>3
<1>4. \A k \in 1 .. F : k \in 1 .. KeySize /\ k <= F /\ a[k] = X(k) /\ b[k] = Y(k)
  BY <1>1, <1>2
<1>5. ~\A k \in 1 .. Len(a) : k <= Len(b) => a[k] = b[k]
  <2>1. PICK d \in 1 .. F : X(d) # Y(d)
    BY <1>3
  <2>2. d \in 1 .. Len(a) /\ d <= Len(b) /\ a[d] # b[d]
    BY <1>1, <1>4, <2>1
  <2>. QED
    BY <2>2
<1>6. PICK d : DifferAt(a, b, d)
  BY <1>1, <1>5, CompareCases
<1>7. d \in 1 .. KeySize /\ a[d] # b[d] /\ \A k \in 1 .. d - 1 : a[k] = b[k]
  BY <1>1, <1>6 DEF DifferAt
<1>8. d \in 1 .. F
  <2>1. d <= F
    BY <1>2, <1>7
  <2>. QED
    BY <1>2, <1>7, <2>1
<1>9. \A k \in 1 .. d - 1 : X(k) = Y(k)
  <2>. TAKE k \in 1 .. d - 1
  <2>1. k \in 1 .. F
    BY <1>2, <1>8
  <2>. QED
    BY <1>4, <1>7, <2>1
<1>10. a[d] < b[d]
  <2>1. X(d) # Y(d)
    BY <1>4, <1>7, <1>8
  <2>2. X(d) < Y(d)
    BY <1>0, <1>2, <1>8, <1>9, <2>1, LeadingDiffers
  <2>. QED
    BY SMTT(60), <1>4, <1>8, <2>2
<1>11. DifferAt(b, a, d)
  BY <1>1, <1>6 DEF DifferAt
<1>12. CompareBytes(a, b) = Sign(a[d], b[d]) /\ CompareBytes(b, a) = Sign(b[d], a[d])
  BY <1>1, <1>6, <1>11, CompareAt
<1>13. a[d] \in Nat /\ b[d] \in Nat
  BY <1>1, <1>7, StringBytes
<1>14. Sign(a[d], b[d]) = -1 /\ Sign(b[d], a[d]) = 1
  <2>. DEFINE m == a[d]
              n == b[d]
  <2>1. m \in Nat /\ n \in Nat /\ m < n
    BY <1>10, <1>13
  <2>. HIDE DEF m, n
  <2>2. Sign(m, n) = -1 /\ Sign(n, m) = 1
    BY <2>1 DEF Sign
  <2>. QED
    BY <2>2 DEF m, n
<1>. QED
  BY <1>12, <1>14 DEF a, b

\* The user keys compare as the numbers they were generated from.
LEMMA CompareUsers ==
  ASSUME NEW p \in Keys, NEW q \in Keys
  PROVE  CompareBytes(UserBytes(p), UserBytes(q)) = Sign(p.user_key, q.user_key)
<1>1. p.user_key \in Nat /\ q.user_key \in Nat
  BY KeyAssumption, KeyParts
<1>2. CASE p.user_key < q.user_key
  BY <1>1, <1>2, SmallerUser DEF Sign
<1>3. CASE p.user_key > q.user_key
  <2>1. q.user_key < p.user_key
    BY <1>1, <1>3
  <2>2. CompareBytes(UserBytes(p), UserBytes(q)) = 1
    BY <2>1, SmallerUser
  <2>3. Sign(p.user_key, q.user_key) = 1
    BY <1>1, <1>3 DEF Sign
  <2>. QED
    BY <2>2, <2>3
<1>4. CASE p.user_key = q.user_key
  <2>1. UserBytes(p) = UserBytes(q)
    BY <1>4 DEF UserBytes
  <2>. DEFINE a == UserBytes(p)
  <2>2. a \in Strings /\ Len(a) \in Nat
    BY UserBytesAre, StringBytes
  <2>. HIDE DEF a
  <2>3. CompareBytes(a, a) = Sign(Len(a), Len(a))
    BY <2>2, CompareLengths
  <2>4. Sign(Len(a), Len(a)) = 0 /\ Sign(p.user_key, q.user_key) = 0
    BY <1>1, <1>4, <2>2 DEF Sign
  <2>. QED
    BY <2>1, <2>3, <2>4 DEF a
<1>. QED
  BY <1>1, <1>2, <1>3, <1>4

\* The slices of two stored keys compare as the parsed keys do.
LEMMA SlicesCompare ==
  ASSUME NEW p \in Keys, NEW q \in Keys
  PROVE  CompareSlices(KeyEncoding(p), KeyEncoding(q)) = CompareParsed(p, q)
<1>1. p \in ParsedInternalKey /\ q \in ParsedInternalKey
  BY KeyAssumption
<1>2. Encode(p).footer = Footer(p) /\ Encode(q).footer = Footer(q)
  BY DEF Encode, Footer
<1>3. CompareSlices(KeyEncoding(p), KeyEncoding(q)) =
        IF Sign(p.user_key, q.user_key) # 0 THEN Sign(p.user_key, q.user_key)
        ELSE Descending(Footer(p), Footer(q))
  BY KeyExtracts, CompareUsers DEF CompareSlices
<1>4. Descending(Footer(p), Footer(q)) =
        IF Descending(p.sequence, q.sequence) # 0
        THEN Descending(p.sequence, q.sequence) ELSE Descending(p.type, q.type)
  BY <1>1, <1>2, FooterCompare
<1>. QED
  BY <1>3, <1>4 DEF CompareParsed

\* CompareKeySeq, which shifts the type out of the footer, never contradicts the order.
THEOREM KeySeqIsCoarser == \A p, q \in ParsedInternalKey : KeySeqCoarser(p, q)
<1>. SUFFICES ASSUME NEW p \in ParsedInternalKey, NEW q \in ParsedInternalKey PROVE KeySeqCoarser(p, q)
  OBVIOUS
<1>1. ASSUME NEW x \in ParsedInternalKey
      PROVE  UnPackSequence(Encode(x).footer) = x.sequence /\ Encode(x).user_key = x.user_key
  <2>1. UnPackSequence(PackSequenceAndType(x.sequence, x.type)) = x.sequence
    BY KeyParts, TypeFacts, FooterParts DEF UnPackSequence, PackSequenceAndType
  <2>. QED
    BY <2>1 DEF Encode
<1>2. CompareKeySeq(Encode(p), Encode(q)) =
        IF Sign(p.user_key, q.user_key) # 0 THEN Sign(p.user_key, q.user_key)
        ELSE Descending(p.sequence, q.sequence)
  BY <1>1 DEF CompareKeySeq
<1>. QED
  BY <1>2 DEF KeySeqCoarser, CompareParsed

\* The keys that a reader takes from the stream compare, as slices, as the keys that
\* were put into it do, whatever their numbers, sequence numbers and types: stored
\* tables are merged in the order in which they were sorted.
THEOREM StoredOrderKept == Spec => []KeyOrderKept
<1>1. StreamInv => KeyOrderKept
  <2>. SUFFICES ASSUME StreamInv, NEW k \in ReadBack("key"), NEW l \in ReadBack("key")
                PROVE  LET p == items[k].value
                           q == items[l].value
                       IN  /\ CompareSlices(AppendInternalKey(got[k]), AppendInternalKey(got[l])) = CompareParsed(p, q)
                           /\ RoundTrip(p) /\ EncodedAgrees(p, q) /\ Antisymmetric(p, q) /\ KeySeqCoarser(p, q)
    BY DEF KeyOrderKept
  <2>1. ASSUME NEW j \in ReadBack("key")
        PROVE  items[j].value \in Keys /\ AppendInternalKey(got[j]) = KeyEncoding(items[j].value)
    <3>1. items[j] \in Items /\ items[j].kind = "key" /\ got[j] = ValueOf("key", items[j].value)
      BY ReadBackItem DEF TextKinds
    <3>2. items[j].value \in Keys
      BY <3>1 DEF Items
    <3>. QED
      BY <3>1, <3>2 DEF ValueOf, KeyEncoding
  <2>. DEFINE p == items[k].value
              q == items[l].value
  <2>2. /\ p \in Keys /\ q \in Keys
        /\ AppendInternalKey(got[k]) = KeyEncoding(p) /\ AppendInternalKey(got[l]) = KeyEncoding(q)
    BY <2>1
  <2>. HIDE DEF p, q
  <2>3. CompareSlices(AppendInternalKey(got[k]), AppendInternalKey(got[l])) = CompareParsed(p, q)
    BY <2>2, SlicesCompare
  <2>4. p \in ParsedInternalKey /\ q \in ParsedInternalKey
    BY <2>2, KeyAssumption
  <2>5. RoundTrip(p) /\ EncodedAgrees(p, q) /\ Antisymmetric(p, q) /\ KeySeqCoarser(p, q)
    BY <2>4, ParseInvertsEncode, ComparatorsAgree, TotalOrder, KeySeqIsCoarser
  <2>. QED
    BY <2>3, <2>5 DEF p, q
<1>. QED
  BY <1>1, StreamInvariant, PTL
=============================================================================
