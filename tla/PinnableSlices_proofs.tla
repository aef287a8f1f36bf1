------------------------ MODULE PinnableSlices_proofs ------------------------
(***************************************************************************)
(* Proofs about Cleanable and PinnableSlice, for every finite set of       *)
(* objects and every set of blocks and strings.                            *)
(***************************************************************************)
EXTENDS PinnableSlices, FiniteSetTheorems, WellFoundedInduction, TLAPS

-----------------------------------------------------------------------------
(***************************************************************************)
(* Lists of cleanups.  A simple list names no cleanup twice.               *)
(***************************************************************************)
In(l, b) == \E k \in 1 .. Len(l) : l[k] = b

Simple(l) ==
  /\ l \in Seq(Blocks)
  /\ \A j, k \in 1 .. Len(l) : l[j] = l[k] => j = k

Apart(l, m) == \A b : ~(In(l, b) /\ In(m, b))

LEMMA EmptyList == Simple(<< >>) /\ \A b : ~In(<< >>, b)
BY DEF Simple, In

LEMMA InBlocks ==
  ASSUME NEW l, Simple(l), NEW b, In(l, b)
  PROVE  b \in Blocks
BY DEF Simple, In

LEMMA OneElement ==
  ASSUME NEW b \in Blocks
  PROVE  Simple(<< b >>) /\ \A x : In(<< b >>, x) <=> x = b
BY DEF Simple, In

\* The places of a concatenation.
LEMMA Concatenated ==
  ASSUME NEW S, NEW s \in Seq(S), NEW t \in Seq(S)
  PROVE  /\ s \o t \in Seq(S) /\ Len(s \o t) = Len(s) + Len(t)
         /\ Len(s) \in Nat /\ Len(t) \in Nat
         /\ \A k \in 1 .. Len(s) : (s \o t)[k] = s[k]
         /\ \A k \in 1 .. Len(t) : (s \o t)[Len(s) + k] = t[k]
OBVIOUS

LEMMA Joined ==
  ASSUME NEW s, NEW t, Simple(s), Simple(t), Apart(s, t)
  PROVE  Simple(s \o t) /\ \A b : In(s \o t, b) <=> In(s, b) \/ In(t, b)
<1>. DEFINE r == s \o t
            m == Len(s)
            n == Len(t)
<1>1. /\ r \in Seq(Blocks) /\ Len(r) = m + n /\ m \in Nat /\ n \in Nat
      /\ \A k \in 1 .. m : r[k] = s[k]
      /\ \A k \in 1 .. n : r[m + k] = t[k]
  BY Concatenated DEF Simple
<1>. HIDE DEF r, m, n
<1>2. \A k \in 1 .. m + n : k \in 1 .. m \/ (k - m \in 1 .. n /\ m + (k - m) = k)
  BY <1>1
<1>3. \A k \in 1 .. m : k \in 1 .. m + n
  BY <1>1
<1>4. \A k \in 1 .. n : m + k \in 1 .. m + n
  BY <1>1
<1>5. ASSUME NEW b PROVE In(r, b) <=> In(s, b) \/ In(t, b)
  <2>1. In(s, b) => In(r, b)
    BY <1>1, <1>3 DEF In, m
  <2>2. In(t, b) => In(r, b)
    BY <1>1, <1>4 DEF In, n
  <2>3. In(r, b) => In(s, b) \/ In(t, b)
    BY <1>1, <1>2 DEF In, m, n
  <2>. QED
    BY <2>1, <2>2, <2>3
<1>6. ASSUME NEW j \in 1 .. m + n, NEW k \in 1 .. m + n, r[j] = r[k]
      PROVE  j = k
  <2>1. CASE j \in 1 .. m /\ k \in 1 .. m
    BY <1>1, <1>6, <2>1 DEF Simple, m
  <2>2. CASE j \in 1 .. m /\ k - m \in 1 .. n
    <3>1. In(s, r[j]) /\ In(t, r[k])
      <4>1. r[j] = s[j] /\ r[k] = t[k - m]
        BY <1>1, <1>2, <2>2
      <4>. QED
        BY <2>2, <4>1 DEF In, m, n
    <3>. QED
      BY <1>6, <3>1 DEF Apart
  <2>3. CASE j - m \in 1 .. n /\ k \in 1 .. m
    <3>1. In(t, r[j]) /\ In(s, r[k])
      <4>1. r[k] = s[k] /\ r[j] = t[j - m]
        BY <1>1, <1>2, <2>3
      <4>. QED
        BY <2>3, <4>1 DEF In, m, n
    <3>. QED
      BY <1>6, <3>1 DEF Apart
  <2>4. CASE j - m \in 1 .. n /\ k - m \in 1 .. n
    <3>1. r[j] = t[j - m] /\ r[k] = t[k - m]
      BY <1>1, <1>2, <2>4
    <3>2. j - m = k - m
      BY <1>6, <2>4, <3>1 DEF Simple, n
    <3>. QED
      BY <1>1, <3>2
  <2>. QED
    BY <1>2, <2>1, <2>2, <2>3, <2>4
<1>7. Simple(r)
  BY <1>1, <1>6 DEF Simple
<1>. QED
  BY <1>5, <1>7 DEF r

LEMMA Reversed ==
  ASSUME NEW s, Simple(s)
  PROVE  Simple(Reverse(s)) /\ \A b : In(Reverse(s), b) <=> In(s, b)
<1>. DEFINE r == Reverse(s)
            n == Len(s)
<1>1. s \in Seq(Blocks) /\ n \in Nat /\ \A k \in 1 .. n : s[k] \in Blocks
  BY DEF Simple
<1>2. r = [k \in 1 .. n |-> s[(n - k) + 1]]
  BY DEF Reverse
<1>. HIDE DEF r, n
<1>3. \A k \in 1 .. n : (n - k) + 1 \in 1 .. n /\ (n - ((n - k) + 1)) + 1 = k
  BY <1>1
<1>4. r \in [1 .. n -> Blocks]
  BY <1>1, <1>2, <1>3
<1>5. r \in Seq(Blocks) /\ Len(r) = n
  BY <1>1, <1>4
<1>6. ASSUME NEW b PROVE In(r, b) <=> In(s, b)
  <2>1. In(r, b) => In(s, b)
    BY <1>2, <1>3, <1>5 DEF In, n
  <2>2. ASSUME In(s, b) PROVE In(r, b)
    <3>1. PICK k \in 1 .. n : s[k] = b
      BY <2>2 DEF In, n
    <3>2. r[(n - k) + 1] = b
      BY <1>2, <1>3, <3>1
    <3>. QED
      BY <1>3, <1>5, <3>2 DEF In
  <2>. QED
    BY <2>1, <2>2
<1>7. ASSUME NEW j \in 1 .. n, NEW k \in 1 .. n, r[j] = r[k]
      PROVE  j = k
  <2>1. (n - j) + 1 = (n - k) + 1
    <3>1. s[(n - j) + 1] = s[(n - k) + 1]
      BY <1>2, <1>7
    <3>. QED
      BY <1>3, <3>1 DEF Simple, n
  <2>. QED
    BY <1>1, <2>1
<1>8. Simple(r)
  BY <1>5, <1>7 DEF Simple
<1>. QED
  BY <1>6, <1>8 DEF r

\* A list is its head and the rest, and the head is not in the rest.
LEMMA HeadAndTail ==
  ASSUME NEW s, Simple(s), s # << >>
  PROVE  /\ Head(s) \in Blocks /\ Simple(Tail(s)) /\ ~In(Tail(s), Head(s))
         /\ \A b : In(s, b) <=> b = Head(s) \/ In(Tail(s), b)
<1>. DEFINE t == Tail(s)
            n == Len(s)
<1>1. /\ s \in Seq(Blocks) /\ n \in Nat /\ n >= 1 /\ Head(s) = s[1] /\ s[1] \in Blocks
      /\ t \in Seq(Blocks) /\ Len(t) = n - 1
      /\ \A k \in 1 .. n - 1 : t[k] = s[k + 1]
  BY DEF Simple
<1>. HIDE DEF t, n
<1>2. \A k \in 1 .. n - 1 : k + 1 \in 1 .. n /\ k + 1 # 1
  BY <1>1
<1>3. 1 \in 1 .. n
  BY <1>1
<1>4. \A j, k \in 1 .. n : s[j] = s[k] => j = k
  BY DEF Simple, n
<1>5. ASSUME NEW j \in 1 .. n - 1, NEW k \in 1 .. n - 1, t[j] = t[k]
      PROVE  j = k
  <2>1. j + 1 = k + 1
    BY <1>1, <1>2, <1>4, <1>5
  <2>. QED
    BY <1>1, <2>1
<1>6. Simple(t)
  BY <1>1, <1>5 DEF Simple
<1>7. ~In(t, s[1])
  BY <1>1, <1>2, <1>3, <1>4 DEF In
<1>8. ASSUME NEW b PROVE In(s, b) <=> b = s[1] \/ In(t, b)
  <2>1. b = s[1] \/ In(t, b) => In(s, b)
    BY <1>1, <1>2, <1>3 DEF In, n
  <2>2. ASSUME In(s, b), b # s[1] PROVE In(t, b)
    <3>1. PICK k \in 1 .. n : s[k] = b
      BY <2>2 DEF In, n
    <3>2. k - 1 \in 1 .. n - 1 /\ (k - 1) + 1 = k
      BY <1>1, <2>2, <3>1
    <3>. QED
      BY <1>1, <3>1, <3>2 DEF In
  <2>. QED
    BY <2>1, <2>2
<1>. QED
  BY <1>1, <1>6, <1>7, <1>8 DEF t

\* RegisterCleanup adds one cleanup.
LEMMA Registered ==
  ASSUME NEW l, Simple(l), NEW b \in Blocks, ~In(l, b)
  PROVE  Simple(Register(l, b)) /\ \A x : In(Register(l, b), x) <=> In(l, x) \/ x = b
<1>1. CASE l = << >>
  <2>1. Register(l, b) = << b >>
    BY <1>1 DEF Register
  <2>. QED
    BY <1>1, <2>1, OneElement, EmptyList
<1>2. CASE l # << >>
  <2>. DEFINE h == Head(l)
              t == Tail(l)
  <2>1. /\ h \in Blocks /\ Simple(t) /\ ~In(t, h) /\ b # h /\ ~In(t, b)
        /\ \A x : In(l, x) <=> x = h \/ In(t, x)
    BY <1>2, HeadAndTail
  <2>2. Register(l, b) = (<< h >> \o << b >>) \o t
    <3>1. << h, b >> = << h >> \o << b >>
      OBVIOUS
    <3>. QED
      BY <1>2, <3>1 DEF Register
  <2>. HIDE DEF h, t
  <2>3. /\ Simple(<< h >>) /\ \A x : In(<< h >>, x) <=> x = h
        /\ Simple(<< b >>) /\ \A x : In(<< b >>, x) <=> x = b
    BY <2>1, OneElement
  <2>4. Apart(<< h >>, << b >>)
    BY <2>1, <2>3 DEF Apart
  <2>5. Simple(<< h >> \o << b >>) /\ \A x : In(<< h >> \o << b >>, x) <=> x = h \/ x = b
    BY <2>3, <2>4, Joined
  <2>6. Apart(<< h >> \o << b >>, t)
    BY <2>1, <2>5 DEF Apart
  <2>7. /\ Simple((<< h >> \o << b >>) \o t)
        /\ \A x : In((<< h >> \o << b >>) \o t, x) <=> (x = h \/ x = b) \/ In(t, x)
    BY <2>1, <2>5, <2>6, Joined
  <2>. QED
    BY <2>1, <2>2, <2>7
<1>. QED
  BY <1>1, <1>2

\* DelegateCleanupsTo leaves the cleanups of both lists in the target's.
LEMMA Delegated ==
  ASSUME NEW f, NEW t, Simple(f), Simple(t), Apart(f, t)
  PROVE  Simple(Delegate(f, t)) /\ \A x : In(Delegate(f, t), x) <=> In(f, x) \/ In(t, x)
<1>1. CASE f = << >>
  <2>1. Delegate(f, t) = t
    BY <1>1 DEF Delegate
  <2>. QED
    BY <1>1, <2>1, EmptyList
<1>2. CASE f # << >> /\ t = << >>
  <2>. DEFINE h == Head(f)
              r == Reverse(Tail(f))
  <2>1. Delegate(f, t) = << h >> \o r
    BY <1>2 DEF Delegate
  <2>2. /\ h \in Blocks /\ Simple(Tail(f)) /\ ~In(Tail(f), h)
        /\ \A x : In(f, x) <=> x = h \/ In(Tail(f), x)
    BY <1>2, HeadAndTail
  <2>3. Simple(r) /\ \A x : In(r, x) <=> In(Tail(f), x)
    BY <2>2, Reversed
  <2>. HIDE DEF h, r
  <2>4. Simple(<< h >>) /\ \A x : In(<< h >>, x) <=> x = h
    BY <2>2, OneElement
  <2>5. Apart(<< h >>, r)
    BY <2>2, <2>3, <2>4 DEF Apart
  <2>6. Simple(<< h >> \o r) /\ \A x : In(<< h >> \o r, x) <=> x = h \/ In(r, x)
    BY <2>3, <2>4, <2>5, Joined
  <2>. QED
    BY <1>2, <2>1, <2>2, <2>3, <2>6, EmptyList
<1>3. CASE f # << >> /\ t # << >>
  <2>. DEFINE h == Head(t)
              r == Reverse(f)
              u == Tail(t)
  <2>1. Delegate(f, t) = (<< h >> \o r) \o u
    BY <1>3 DEF Delegate
  <2>2. /\ h \in Blocks /\ Simple(u) /\ ~In(u, h)
        /\ \A x : In(t, x) <=> x = h \/ In(u, x)
    BY <1>3, HeadAndTail
  <2>3. Simple(r) /\ \A x : In(r, x) <=> In(f, x)
    BY Reversed
  <2>. HIDE DEF h, r, u
  <2>4. Simple(<< h >>) /\ \A x : In(<< h >>, x) <=> x = h
    BY <2>2, OneElement
  <2>5. Apart(<< h >>, r)
    BY <2>2, <2>3, <2>4 DEF Apart
  <2>6. Simple(<< h >> \o r) /\ \A x : In(<< h >> \o r, x) <=> x = h \/ In(r, x)
    BY <2>3, <2>4, <2>5, Joined
  <2>7. Apart(<< h >> \o r, u)
    BY <2>2, <2>3, <2>6 DEF Apart
  <2>8. /\ Simple((<< h >> \o r) \o u)
        /\ \A x : In((<< h >> \o r) \o u, x) <=> (x = h \/ In(r, x)) \/ In(u, x)
    BY <2>2, <2>6, <2>7, Joined
  <2>. QED
    BY <2>1, <2>2, <2>3, <2>8
<1>. QED
  BY <1>1, <1>2, <1>3

\* How often DoCleanup runs a cleanup of a simple list.
LEMMA OccursOnce ==
  ASSUME NEW l, Simple(l), NEW b
  PROVE  Occurs(l, b) = IF In(l, b) THEN 1 ELSE 0
<1>. DEFINE places == {k \in 1 .. Len(l) : l[k] = b}
<1>1. CASE In(l, b)
  <2>1. PICK k \in 1 .. Len(l) : l[k] = b
    BY <1>1 DEF In
  <2>2. places = {k}
    BY <2>1 DEF Simple
  <2>3. Cardinality({k}) = 1
    BY FS_Singleton
  <2>. QED
    BY <1>1, <2>2, <2>3 DEF Occurs
<1>2. CASE ~In(l, b)
  <2>1. places = {}
    BY <1>2 DEF In
  <2>2. Cardinality({}) = 0
    BY FS_EmptySet
  <2>. QED
    BY <1>2, <2>1, <2>2 DEF Occurs
<1>. QED
  BY <1>1, <1>2

-----------------------------------------------------------------------------
(***************************************************************************)
(* Who holds a cleanup.  L are the lists of the objects, G the cleanups    *)
(* that were registered, C how often each ran and D the overwritten lists. *)
(***************************************************************************)
HeldIn(L, D, b) == (\E c \in Cleanables : In(L[c], b)) \/ (\E l \in D : In(l, b))

\* No cleanup is in two places, and it has run once when it is in none.
Accounted(L, G, C, D) ==
  /\ L \in [Cleanables -> Seq(Blocks)]
  /\ C \in [Blocks -> Nat]
  /\ \A c \in Cleanables : Simple(L[c])
  /\ \A c, d \in Cleanables : c # d => Apart(L[c], L[d])
  /\ \A l \in D : Simple(l) /\ \A c \in Cleanables : Apart(l, L[c])
  /\ \A l, m \in D : l # m => Apart(l, m)
  /\ \A b \in Blocks : HeldIn(L, D, b) => b \in G
  /\ \A b \in Blocks : C[b] = IF b \in G /\ ~HeldIn(L, D, b) THEN 1 ELSE 0

\* The cleanups of one object run.
LEMMA AccountedCleans ==
  ASSUME NEW L, NEW G, NEW C, NEW D, Accounted(L, G, C, D), NEW c \in Cleanables
  PROVE  Accounted([L EXCEPT ![c] = << >>], G, [b \in Blocks |-> C[b] + Occurs(L[c], b)], D)
<1>. DEFINE M == [L EXCEPT ![c] = << >>]
            R == [b \in Blocks |-> C[b] + Occurs(L[c], b)]
<1>1. /\ L \in [Cleanables -> Seq(Blocks)] /\ C \in [Blocks -> Nat]
      /\ \A x \in Cleanables : Simple(L[x])
      /\ \A x, y \in Cleanables : x # y => Apart(L[x], L[y])
      /\ \A l \in D : Simple(l) /\ \A x \in Cleanables : Apart(l, L[x])
      /\ \A l, m \in D : l # m => Apart(l, m)
      /\ \A b \in Blocks : HeldIn(L, D, b) => b \in G
      /\ \A b \in Blocks : C[b] = IF b \in G /\ ~HeldIn(L, D, b) THEN 1 ELSE 0
  BY DEF Accounted
<1>2. M \in [Cleanables -> Seq(Blocks)] /\ M[c] = << >>
      /\ \A x \in Cleanables : x # c => M[x] = L[x]
  BY <1>1
<1>3. \A b \in Blocks : R[b] = C[b] + (IF In(L[c], b) THEN 1 ELSE 0)
  BY <1>1, OccursOnce
<1>. HIDE DEF M
<1>4. R \in [Blocks -> Nat]
  <2>1. \A b \in Blocks : C[b] + Occurs(L[c], b) \in Nat
    BY SMTT(60), <1>1, OccursOnce
  <2>. QED
    BY <2>1
<1>. HIDE DEF R
<1>5. \A x \in Cleanables : Simple(M[x]) /\ \A b : In(M[x], b) <=> x # c /\ In(L[x], b)
  BY <1>1, <1>2, EmptyList
<1>6. \A x, y \in Cleanables : x # y => Apart(M[x], M[y])
  BY <1>1, <1>5 DEF Apart
<1>7. \A l \in D : \A x \in Cleanables : Apart(l, M[x])
  BY <1>1, <1>5 DEF Apart
<1>8. ASSUME NEW b \in Blocks PROVE HeldIn(M, D, b) <=> HeldIn(L, D, b) /\ ~In(L[c], b)
  <2>1. In(L[c], b) => ~HeldIn(M, D, b)
    BY <1>1, <1>5 DEF HeldIn, Apart
  <2>. QED
    BY <1>5, <2>1 DEF HeldIn
<1>9. \A b \in Blocks : In(L[c], b) => HeldIn(L, D, b)
  BY DEF HeldIn
<1>10. \A b \in Blocks : HeldIn(M, D, b) => b \in G
  BY <1>1, <1>8
<1>11. ASSUME NEW b \in Blocks PROVE R[b] = IF b \in G /\ ~HeldIn(M, D, b) THEN 1 ELSE 0
  BY <1>1, <1>3, <1>8, <1>9
<1>12. Accounted(M, G, R, D)
  BY <1>1, <1>2, <1>4, <1>5, <1>6, <1>7, <1>10, <1>11 DEF Accounted
<1>. QED
  BY <1>12 DEF M, R

\* The list of one object moves to another that has none.
LEMMA AccountedMoves ==
  ASSUME NEW L, NEW G, NEW C, NEW D, Accounted(L, G, C, D),
         NEW p \in Cleanables, NEW o \in Cleanables, p # o, L[p] = << >>
  PROVE  Accounted([L EXCEPT ![p] = L[o], ![o] = << >>], G, C, D)
<1>. DEFINE M == [L EXCEPT ![p] = L[o], ![o] = << >>]
<1>1. /\ L \in [Cleanables -> Seq(Blocks)] /\ C \in [Blocks -> Nat]
      /\ \A x \in Cleanables : Simple(L[x])
      /\ \A x, y \in Cleanables : x # y => Apart(L[x], L[y])
      /\ \A l \in D : Simple(l) /\ \A x \in Cleanables : Apart(l, L[x])
      /\ \A l, m \in D : l # m => Apart(l, m)
      /\ \A b \in Blocks : HeldIn(L, D, b) => b \in G
      /\ \A b \in Blocks : C[b] = IF b \in G /\ ~HeldIn(L, D, b) THEN 1 ELSE 0
  BY DEF Accounted
<1>2. M \in [Cleanables -> Seq(Blocks)] /\ M[p] = L[o] /\ M[o] = << >>
      /\ \A x \in Cleanables : x # p /\ x # o => M[x] = L[x]
  BY <1>1
<1>. HIDE DEF M
<1>3. \A x \in Cleanables : Simple(M[x])
  BY <1>1, <1>2, EmptyList
<1>4. \A x, y \in Cleanables : x # y => Apart(M[x], M[y])
  BY <1>1, <1>2, EmptyList DEF Apart
<1>5. \A l \in D : \A x \in Cleanables : Apart(l, M[x])
  BY <1>1, <1>2, EmptyList DEF Apart
<1>6. ASSUME NEW b \in Blocks PROVE HeldIn(M, D, b) <=> HeldIn(L, D, b)
  <2>1. ASSUME NEW x \in Cleanables, In(L[x], b) PROVE HeldIn(M, D, b)
    BY <1>2, <2>1, EmptyList DEF HeldIn
  <2>2. ASSUME NEW x \in Cleanables, In(M[x], b) PROVE HeldIn(L, D, b)
    BY <1>2, <2>2, EmptyList DEF HeldIn
  <2>3. (\E l \in D : In(l, b)) => HeldIn(L, D, b) /\ HeldIn(M, D, b)
    BY DEF HeldIn
  <2>. QED
    BY <2>1, <2>2, <2>3 DEF HeldIn
<1>7. Accounted(M, G, C, D)
  BY <1>1, <1>2, <1>3, <1>4, <1>5, <1>6 DEF Accounted
<1>. QED
  BY <1>7 DEF M

\* The list of one object is overwritten.
LEMMA AccountedDrops ==
  ASSUME NEW L, NEW G, NEW C, NEW D, Accounted(L, G, C, D), NEW h \in Cleanables
  PROVE  Accounted([L EXCEPT ![h] = << >>], G, C, D \cup ({L[h]} \ {<< >>}))
<1>. DEFINE M == [L EXCEPT ![h] = << >>]
            E == D \cup ({L[h]} \ {<< >>})
<1>1. /\ L \in [Cleanables -> Seq(Blocks)] /\ C \in [Blocks -> Nat]
      /\ \A x \in Cleanables : Simple(L[x])
      /\ \A x, y \in Cleanables : x # y => Apart(L[x], L[y])
      /\ \A l \in D : Simple(l) /\ \A x \in Cleanables : Apart(l, L[x])
      /\ \A l, m \in D : l # m => Apart(l, m)
      /\ \A b \in Blocks : HeldIn(L, D, b) => b \in G
      /\ \A b \in Blocks : C[b] = IF b \in G /\ ~HeldIn(L, D, b) THEN 1 ELSE 0
  BY DEF Accounted
<1>2. M \in [Cleanables -> Seq(Blocks)] /\ M[h] = << >>
      /\ \A x \in Cleanables : x # h => M[x] = L[x]
  BY <1>1
<1>. HIDE DEF M
<1>3. \A x \in Cleanables : Simple(M[x])
  BY <1>1, <1>2, EmptyList
<1>4. \A x, y \in Cleanables : x # y => Apart(M[x], M[y])
  BY <1>1, <1>2, EmptyList DEF Apart
<1>5. \A l \in E : l \in D \/ l = L[h]
  OBVIOUS
<1>6. \A l \in E : Simple(l) /\ \A x \in Cleanables : Apart(l, M[x])
  BY <1>1, <1>2, <1>5, EmptyList DEF Apart
<1>7. \A l, m \in E : l # m => Apart(l, m)
  <2>1. \A l \in D : Apart(l, L[h]) /\ Apart(L[h], l)
    BY <1>1 DEF Apart
  <2>. QED
    BY <1>1, <1>5, <2>1
<1>8. ASSUME NEW b \in Blocks PROVE HeldIn(M, E, b) <=> HeldIn(L, D, b)
  <2>1. ASSUME NEW x \in Cleanables, In(L[x], b) PROVE HeldIn(M, E, b)
    <3>1. CASE x # h
      BY <1>2, <2>1, <3>1 DEF HeldIn
    <3>2. CASE x = h
      <4>1. L[h] \in E
        BY <2>1, <3>2, EmptyList
      <4>. QED
        BY <2>1, <3>2, <4>1 DEF HeldIn
    <3>. QED
      BY <3>1, <3>2
  <2>2. ASSUME NEW x \in Cleanables, In(M[x], b) PROVE HeldIn(L, D, b)
    BY <1>2, <2>2, EmptyList DEF HeldIn
  <2>3. ASSUME NEW l \in D, In(l, b) PROVE HeldIn(M, E, b)
    BY <2>3 DEF HeldIn
  <2>4. ASSUME NEW l \in E, In(l, b) PROVE HeldIn(L, D, b)
    BY <1>5, <2>4 DEF HeldIn
  <2>. QED
    BY <2>1, <2>2, <2>3, <2>4 DEF HeldIn
<1>. HIDE DEF E
<1>9. Accounted(M, G, C, E)
  BY <1>1, <1>2, <1>3, <1>4, <1>6, <1>7, <1>8 DEF Accounted
<1>. QED
  BY <1>9 DEF M, E

\* A new cleanup is registered with one object.
LEMMA AccountedRegisters ==
  ASSUME NEW L, NEW G, NEW C, NEW D, Accounted(L, G, C, D), NEW c \in Cleanables,
         NEW b \in Blocks, b \notin G
  PROVE  /\ Accounted([L EXCEPT ![c] = Register(@, b)], G \cup {b}, C, D)
         /\ \A x : In(Register(L[c], b), x) <=> In(L[c], x) \/ x = b
<1>. DEFINE M == [L EXCEPT ![c] = Register(@, b)]
            H == G \cup {b}
<1>1. /\ L \in [Cleanables -> Seq(Blocks)] /\ C \in [Blocks -> Nat]
      /\ \A x \in Cleanables : Simple(L[x])
      /\ \A x, y \in Cleanables : x # y => Apart(L[x], L[y])
      /\ \A l \in D : Simple(l) /\ \A x \in Cleanables : Apart(l, L[x])
      /\ \A l, m \in D : l # m => Apart(l, m)
      /\ \A a \in Blocks : HeldIn(L, D, a) => a \in G
      /\ \A a \in Blocks : C[a] = IF a \in G /\ ~HeldIn(L, D, a) THEN 1 ELSE 0
  BY DEF Accounted
<1>2. (\A x \in Cleanables : ~In(L[x], b)) /\ (\A l \in D : ~In(l, b))
  BY <1>1 DEF HeldIn
<1>3. /\ Simple(Register(L[c], b))
      /\ \A x : In(Register(L[c], b), x) <=> In(L[c], x) \/ x = b
  BY <1>1, <1>2, Registered
<1>4. M \in [Cleanables -> Seq(Blocks)] /\ M[c] = Register(L[c], b)
      /\ \A x \in Cleanables : x # c => M[x] = L[x]
  <2>1. Register(L[c], b) \in Seq(Blocks)
    BY <1>3 DEF Simple
  <2>. QED
    BY <1>1, <2>1
<1>. HIDE DEF M
<1>5. \A x \in Cleanables : Simple(M[x])
  BY <1>1, <1>3, <1>4
<1>6. \A x \in Cleanables : \A a : In(M[x], a) <=> In(L[x], a) \/ (x = c /\ a = b)
  BY <1>3, <1>4
<1>7. ASSUME NEW x \in Cleanables, NEW y \in Cleanables, x # y PROVE Apart(M[x], M[y])
  <2>1. ASSUME NEW a, In(M[x], a), In(M[y], a) PROVE FALSE
    <3>1. ~(In(L[x], a) /\ In(L[y], a))
      BY <1>1, <1>7 DEF Apart
    <3>. QED
      BY <1>2, <1>6, <1>7, <2>1, <3>1
  <2>. QED
    BY <2>1 DEF Apart
<1>8. \A l \in D : \A x \in Cleanables : Apart(l, M[x])
  BY <1>1, <1>2, <1>6 DEF Apart
<1>9. ASSUME NEW a \in Blocks PROVE HeldIn(M, D, a) <=> HeldIn(L, D, a) \/ a = b
  BY <1>6 DEF HeldIn
<1>10. \A a \in Blocks : HeldIn(M, D, a) => a \in H
  BY <1>1, <1>9
<1>11. \A a \in Blocks : C[a] = IF a \in H /\ ~HeldIn(M, D, a) THEN 1 ELSE 0
  BY <1>1, <1>9
<1>. HIDE DEF H
<1>12. Accounted(M, H, C, D)
  BY <1>1, <1>4, <1>5, <1>7, <1>8, <1>10, <1>11 DEF Accounted
<1>. QED
  BY <1>3, <1>12 DEF M, H

\* One object hands its cleanups to another.
LEMMA AccountedDelegates ==
  ASSUME NEW L, NEW G, NEW C, NEW D, Accounted(L, G, C, D),
         NEW h \in Cleanables, NEW c \in Cleanables, h # c
  PROVE  /\ Accounted([L EXCEPT ![h] = << >>, ![c] = Delegate(L[h], @)], G, C, D)
         /\ \A x : In(Delegate(L[h], L[c]), x) <=> In(L[h], x) \/ In(L[c], x)
<1>. DEFINE M == [L EXCEPT ![h] = << >>, ![c] = Delegate(L[h], @)]
<1>1. /\ L \in [Cleanables -> Seq(Blocks)] /\ C \in [Blocks -> Nat]
      /\ \A x \in Cleanables : Simple(L[x])
      /\ \A x, y \in Cleanables : x # y => Apart(L[x], L[y])
      /\ \A l \in D : Simple(l) /\ \A x \in Cleanables : Apart(l, L[x])
      /\ \A l, m \in D : l # m => Apart(l, m)
      /\ \A a \in Blocks : HeldIn(L, D, a) => a \in G
      /\ \A a \in Blocks : C[a] = IF a \in G /\ ~HeldIn(L, D, a) THEN 1 ELSE 0
  BY DEF Accounted
<1>2. /\ Simple(Delegate(L[h], L[c]))
      /\ \A x : In(Delegate(L[h], L[c]), x) <=> In(L[h], x) \/ In(L[c], x)
  BY <1>1, Delegated
<1>3. M \in [Cleanables -> Seq(Blocks)] /\ M[h] = << >> /\ M[c] = Delegate(L[h], L[c])
      /\ \A x \in Cleanables : x # c /\ x # h => M[x] = L[x]
  <2>. DEFINE d == Delegate(L[h], L[c])
  <2>1. d \in Seq(Blocks)
    BY <1>2 DEF Simple
  <2>2. M = [L EXCEPT ![h] = << >>, ![c] = d]
    <3>1. [L EXCEPT ![h] = << >>][c] = L[c]
      BY <1>1
    <3>. QED
      BY <3>1
  <2>. HIDE DEF d, M
  <2>3. << >> \in Seq(Blocks)
    OBVIOUS
  <2>4. /\ M \in [Cleanables -> Seq(Blocks)] /\ M[h] = << >> /\ M[c] = d
        /\ \A x \in Cleanables : x # c /\ x # h => M[x] = L[x]
    BY <1>1, <2>1, <2>2, <2>3
  <2>. QED
    BY <2>4 DEF d
<1>. HIDE DEF M
<1>4. \A x \in Cleanables : Simple(M[x])
  BY <1>1, <1>2, <1>3, EmptyList
<1>5. \A x \in Cleanables : \A a :
        In(M[x], a) <=> IF x = h THEN FALSE ELSE In(L[x], a) \/ (x = c /\ In(L[h], a))
  BY <1>2, <1>3, EmptyList
<1>6. \A x, y \in Cleanables : x # y => Apart(M[x], M[y])
  BY <1>1, <1>5 DEF Apart
<1>7. \A l \in D : \A x \in Cleanables : Apart(l, M[x])
  BY <1>1, <1>5 DEF Apart
<1>8. ASSUME NEW a \in Blocks PROVE HeldIn(M, D, a) <=> HeldIn(L, D, a)
  BY <1>5 DEF HeldIn
<1>9. Accounted(M, G, C, D)
  BY <1>1, <1>3, <1>4, <1>6, <1>7, <1>8 DEF Accounted
<1>. QED
  BY <1>2, <1>9 DEF M

-----------------------------------------------------------------------------
(***************************************************************************)
(* The inductive invariant.                                                *)
(***************************************************************************)
Buffers == Slices \cup Strings

Member ==
  [pinned : BOOLEAN, buf : Buffers \cup {NoBuf},
   data : Blocks \cup Buffers \cup {NoBuf, Literal}, offset : Nat, size : Nat]

\* The types; a slice's buffer is its own string or one of a client's.
Typed ==
  /\ alive \subseteq Cleanables
  /\ nodes \in Int
  /\ given \subseteq Blocks
  /\ slice \in [Slices -> Member]
  /\ \A p \in Slices : slice[p].buf \in {p, NoBuf} \cup Strings
  /\ length \in [Buffers -> 0 .. MaxLength]
  /\ wild \in BOOLEAN

\* Every cleanup is in one place, and no object that is gone holds any.
Owned ==
  /\ Accounted(list, given, cleaned, dropped)
  /\ \A c \in Cleanables \ alive : list[c] = << >>

\* A slice that is not pinned and not empty starts where its buffer does: this is
\* why a move may set data_ to the start of the string it has moved.
Shows(s, l, len) ==
  /\ s.pinned => /\ s.data \in Blocks
                 /\ In(l, s.data)
                 /\ s.offset + s.size <= BlockLength
  /\ ~s.pinned /\ s.size > 0 => /\ s.buf # NoBuf
                                /\ s.data = s.buf
                                /\ s.offset = 0
                                /\ s.size = len[s.buf]

Shown == \A p \in alive \cap Slices : Shows(slice[p], list[p], length)

\* No two slices use one string.
OwnBuffer ==
  \A p, o \in alive \cap Slices :
    p # o /\ slice[p].buf # NoBuf => slice[o].buf # slice[p].buf

IInv == Typed /\ Owned /\ Shown /\ OwnBuffer

-----------------------------------------------------------------------------
(***************************************************************************)
(* The members of a slice.                                                 *)
(***************************************************************************)
LEMMA FreshMember ==
  ASSUME NEW buf \in Buffers \cup {NoBuf}
  PROVE  /\ Fresh(buf) \in Member /\ Fresh(buf).buf = buf
         /\ Fresh(buf).pinned = FALSE /\ Fresh(buf).size = 0
BY DEF Fresh, Member

LEMMA PinnedMember ==
  ASSUME NEW s \in Member, NEW b \in Blocks
  PROVE  /\ Pinned(s, b) \in Member /\ Pinned(s, b).buf = s.buf
         /\ Pinned(s, b).pinned = TRUE /\ Pinned(s, b).data = b
         /\ Pinned(s, b).offset = 0 /\ Pinned(s, b).size = BlockLength
BY LengthAssumption DEF Pinned, Member

LEMMA PinSelfMember ==
  ASSUME NEW s \in Member, NEW len \in Nat
  PROVE  /\ PinSelf(s, len) \in Member /\ PinSelf(s, len).buf = s.buf
         /\ PinSelf(s, len).pinned = s.pinned /\ PinSelf(s, len).data = s.buf
         /\ PinSelf(s, len).offset = 0 /\ PinSelf(s, len).size = len
BY DEF PinSelf, Member

LEMMA MovedFromMember ==
  ASSUME NEW o \in Slices
  PROVE  /\ MovedFrom(o) \in Member /\ MovedFrom(o).buf = o
         /\ MovedFrom(o).pinned = FALSE /\ MovedFrom(o).size = 0
<1>1. o \in Buffers \cup {NoBuf}
  BY DEF Buffers
<1>2. /\ Fresh(o) \in Member /\ Fresh(o).buf = o
      /\ Fresh(o).pinned = FALSE /\ Fresh(o).size = 0
  BY <1>1, FreshMember
<1>3. 0 \in Nat
  OBVIOUS
<1>. QED
  BY <1>2, <1>3, PinSelfMember DEF MovedFrom

\* The three cases of a move.
LEMMA MovedToMember ==
  ASSUME NEW p \in Slices, NEW o \in Slices, slice[o] \in Member,
         NEW own \in Buffers \cup {NoBuf}
  PROVE  /\ MovedTo(p, o, own) \in Member
         /\ MovedTo(p, o, own).pinned = slice[o].pinned
         /\ MovedTo(p, o, own).size = slice[o].size
         /\ slice[o].pinned => /\ MovedTo(p, o, own).buf = own
                               /\ MovedTo(p, o, own).data = slice[o].data
                               /\ MovedTo(p, o, own).offset = slice[o].offset
         /\ (~slice[o].pinned /\ slice[o].buf = o) =>
               /\ MovedTo(p, o, own).buf = p /\ MovedTo(p, o, own).data = p
               /\ MovedTo(p, o, own).offset = 0
         /\ (~slice[o].pinned /\ slice[o].buf # o) => MovedTo(p, o, own) = slice[o]
<1>1. p \in Buffers
  BY DEF Buffers
<1>2. CASE slice[o].pinned
  BY <1>2 DEF MovedTo, Member
<1>3. CASE ~slice[o].pinned /\ slice[o].buf = o
  BY <1>1, <1>3 DEF MovedTo, Member
<1>4. CASE ~slice[o].pinned /\ slice[o].buf # o
  BY <1>4 DEF MovedTo, Member
<1>. QED
  BY <1>2, <1>3, <1>4

-----------------------------------------------------------------------------
(***************************************************************************)
(* Every step keeps every cleanup in one place.                            *)
(***************************************************************************)
LEMMA OwnedInit == Init => Owned
<1>. SUFFICES ASSUME Init PROVE Owned
  OBVIOUS
<1>1. /\ list = [c \in Cleanables |-> << >>] /\ given = {} /\ dropped = {}
      /\ cleaned = [b \in Blocks |-> 0]
  BY DEF Init
<1>2. list \in [Cleanables -> Seq(Blocks)] /\ cleaned \in [Blocks -> Nat]
  BY <1>1
<1>3. \A c \in Cleanables : list[c] = << >>
  BY <1>1
<1>4. /\ \A c \in Cleanables : Simple(list[c])
      /\ \A c, d \in Cleanables : c # d => Apart(list[c], list[d])
  BY <1>3, EmptyList DEF Apart
<1>5. \A b \in Blocks : ~HeldIn(list, dropped, b)
  BY <1>1, <1>3, EmptyList DEF HeldIn
<1>6. \A b \in Blocks : cleaned[b] = 0
  BY <1>1
<1>7. Accounted(list, given, cleaned, dropped)
  BY <1>1, <1>2, <1>4, <1>5, <1>6 DEF Accounted
<1>. QED
  BY <1>3, <1>7 DEF Owned

\* The lists and the accounts stay as they are, and no object goes away.
LEMMA OwnedUnchanged ==
  ASSUME Owned, alive \subseteq alive', UNCHANGED << list, given, cleaned, dropped >>
  PROVE  Owned'
<1>1. Accounted(list', given', cleaned', dropped')
  BY DEF Owned
<1>. QED
  BY <1>1 DEF Owned, Accounted, HeldIn, Cleanables

LEMMA OwnedCleans ==
  ASSUME Owned, NEW p \in Cleanables,
         cleaned' = Cleaned(list[p]), list' = [list EXCEPT ![p] = << >>],
         alive' = alive \/ alive' = alive \ {p}, UNCHANGED << given, dropped >>
  PROVE  Owned'
<1>1. Accounted(list', given', cleaned', dropped')
  <2>1. Accounted(list, given, cleaned, dropped)
    BY DEF Owned
  <2>2. Accounted([list EXCEPT ![p] = << >>], given,
                  [b \in Blocks |-> cleaned[b] + Occurs(list[p], b)], dropped)
    BY <2>1, AccountedCleans, Zenon
  <2>. QED
    BY <2>2 DEF Cleaned
<1>2. list \in [Cleanables -> Seq(Blocks)]
  BY DEF Owned, Accounted
<1>3. \A c \in Cleanables \ alive' : list'[c] = << >>
  BY <1>2 DEF Owned
<1>. QED
  BY <1>1, <1>3 DEF Owned

LEMMA OwnedRegisters ==
  ASSUME Owned, NEW c \in Cleanables, c \in alive, NEW b \in Blocks, b \notin given,
         given' = given \cup {b}, list' = [list EXCEPT ![c] = Register(@, b)],
         UNCHANGED << alive, cleaned, dropped >>
  PROVE  /\ Owned' /\ list'[c] = Register(list[c], b)
         /\ \A x \in Cleanables : x # c => list'[x] = list[x]
         /\ \A x : In(list'[c], x) <=> In(list[c], x) \/ x = b
<1>1. Accounted(list', given', cleaned', dropped')
      /\ \A x : In(Register(list[c], b), x) <=> In(list[c], x) \/ x = b
  BY AccountedRegisters DEF Owned
<1>2. list \in [Cleanables -> Seq(Blocks)]
  BY DEF Owned, Accounted
<1>3. list'[c] = Register(list[c], b) /\ \A x \in Cleanables : x # c => list'[x] = list[x]
  BY <1>2
<1>4. \A x \in Cleanables \ alive' : list'[x] = << >>
  BY <1>3 DEF Owned
<1>. QED
  BY <1>1, <1>3, <1>4 DEF Owned

LEMMA OwnedDelegates ==
  ASSUME Owned, NEW h \in Cleanables, NEW c \in Cleanables, h # c, {h, c} \subseteq alive,
         list' = [list EXCEPT ![h] = << >>, ![c] = Delegate(list[h], @)],
         UNCHANGED << alive, given, cleaned, dropped >>
  PROVE  /\ Owned' /\ list'[h] = << >>
         /\ \A x \in Cleanables : x # c /\ x # h => list'[x] = list[x]
         /\ \A x : In(list'[c], x) <=> In(list[h], x) \/ In(list[c], x)
<1>1. Accounted(list', given', cleaned', dropped')
      /\ \A x : In(Delegate(list[h], list[c]), x) <=> In(list[h], x) \/ In(list[c], x)
  BY AccountedDelegates DEF Owned
<1>2. list \in [Cleanables -> Seq(Blocks)]
  BY DEF Owned, Accounted
<1>3. list' = [list EXCEPT ![h] = << >>, ![c] = Delegate(list[h], list[c])]
  <2>1. [list EXCEPT ![h] = << >>][c] = list[c]
    BY <1>2
  <2>. QED
    BY <2>1
<1>4. list'[h] = << >> /\ list'[c] = Delegate(list[h], list[c])
      /\ \A x \in Cleanables : x # c /\ x # h => list'[x] = list[x]
  BY <1>2, <1>3
<1>5. \A x \in Cleanables \ alive' : list'[x] = << >>
  BY <1>4 DEF Owned
<1>. QED
  BY <1>1, <1>4, <1>5 DEF Owned

\* A move, after the cleanups of the target have run.
LEMMA OwnedMoves ==
  ASSUME Owned, NEW p \in Cleanables, NEW o \in Cleanables, p # o,
         cleaned' = Cleaned(list[p]), list' = [list EXCEPT ![p] = list[o], ![o] = << >>],
         alive' = alive \cup {p}, UNCHANGED << given, dropped >>
  PROVE  /\ Owned' /\ list'[p] = list[o] /\ list'[o] = << >>
         /\ \A x \in Cleanables : x # p /\ x # o => list'[x] = list[x]
<1>. DEFINE M == [list EXCEPT ![p] = << >>]
<1>1. list \in [Cleanables -> Seq(Blocks)]
  BY DEF Owned, Accounted
<1>2. Accounted(M, given, cleaned', dropped)
  BY AccountedCleans DEF Owned, Cleaned
<1>3. M[p] = << >> /\ M[o] = list[o]
  BY <1>1
<1>4. list' = [M EXCEPT ![p] = M[o], ![o] = << >>]
  BY <1>1, <1>3
<1>. HIDE DEF M
<1>5. Accounted(list', given, cleaned', dropped)
  <2>1. Accounted([M EXCEPT ![p] = M[o], ![o] = << >>], given, cleaned', dropped)
    BY <1>2, <1>3, AccountedMoves
  <2>. QED
    BY <1>4, <2>1
<1>6. list'[p] = list[o] /\ list'[o] = << >>
      /\ \A x \in Cleanables : x # p /\ x # o => list'[x] = list[x]
  BY <1>1
<1>7. \A x \in Cleanables \ alive' : list'[x] = << >>
  BY <1>6 DEF Owned
<1>. QED
  BY <1>5, <1>6, <1>7 DEF Owned

\* An object without cleanups has none to run.
LEMMA NothingToClean ==
  ASSUME Owned, NEW p \in Cleanables, p \notin alive
  PROVE  Cleaned(list[p]) = cleaned
<1>1. list[p] = << >> /\ cleaned \in [Blocks -> Nat]
  BY DEF Owned, Accounted
<1>2. \A b \in Blocks : Occurs(<< >>, b) = 0
  BY EmptyList, OccursOnce
<1>3. \A b \in Blocks : cleaned[b] + Occurs(<< >>, b) = cleaned[b]
  BY <1>1, <1>2
<1>. QED
  BY <1>1, <1>3 DEF Cleaned

\* A move between plain Cleanables overwrites the target's list.
LEMMA OwnedDrops ==
  ASSUME Owned, NEW h \in Cleanables, NEW g \in Cleanables, h # g, {h, g} \subseteq alive,
         list' = [list EXCEPT ![h] = list[g], ![g] = << >>],
         dropped' = dropped \cup ({list[h]} \ {<< >>}),
         UNCHANGED << alive, given, cleaned >>
  PROVE  /\ Owned'
         /\ \A x \in Cleanables : x # h /\ x # g => list'[x] = list[x]
<1>. DEFINE M == [list EXCEPT ![h] = << >>]
<1>1. list \in [Cleanables -> Seq(Blocks)]
  BY DEF Owned, Accounted
<1>2. Accounted(M, given, cleaned, dropped')
  BY AccountedDrops DEF Owned
<1>3. M[h] = << >> /\ M[g] = list[g]
  BY <1>1
<1>4. list' = [M EXCEPT ![h] = M[g], ![g] = << >>]
  BY <1>1, <1>3
<1>. HIDE DEF M
<1>5. Accounted(list', given, cleaned, dropped')
  <2>1. Accounted([M EXCEPT ![h] = M[g], ![g] = << >>], given, cleaned, dropped')
    BY <1>2, <1>3, AccountedMoves
  <2>. QED
    BY <1>4, <2>1
<1>6. \A x \in Cleanables : x # h /\ x # g => list'[x] = list[x]
  BY <1>1
<1>7. \A x \in Cleanables \ alive' : list'[x] = << >>
  BY <1>6 DEF Owned
<1>. QED
  BY <1>5, <1>6, <1>7 DEF Owned

-----------------------------------------------------------------------------
(***************************************************************************)
(* Every step keeps what the slices show.                                  *)
(***************************************************************************)
LEMMA ShowsNothing ==
  ASSUME NEW s, s.pinned = FALSE, s.size = 0, NEW l, NEW f
  PROVE  Shows(s, l, f)
BY DEF Shows

\* A slice shows what it did if its cleanups stay in its list and its buffer is
\* not touched.
LEMMA ShowsKept ==
  ASSUME NEW s, NEW l, NEW f, Shows(s, l, f), NEW m, s.pinned => \A b : In(l, b) => In(m, b),
         NEW g, ~s.pinned /\ s.size > 0 => g[s.buf] = f[s.buf]
  PROVE  Shows(s, m, g)
BY DEF Shows

\* The members of one slice are assigned.
LEMMA SliceAssigned ==
  ASSUME Typed, NEW p \in Slices, NEW m \in Member, m.buf \in {p, NoBuf} \cup Strings,
         slice' = [slice EXCEPT ![p] = m]
  PROVE  /\ slice' \in [Slices -> Member] /\ slice'[p] = m
         /\ \A x \in Slices : x # p => slice'[x] = slice[x]
         /\ \A x \in Slices : slice'[x].buf \in {x, NoBuf} \cup Strings
<1>1. slice \in [Slices -> Member] /\ \A x \in Slices : slice[x].buf \in {x, NoBuf} \cup Strings
  BY DEF Typed
<1>2. /\ slice' \in [Slices -> Member] /\ slice'[p] = m
      /\ \A x \in Slices : x # p => slice'[x] = slice[x]
  BY <1>1
<1>. QED
  BY <1>1, <1>2

\* A buffer that is not one slice's own is a client's.
LEMMA BufferOf ==
  ASSUME Typed, NEW p \in Slices, slice[p].buf # NoBuf
  PROVE  slice[p].buf \in Buffers /\ (slice[p].buf = p \/ slice[p].buf \in Strings)
BY DEF Typed, Buffers

\* No slice has the own string of another.
LEMMA OwnString ==
  ASSUME Typed, NEW p \in Slices, NEW x \in Slices, x # p
  PROVE  slice[x].buf # p \/ slice[x].buf = NoBuf
BY DisjointAssumption DEF Typed

LEMMA IInvInit == Init => IInv
<1>. SUFFICES ASSUME Init PROVE IInv
  OBVIOUS
<1>1. Owned
  BY OwnedInit
<1>2. Typed
  <2>1. \A p \in Slices : p \in Buffers \cup {NoBuf}
    BY DEF Buffers
  <2>2. \A p \in Slices : Fresh(p) \in Member /\ Fresh(p).buf = p
    BY <2>1, FreshMember
  <2>3. slice = [p \in Slices |-> Fresh(p)]
    BY DEF Init
  <2>4. slice \in [Slices -> Member] /\ \A p \in Slices : slice[p].buf = p
    BY <2>2, <2>3
  <2>5. length \in [Buffers -> 0 .. MaxLength]
    BY LengthAssumption DEF Init, Buffers
  <2>6. alive = Holders /\ nodes \in Int /\ given \subseteq Blocks
    BY DEF Init
  <2>7. wild \in BOOLEAN
    BY Zenon DEF Init
  <2>8. Holders \subseteq Cleanables
    BY DEF Cleanables
  <2>9. \A p \in Slices : slice[p].buf \in {p, NoBuf} \cup Strings
    BY <2>4
  <2>. QED
    BY <2>4, <2>5, <2>6, <2>7, <2>8, <2>9 DEF Typed
<1>3. alive \cap Slices = {}
  BY DisjointAssumption DEF Init
<1>. QED
  BY <1>1, <1>2, <1>3 DEF IInv, Shown, OwnBuffer

\* One slice changes, and the others keep their members, their cleanups and
\* their buffers.
LEMMA OneSliceKeeps ==
  ASSUME IInv, Typed', Owned', NEW p \in Slices, alive' = alive \/ alive' = alive \cup {p},
         \A x \in Slices : x # p => slice'[x] = slice[x],
         \A x \in alive \cap Slices : x # p => \A b : In(list[x], b) => In(list'[x], b),
         \A x \in alive \cap Slices :
           x # p /\ slice[x].buf # NoBuf => length'[slice[x].buf] = length[slice[x].buf],
         Shows(slice'[p], list'[p], length'),
         \A x \in alive \cap Slices :
           x # p => slice[x].buf # slice'[p].buf \/ slice[x].buf = NoBuf
  PROVE  IInv'
<1>. USE DEF IInv
<1>1. Shown'
  <2>1. ASSUME NEW x \in alive' \cap Slices PROVE Shows(slice'[x], list'[x], length')
    <3>1. CASE x # p
      <4>1. slice'[x] = slice[x] /\ x \in alive
        BY <3>1
      <4>2. Shows(slice[x], list[x], length)
        BY <4>1 DEF Shown
      <4>3. ~slice[x].pinned /\ slice[x].size > 0 => length'[slice[x].buf] = length[slice[x].buf]
        BY <3>1, <4>1, <4>2 DEF Shows
      <4>4. \A b : In(list[x], b) => In(list'[x], b)
        BY <3>1, <4>1
      <4>. QED
        BY <4>1, <4>2, <4>3, <4>4, ShowsKept
    <3>. QED
      BY <3>1
  <2>. QED
    BY <2>1 DEF Shown, Shows, In
<1>2. OwnBuffer'
  <2>1. ASSUME NEW x \in alive' \cap Slices, NEW y \in alive' \cap Slices, x # y,
               slice'[x].buf # NoBuf, slice'[y].buf = slice'[x].buf
        PROVE  FALSE
    <3>1. CASE x = p
      BY <2>1, <3>1
    <3>2. CASE y = p
      BY <2>1, <3>2
    <3>3. CASE x # p /\ y # p
      BY <2>1, <3>3 DEF OwnBuffer
    <3>. QED
      BY <3>1, <3>2, <3>3
  <2>. QED
    BY <2>1 DEF OwnBuffer
<1>. QED
  BY <1>1, <1>2

\* PinnableSlice(), and PinnableSlice(buf).
LEMMA NewKeeps ==
  ASSUME IInv, NEW p \in Slices, New(p) \/ \E s \in Strings : NewOver(p, s)
  PROVE  IInv'
<1>. USE DEF IInv
<1>1. PICK buf \in {p} \cup Strings :
        /\ p \notin alive /\ alive' = alive \cup {p}
        /\ slice' = [slice EXCEPT ![p] = Fresh(buf)]
        /\ buf \in Strings => \A o \in alive \cap Slices : slice[o].buf # buf
        /\ \E n \in 0 .. MaxLength : length' = [length EXCEPT ![p] = 0, ![buf] = n]
        /\ UNCHANGED << list, nodes, given, cleaned, dropped, wild >>
  <2>1. CASE New(p)
    <3>1. 0 \in 0 .. MaxLength
      BY LengthAssumption
    <3>2. [length EXCEPT ![p] = 0] = [length EXCEPT ![p] = 0, ![p] = 0]
      BY DEF Typed
    <3>3. p \notin Strings
      BY DisjointAssumption
    <3>. QED
      BY <2>1, <3>1, <3>2, <3>3 DEF New
  <2>2. ASSUME NEW s \in Strings, NewOver(p, s)
        PROVE  /\ p \notin alive /\ alive' = alive \cup {p}
               /\ slice' = [slice EXCEPT ![p] = Fresh(s)]
               /\ \A o \in alive \cap Slices : slice[o].buf # s
               /\ \E n \in 0 .. MaxLength : length' = [length EXCEPT ![p] = 0, ![s] = n]
               /\ UNCHANGED << list, nodes, given, cleaned, dropped, wild >>
    BY <2>2 DEF NewOver
  <2>. QED
    BY <2>1, <2>2
<1>2. PICK n \in 0 .. MaxLength : length' = [length EXCEPT ![p] = 0, ![buf] = n]
  BY <1>1
<1>3. Owned'
  BY <1>1, OwnedUnchanged
<1>4. p \in Buffers /\ buf \in Buffers /\ Fresh(buf) \in Member /\ Fresh(buf).buf = buf
      /\ Fresh(buf).pinned = FALSE /\ Fresh(buf).size = 0
  BY FreshMember DEF Buffers
<1>5. /\ slice' \in [Slices -> Member] /\ slice'[p] = Fresh(buf)
      /\ \A x \in Slices : x # p => slice'[x] = slice[x]
      /\ \A x \in Slices : slice'[x].buf \in {x, NoBuf} \cup Strings
  BY <1>1, <1>4, SliceAssigned
<1>6. length' \in [Buffers -> 0 .. MaxLength]
      /\ \A x \in Buffers : x # p /\ x # buf => length'[x] = length[x]
  BY <1>2, <1>4, LengthAssumption DEF Typed
<1>7. Typed'
  BY <1>1, <1>5, <1>6 DEF Typed, Cleanables, Buffers, Member
<1>8. ASSUME NEW x \in alive \cap Slices, x # p, slice[x].buf # NoBuf
      PROVE  slice[x].buf # p /\ slice[x].buf # buf /\ slice[x].buf \in Buffers
  BY <1>1, <1>8, BufferOf, OwnString
<1>9. Shows(slice'[p], list'[p], length')
  BY <1>4, <1>5, ShowsNothing
<1>10. \A x \in alive \cap Slices : slice[x].buf # NoBuf /\ x # p => length'[slice[x].buf] = length[slice[x].buf]
  BY <1>6, <1>8
<1>11. \A x \in alive \cap Slices : x # p => slice[x].buf # slice'[p].buf \/ slice[x].buf = NoBuf
  BY <1>4, <1>5, <1>8
<1>. QED
  BY <1>1, <1>3, <1>5, <1>7, <1>9, <1>10, <1>11, OneSliceKeeps

\* Only lists change, and the slices that remain keep their cleanups.
LEMMA ListsOnlyKeep ==
  ASSUME IInv, Owned', alive' \subseteq alive, UNCHANGED << slice, length >>,
         nodes' \in Int, given' \subseteq Blocks, wild' \in BOOLEAN,
         \A x \in alive' \cap Slices : slice[x].pinned => \A b : In(list[x], b) => In(list'[x], b)
  PROVE  IInv'
<1>. USE DEF IInv
<1>1. Typed'
  BY DEF Typed
<1>2. Shown'
  <2>1. ASSUME NEW x \in alive' \cap Slices PROVE Shows(slice'[x], list'[x], length')
    <3>1. /\ Shows(slice[x], list[x], length)
          /\ slice[x].pinned => \A b : In(list[x], b) => In(list'[x], b)
      BY DEF Shown
    <3>. QED
      BY <3>1, ShowsKept
  <2>. QED
    BY <2>1 DEF Shown, Shows, In
<1>3. OwnBuffer'
  BY DEF OwnBuffer
<1>. QED
  BY <1>1, <1>2, <1>3

LEMMA NodeCounts ==
  ASSUME Owned, NEW c \in Cleanables, NEW d \in Cleanables
  PROVE  NodesOf(list[c]) \in Int /\ NodesMade(list[c], list[d]) \in Int
<1>1. list[c] \in Seq(Blocks)
  BY DEF Owned, Accounted
<1>. QED
  BY <1>1 DEF NodesOf, NodesMade

LEMMA DestroyKeeps ==
  ASSUME IInv, NEW p \in Cleanables, Destroy(p)
  PROVE  IInv'
<1>. USE DEF IInv
<1>1. Owned'
  BY OwnedCleans DEF Destroy
<1>2. nodes' \in Int
  BY NodeCounts DEF Destroy, Typed
<1>3. list \in [Cleanables -> Seq(Blocks)]
  BY DEF Owned, Accounted
<1>4. \A x \in alive' \cap Slices : list'[x] = list[x]
  BY <1>3 DEF Destroy, Cleanables
<1>. QED
  BY <1>1, <1>2, <1>4, ListsOnlyKeep DEF Destroy, Typed

LEMMA RegisterCleanupKeeps ==
  ASSUME IInv, NEW c \in Cleanables, NEW b \in Blocks, RegisterCleanup(c, b)
  PROVE  IInv'
<1>. USE DEF IInv
<1>1. /\ Owned' /\ \A x \in Cleanables : x # c => list'[x] = list[x]
      /\ \A x : In(list'[c], x) <=> In(list[c], x) \/ x = b
  BY OwnedRegisters DEF RegisterCleanup
<1>2. nodes' \in Int
  BY DEF RegisterCleanup, Typed
<1>3. \A x \in alive' \cap Slices : \A a : In(list[x], a) => In(list'[x], a)
  BY <1>1 DEF Cleanables
<1>. QED
  BY <1>1, <1>2, <1>3, ListsOnlyKeep DEF RegisterCleanup, Typed

LEMMA DelegateCleanupsToKeeps ==
  ASSUME IInv, NEW h \in Cleanables, NEW c \in Cleanables, DelegateCleanupsTo(h, c)
  PROVE  IInv'
<1>. USE DEF IInv
<1>1. h \in Slices => ~slice[h].pinned
  BY DEF DelegateCleanupsTo
<1>2. /\ Owned' /\ \A x \in Cleanables : x # c /\ x # h => list'[x] = list[x]
      /\ \A x : In(list'[c], x) <=> In(list[h], x) \/ In(list[c], x)
  BY OwnedDelegates DEF DelegateCleanupsTo
<1>3. nodes' \in Int
  BY NodeCounts DEF DelegateCleanupsTo, Typed
<1>4. \A x \in alive' \cap Slices : slice[x].pinned => \A a : In(list[x], a) => In(list'[x], a)
  BY <1>1, <1>2 DEF Cleanables
<1>. QED
  BY <1>2, <1>3, <1>4, ListsOnlyKeep DEF DelegateCleanupsTo, Typed

LEMMA MoveCleanableKeeps ==
  ASSUME IInv, NEW h \in Holders, NEW g \in Holders, MoveCleanable(h, g)
  PROVE  IInv'
<1>. USE DEF IInv
<1>1. h \in Cleanables /\ h \notin Slices /\ g \in Cleanables /\ g \notin Slices
  BY DisjointAssumption DEF Cleanables
<1>2. Owned' /\ \A x \in Cleanables : x # h /\ x # g => list'[x] = list[x]
  BY <1>1, OwnedDrops DEF MoveCleanable
<1>3. \A x \in alive' \cap Slices : \A a : In(list[x], a) => In(list'[x], a)
  BY <1>1, <1>2 DEF Cleanables
<1>. QED
  BY <1>2, <1>3, ListsOnlyKeep DEF MoveCleanable, Typed

LEMMA GoesWildKeeps ==
  ASSUME IInv, NEW p \in Slices, GoesWild(p)
  PROVE  IInv'
<1>. USE DEF IInv
<1>1. Owned'
  BY OwnedUnchanged DEF GoesWild
<1>2. wild' \in BOOLEAN
  BY Zenon DEF GoesWild
<1>. QED
  BY <1>1, <1>2, ListsOnlyKeep DEF GoesWild, Typed

LEMMA ResetKeeps ==
  ASSUME IInv, NEW p \in Slices, Reset(p)
  PROVE  IInv'
<1>. USE DEF IInv
<1>. DEFINE m == [slice[p] EXCEPT !.pinned = FALSE, !.size = 0]
<1>1. p \in Cleanables
  BY DEF Cleanables
<1>2. Owned'
  BY <1>1, OwnedCleans DEF Reset
<1>3. slice[p] \in Member /\ slice[p].buf \in {p, NoBuf} \cup Strings
  BY DEF Typed
<1>4. m \in Member /\ m.buf = slice[p].buf /\ m.pinned = FALSE /\ m.size = 0
  BY <1>3 DEF Member
<1>5. slice' = [slice EXCEPT ![p] = m]
  BY DEF Reset, Typed
<1>. HIDE DEF m
<1>6. /\ slice' \in [Slices -> Member] /\ slice'[p] = m
      /\ \A x \in Slices : x # p => slice'[x] = slice[x]
      /\ \A x \in Slices : slice'[x].buf \in {x, NoBuf} \cup Strings
  BY <1>3, <1>4, <1>5, SliceAssigned
<1>7. nodes' \in Int
  BY <1>1, NodeCounts DEF Reset, Typed
<1>8. Typed'
  BY <1>6, <1>7 DEF Typed, Reset
<1>9. list \in [Cleanables -> Seq(Blocks)]
  BY DEF Owned, Accounted
<1>10. \A x \in alive \cap Slices : x # p => list'[x] = list[x]
  BY <1>9 DEF Reset, Cleanables
<1>11. Shows(slice'[p], list'[p], length')
  BY <1>4, <1>6, ShowsNothing
<1>12. \A x \in alive \cap Slices : x # p => slice[x].buf # slice'[p].buf \/ slice[x].buf = NoBuf
  BY <1>4, <1>6 DEF OwnBuffer, Reset
<1>13. alive' = alive /\ length' = length
  BY DEF Reset
<1>. QED
  BY <1>2, <1>6, <1>8, <1>10, <1>11, <1>12, <1>13, OneSliceKeeps

LEMMA PinSliceKeeps ==
  ASSUME IInv, NEW p \in Slices, NEW b \in Blocks, PinSlice(p, b)
  PROVE  IInv'
<1>. USE DEF IInv
<1>1. p \in Cleanables
  BY DEF Cleanables
<1>2. /\ Owned' /\ \A x \in Cleanables : x # p => list'[x] = list[x]
      /\ In(list'[p], b)
  BY <1>1, OwnedRegisters DEF PinSlice
<1>3. slice[p] \in Member /\ slice[p].buf \in {p, NoBuf} \cup Strings
  BY DEF Typed
<1>4. /\ Pinned(slice[p], b) \in Member /\ Pinned(slice[p], b).buf = slice[p].buf
      /\ Pinned(slice[p], b).pinned = TRUE /\ Pinned(slice[p], b).data = b
      /\ Pinned(slice[p], b).offset = 0 /\ Pinned(slice[p], b).size = BlockLength
  BY <1>3, PinnedMember
<1>5. slice' = [slice EXCEPT ![p] = Pinned(slice[p], b)]
  BY DEF PinSlice
<1>6. /\ slice' \in [Slices -> Member] /\ slice'[p] = Pinned(slice[p], b)
      /\ \A x \in Slices : x # p => slice'[x] = slice[x]
      /\ \A x \in Slices : slice'[x].buf \in {x, NoBuf} \cup Strings
  BY <1>3, <1>4, <1>5, SliceAssigned
<1>7. nodes' \in Int /\ given' \subseteq Blocks
  BY DEF PinSlice, Typed
<1>8. Typed'
  BY <1>6, <1>7 DEF Typed, PinSlice
<1>9. Shows(slice'[p], list'[p], length')
  BY <1>2, <1>4, <1>6, LengthAssumption DEF Shows
<1>10. \A x \in alive \cap Slices : x # p => slice[x].buf # slice'[p].buf \/ slice[x].buf = NoBuf
  BY <1>4, <1>6 DEF OwnBuffer, PinSlice
<1>11. alive' = alive /\ length' = length
  BY DEF PinSlice
<1>12. \A x \in alive \cap Slices : x # p => list'[x] = list[x]
  BY <1>2 DEF Cleanables
<1>. QED
  BY <1>2, <1>6, <1>8, <1>9, <1>10, <1>11, <1>12, OneSliceKeeps

LEMMA PinSliceOfKeeps ==
  ASSUME IInv, NEW p \in Slices, NEW h \in Holders, NEW b \in Blocks, PinSliceOf(p, h, b)
  PROVE  IInv'
<1>. USE DEF IInv
<1>1. p \in Cleanables /\ h \in Cleanables /\ h # p /\ h \notin Slices
  BY DisjointAssumption DEF Cleanables
<1>2. /\ Owned' /\ \A x \in Cleanables : x # p /\ x # h => list'[x] = list[x]
      /\ \A x : In(list'[p], x) <=> In(list[h], x) \/ In(list[p], x)
  <2>1. /\ {h, p} \subseteq alive
        /\ list' = [list EXCEPT ![h] = << >>, ![p] = Delegate(list[h], @)]
        /\ UNCHANGED << alive, given, cleaned, dropped >>
    BY DEF PinSliceOf
  <2>. QED
    BY <1>1, <2>1, OwnedDelegates
<1>3. In(list'[p], b)
  <2>1. Simple(list[h]) /\ Occurs(list[h], b) > 0
    BY <1>1 DEF Owned, Accounted, PinSliceOf
  <2>2. In(list[h], b)
    BY <2>1, OccursOnce
  <2>. QED
    BY <1>2, <2>2
<1>4. slice[p] \in Member /\ slice[p].buf \in {p, NoBuf} \cup Strings
  BY DEF Typed
<1>5. /\ Pinned(slice[p], b) \in Member /\ Pinned(slice[p], b).buf = slice[p].buf
      /\ Pinned(slice[p], b).pinned = TRUE /\ Pinned(slice[p], b).data = b
      /\ Pinned(slice[p], b).offset = 0 /\ Pinned(slice[p], b).size = BlockLength
  BY <1>4, PinnedMember
<1>6. slice' = [slice EXCEPT ![p] = Pinned(slice[p], b)]
  BY DEF PinSliceOf
<1>7. /\ slice' \in [Slices -> Member] /\ slice'[p] = Pinned(slice[p], b)
      /\ \A x \in Slices : x # p => slice'[x] = slice[x]
      /\ \A x \in Slices : slice'[x].buf \in {x, NoBuf} \cup Strings
  BY <1>4, <1>5, <1>6, SliceAssigned
<1>8. nodes' \in Int
  BY <1>1, NodeCounts DEF PinSliceOf, Typed
<1>9. Typed'
  BY <1>7, <1>8 DEF Typed, PinSliceOf
<1>10. Shows(slice'[p], list'[p], length')
  BY <1>3, <1>5, <1>7, LengthAssumption DEF Shows
<1>11. \A x \in alive \cap Slices : x # p => slice[x].buf # slice'[p].buf \/ slice[x].buf = NoBuf
  BY <1>5, <1>7 DEF OwnBuffer, PinSliceOf
<1>12. alive' = alive /\ length' = length
  BY DEF PinSliceOf
<1>13. \A x \in alive \cap Slices : x # p => list'[x] = list[x]
  BY <1>1, <1>2 DEF Cleanables
<1>. QED
  BY <1>2, <1>7, <1>9, <1>10, <1>11, <1>12, <1>13, OneSliceKeeps

\* The slice becomes the first n bytes of its buffer, which keeps just those.
LEMMA BufferSet ==
  ASSUME IInv, NEW p \in Slices, p \in alive, ~slice[p].pinned, slice[p].buf # NoBuf,
         NEW n \in 0 .. MaxLength,
         length' = [length EXCEPT ![slice[p].buf] = n],
         slice' = [slice EXCEPT ![p] = PinSelf(slice[p], n)],
         UNCHANGED << alive, list, nodes, given, cleaned, dropped, wild >>
  PROVE  IInv'
<1>. USE DEF IInv
<1>1. Owned'
  BY OwnedUnchanged
<1>2. slice[p] \in Member /\ slice[p].buf \in {p, NoBuf} \cup Strings /\ n \in Nat
  BY LengthAssumption DEF Typed
<1>3. /\ PinSelf(slice[p], n) \in Member /\ PinSelf(slice[p], n).buf = slice[p].buf
      /\ PinSelf(slice[p], n).pinned = slice[p].pinned
      /\ PinSelf(slice[p], n).data = slice[p].buf
      /\ PinSelf(slice[p], n).offset = 0 /\ PinSelf(slice[p], n).size = n
  BY <1>2, PinSelfMember
<1>4. /\ slice' \in [Slices -> Member] /\ slice'[p] = PinSelf(slice[p], n)
      /\ \A x \in Slices : x # p => slice'[x] = slice[x]
      /\ \A x \in Slices : slice'[x].buf \in {x, NoBuf} \cup Strings
  BY <1>2, <1>3, SliceAssigned
<1>5. slice[p].buf \in Buffers
  BY BufferOf
<1>6. /\ length' \in [Buffers -> 0 .. MaxLength] /\ length'[slice[p].buf] = n
      /\ \A x \in Buffers : x # slice[p].buf => length'[x] = length[x]
  BY <1>5 DEF Typed
<1>7. Typed'
  BY <1>4, <1>6 DEF Typed
<1>8. Shows(slice'[p], list'[p], length')
  BY <1>3, <1>4, <1>6 DEF Shows
<1>9. \A x \in alive \cap Slices : x # p => slice[x].buf # slice[p].buf \/ slice[x].buf = NoBuf
  BY DEF OwnBuffer
<1>10. \A x \in alive \cap Slices : x # p => slice[x].buf # slice'[p].buf \/ slice[x].buf = NoBuf
  BY <1>3, <1>4, <1>9
<1>11. ASSUME NEW x \in alive \cap Slices, x # p, slice[x].buf # NoBuf
       PROVE  length'[slice[x].buf] = length[slice[x].buf]
  BY <1>6, <1>9, <1>11, BufferOf
<1>. QED
  BY <1>1, <1>4, <1>7, <1>8, <1>10, <1>11, OneSliceKeeps

LEMMA PinSelfToKeeps ==
  ASSUME IInv, NEW p \in Slices, NEW n \in 0 .. MaxLength, PinSelfTo(p, n)
  PROVE  IInv'
<1>1. CASE GoesWild(p)
  BY <1>1, GoesWildKeeps
<1>2. CASE ~GoesWild(p)
  BY <1>2, BufferSet DEF PinSelfTo
<1>. QED
  BY <1>1, <1>2

LEMMA RemoveBytesKeeps ==
  ASSUME IInv, NEW p \in Slices, NEW n \in 0 .. MaxLength, NEW prefix \in BOOLEAN,
         RemoveBytes(p, n, prefix)
  PROVE  IInv'
<1>1. /\ slice[p] \in Member /\ slice[p].buf \in {p, NoBuf} \cup Strings
      /\ n \in Nat /\ slice[p].size \in Nat /\ slice[p].offset \in Nat
  BY LengthAssumption DEF IInv, Typed, Member
<1>2. p \in alive /\ n <= slice[p].size
  BY DEF RemoveBytes
<1>3. CASE GoesWild(p)
  BY <1>3, GoesWildKeeps
<1>4. CASE /\ slice[p].pinned
           /\ slice' = [slice EXCEPT ![p].offset = @ + (IF prefix THEN n ELSE 0), ![p].size = @ - n]
           /\ UNCHANGED << alive, list, nodes, given, cleaned, dropped, length, wild >>
  <2>. USE DEF IInv
  <2>. DEFINE k == IF prefix THEN n ELSE 0
              m == [slice[p] EXCEPT !.offset = @ + k, !.size = @ - n]
  <2>1. Owned'
    BY <1>4, OwnedUnchanged
  <2>2. k \in Nat /\ k <= n
    BY <1>1
  <2>3. slice' = [slice EXCEPT ![p] = m]
    BY <1>1, <1>4 DEF Typed, Member
  <2>. HIDE DEF k
  <2>4. /\ m \in Member /\ m.buf = slice[p].buf /\ m.pinned = slice[p].pinned
        /\ m.data = slice[p].data
        /\ m.offset = slice[p].offset + k /\ m.size = slice[p].size - n
    <3>. DEFINE off == slice[p].offset + k
                sz == slice[p].size - n
    <3>1. off \in Nat /\ sz \in Nat
      BY <1>1, <1>2, <2>2
    <3>2. m = [slice[p] EXCEPT !.offset = off, !.size = sz]
      BY <1>1 DEF Member
    <3>. HIDE DEF off, sz, m
    <3>3. /\ m \in Member /\ m.buf = slice[p].buf /\ m.pinned = slice[p].pinned
          /\ m.data = slice[p].data /\ m.offset = off /\ m.size = sz
      BY <1>1, <3>1, <3>2 DEF Member
    <3>. QED
      BY <3>3 DEF off, sz
  <2>. HIDE DEF m
  <2>5. /\ slice' \in [Slices -> Member] /\ slice'[p] = m
        /\ \A x \in Slices : x # p => slice'[x] = slice[x]
        /\ \A x \in Slices : slice'[x].buf \in {x, NoBuf} \cup Strings
    BY <1>1, <2>3, <2>4, SliceAssigned
  <2>6. Typed'
    BY <1>4, <2>5 DEF Typed
  <2>7. Shows(slice[p], list[p], length)
    BY <1>2 DEF Shown
  <2>8. m.data \in Blocks /\ In(list[p], m.data) /\ m.pinned /\ m.offset + m.size <= BlockLength
    BY <1>1, <1>2, <1>4, <2>2, <2>4, <2>7, LengthAssumption DEF Shows
  <2>9. Shows(slice'[p], list'[p], length')
    BY <1>4, <2>5, <2>8 DEF Shows
  <2>10. \A x \in alive \cap Slices : x # p => slice[x].buf # slice'[p].buf \/ slice[x].buf = NoBuf
    BY <1>2, <2>4, <2>5 DEF OwnBuffer
  <2>. QED
    BY <1>4, <2>1, <2>5, <2>6, <2>9, <2>10, OneSliceKeeps
<1>5. CASE /\ ~slice[p].pinned
           /\ slice[p].buf # NoBuf
           /\ length' = [length EXCEPT ![slice[p].buf] = @ - n]
           /\ slice' = [slice EXCEPT ![p] = PinSelf(@, length[slice[p].buf] - n)]
           /\ UNCHANGED << alive, list, nodes, given, cleaned, dropped, wild >>
  <2>. DEFINE len == length[slice[p].buf]
  <2>1. len \in 0 .. MaxLength
    BY <1>5, BufferOf DEF IInv, Typed
  <2>2. Shows(slice[p], list[p], length)
    BY <1>2 DEF IInv, Shown
  <2>3. n <= len
    <3>1. CASE slice[p].size > 0
      BY <1>1, <1>2, <1>5, <2>2, <3>1 DEF Shows
    <3>2. CASE slice[p].size = 0
      BY <1>1, <1>2, <2>1, <3>2, LengthAssumption
    <3>. QED
      BY <1>1, <3>1, <3>2
  <2>4. len - n \in 0 .. MaxLength
    BY <1>1, <2>1, <2>3, LengthAssumption
  <2>. QED
    BY <1>2, <1>5, <2>4, BufferSet
<1>. QED
  BY <1>3, <1>4, <1>5 DEF RemoveBytes

(***************************************************************************)
(* A move.  own is the target's buffer, which only the target uses.        *)
(***************************************************************************)
LEMMA MoveKeeps ==
  ASSUME IInv, NEW p \in Slices, NEW o \in Slices, p # o, o \in alive,
         NEW own, own = NoBuf \/ (p \in alive /\ own = slice[p].buf),
         MoveMembers(p, o, own), cleaned' = Cleaned(list[p]), alive' = alive \cup {p},
         nodes' \in Int, UNCHANGED << given, dropped, wild >>
  PROVE  IInv'
<1>. USE DEF IInv
<1>. DEFINE from == slice[o]
            to == MovedTo(p, o, own)
<1>1. p \in Cleanables /\ o \in Cleanables /\ p \in Buffers /\ o \in Buffers
  BY DEF Cleanables, Buffers
<1>2. /\ Owned' /\ list'[p] = list[o] /\ list'[o] = << >>
      /\ \A x \in Cleanables : x # p /\ x # o => list'[x] = list[x]
  BY <1>1, OwnedMoves DEF MoveMembers
<1>3. /\ from \in Member /\ from.buf \in {o, NoBuf} \cup Strings
      /\ own \in {p, NoBuf} \cup Strings /\ own \in Buffers \cup {NoBuf}
      /\ from.size \in Nat /\ from.offset \in Nat
  <2>1. from \in Member /\ from.buf \in {o, NoBuf} \cup Strings
        /\ own \in {p, NoBuf} \cup Strings
    BY DEF Typed
  <2>. QED
    BY <2>1 DEF Member, Buffers
<1>4. /\ to \in Member /\ to.pinned = from.pinned /\ to.size = from.size
      /\ from.pinned => to.buf = own /\ to.data = from.data /\ to.offset = from.offset
      /\ (~from.pinned /\ from.buf = o) => to.buf = p /\ to.data = p /\ to.offset = 0
      /\ (~from.pinned /\ from.buf # o) => to = from
  BY <1>3, MovedToMember
<1>5. to.buf \in {p, NoBuf} \cup Strings
  BY <1>3, <1>4
<1>6. /\ MovedFrom(o) \in Member /\ MovedFrom(o).buf = o
      /\ MovedFrom(o).pinned = FALSE /\ MovedFrom(o).size = 0
  BY MovedFromMember
<1>7. /\ slice' \in [Slices -> Member] /\ slice'[p] = to /\ slice'[o] = MovedFrom(o)
      /\ \A x \in Slices : x # p /\ x # o => slice'[x] = slice[x]
  <2>1. slice \in [Slices -> Member] /\ slice' = [slice EXCEPT ![p] = to, ![o] = MovedFrom(o)]
    BY DEF Typed, MoveMembers
  <2>. HIDE DEF from, to
  <2>. QED
    BY <1>4, <1>6, <2>1
<1>8. \A x \in Slices : slice'[x].buf \in {x, NoBuf} \cup Strings
  BY <1>5, <1>6, <1>7 DEF Typed
<1>9. /\ length' \in [Buffers -> 0 .. MaxLength]
      /\ length'[p] = IF ~from.pinned /\ from.buf = o THEN length[o] ELSE length[p]
      /\ length'[o] = 0
      /\ \A x \in Buffers : x # p /\ x # o => length'[x] = length[x]
  <2>1. length \in [Buffers -> 0 .. MaxLength] /\ length' = MoveSelfSpace(p, o)
    BY DEF Typed, MoveMembers
  <2>. QED
    BY <1>1, <2>1, LengthAssumption DEF MoveSelfSpace
<1>10. Typed'
  <2>1. alive' \subseteq Cleanables
    BY <1>1 DEF Typed
  <2>. QED
    BY <1>7, <1>8, <1>9, <2>1 DEF Typed
<1>. HIDE DEF to
<1>11. \A s \in Strings : s \in Buffers /\ s # p /\ s # o
  BY DisjointAssumption DEF Buffers
<1>12. Shown'
  <2>1. Shows(slice'[o], list'[o], length')
    BY <1>6, <1>7, ShowsNothing
  <2>2. Shows(slice'[p], list'[p], length')
    <3>1. Shows(from, list[o], length)
      BY DEF Shown
    <3>2. CASE from.pinned
      BY <1>2, <1>4, <1>7, <3>1, <3>2 DEF Shows
    <3>3. CASE ~from.pinned /\ from.buf = o
      <4>1. p # NoBuf
        BY DisjointAssumption
      <4>2. from.size > 0 => from.size = length[o]
        BY <3>1, <3>3 DEF Shows
      <4>. QED
        BY <1>4, <1>7, <1>9, <3>3, <4>1, <4>2 DEF Shows
    <3>4. CASE ~from.pinned /\ from.buf # o
      <4>1. slice'[p] = from
        BY <1>4, <1>7, <3>4
      <4>2. ~from.pinned /\ from.size > 0 => length'[from.buf] = length[from.buf]
        BY <1>3, <1>9, <1>11, <3>1, <3>4 DEF Shows
      <4>. HIDE DEF from
      <4>. QED
        BY <1>2, <3>1, <4>1, <4>2, ShowsKept
    <3>. QED
      BY <3>2, <3>3, <3>4
  <2>3. ASSUME NEW x \in alive' \cap Slices, x # p, x # o
        PROVE  Shows(slice'[x], list'[x], length')
    <3>1. slice'[x] = slice[x] /\ list'[x] = list[x] /\ x \in alive
      BY <1>2, <1>7, <2>3 DEF Cleanables
    <3>2. Shows(slice[x], list[x], length)
      BY <3>1 DEF Shown
    <3>3. ~slice[x].pinned /\ slice[x].size > 0 => length'[slice[x].buf] = length[slice[x].buf]
      <4>1. slice[x].buf # NoBuf => slice[x].buf \in Buffers /\ slice[x].buf # p /\ slice[x].buf # o
        BY <2>3, BufferOf, OwnString
      <4>. QED
        BY <1>9, <3>2, <4>1 DEF Shows
    <3>. QED
      BY <3>1, <3>2, <3>3, ShowsKept
  <2>. QED
    BY <2>1, <2>2, <2>3 DEF Shown, Shows, In
<1>13. OwnBuffer'
  <2>1. to.buf # o \/ to.buf = NoBuf
    <3>1. own # o \/ own = NoBuf
      BY OwnString
    <3>. QED
      BY <1>3, <1>4, <1>11, <3>1
  <2>2. ASSUME NEW x \in alive' \cap Slices, x # p, x # o, to.buf = slice[x].buf, to.buf # NoBuf
        PROVE  FALSE
    <3>1. x \in alive
      BY <2>2
    <3>2. from.buf # NoBuf => slice[x].buf # from.buf
      BY <2>2, <3>1 DEF OwnBuffer
    <3>3. slice[x].buf # p
      BY <2>2, OwnString
    <3>4. own # NoBuf => slice[x].buf # own
      BY <2>2, <3>1 DEF OwnBuffer
    <3>. QED
      BY <1>4, <2>2, <3>2, <3>3, <3>4
  <2>3. ASSUME NEW x \in alive' \cap Slices, NEW y \in alive' \cap Slices, x # y,
               slice'[x].buf # NoBuf, slice'[y].buf = slice'[x].buf
        PROVE  FALSE
    <3>1. CASE x \in {p, o} /\ y \in {p, o}
      BY <1>6, <1>7, <2>1, <2>3, <3>1
    <3>2. CASE x \notin {p, o} /\ y \notin {p, o}
      BY <1>7, <2>3, <3>2 DEF OwnBuffer
    <3>3. ASSUME NEW z \in alive' \cap Slices, z \notin {p, o},
                 slice'[z].buf = to.buf \/ slice'[z].buf = o, slice'[z].buf # NoBuf
          PROVE  FALSE
      <4>1. slice'[z] = slice[z]
        BY <1>7, <3>3
      <4>2. slice[z].buf # o
        BY <3>3, <4>1, OwnString
      <4>. QED
        BY <2>2, <3>3, <4>1, <4>2
    <3>4. CASE x \in {p, o} /\ y \notin {p, o}
      BY <1>6, <1>7, <2>3, <3>3, <3>4
    <3>5. CASE x \notin {p, o} /\ y \in {p, o}
      BY <1>6, <1>7, <2>3, <3>3, <3>5
    <3>. QED
      BY <3>1, <3>2, <3>4, <3>5
  <2>. QED
    BY <2>3 DEF OwnBuffer
<1>. QED
  BY <1>2, <1>10, <1>12, <1>13

LEMMA MoveConstructKeeps ==
  ASSUME IInv, NEW p \in Slices, NEW o \in Slices, MoveConstruct(p, o)
  PROVE  IInv'
<1>1. p \in Cleanables /\ p \notin alive /\ o \in alive /\ p # o
  BY DEF Cleanables, MoveConstruct
<1>2. cleaned' = Cleaned(list[p])
  BY <1>1, NothingToClean DEF IInv, MoveConstruct
<1>3. nodes' \in Int
  BY DEF IInv, Typed, MoveConstruct
<1>. QED
  BY <1>1, <1>2, <1>3, MoveKeeps DEF MoveConstruct

LEMMA MoveAssignKeeps ==
  ASSUME IInv, NEW p \in Slices, NEW o \in Slices, MoveAssign(p, o)
  PROVE  IInv'
<1>1. p \in Cleanables /\ p \in alive /\ o \in alive /\ p # o /\ alive' = alive \cup {p}
  BY DEF Cleanables, MoveAssign
<1>2. nodes' \in Int
  BY <1>1, NodeCounts DEF IInv, Typed, MoveAssign
<1>3. /\ cleaned' = Cleaned(list[p]) /\ MoveMembers(p, o, slice[p].buf)
      /\ UNCHANGED << given, dropped, wild >>
  BY DEF MoveAssign
<1>. QED
  BY <1>1, <1>2, <1>3, MoveKeeps

LEMMA Inductive == IInv /\ [Next]_vars => IInv'
<1>. SUFFICES ASSUME IInv, [Next]_vars PROVE IInv'
  OBVIOUS
<1>1. ASSUME NEW p \in Slices, SliceStep(p) PROVE IInv'
  <2>1. CASE New(p) \/ \E s \in Strings : NewOver(p, s)
    BY <2>1, NewKeeps
  <2>2. CASE Reset(p)
    BY <2>2, ResetKeeps
  <2>3. CASE \E b \in Blocks : PinSlice(p, b)
    BY <2>3, PinSliceKeeps
  <2>4. CASE \E h \in Holders, b \in Blocks : PinSliceOf(p, h, b)
    BY <2>4, PinSliceOfKeeps
  <2>5. CASE \E n \in 0 .. MaxLength : PinSelfTo(p, n)
    BY <2>5, PinSelfToKeeps
  <2>6. CASE \E n \in 0 .. MaxLength, prefix \in BOOLEAN : RemoveBytes(p, n, prefix)
    BY <2>6, RemoveBytesKeeps
  <2>7. CASE \E o \in Slices : MoveConstruct(p, o) \/ MoveAssign(p, o)
    BY <2>7, MoveConstructKeeps, MoveAssignKeeps
  <2>. QED
    BY <1>1, <2>1, <2>2, <2>3, <2>4, <2>5, <2>6, <2>7 DEF SliceStep
<1>2. ASSUME NEW c \in Cleanables, CleanableStep(c) PROVE IInv'
  <2>1. CASE Destroy(c)
    BY <2>1, DestroyKeeps
  <2>2. CASE \E b \in Blocks : RegisterCleanup(c, b)
    BY <2>2, RegisterCleanupKeeps
  <2>3. CASE \E h \in Cleanables : DelegateCleanupsTo(h, c)
    BY <2>3, DelegateCleanupsToKeeps
  <2>. QED
    BY <1>2, <2>1, <2>2, <2>3 DEF CleanableStep
<1>3. ASSUME NEW h \in Holders, NEW g \in Holders, MoveCleanable(h, g) PROVE IInv'
  BY <1>3, MoveCleanableKeeps
<1>4. CASE UNCHANGED vars
  BY <1>4 DEF vars, IInv, Typed, Owned, Accounted, HeldIn, Shown, Shows, In, OwnBuffer
<1>. QED
  BY <1>1, <1>2, <1>3, <1>4 DEF Next

\* The inductive invariant holds in every behaviour of the slices and cleanables.
THEOREM Invariance == Spec => []IInv
BY IInvInit, Inductive, PTL DEF Spec

-----------------------------------------------------------------------------
\* The places of a cleanup in the lists of the objects.
LEMMA PendingOnce ==
  ASSUME Owned, NEW b \in Blocks
  PROVE  Cardinality(Pending(b)) = IF \E c \in Cleanables : In(list[c], b) THEN 1 ELSE 0
<1>1. /\ \A c \in Cleanables : Simple(list[c])
      /\ \A c, d \in Cleanables : c # d => Apart(list[c], list[d])
  BY DEF Owned, Accounted
<1>2. \A q : q \in Pending(b) <=>
        \E c \in Cleanables : \E k \in 1 .. Len(list[c]) : list[c][k] = b /\ q = << c, k >>
  BY DEF Pending
<1>3. CASE \E c \in Cleanables : In(list[c], b)
  <2>1. PICK c \in Cleanables : In(list[c], b)
    BY <1>3
  <2>2. PICK k \in 1 .. Len(list[c]) : list[c][k] = b
    BY <2>1 DEF In
  <2>3. << c, k >> \in Pending(b)
    BY <1>2, <2>2
  <2>4. ASSUME NEW q \in Pending(b) PROVE q = << c, k >>
    <3>1. PICK d \in Cleanables : \E j \in 1 .. Len(list[d]) : list[d][j] = b /\ q = << d, j >>
      BY <1>2
    <3>2. PICK j \in 1 .. Len(list[d]) : list[d][j] = b /\ q = << d, j >>
      BY <3>1
    <3>3. In(list[d], b)
      BY <3>2 DEF In
    <3>4. d = c
      BY <1>1, <2>1, <3>3 DEF Apart
    <3>5. Simple(list[c])
      BY <1>1
    <3>6. j = k
      BY <2>2, <3>2, <3>4, <3>5 DEF Simple
    <3>. QED
      BY <3>2, <3>4, <3>6
  <2>5. Pending(b) = {<< c, k >>}
    BY <2>3, <2>4
  <2>6. Cardinality({<< c, k >>}) = 1
    BY FS_Singleton
  <2>. QED
    BY <1>3, <2>5, <2>6
<1>4. CASE ~ \E c \in Cleanables : In(list[c], b)
  <2>1. Pending(b) = {}
    BY <1>2, <1>4 DEF In
  <2>2. Cardinality({}) = 0
    BY FS_EmptySet
  <2>. QED
    BY <1>4, <2>1, <2>2
<1>. QED
  BY <1>3, <1>4

\* Where a cleanup is says how often it has run.
LEMMA TimesIs ==
  ASSUME IInv, NEW b \in Blocks
  PROVE  Times(b) = IF b \in given /\ ~ \E l \in dropped : In(l, b) THEN 1 ELSE 0
<1>. DEFINE held == \E c \in Cleanables : In(list[c], b)
            lost == \E l \in dropped : In(l, b)
<1>1. Owned
  BY DEF IInv
<1>2. Cardinality(Pending(b)) = IF held THEN 1 ELSE 0
  BY <1>1, PendingOnce
<1>3. ~(held /\ lost)
  BY <1>1 DEF Owned, Accounted, Apart
<1>4. /\ held \/ lost => b \in given
      /\ cleaned[b] = IF b \in given /\ ~(held \/ lost) THEN 1 ELSE 0
  BY <1>1 DEF Owned, Accounted, HeldIn
<1>. HIDE DEF held, lost
<1>5. Times(b) = IF b \in given /\ ~lost THEN 1 ELSE 0
  BY <1>2, <1>3, <1>4 DEF Times
<1>. QED
  BY <1>5 DEF lost

\* The same in the state after a step.
LEMMA TimesAfter ==
  IInv' => \A b \in Blocks :
             Times(b)' = IF b \in given' /\ ~ \E l \in dropped' : In(l, b) THEN 1 ELSE 0
<1>. DEFINE P == \A b \in Blocks :
                   Times(b) = IF b \in given /\ ~ \E l \in dropped : In(l, b) THEN 1 ELSE 0
<1>1. IInv => P
  BY TimesIs
<1>2. IInv' => P'
  BY <1>1, PTL
<1>. QED
  BY <1>2

\* However delegations, resets, destructions and moves follow each other, no
\* cleanup runs twice or is held by two objects.
THEOREM NeverCleanedTwice == Spec => []NoCleanupTwice
<1>1. IInv => NoCleanupTwice
  BY TimesIs DEF NoCleanupTwice
<1>. QED
  BY <1>1, Invariance, PTL

\* The move assignment to a plain Cleanable (Cleanable::operator=) that still has
\* cleanups is all that can lose one: as long as none was overwritten, every
\* registered cleanup is held by one object or has run once.
THEOREM OnlyOverwritingLoses == Spec => [](dropped = {} => RegisteredIsInvoked)
<1>1. IInv => (dropped = {} => RegisteredIsInvoked)
  <2>. SUFFICES ASSUME IInv, dropped = {}, NEW b \in given PROVE Times(b) = 1
    BY DEF RegisteredIsInvoked
  <2>1. b \in Blocks
    BY DEF IInv, Typed
  <2>. QED
    BY <2>1, TimesIs
<1>. QED
  BY <1>1, Invariance, PTL

\* The lists that a step overwrites are those of plain Cleanables.
LEMMA DroppedLists ==
  ASSUME [Next]_vars, NEW l \in dropped', l \notin dropped
  PROVE  \E h \in Holders : l = list[h]
<1>1. CASE UNCHANGED vars
  BY <1>1 DEF vars
<1>2. ASSUME NEW h \in Holders, NEW g \in Holders, MoveCleanable(h, g)
      PROVE  \E x \in Holders : l = list[x]
  BY <1>2 DEF MoveCleanable
<1>3. ASSUME NEW p \in Slices, SliceStep(p) PROVE dropped' = dropped
  BY <1>3 DEF SliceStep, New, NewOver, Reset, PinSlice, PinSliceOf, PinSelfTo, RemoveBytes,
     GoesWild, MoveConstruct, MoveAssign
<1>4. ASSUME NEW c \in Cleanables, CleanableStep(c) PROVE dropped' = dropped
  BY <1>4 DEF CleanableStep, Destroy, RegisterCleanup, DelegateCleanupsTo
<1>. QED
  BY <1>1, <1>2, <1>3, <1>4 DEF Next

\* Registered cleanups stay registered.
LEMMA GivenGrows ==
  ASSUME [Next]_vars
  PROVE  given \subseteq given'
<1>1. CASE UNCHANGED vars
  BY <1>1 DEF vars
<1>2. ASSUME NEW h \in Holders, NEW g \in Holders, MoveCleanable(h, g)
      PROVE  given \subseteq given'
  BY <1>2 DEF MoveCleanable
<1>3. ASSUME NEW p \in Slices, SliceStep(p) PROVE given \subseteq given'
  BY <1>3 DEF SliceStep, New, NewOver, Reset, PinSlice, PinSliceOf, PinSelfTo, RemoveBytes,
     GoesWild, MoveConstruct, MoveAssign
<1>4. ASSUME NEW c \in Cleanables, CleanableStep(c) PROVE given \subseteq given'
  BY <1>4 DEF CleanableStep, Destroy, RegisterCleanup, DelegateCleanupsTo
<1>. QED
  BY <1>1, <1>2, <1>3, <1>4 DEF Next

\* A cleanup that a PinnableSlice holds is not lost by any step, its moves and
\* resets included.
THEOREM SlicesLoseNothing == Spec => SlicesKeepCleanups
<1>. DEFINE Kept ==
       \A b \in Blocks : (\E p \in Slices : Occurs(list[p], b) > 0) => Times(b)' = 1
<1>1. IInv /\ IInv' /\ [Next]_vars => Kept
  <2>. SUFFICES ASSUME IInv, IInv', [Next]_vars, NEW b \in Blocks, NEW p \in Slices,
                       Occurs(list[p], b) > 0
                PROVE  Times(b)' = 1
    OBVIOUS
  <2>1. p \in Cleanables /\ p \notin Holders
    BY DisjointAssumption DEF Cleanables
  <2>2. In(list[p], b)
    <3>1. Simple(list[p])
      BY <2>1 DEF IInv, Owned, Accounted
    <3>. QED
      BY <3>1, OccursOnce
  <2>3. b \in given'
    <3>1. b \in given
      BY <2>1, <2>2 DEF IInv, Owned, Accounted, HeldIn
    <3>. QED
      BY <3>1, GivenGrows
  <2>4. ASSUME NEW l \in dropped' PROVE ~In(l, b)
    <3>1. CASE l \in dropped
      BY <2>1, <2>2, <3>1 DEF IInv, Owned, Accounted, Apart
    <3>2. CASE l \notin dropped
      <4>1. PICK h \in Holders : l = list[h]
        BY <3>2, DroppedLists
      <4>2. h \in Cleanables /\ h # p
        BY <2>1 DEF Cleanables
      <4>3. Apart(list[h], list[p])
        BY <2>1, <4>2 DEF IInv, Owned, Accounted
      <4>. QED
        BY <2>2, <4>1, <4>3 DEF Apart
    <3>. QED
      BY <3>1, <3>2
  <2>5. Times(b)' = IF b \in given' /\ ~ \E l \in dropped' : In(l, b) THEN 1 ELSE 0
    BY TimesAfter
  <2>. QED
    BY <2>3, <2>4, <2>5
<1>2. IInv /\ IInv' /\ [Next]_vars => [Kept]_vars
  BY <1>1
<1>. QED
  BY <1>2, Invariance, PTL DEF Spec, SlicesKeepCleanups

\* Cleanable's move assignment (cleanable.cc:14-21) loses what its target held: the
\* cleanups have not run and no object will run them, although a registered one
\* "will be invoked" (cleanable.h:29-30).
THEOREM OverwritingLoses ==
  Spec => [][\A h \in Holders, g \in Holders, b \in Blocks :
               MoveCleanable(h, g) /\ Occurs(list[h], b) > 0 => Times(b)' = 0]_vars
<1>. DEFINE Lost ==
       \A h \in Holders, g \in Holders, b \in Blocks :
         MoveCleanable(h, g) /\ Occurs(list[h], b) > 0 => Times(b)' = 0
<1>1. IInv /\ IInv' /\ [Next]_vars => Lost
  <2>. SUFFICES ASSUME IInv, IInv', NEW h \in Holders, NEW g \in Holders, NEW b \in Blocks,
                       MoveCleanable(h, g), Occurs(list[h], b) > 0
                PROVE  Times(b)' = 0
    OBVIOUS
  <2>1. In(list[h], b)
    <3>1. h \in Cleanables /\ Simple(list[h])
      BY DEF IInv, Owned, Accounted, Cleanables
    <3>. QED
      BY <3>1, OccursOnce
  <2>2. list[h] \in dropped'
    BY <2>1 DEF MoveCleanable, In
  <2>. QED
    BY <2>1, <2>2, TimesAfter
<1>2. IInv /\ IInv' /\ [Next]_vars => [Lost]_vars
  BY <1>1
<1>. QED
  BY <1>2, Invariance, PTL DEF Spec

\* A live slice never shows a block whose cleanup has run or that another object
\* will release, nor bytes beyond its buffer, and no two slices share a buffer.
THEOREM SlicesShowLiveData == Spec => []DataLive
<1>1. IInv => DataLive
  <2>. SUFFICES ASSUME IInv PROVE DataLive
    OBVIOUS
  <2>1. TypeOK
    <3>1. /\ list \in [Cleanables -> Seq(Blocks)] /\ cleaned \in [Blocks -> Nat]
          /\ dropped \subseteq Seq(Blocks)
      BY DEF IInv, Owned, Accounted, Simple
    <3>2. \A p \in Slices : slice[p].pinned \in BOOLEAN /\ slice[p].size \in Nat
      BY DEF IInv, Typed, Member
    <3>. QED
      BY <3>1, <3>2 DEF TypeOK, IInv, Typed, Buffers
  <2>2. ASSUME NEW p \in alive \cap Slices
        PROVE  /\ slice[p].pinned => /\ slice[p].data \in Blocks
                                     /\ cleaned[slice[p].data] = 0
                                     /\ Occurs(list[p], slice[p].data) = 1
                                     /\ slice[p].offset + slice[p].size <= BlockLength
               /\ (~slice[p].pinned /\ slice[p].size > 0) =>
                     /\ slice[p].buf # NoBuf
                     /\ slice[p].data = slice[p].buf
                     /\ slice[p].offset + slice[p].size = length[slice[p].buf]
               /\ \A o \in (alive \cap Slices) \ {p} :
                     slice[p].buf # NoBuf => slice[o].buf # slice[p].buf
    <3>1. Shows(slice[p], list[p], length) /\ p \in Cleanables
      BY DEF IInv, Shown, Cleanables
    <3>2. Simple(list[p])
      BY <3>1 DEF IInv, Owned, Accounted
    <3>3. ASSUME slice[p].pinned
          PROVE  /\ slice[p].data \in Blocks
                 /\ cleaned[slice[p].data] = 0
                 /\ Occurs(list[p], slice[p].data) = 1
                 /\ slice[p].offset + slice[p].size <= BlockLength
      <4>1. /\ slice[p].data \in Blocks /\ In(list[p], slice[p].data)
            /\ slice[p].offset + slice[p].size <= BlockLength
        BY <3>1, <3>3 DEF Shows
      <4>2. HeldIn(list, dropped, slice[p].data)
        BY <3>1, <4>1 DEF HeldIn
      <4>3. cleaned[slice[p].data] = 0
        BY <4>1, <4>2 DEF IInv, Owned, Accounted
      <4>. QED
        BY <3>2, <4>1, <4>3, OccursOnce
    <3>4. slice[p].size \in Nat /\ slice[p].offset \in Nat
      BY DEF IInv, Typed, Member
    <3>5. ~slice[p].pinned /\ slice[p].size > 0 =>
             /\ slice[p].buf # NoBuf
             /\ slice[p].data = slice[p].buf
             /\ slice[p].offset + slice[p].size = length[slice[p].buf]
      BY <3>1, <3>4 DEF Shows
    <3>6. \A o \in (alive \cap Slices) \ {p} :
            slice[p].buf # NoBuf => slice[o].buf # slice[p].buf
      BY DEF IInv, OwnBuffer
    <3>. QED
      BY <3>3, <3>5, <3>6
  <2>. QED
    BY <2>1, <2>2 DEF DataLive
<1>. QED
  BY <1>1, Invariance, PTL

-----------------------------------------------------------------------------
(***************************************************************************)
(* Sums over a finite set.  MapThenSumSet takes one element after the      *)
(* other, in an order of its own; f holds its results for every subset.    *)
(***************************************************************************)
Pick(s) == CHOOSE x \in s : TRUE

Sums(S, g, f) ==
  \A s \in SUBSET S : f[s] = IF s = {} THEN 0 ELSE g[Pick(s)] + f[s \ {Pick(s)}]

\* An element is picked from a set that has one.
LEMMA PickIn ==
  ASSUME NEW s, s # {} PROVE Pick(s) \in s
BY DEF Pick

\* A set of numbers that is not empty has a least one.
LEMMA LeastElement ==
  ASSUME NEW T \in SUBSET Nat, T # {}
  PROVE  \E m \in T : \A k \in T : m <= k
<1>1. PICK m \in T : \A k \in T : ~(<< k, m >> \in OpToRel(<, Nat))
  BY ZenonT(60), NatLessThanWellFounded, WFMin
<1>2. \A k \in T : ~(k < m)
  BY <1>1 DEF OpToRel
<1>. QED
  BY <1>2

\* Induction over the subsets of a finite set, one element at a time.
LEMMA SubsetInduction ==
  ASSUME NEW S, IsFiniteSet(S), NEW T,
         \A s \in SUBSET S : (\A x \in s : s \ {x} \in T) => s \in T
  PROVE  SUBSET S \subseteq T
<1>. SUFFICES ASSUME NEW u \in SUBSET S, u \notin T PROVE FALSE
  OBVIOUS
<1>. DEFINE N == {Cardinality(s) : s \in {v \in SUBSET S : v \notin T}}
<1>1. \A s \in SUBSET S : IsFiniteSet(s) /\ Cardinality(s) \in Nat
  BY FS_Subset, FS_CardinalityType
<1>2. N \in SUBSET Nat /\ N # {}
  BY <1>1
<1>3. PICK m \in N : \A k \in N : m <= k
  <2>. HIDE DEF N
  <2>. QED
    BY <1>2, LeastElement
<1>4. PICK s \in SUBSET S : s \notin T /\ m = Cardinality(s)
  BY <1>3
<1>5. PICK x \in s : s \ {x} \notin T
  BY <1>4
<1>6. s \ {x} \in SUBSET S /\ Cardinality(s \ {x}) = Cardinality(s) - 1
  BY <1>1, FS_RemoveElement
<1>7. Cardinality(s \ {x}) \in N
  BY <1>5, <1>6
<1>. HIDE DEF N
<1>8. m <= m - 1 /\ m \in Nat
  BY <1>1, <1>3, <1>4, <1>6, <1>7
<1>. QED
  BY <1>8

\* The sums of one set are those of another where the sets and the terms agree.
LEMMA SumsAgree ==
  ASSUME NEW S, NEW g, NEW f, Sums(S, g, f), NEW R, NEW h, NEW e, Sums(R, h, e),
         NEW s \in SUBSET S, s \in SUBSET R, IsFiniteSet(s), \A x \in s : g[x] = h[x]
  PROVE  f[s] = e[s]
<1>. DEFINE T == {r \in SUBSET s : f[r] = e[r]}
<1>1. ASSUME NEW r \in SUBSET s, \A x \in r : r \ {x} \in T PROVE r \in T
  <2>1. r \in SUBSET S /\ r \in SUBSET R
    OBVIOUS
  <2>2. /\ f[r] = IF r = {} THEN 0 ELSE g[Pick(r)] + f[r \ {Pick(r)}]
        /\ e[r] = IF r = {} THEN 0 ELSE h[Pick(r)] + e[r \ {Pick(r)}]
    BY <2>1 DEF Sums
  <2>3. r # {} => Pick(r) \in r
    BY PickIn
  <2>4. r # {} => g[Pick(r)] = h[Pick(r)] /\ f[r \ {Pick(r)}] = e[r \ {Pick(r)}]
    BY <1>1, <2>3
  <2>. QED
    BY <2>2, <2>4
<1>2. SUBSET s \subseteq T
  <2>. HIDE DEF T
  <2>. QED
    BY <1>1, SubsetInduction
<1>. QED
  BY <1>2

\* The sums of integers are integers.
LEMMA SumsInt ==
  ASSUME NEW S, IsFiniteSet(S), NEW g, NEW f, Sums(S, g, f), \A x \in S : g[x] \in Int
  PROVE  \A s \in SUBSET S : f[s] \in Int
<1>. DEFINE T == {s \in SUBSET S : f[s] \in Int}
<1>1. ASSUME NEW s \in SUBSET S, \A x \in s : s \ {x} \in T PROVE s \in T
  <2>1. f[s] = IF s = {} THEN 0 ELSE g[Pick(s)] + f[s \ {Pick(s)}]
    BY DEF Sums
  <2>2. s # {} => g[Pick(s)] \in Int /\ f[s \ {Pick(s)}] \in Int
    BY <1>1, PickIn
  <2>. QED
    BY <2>1, <2>2
<1>2. SUBSET S \subseteq T
  <2>. HIDE DEF T
  <2>. QED
    BY <1>1, SubsetInduction
<1>. QED
  BY <1>2

\* Whatever the order of the picks, any element may be taken first.
LEMMA SumsTake ==
  ASSUME NEW S, IsFiniteSet(S), NEW g, NEW f, Sums(S, g, f), \A x \in S : g[x] \in Int
  PROVE  \A s \in SUBSET S : \A x \in s : f[s] = g[x] + f[s \ {x}]
<1>. DEFINE T == {s \in SUBSET S : \A x \in s : f[s] = g[x] + f[s \ {x}]}
<1>1. ASSUME NEW s \in SUBSET S, \A x \in s : s \ {x} \in T PROVE s \in T
  <2>. SUFFICES ASSUME NEW x \in s PROVE f[s] = g[x] + f[s \ {x}]
    OBVIOUS
  <2>. DEFINE y == Pick(s)
  <2>1. y \in s /\ f[s] = g[y] + f[s \ {y}]
    BY PickIn DEF Sums
  <2>. HIDE DEF y
  <2>2. CASE x = y
    BY <2>1, <2>2
  <2>3. CASE x # y
    <3>1. x \in s \ {y} /\ y \in s \ {x} /\ (s \ {y}) \ {x} = (s \ {x}) \ {y}
      BY <2>1, <2>3
    <3>. DEFINE r == (s \ {x}) \ {y}
    <3>2. f[s \ {y}] = g[x] + f[r]
      BY <1>1, <2>1, <3>1
    <3>3. f[s \ {x}] = g[y] + f[r]
      BY <1>1, <2>1, <3>1
    <3>4. g[x] \in Int /\ g[y] \in Int /\ f[r] \in Int
      BY <2>1, SumsInt
    <3>. HIDE DEF r
    <3>. QED
      BY <2>1, <3>2, <3>3, <3>4
  <2>. QED
    BY <2>2, <2>3
<1>2. SUBSET S \subseteq T
  <2>. HIDE DEF T
  <2>. QED
    BY <1>1, SubsetInduction
<1>. QED
  BY <1>2

\* f is the function that the fold defines.
FoldOf(S, g, f) ==
  f = [s \in SUBSET S |-> IF s = {} THEN 0 ELSE g[Pick(s)] + f[s \ {Pick(s)}]]

\* There are such sums: by induction on the size of the subsets.
LEMMA SumsExist ==
  ASSUME NEW S, IsFiniteSet(S), NEW g
  PROVE  \E f : FoldOf(S, g, f)
<1>. DEFINE value(f, s) == IF s = {} THEN 0 ELSE g[Pick(s)] + f[s \ {Pick(s)}]
            Below(f, n) == \A s \in SUBSET S : Cardinality(s) < n => f[s] = value(f, s)
            N == {n \in Nat : ~\E f : f = [s \in SUBSET S |-> f[s]] /\ Below(f, n)}
<1>1. \A s \in SUBSET S : IsFiniteSet(s) /\ Cardinality(s) \in Nat
  BY FS_Subset, FS_CardinalityType
<1>2. ASSUME N # {} PROVE FALSE
  <2>1. PICK m \in N : \A k \in N : m <= k
    BY <1>2, LeastElement
  <2>2. 0 \notin N
    <3>. DEFINE z == [s \in SUBSET S |-> 0]
    <3>1. z = [s \in SUBSET S |-> z[s]]
      OBVIOUS
    <3>2. Below(z, 0)
      BY <1>1
    <3>. HIDE DEF z, Below
    <3>. QED
      BY <3>1, <3>2
  <2>3. m \in Nat /\ m - 1 \in Nat /\ m - 1 \notin N
    <3>1. m \in Nat
      BY <2>1
    <3>. HIDE DEF N
    <3>. QED
      BY <2>1, <2>2, <3>1
  <2>4. PICK f : f = [s \in SUBSET S |-> f[s]] /\ Below(f, m - 1)
    BY <2>3
  <2>. DEFINE e == [s \in SUBSET S |-> value(f, s)]
  <2>5. \A s \in SUBSET S : e[s] = value(f, s)
    OBVIOUS
  <2>6. e = [s \in SUBSET S |-> e[s]]
    OBVIOUS
  <2>. HIDE DEF e
  <2>7. ASSUME NEW s \in SUBSET S, Cardinality(s) < m PROVE e[s] = value(e, s)
    <3>1. CASE s = {}
      BY <2>5, <3>1
    <3>2. CASE s # {}
      <4>. DEFINE r == s \ {Pick(s)}
      <4>1. r \in SUBSET S /\ Cardinality(r) = Cardinality(s) - 1
        BY <1>1, <3>2, PickIn, FS_RemoveElement
      <4>2. Cardinality(r) < m - 1
        BY <1>1, <2>3, <2>7, <4>1
      <4>3. f[r] = value(f, r)
        BY <2>4, <4>1, <4>2
      <4>4. e[r] = f[r]
        BY <2>5, <4>1, <4>3
      <4>. QED
        BY <2>5, <3>2, <4>4
    <3>. QED
      BY <3>1, <3>2
  <2>8. m \notin N
    BY <2>6, <2>7
  <2>. QED
    BY <2>1, <2>8
<1>. DEFINE n == Cardinality(S) + 1
<1>3. n \in Nat /\ \A s \in SUBSET S : Cardinality(s) < n
  BY <1>1, FS_Subset, FS_CardinalityType
<1>. HIDE DEF n
<1>4. PICK f : f = [s \in SUBSET S |-> f[s]] /\ Below(f, n)
  BY <1>2, <1>3
<1>5. \A s \in SUBSET S : f[s] = value(f, s)
  BY <1>3, <1>4
<1>6. f = [s \in SUBSET S |-> value(f, s)]
  BY <1>4, <1>5
<1>. QED
  BY <1>6 DEF FoldOf

(***************************************************************************)
(* The nodes of the lists that objects hold, and of the overwritten ones.  *)
(***************************************************************************)
Held(L) == MapThenSumSet(LAMBDA c : NodesOf(L[c]), Cleanables)
Gone(D) == MapThenSumSet(NodesOf, D)

HeldCounts(L) == [c \in Cleanables |-> NodesOf(L[c])]
GoneCounts(D) == [l \in D |-> NodesOf(l)]

\* The objects that exist at any time are of a finite number.
LEMMA FiniteCleanables == IsFiniteSet(Cleanables)
BY FiniteAssumption, FS_Union DEF Cleanables

\* The two folds of NodesAccounted are sums of the objects' counts ...
LEMMA HeldIs ==
  ASSUME NEW L
  PROVE  \E f : Sums(Cleanables, HeldCounts(L), f) /\ Held(L) = f[Cleanables]
<1>. DEFINE S == Cleanables
            g == HeldCounts(L)
            Def(h) == [s \in SUBSET S |-> IF s = {} THEN 0 ELSE NodesOf(L[Pick(s)]) + h[s \ {Pick(s)}]]
            iter == CHOOSE h : h = Def(h)
<1>1. Held(L) = iter[S]
  BY Zenon DEF Held, MapThenSumSet, MapThenFoldSet, Pick
<1>2. PICK f : FoldOf(S, g, f)
  BY FiniteCleanables, SumsExist
<1>3. \A s \in SUBSET S : s # {} => g[Pick(s)] = NodesOf(L[Pick(s)])
  <2>1. \A s \in SUBSET S : s # {} => Pick(s) \in S
    BY PickIn
  <2>. QED
    BY <2>1 DEF HeldCounts
<1>. HIDE DEF S, g
<1>4. f = Def(f)
  BY <1>2, <1>3 DEF FoldOf
<1>. HIDE DEF Def
<1>5. iter = Def(iter)
  BY <1>4
<1>. HIDE DEF iter
<1>6. ASSUME NEW s \in SUBSET S
      PROVE  iter[s] = IF s = {} THEN 0 ELSE g[Pick(s)] + iter[s \ {Pick(s)}]
  <2>1. iter[s] = Def(iter)[s]
    BY <1>5
  <2>2. Def(iter)[s] = IF s = {} THEN 0 ELSE NodesOf(L[Pick(s)]) + iter[s \ {Pick(s)}]
    BY DEF Def
  <2>. QED
    BY <1>3, <2>1, <2>2
<1>7. Sums(S, g, iter)
  BY <1>6 DEF Sums
<1>. QED
  BY <1>1, <1>7 DEF S, g

\* ... and of the lists' counts.
LEMMA GoneIs ==
  ASSUME NEW D, IsFiniteSet(D)
  PROVE  \E f : Sums(D, GoneCounts(D), f) /\ Gone(D) = f[D]
<1>. DEFINE g == GoneCounts(D)
            Def(h) == [s \in SUBSET D |-> IF s = {} THEN 0 ELSE NodesOf(Pick(s)) + h[s \ {Pick(s)}]]
            iter == CHOOSE h : h = Def(h)
<1>1. Gone(D) = iter[D]
  BY Zenon DEF Gone, MapThenSumSet, MapThenFoldSet, Pick
<1>2. PICK f : FoldOf(D, g, f)
  BY SumsExist
<1>3. \A s \in SUBSET D : s # {} => g[Pick(s)] = NodesOf(Pick(s))
  <2>1. \A s \in SUBSET D : s # {} => Pick(s) \in D
    BY PickIn
  <2>. QED
    BY <2>1 DEF GoneCounts
<1>. HIDE DEF g
<1>4. f = Def(f)
  BY <1>2, <1>3 DEF FoldOf
<1>. HIDE DEF Def
<1>5. iter = Def(iter)
  BY <1>4
<1>. HIDE DEF iter
<1>6. ASSUME NEW s \in SUBSET D
      PROVE  iter[s] = IF s = {} THEN 0 ELSE g[Pick(s)] + iter[s \ {Pick(s)}]
  <2>1. iter[s] = Def(iter)[s]
    BY <1>5
  <2>2. Def(iter)[s] = IF s = {} THEN 0 ELSE NodesOf(Pick(s)) + iter[s \ {Pick(s)}]
    BY DEF Def
  <2>. QED
    BY <1>3, <2>1, <2>2
<1>7. Sums(D, g, iter)
  BY <1>6 DEF Sums
<1>. QED
  BY <1>1, <1>7 DEF g

\* A list counts as many nodes as it has cleanups behind its head.
LEMMA NodesInt ==
  ASSUME NEW l \in Seq(Blocks) PROVE NodesOf(l) \in Int
BY DEF NodesOf

\* The lists' nodes are numbers, and there is one sum of them.
LEMMA HeldCountsInt ==
  ASSUME NEW L \in [Cleanables -> Seq(Blocks)]
  PROVE  \A c \in Cleanables : HeldCounts(L)[c] \in Int /\ HeldCounts(L)[c] = NodesOf(L[c])
BY NodesInt DEF HeldCounts

\* One list changes, and the sum changes by the difference.
LEMMA HeldChanges ==
  ASSUME NEW L \in [Cleanables -> Seq(Blocks)], NEW M \in [Cleanables -> Seq(Blocks)],
         NEW c \in Cleanables, \A x \in Cleanables : x # c => M[x] = L[x]
  PROVE  Held(L) \in Int /\ Held(M) \in Int /\ Held(M) = (Held(L) - NodesOf(L[c])) + NodesOf(M[c])
<1>. DEFINE S == Cleanables
            g == HeldCounts(L)
            h == HeldCounts(M)
            r == S \ {c}
<1>1. IsFiniteSet(S) /\ r \in SUBSET S /\ S \in SUBSET S /\ c \in S /\ IsFiniteSet(r) /\ S \ {c} = r
  BY FiniteCleanables, FS_Subset
<1>2. PICK f : Sums(S, g, f) /\ Held(L) = f[S]
  BY HeldIs
<1>3. PICK e : Sums(S, h, e) /\ Held(M) = e[S]
  BY HeldIs
<1>4. /\ \A x \in S : g[x] \in Int /\ g[x] = NodesOf(L[x])
      /\ \A x \in S : h[x] \in Int /\ h[x] = NodesOf(M[x])
  BY HeldCountsInt
<1>5. \A x \in r : g[x] = h[x]
  BY <1>4
<1>. HIDE DEF g, h, S, r
<1>6. f[r] = e[r]
  BY <1>1, <1>2, <1>3, <1>5, SumsAgree
<1>7. f[S] = g[c] + f[r] /\ f[S] \in Int /\ f[r] \in Int
  <2>0. IsFiniteSet(S) /\ Sums(S, g, f) /\ \A x \in S : g[x] \in Int
    BY <1>1, <1>2, <1>4
  <2>1. \A s \in SUBSET S : f[s] \in Int
    BY SMTT(60), <2>0, SumsInt
  <2>2. f[S] = g[c] + f[S \ {c}]
    BY SMTT(60), <1>1, <2>0, SumsTake
  <2>. QED
    BY <1>1, <2>1, <2>2
<1>8. e[S] = h[c] + e[r] /\ e[S] \in Int
  <2>0. IsFiniteSet(S) /\ Sums(S, h, e) /\ \A x \in S : h[x] \in Int
    BY <1>1, <1>3, <1>4
  <2>1. \A s \in SUBSET S : e[s] \in Int
    BY SMTT(60), <2>0, SumsInt
  <2>2. e[S] = h[c] + e[S \ {c}]
    BY SMTT(60), <1>1, <2>0, SumsTake
  <2>. QED
    BY <1>1, <2>1, <2>2
<1>9. g[c] = NodesOf(L[c]) /\ h[c] = NodesOf(M[c]) /\ g[c] \in Int /\ h[c] \in Int
  BY <1>1, <1>4
<1>. QED
  BY <1>2, <1>3, <1>6, <1>7, <1>8, <1>9

\* Two lists change.
TwoChange(L, M, c, d) ==
  /\ L \in [Cleanables -> Seq(Blocks)] /\ M \in [Cleanables -> Seq(Blocks)]
  /\ c \in Cleanables /\ d \in Cleanables /\ c # d
  /\ \A x \in Cleanables : x # c /\ x # d => M[x] = L[x]

\* The sum changes by the differences of both.
LEMMA HeldMoves ==
  ASSUME NEW L, NEW M, NEW c, NEW d, TwoChange(L, M, c, d)
  PROVE  /\ Held(L) \in Int /\ Held(M) \in Int
         /\ Held(M) + NodesOf(L[c]) + NodesOf(L[d]) = Held(L) + NodesOf(M[c]) + NodesOf(M[d])
<1>. USE DEF TwoChange
<1>. DEFINE K == [L EXCEPT ![c] = M[c]]
<1>1. K \in [Cleanables -> Seq(Blocks)] /\ K[c] = M[c] /\ K[d] = L[d] /\ M[c] \in Seq(Blocks)
  OBVIOUS
<1>2. (\A x \in Cleanables : x # c => K[x] = L[x]) /\ (\A x \in Cleanables : x # d => M[x] = K[x])
  OBVIOUS
<1>. HIDE DEF K
<1>3. Held(L) \in Int /\ Held(K) \in Int /\ Held(K) = (Held(L) - NodesOf(L[c])) + NodesOf(K[c])
  BY <1>1, <1>2, HeldChanges
<1>4. Held(M) \in Int /\ Held(M) = (Held(K) - NodesOf(K[d])) + NodesOf(M[d])
  BY <1>1, <1>2, HeldChanges
<1>5. NodesOf(L[c]) \in Int /\ NodesOf(L[d]) \in Int /\ NodesOf(M[c]) \in Int /\ NodesOf(M[d]) \in Int
  BY NodesInt
<1>. DEFINE a == NodesOf(L[c])
            b == NodesOf(L[d])
            u == NodesOf(M[c])
            v == NodesOf(M[d])
            x == Held(L)
            y == Held(K)
            z == Held(M)
<1>6. /\ x \in Int /\ y \in Int /\ z \in Int /\ a \in Int /\ b \in Int /\ u \in Int /\ v \in Int
      /\ y = (x - a) + u /\ z = (y - b) + v
  BY <1>1, <1>3, <1>4, <1>5
<1>. HIDE DEF a, b, u, v, x, y, z
<1>7. z + a + b = x + u + v
  BY <1>6
<1>. QED
  BY <1>6, <1>7 DEF a, b, u, v, x, z

\* A list is overwritten that was not before.
LEMMA GoneGrows ==
  ASSUME NEW D \in SUBSET Seq(Blocks), IsFiniteSet(D), NEW l \in Seq(Blocks), l \notin D
  PROVE  IsFiniteSet(D \cup {l}) /\ Gone(D) \in Int /\ Gone(D \cup {l}) = Gone(D) + NodesOf(l)
<1>. DEFINE R == D \cup {l}
            g == GoneCounts(D)
            h == GoneCounts(R)
<1>1. IsFiniteSet(R) /\ R \ {l} = D /\ D \in SUBSET R /\ R \in SUBSET R /\ D \in SUBSET D /\ l \in R
  BY FS_AddElement
<1>2. PICK f : Sums(D, g, f) /\ Gone(D) = f[D]
  BY GoneIs
<1>3. PICK e : Sums(R, h, e) /\ Gone(R) = e[R]
  BY <1>1, GoneIs
<1>4. /\ \A x \in D : g[x] \in Int /\ g[x] = NodesOf(x)
      /\ \A x \in R : h[x] \in Int /\ h[x] = NodesOf(x)
  BY NodesInt DEF GoneCounts
<1>5. \A x \in D : g[x] = h[x]
  BY <1>4
<1>. HIDE DEF g, h, R
<1>6. f[D] = e[D]
  BY <1>1, <1>2, <1>3, <1>5, SumsAgree
<1>7. f[D] \in Int
  BY <1>1, <1>2, <1>4, SumsInt
<1>8. e[R] = h[l] + e[D]
  BY <1>1, <1>3, <1>4, SumsTake
<1>9. h[l] = NodesOf(l) /\ h[l] \in Int
  BY <1>1, <1>4
<1>10. Gone(R) = Gone(D) + NodesOf(l)
  BY <1>2, <1>3, <1>6, <1>7, <1>8, <1>9
<1>. QED
  BY <1>1, <1>2, <1>7, <1>10 DEF R

\* Nothing is held in empty lists, and nothing was lost before anything was overwritten.
LEMMA NothingHeld ==
  ASSUME NEW L, \A c \in Cleanables : L[c] = << >>
  PROVE  Held(L) = 0 /\ Gone({}) = 0
<1>1. PICK f : Sums(Cleanables, HeldCounts(L), f) /\ Held(L) = f[Cleanables]
  BY HeldIs
<1>2. PICK e : Sums({}, GoneCounts({}), e) /\ Gone({}) = e[{}]
  BY FS_EmptySet, GoneIs
<1>3. e[{}] = 0
  BY <1>2 DEF Sums
<1>. DEFINE T == {s \in SUBSET Cleanables : f[s] = 0}
<1>4. \A c \in Cleanables : HeldCounts(L)[c] = 0
  BY DEF HeldCounts, NodesOf
<1>5. ASSUME NEW s \in SUBSET Cleanables, \A x \in s : s \ {x} \in T PROVE s \in T
  <2>1. f[s] = IF s = {} THEN 0 ELSE HeldCounts(L)[Pick(s)] + f[s \ {Pick(s)}]
    BY <1>1 DEF Sums
  <2>2. s # {} => Pick(s) \in s
    BY PickIn
  <2>3. s # {} => HeldCounts(L)[Pick(s)] = 0 /\ f[s \ {Pick(s)}] = 0
    BY <1>4, <1>5, <2>2
  <2>. QED
    BY <2>1, <2>3
<1>6. SUBSET Cleanables \subseteq T
  <2>. HIDE DEF T
  <2>. QED
    BY <1>5, FiniteCleanables, SubsetInduction
<1>. QED
  BY <1>1, <1>2, <1>3, <1>6

\* A registered cleanup is a new node unless it is the head.
LEMMA RegisterNodes ==
  ASSUME NEW l \in Seq(Blocks), NEW b \in Blocks
  PROVE  NodesOf(Register(l, b)) = NodesOf(l) + (IF l = << >> THEN 0 ELSE 1)
<1>1. CASE l = << >>
  BY <1>1 DEF Register, NodesOf
<1>2. CASE l # << >>
  <2>. DEFINE h == << Head(l), b >>
              t == Tail(l)
  <2>1. h \in Seq(Blocks) /\ Len(h) = 2 /\ t \in Seq(Blocks) /\ Len(t) = Len(l) - 1 /\ Len(l) \in Nat
    BY <1>2
  <2>2. Register(l, b) = h \o t
    BY <1>2 DEF Register
  <2>. HIDE DEF h, t
  <2>3. Len(h \o t) = Len(l) + 1
    <3>1. Len(h \o t) = Len(h) + Len(t)
      BY <2>1, Concatenated
    <3>. QED
      BY <2>1, <3>1
  <2>. QED
    BY <1>2, <2>1, <2>2, <2>3 DEF NodesOf
<1>. QED
  BY <1>1, <1>2

\* Delegation hands over every node and makes one for the head.
LEMMA DelegateNodes ==
  ASSUME NEW from \in Seq(Blocks), NEW to \in Seq(Blocks)
  PROVE  NodesOf(Delegate(from, to)) = NodesOf(from) + NodesOf(to) + NodesMade(from, to)
<1>. DEFINE R(l) == [k \in 1 .. Len(l) |-> l[(Len(l) - k) + 1]]
<1>1. ASSUME NEW l \in Seq(Blocks)
      PROVE  Reverse(l) \in Seq(Blocks) /\ Len(Reverse(l)) = Len(l) /\ Len(l) \in Nat
  <2>1. Len(l) \in Nat /\ \A k \in 1 .. Len(l) : (Len(l) - k) + 1 \in 1 .. Len(l) /\ l[k] \in Blocks
    OBVIOUS
  <2>2. Reverse(l) = R(l)
    BY DEF Reverse
  <2>3. R(l) \in [1 .. Len(l) -> Blocks]
    BY <2>1
  <2>4. R(l) \in Seq(Blocks) /\ Len(R(l)) = Len(l)
    BY <2>1, <2>3
  <2>. QED
    BY <2>1, <2>2, <2>4
<1>2. CASE from = << >>
  BY <1>2 DEF Delegate, NodesOf, NodesMade
<1>3. CASE from # << >> /\ to = << >>
  <2>. DEFINE h == << Head(from) >>
              t == Reverse(Tail(from))
  <2>1. h \in Seq(Blocks) /\ Len(h) = 1 /\ Tail(from) \in Seq(Blocks) /\ Len(Tail(from)) = Len(from) - 1
    BY SMTT(60), <1>3
  <2>2. t \in Seq(Blocks) /\ Len(t) = Len(from) - 1 /\ Len(from) \in Nat
    BY <1>1, <2>1
  <2>3. Delegate(from, to) = h \o t
    BY <1>3 DEF Delegate
  <2>. HIDE DEF h, t
  <2>4. Len(h \o t) = Len(from) /\ Len(from) # 0
    <3>1. Len(h \o t) = Len(h) + Len(t)
      BY <2>1, <2>2, Concatenated
    <3>. QED
      BY SMTT(60), <1>3, <2>1, <2>2, <3>1
  <2>. QED
    BY <1>3, <2>2, <2>3, <2>4 DEF NodesOf, NodesMade
<1>4. CASE from # << >> /\ to # << >>
  <2>. DEFINE h == << Head(to) >>
              r == Reverse(from)
              t == Tail(to)
  <2>1. /\ h \in Seq(Blocks) /\ Len(h) = 1 /\ t \in Seq(Blocks) /\ Len(t) = Len(to) - 1
        /\ Len(to) \in Nat /\ Len(to) # 0
    BY <1>4
  <2>2. r \in Seq(Blocks) /\ Len(r) = Len(from) /\ Len(from) \in Nat /\ Len(from) # 0
    BY <1>1, <1>4
  <2>3. Delegate(from, to) = (h \o r) \o t
    BY <1>4 DEF Delegate
  <2>. HIDE DEF h, r, t
  <2>4. Len((h \o r) \o t) = Len(from) + Len(to)
    <3>1. h \o r \in Seq(Blocks) /\ Len(h \o r) = Len(h) + Len(r)
      BY <2>1, <2>2, Concatenated
    <3>. DEFINE q == h \o r
    <3>. HIDE DEF q
    <3>2. Len(q \o t) = Len(q) + Len(t)
      BY <2>1, <3>1, Concatenated DEF q
    <3>. QED
      BY <2>1, <2>2, <3>1, <3>2 DEF q
  <2>5. NodesOf(Delegate(from, to)) = (Len(from) + Len(to)) - 1
    BY <2>1, <2>2, <2>3, <2>4 DEF NodesOf
  <2>. QED
    BY <1>4, <2>1, <2>2, <2>5 DEF NodesOf, NodesMade
<1>. QED
  BY <1>2, <1>3, <1>4

-----------------------------------------------------------------------------
(***************************************************************************)
(* Every step keeps the count of the nodes.                                *)
(***************************************************************************)
Counted ==
  /\ nodes = Held(list) + Gone(dropped)
  /\ IsFiniteSet(dropped)
  /\ Gone(dropped) \in Int

\* The lists of the objects, before a step and after it.
LEMMA ListTypes ==
  ASSUME Owned
  PROVE  list \in [Cleanables -> Seq(Blocks)] /\ dropped \in SUBSET Seq(Blocks) /\ << >> \in Seq(Blocks)
BY DEF Owned, Accounted, Simple

\* A step that makes n nodes while it changes one list.
LEMMA OneListCounted ==
  ASSUME Owned, Counted, Owned', NEW c \in Cleanables, \A x \in Cleanables : x # c => list'[x] = list[x],
         NEW n \in Int, NodesOf(list'[c]) = NodesOf(list[c]) + n, nodes' = nodes + n, dropped' = dropped
  PROVE  Counted'
<1>1. list \in [Cleanables -> Seq(Blocks)] /\ list' \in [Cleanables -> Seq(Blocks)]
  BY ListTypes DEF Owned, Accounted
<1>2. Held(list) \in Int /\ Held(list') = (Held(list) - NodesOf(list[c])) + NodesOf(list'[c])
  BY <1>1, HeldChanges
<1>3. NodesOf(list[c]) \in Int
  BY <1>1, NodesInt
<1>4. nodes' = Held(list') + Gone(dropped)
  BY <1>2, <1>3 DEF Counted
<1>. QED
  BY <1>4 DEF Counted

\* What two lists gain, the whole gains.
Balanced(a, b, u, v, x, y, n) ==
  /\ a \in Int /\ b \in Int /\ u \in Int /\ v \in Int /\ x \in Int /\ y \in Int /\ n \in Int
  /\ y + a + b = x + u + v
  /\ u + v = a + b + n

\* The equations solved for the whole.
LEMMA Balance ==
  ASSUME NEW a, NEW b, NEW u, NEW v, NEW x, NEW y, NEW n, Balanced(a, b, u, v, x, y, n)
  PROVE  y = x + n
BY DEF Balanced

\* A step that makes n nodes while it changes two lists.
LEMMA TwoListsCounted ==
  ASSUME Owned, Counted, Owned', NEW c \in Cleanables, NEW d \in Cleanables, c # d,
         \A x \in Cleanables : x # c /\ x # d => list'[x] = list[x], NEW n \in Int,
         NodesOf(list'[c]) + NodesOf(list'[d]) = NodesOf(list[c]) + NodesOf(list[d]) + n,
         nodes' = nodes + n, dropped' = dropped
  PROVE  Counted'
<1>1. list \in [Cleanables -> Seq(Blocks)] /\ list' \in [Cleanables -> Seq(Blocks)]
  BY ListTypes DEF Owned, Accounted
<1>2. /\ Held(list) \in Int /\ Held(list') \in Int
      /\ Held(list') + NodesOf(list[c]) + NodesOf(list[d]) =
           Held(list) + NodesOf(list'[c]) + NodesOf(list'[d])
  <2>1. TwoChange(list, list', c, d)
    BY <1>1 DEF TwoChange
  <2>. QED
    BY <2>1, HeldMoves
<1>3. /\ NodesOf(list[c]) \in Int /\ NodesOf(list[d]) \in Int
      /\ NodesOf(list'[c]) \in Int /\ NodesOf(list'[d]) \in Int
  BY <1>1, NodesInt
<1>4. Held(list') = Held(list) + n
  <2>. DEFINE a == NodesOf(list[c])
              b == NodesOf(list[d])
              u == NodesOf(list'[c])
              v == NodesOf(list'[d])
              x == Held(list)
              y == Held(list')
  <2>1. Balanced(a, b, u, v, x, y, n)
    BY <1>2, <1>3 DEF Balanced
  <2>. HIDE DEF a, b, u, v, x, y
  <2>2. y = x + n
    BY Zenon, <2>1, Balance
  <2>. QED
    BY <2>2 DEF x, y
<1>5. nodes' = Held(list') + Gone(dropped)
  BY <1>2, <1>4 DEF Counted
<1>. QED
  BY <1>5 DEF Counted

\* The cleanups of an object run, and its nodes are deleted.
LEMMA CleansCounted ==
  ASSUME Owned, Counted, Owned', NEW p \in Cleanables, list' = [list EXCEPT ![p] = << >>],
         nodes' = nodes - NodesOf(list[p]), dropped' = dropped
  PROVE  Counted'
<1>. DEFINE n == -NodesOf(list[p])
<1>1. list \in [Cleanables -> Seq(Blocks)] /\ NodesOf(list[p]) \in Int
  BY ListTypes, NodesInt
<1>2. (\A x \in Cleanables : x # p => list'[x] = list[x]) /\ list'[p] = << >>
  BY <1>1
<1>3. nodes \in Int
  <2>1. Held(list) \in Int
    BY <1>1, HeldChanges
  <2>. QED
    BY <2>1 DEF Counted
<1>4. n \in Int /\ NodesOf(list'[p]) = NodesOf(list[p]) + n /\ nodes' = nodes + n
  BY <1>1, <1>2, <1>3 DEF NodesOf
<1>. HIDE DEF n
<1>. QED
  BY <1>2, <1>4, OneListCounted

\* A cleanup is registered.
LEMMA RegistersCounted ==
  ASSUME Owned, Counted, Owned', NEW c \in Cleanables, NEW b \in Blocks,
         list' = [list EXCEPT ![c] = Register(@, b)],
         nodes' = nodes + (IF list[c] = << >> THEN 0 ELSE 1), dropped' = dropped
  PROVE  Counted'
<1>. DEFINE n == IF list[c] = << >> THEN 0 ELSE 1
<1>1. list \in [Cleanables -> Seq(Blocks)]
  BY ListTypes
<1>2. (\A x \in Cleanables : x # c => list'[x] = list[x]) /\ list'[c] = Register(list[c], b)
  BY <1>1
<1>3. n \in Int /\ NodesOf(list'[c]) = NodesOf(list[c]) + n /\ nodes' = nodes + n
  BY <1>1, <1>2, RegisterNodes
<1>. HIDE DEF n
<1>. QED
  BY <1>2, <1>3, OneListCounted

\* Cleanups are delegated.
LEMMA DelegatesCounted ==
  ASSUME Owned, Counted, Owned', NEW h \in Cleanables, NEW c \in Cleanables, h # c,
         list' = [list EXCEPT ![h] = << >>, ![c] = Delegate(list[h], @)],
         nodes' = nodes + NodesMade(list[h], list[c]), dropped' = dropped
  PROVE  Counted'
<1>. DEFINE n == NodesMade(list[h], list[c])
<1>1. list \in [Cleanables -> Seq(Blocks)] /\ list[h] \in Seq(Blocks) /\ list[c] \in Seq(Blocks)
  BY ListTypes
<1>2. \A x \in Cleanables : x # h /\ x # c => list'[x] = list[x]
  BY <1>1
<1>3. list'[h] = << >> /\ list'[c] = Delegate(list[h], list[c])
  BY <1>1
<1>4. NodesOf(Delegate(list[h], list[c])) = NodesOf(list[h]) + NodesOf(list[c]) + n
  BY <1>1, DelegateNodes
<1>5. n \in Int /\ NodesOf(<< >>) = 0 /\ NodesOf(list[h]) \in Int /\ NodesOf(list[c]) \in Int
  BY <1>1, NodesInt DEF NodesMade, NodesOf
<1>. HIDE DEF n
<1>6. NodesOf(list'[h]) + NodesOf(list'[c]) = NodesOf(list[h]) + NodesOf(list[c]) + n
  BY <1>3, <1>4, <1>5
<1>7. nodes' = nodes + n
  BY DEF n
<1>. QED
  BY <1>2, <1>5, <1>6, <1>7, TwoListsCounted

\* An object takes over the list of another one, and its own nodes were deleted before.
LEMMA MovesCounted ==
  ASSUME Owned, Counted, Owned', NEW p \in Cleanables, NEW o \in Cleanables, p # o,
         list' = [list EXCEPT ![p] = list[o], ![o] = << >>],
         nodes' = nodes - NodesOf(list[p]), dropped' = dropped
  PROVE  Counted'
<1>. DEFINE n == -NodesOf(list[p])
<1>1. list \in [Cleanables -> Seq(Blocks)] /\ list[p] \in Seq(Blocks) /\ list[o] \in Seq(Blocks)
  BY ListTypes
<1>2. \A x \in Cleanables : x # p /\ x # o => list'[x] = list[x]
  BY <1>1
<1>3. list'[p] = list[o] /\ list'[o] = << >>
  BY <1>1
<1>4. NodesOf(<< >>) = 0 /\ NodesOf(list[p]) \in Int /\ NodesOf(list[o]) \in Int
  BY <1>1, NodesInt DEF NodesOf
<1>5. nodes \in Int
  <2>1. Held(list) \in Int
    BY <1>1, HeldChanges
  <2>. QED
    BY <2>1 DEF Counted
<1>6. n \in Int /\ nodes' = nodes + n
  BY <1>4, <1>5
<1>7. NodesOf(list'[p]) + NodesOf(list'[o]) = NodesOf(list[p]) + NodesOf(list[o]) + n
  BY <1>3, <1>4
<1>. HIDE DEF n
<1>. QED
  BY <1>2, <1>6, <1>7, TwoListsCounted

\* A list is overwritten: its nodes stay on the heap.
LEMMA DropsCounted ==
  ASSUME Owned, Counted, Owned', NEW h \in Cleanables, NEW g \in Cleanables, h # g,
         \A x \in Cleanables : x # h /\ x # g => list'[x] = list[x],
         list'[h] = list[g], list'[g] = << >>,
         dropped' = dropped \cup ({list[h]} \ {<< >>}), nodes' = nodes
  PROVE  Counted'
<1>1. /\ list \in [Cleanables -> Seq(Blocks)] /\ list[h] \in Seq(Blocks) /\ list[g] \in Seq(Blocks)
      /\ dropped \in SUBSET Seq(Blocks) /\ list' \in [Cleanables -> Seq(Blocks)]
  <2>1. list' \in [Cleanables -> Seq(Blocks)]
    BY DEF Owned, Accounted
  <2>2. list \in [Cleanables -> Seq(Blocks)] /\ dropped \in SUBSET Seq(Blocks)
    BY ListTypes
  <2>. QED
    BY <2>1, <2>2
<1>2. NodesOf(<< >>) = 0 /\ NodesOf(list[h]) \in Int /\ NodesOf(list[g]) \in Int
  BY <1>1, NodesInt DEF NodesOf
<1>3. /\ Held(list) \in Int /\ Held(list') \in Int
      /\ Held(list') + NodesOf(list[h]) + NodesOf(list[g]) = Held(list) + NodesOf(list'[h]) + NodesOf(list'[g])
  <2>1. TwoChange(list, list', h, g)
    BY <1>1 DEF TwoChange
  <2>. QED
    BY <2>1, HeldMoves
<1>4. Held(list') + NodesOf(list[h]) = Held(list)
  <2>. DEFINE a == NodesOf(list[h])
              b == NodesOf(list[g])
              x == Held(list)
              y == Held(list')
  <2>1. a \in Int /\ b \in Int /\ x \in Int /\ y \in Int /\ (y + a) + b = (x + b) + 0
    BY <1>2, <1>3
  <2>. HIDE DEF a, b, x, y
  <2>2. y + a = x
    BY <2>1
  <2>. QED
    BY <2>2 DEF a, x, y
<1>5. /\ IsFiniteSet(dropped') /\ Gone(dropped') \in Int
      /\ Gone(dropped') = Gone(dropped) + NodesOf(list[h])
  <2>1. CASE list[h] = << >>
    <3>1. dropped' = dropped
      BY <2>1
    <3>2. NodesOf(list[h]) = 0
      BY <1>2, <2>1
    <3>3. Gone(dropped) \in Int /\ IsFiniteSet(dropped)
      BY DEF Counted
    <3>4. Gone(dropped') = Gone(dropped) /\ IsFiniteSet(dropped')
      BY <3>1, <3>3
    <3>. QED
      BY <3>2, <3>3, <3>4
  <2>2. CASE list[h] # << >>
    <3>1. dropped' = dropped \cup {list[h]}
      BY <2>2
    <3>2. list[h] \notin dropped
      <4>. SUFFICES ASSUME list[h] \in dropped PROVE FALSE
        OBVIOUS
      <4>1. Apart(list[h], list[h])
        BY DEF Owned, Accounted
      <4>2. In(list[h], list[h][1])
        BY <1>1, <2>2 DEF In
      <4>. QED
        BY <4>1, <4>2 DEF Apart
    <3>. DEFINE D == dropped \cup {list[h]}
    <3>3. IsFiniteSet(D) /\ Gone(dropped) \in Int /\ Gone(D) = Gone(dropped) + NodesOf(list[h])
      BY <1>1, <3>2, GoneGrows DEF Counted
    <3>. HIDE DEF D
    <3>4. Gone(D) \in Int /\ dropped' = D
      BY <1>2, <3>1, <3>3 DEF D
    <3>. QED
      BY <3>3, <3>4
  <2>. QED
    BY <2>1, <2>2
<1>6. nodes' = Held(list') + Gone(dropped')
  <2>1. nodes = Held(list) + Gone(dropped) /\ Gone(dropped) \in Int
    BY DEF Counted
  <2>. DEFINE a == NodesOf(list[h])
              x == Held(list)
              y == Held(list')
              u == Gone(dropped)
              v == Gone(dropped')
  <2>2. a \in Int /\ x \in Int /\ y \in Int /\ u \in Int /\ nodes' = x + u /\ v = u + a /\ y + a = x
    BY <1>2, <1>3, <1>4, <1>5, <2>1
  <2>. HIDE DEF a, x, y, u, v
  <2>3. nodes' = y + v
    BY <2>2
  <2>. QED
    BY <2>3 DEF y, v
<1>. QED
  BY <1>5, <1>6 DEF Counted

\* No node is leaked or freed twice by any step.
LEMMA NextCounted == IInv /\ Counted /\ [Next]_vars => Counted'
<1>. SUFFICES ASSUME IInv, Counted, [Next]_vars PROVE Counted'
  OBVIOUS
<1>1. IInv'
  BY Inductive
<1>2. Owned /\ Owned'
  BY <1>1 DEF IInv
<1>3. ASSUME UNCHANGED << list, nodes, dropped >> PROVE Counted'
  BY <1>3 DEF Counted
<1>4. ASSUME NEW p \in Slices, SliceStep(p) PROVE Counted'
  <2>0. p \in Cleanables
    BY DEF Cleanables
  <2>1. CASE New(p) \/ \E s \in Strings : NewOver(p, s)
    BY <1>3, <2>1 DEF New, NewOver
  <2>2. CASE Reset(p)
    BY <1>2, <2>0, <2>2, CleansCounted DEF Reset
  <2>3. CASE \E b \in Blocks : PinSlice(p, b)
    <3>1. PICK b \in Blocks : PinSlice(p, b)
      BY <2>3
    <3>. QED
      BY <1>2, <2>0, <3>1, RegistersCounted DEF PinSlice
  <2>4. CASE \E h \in Holders, b \in Blocks : PinSliceOf(p, h, b)
    <3>1. PICK h \in Holders, b \in Blocks : PinSliceOf(p, h, b)
      BY <2>4
    <3>2. h \in Cleanables /\ h # p
      BY DisjointAssumption DEF Cleanables
    <3>. QED
      BY <1>2, <2>0, <3>1, <3>2, DelegatesCounted DEF PinSliceOf
  <2>5. CASE \E n \in 0 .. MaxLength : PinSelfTo(p, n)
    BY <1>3, <2>5 DEF PinSelfTo, GoesWild
  <2>6. CASE \E n \in 0 .. MaxLength, prefix \in BOOLEAN : RemoveBytes(p, n, prefix)
    BY <1>3, <2>6 DEF RemoveBytes, GoesWild
  <2>7. CASE \E o \in Slices : MoveConstruct(p, o)
    <3>1. PICK o \in Slices : MoveConstruct(p, o)
      BY <2>7
    <3>2. o \in Cleanables /\ o # p
      BY <3>1 DEF MoveConstruct, Cleanables
    <3>3. list[p] = << >>
      BY <1>2, <2>0, <3>1 DEF Owned, MoveConstruct
    <3>4. nodes \in Int /\ nodes' = nodes
      BY <3>1 DEF IInv, Typed, MoveConstruct
    <3>5. nodes' = nodes - NodesOf(list[p])
      BY <3>3, <3>4 DEF NodesOf
    <3>. QED
      BY <1>2, <2>0, <3>1, <3>2, <3>5, MovesCounted DEF MoveConstruct, MoveMembers
  <2>8. CASE \E o \in Slices : MoveAssign(p, o)
    <3>1. PICK o \in Slices : MoveAssign(p, o)
      BY <2>8
    <3>2. o \in Cleanables /\ o # p
      BY <3>1 DEF MoveAssign, Cleanables
    <3>. QED
      BY <1>2, <2>0, <3>1, <3>2, MovesCounted DEF MoveAssign, MoveMembers
  <2>. QED
    BY <1>4, <2>1, <2>2, <2>3, <2>4, <2>5, <2>6, <2>7, <2>8 DEF SliceStep
<1>5. ASSUME NEW c \in Cleanables, CleanableStep(c) PROVE Counted'
  <2>1. CASE Destroy(c)
    BY <1>2, <2>1, CleansCounted DEF Destroy
  <2>2. CASE \E b \in Blocks : RegisterCleanup(c, b)
    <3>1. PICK b \in Blocks : RegisterCleanup(c, b)
      BY <2>2
    <3>. QED
      BY <1>2, <3>1, RegistersCounted DEF RegisterCleanup
  <2>3. CASE \E h \in Cleanables : DelegateCleanupsTo(h, c)
    <3>1. PICK h \in Cleanables : DelegateCleanupsTo(h, c)
      BY <2>3
    <3>. QED
      BY <1>2, <3>1, DelegatesCounted DEF DelegateCleanupsTo
  <2>. QED
    BY <1>5, <2>1, <2>2, <2>3 DEF CleanableStep
<1>6. ASSUME NEW h \in Holders, NEW g \in Holders, MoveCleanable(h, g) PROVE Counted'
  <2>1. h \in Cleanables /\ g \in Cleanables
    BY DEF Cleanables
  <2>2. list \in [Cleanables -> Seq(Blocks)] /\ h # g
    BY <1>2, <1>6, ListTypes DEF MoveCleanable
  <2>3. /\ \A x \in Cleanables : x # h /\ x # g => list'[x] = list[x]
        /\ list'[h] = list[g] /\ list'[g] = << >>
    BY <1>6, <2>1, <2>2 DEF MoveCleanable
  <2>4. dropped' = dropped \cup ({list[h]} \ {<< >>}) /\ nodes' = nodes
    BY <1>6 DEF MoveCleanable
  <2>. QED
    BY <1>2, <2>1, <2>2, <2>3, <2>4, DropsCounted
<1>7. CASE UNCHANGED vars
  BY <1>3, <1>7 DEF vars
<1>. QED
  BY <1>4, <1>5, <1>6, <1>7 DEF Next

\* The Cleanup nodes on the heap are those of the lists that the objects hold and of
\* the overwritten ones, whatever was registered, delegated, moved, reset and destroyed.
THEOREM NodesNeverLeak == Spec => []NodesAccounted
<1>1. Init => Counted
  <2>. SUFFICES ASSUME Init PROVE Counted
    OBVIOUS
  <2>1. \A c \in Cleanables : list[c] = << >>
    BY DEF Init
  <2>2. Held(list) = 0 /\ Gone({}) = 0
    BY <2>1, NothingHeld
  <2>3. nodes = 0 /\ dropped = {}
    BY DEF Init
  <2>. QED
    BY <2>2, <2>3, FS_EmptySet DEF Counted
<1>2. Counted => NodesAccounted
  BY DEF Counted, NodesAccounted, Held, Gone
<1>. QED
  BY <1>1, <1>2, Invariance, NextCounted, PTL DEF Spec
=============================================================================
