------------------------ MODULE BaselineMerger_proofs ------------------------
(***************************************************************************)
(* Proofs about the merge, for every directory, read limit and comparator  *)
(* of keys: the heap of the priority queue, the invariant of DoCompaction  *)
(* and the promise it implements.                                          *)
(***************************************************************************)
EXTENDS BaselineMerger, WellFoundedInduction, TLAPS

-----------------------------------------------------------------------------
(***************************************************************************)
(* Induction over the naturals, with a set in the place of a predicate.    *)
(***************************************************************************)
LEMMA LeastElement ==
  ASSUME NEW T \in SUBSET Nat, T # {}
  PROVE  \E m \in T : \A k \in T : m <= k
<1>1. PICK m \in T : \A k \in T : ~(<< k, m >> \in OpToRel(<, Nat))
  BY NatLessThanWellFounded, WFMin
<1>2. \A k \in T : ~(k < m)
  BY <1>1 DEF OpToRel
<1>. QED
  BY <1>2

\* A set of numbers up to N that is not empty has a greatest one.
LEMMA GreatestElement ==
  ASSUME NEW N \in Nat, NEW T \in SUBSET (0 .. N), T # {}
  PROVE  \E m \in T : \A k \in T : k <= m
<1>. DEFINE R == {j \in 0 .. N : N - j \in T}
<1>1. R \in SUBSET Nat /\ R # {}
  <2>1. PICK k \in T : TRUE
    OBVIOUS
  <2>2. k \in 0 .. N
    BY <2>1
  <2>3. N - k \in 0 .. N /\ N - (N - k) = k
    BY <2>2
  <2>4. N - k \in R
    BY <2>1, <2>3
  <2>5. R \in SUBSET Nat
    OBVIOUS
  <2>. HIDE DEF R
  <2>. QED
    BY <2>4, <2>5
<1>2. PICK j \in R : \A k \in R : j <= k
  <2>. HIDE DEF R
  <2>. QED
    BY <1>1, LeastElement
<1>3. ASSUME NEW k \in T PROVE k <= N - j
  <2>1. N - k \in R /\ k \in 0 .. N /\ j \in 0 .. N
    BY <1>2
  <2>. QED
    BY <1>2, <2>1
<1>. QED
  BY <1>2, <1>3

\* A set that has 0 and the successor of each number it has, has every number.
LEMMA Induction ==
  ASSUME NEW T, 0 \in T, \A n \in Nat : n \in T => n + 1 \in T
  PROVE  Nat \subseteq T
<1>. DEFINE S == Nat \ T
<1>. SUFFICES ASSUME S # {} PROVE FALSE
  OBVIOUS
<1>1. PICK m \in S : \A k \in S : m <= k
  BY LeastElement
<1>2. m - 1 \in Nat /\ m - 1 \notin S
  BY <1>1
<1>. QED
  BY <1>1, <1>2

(***************************************************************************)
(* A recursive function over D exists if each call of it has a smaller     *)
(* measure: where k is in C, f[k] is made by G from f[next[k]].            *)
(***************************************************************************)
Descends(D, V, N, mu, C, next, base, G) ==
  /\ N \in Nat
  /\ mu \in [D -> 0 .. N]
  /\ base \in [D -> V]
  /\ \A k \in D : k \in C => /\ next[k] \in D
                             /\ mu[next[k]] < mu[k]
                             /\ \A v \in V : G[k][v] \in V

\* By induction on the measure, the function exists.
LEMMA RecursiveFunction ==
  ASSUME NEW D, NEW V, NEW N, NEW mu, NEW C, NEW next, NEW base, NEW G,
         Descends(D, V, N, mu, C, next, base, G)
  PROVE  \E f \in [D -> V] :
           \A k \in D : f[k] = IF k \in C THEN G[k][f[next[k]]] ELSE base[k]
<1>. USE DEF Descends
<1>. DEFINE Below(f, n) ==
              \A k \in D : mu[k] < n => f[k] = IF k \in C THEN G[k][f[next[k]]] ELSE base[k]
            T == {n \in Nat : \E f \in [D -> V] : Below(f, n)}
<1>1. 0 \in T
  <2>1. Below(base, 0)
    OBVIOUS
  <2>. QED
    BY <2>1
<1>2. ASSUME NEW n \in Nat, n \in T PROVE n + 1 \in T
  <2>1. PICK f \in [D -> V] : Below(f, n)
    BY <1>2
  <2>. DEFINE value(k) == IF k \in C THEN G[k][f[next[k]]] ELSE base[k]
              g == [k \in D |-> IF mu[k] = n THEN value(k) ELSE f[k]]
  <2>2. \A k \in D : value(k) \in V
    OBVIOUS
  <2>3. g \in [D -> V]
    BY <2>2
  <2>4. \A k \in D : g[k] = IF mu[k] = n THEN value(k) ELSE f[k]
    OBVIOUS
  <2>5. \A k \in D : mu[k] < n => f[k] = value(k)
    BY <2>1
  <2>. HIDE DEF g
  <2>6. ASSUME NEW k \in D, mu[k] < n + 1
        PROVE  g[k] = IF k \in C THEN G[k][g[next[k]]] ELSE base[k]
    <3>1. k \in C => g[next[k]] = f[next[k]]
      BY <2>4, <2>6
    <3>2. g[k] = value(k)
      BY <2>4, <2>5, <2>6
    <3>. QED
      BY <3>1, <3>2
  <2>. QED
    BY <2>3, <2>6
<1>3. N + 1 \in T
  <2>. HIDE DEF T
  <2>. QED
    BY <1>1, <1>2, Induction
<1>4. PICK f \in [D -> V] : Below(f, N + 1)
  BY <1>3
<1>. QED
  BY <1>4

-----------------------------------------------------------------------------
(***************************************************************************)
(* Rearranging a vector of n elements.                                     *)
(***************************************************************************)
Bijects(pi, n) ==
  /\ pi \in [1 .. n -> 1 .. n]
  /\ \A i, j \in 1 .. n : pi[i] = pi[j] => i = j
  /\ \A j \in 1 .. n : \E i \in 1 .. n : pi[i] = j

\* g is h with its elements in other places.
Rearranges(g, h, n) ==
  \E pi : Bijects(pi, n) /\ \A i \in 1 .. n : g[i] = h[pi[i]]

Exchanged(pi, n, a, b) ==
  [i \in 1 .. n |-> IF pi[i] = a THEN b ELSE IF pi[i] = b THEN a ELSE pi[i]]

\* Exchanging two places of a permutation gives a permutation.
LEMMA ExchangeBijects ==
  ASSUME NEW n \in Nat, NEW pi, Bijects(pi, n), NEW a \in 1 .. n, NEW b \in 1 .. n
  PROVE  Bijects(Exchanged(pi, n, a, b), n)
<1>. DEFINE q == Exchanged(pi, n, a, b)
<1>1. /\ pi \in [1 .. n -> 1 .. n]
      /\ \A i, j \in 1 .. n : pi[i] = pi[j] => i = j
      /\ \A j \in 1 .. n : \E i \in 1 .. n : pi[i] = j
  BY DEF Bijects
<1>2. q \in [1 .. n -> 1 .. n]
      /\ \A i \in 1 .. n : q[i] = IF pi[i] = a THEN b ELSE IF pi[i] = b THEN a ELSE pi[i]
  BY <1>1 DEF Exchanged
<1>. HIDE DEF q
<1>3. \A i, j \in 1 .. n : q[i] = q[j] => i = j
  BY <1>1, <1>2
<1>4. ASSUME NEW j \in 1 .. n PROVE \E i \in 1 .. n : q[i] = j
  <2>1. PICK i \in 1 .. n : pi[i] = IF j = a THEN b ELSE IF j = b THEN a ELSE j
    BY <1>1
  <2>2. q[i] = j
    BY <1>2, <2>1
  <2>. QED
    BY <2>2
<1>5. Bijects(q, n)
  BY <1>2, <1>3, <1>4 DEF Bijects
<1>. QED
  BY <1>5 DEF q

\* Rearranging twice is rearranging.
LEMMA RearrangesTransitive ==
  ASSUME NEW n \in Nat, NEW f, NEW g, NEW h, Rearranges(f, g, n), Rearranges(g, h, n)
  PROVE  Rearranges(f, h, n)
<1>1. PICK pi : Bijects(pi, n) /\ \A i \in 1 .. n : f[i] = g[pi[i]]
  BY DEF Rearranges
<1>2. PICK rho : Bijects(rho, n) /\ \A i \in 1 .. n : g[i] = h[rho[i]]
  BY DEF Rearranges
<1>. DEFINE q == [i \in 1 .. n |-> rho[pi[i]]]
<1>3. \A i \in 1 .. n : pi[i] \in 1 .. n /\ rho[i] \in 1 .. n
  BY <1>1, <1>2 DEF Bijects
<1>4. q \in [1 .. n -> 1 .. n] /\ \A i \in 1 .. n : q[i] = rho[pi[i]]
  BY <1>3
<1>. HIDE DEF q
<1>5. /\ \A i, j \in 1 .. n : pi[i] = pi[j] => i = j
      /\ \A i, j \in 1 .. n : rho[i] = rho[j] => i = j
      /\ \A j \in 1 .. n : \E i \in 1 .. n : pi[i] = j
      /\ \A j \in 1 .. n : \E i \in 1 .. n : rho[i] = j
  BY <1>1, <1>2 DEF Bijects
<1>6. ASSUME NEW i \in 1 .. n, NEW j \in 1 .. n, q[i] = q[j] PROVE i = j
  <2>1. rho[pi[i]] = rho[pi[j]]
    BY <1>4, <1>6
  <2>2. pi[i] = pi[j]
    <3>1. pi[i] \in 1 .. n /\ pi[j] \in 1 .. n
      BY <1>3
    <3>2. \A k, l \in 1 .. n : rho[k] = rho[l] => k = l
      BY <1>5
    <3>. QED
      BY <2>1, <3>1, <3>2, Zenon
  <2>. QED
    BY <1>5, <2>2
<1>7. ASSUME NEW j \in 1 .. n PROVE \E i \in 1 .. n : q[i] = j
  <2>1. PICK k \in 1 .. n : rho[k] = j
    BY <1>5
  <2>2. PICK i \in 1 .. n : pi[i] = k
    BY <1>5
  <2>3. q[i] = j
    BY <1>4, <2>1, <2>2
  <2>. QED
    BY <2>3
<1>8. Bijects(q, n)
  BY <1>4, <1>6, <1>7 DEF Bijects
<1>9. ASSUME NEW i \in 1 .. n PROVE f[i] = h[q[i]]
  <2>1. f[i] = g[pi[i]] /\ g[pi[i]] = h[rho[pi[i]]]
    BY <1>1, <1>2, <1>3
  <2>. QED
    BY <1>4, <2>1
<1>. QED
  BY <1>8, <1>9 DEF Rearranges

\* g is h with x in place a, rearranged by pi.
Holds(g, h, n, S, a, x, pi) ==
  /\ n \in Nat /\ h \in [1 .. n -> S] /\ x \in S /\ a \in 1 .. n
  /\ g \in [1 .. n -> S]
  /\ Bijects(pi, n)
  /\ \A i \in 1 .. n : g[i] = [h EXCEPT ![a] = x][pi[i]]

\* The element at a moves to the hole at b, and the hole, where x belongs, to a.
LEMMA HoleMoves ==
  ASSUME NEW g, NEW h, NEW n, NEW S, NEW a, NEW x, NEW pi, Holds(g, h, n, S, a, x, pi),
         NEW b \in 1 .. n, a # b, pi[b] = b
  PROVE  /\ Holds([g EXCEPT ![b] = h[a]], h, n, S, b, x, Exchanged(pi, n, a, b))
         /\ \A i \in 1 .. n :
              pi[i] = i /\ i # a /\ i # b => Exchanged(pi, n, a, b)[i] = i
<1>. DEFINE q == Exchanged(pi, n, a, b)
            f == [g EXCEPT ![b] = h[a]]
<1>1. /\ n \in Nat /\ h \in [1 .. n -> S] /\ x \in S /\ a \in 1 .. n
      /\ g \in [1 .. n -> S] /\ Bijects(pi, n)
      /\ \A i \in 1 .. n : g[i] = [h EXCEPT ![a] = x][pi[i]]
  BY DEF Holds
<1>2. Bijects(q, n)
  BY <1>1, ExchangeBijects
<1>3. /\ pi \in [1 .. n -> 1 .. n] /\ \A i, j \in 1 .. n : pi[i] = pi[j] => i = j
      /\ q \in [1 .. n -> 1 .. n]
  BY <1>1, <1>2 DEF Bijects
<1>4. \A i \in 1 .. n : q[i] = IF pi[i] = a THEN b ELSE IF pi[i] = b THEN a ELSE pi[i]
  BY DEF Exchanged
<1>5. f \in [1 .. n -> S] /\ \A i \in 1 .. n : f[i] = IF i = b THEN h[a] ELSE g[i]
  BY <1>1
<1>. HIDE DEF q, f
<1>6. ASSUME NEW i \in 1 .. n PROVE f[i] = [h EXCEPT ![b] = x][q[i]]
  <2>1. CASE i = b
    <3>1. q[i] = a /\ f[i] = h[a]
      BY <1>4, <1>5, <2>1
    <3>. QED
      BY <3>1
  <2>2. CASE i # b
    <3>1. pi[i] # b /\ pi[i] \in 1 .. n
      BY <1>3, <2>2
    <3>2. f[i] = IF pi[i] = a THEN x ELSE h[pi[i]]
      BY <1>1, <1>5, <2>2, <3>1
    <3>3. q[i] = IF pi[i] = a THEN b ELSE pi[i]
      BY <1>4, <3>1
    <3>. QED
      BY <1>1, <3>1, <3>2, <3>3
  <2>. QED
    BY <2>1, <2>2
<1>7. \A i \in 1 .. n : pi[i] = i /\ i # a /\ i # b => q[i] = i
  BY <1>1, <1>4
<1>8. Holds(f, h, n, S, b, x, q)
  BY <1>2, <1>5, <1>6 DEF Holds
<1>. QED
  BY <1>7, <1>8 DEF q, f

Identity(n) == [i \in 1 .. n |-> i]

\* Leaving every element where it is is a rearrangement.
LEMMA IdentityBijects ==
  ASSUME NEW n \in Nat
  PROVE  Bijects(Identity(n), n) /\ \A i \in 1 .. n : Identity(n)[i] = i
BY DEF Bijects, Identity

-----------------------------------------------------------------------------
(***************************************************************************)
(* The heap: push_heap and pop_heap rearrange, whatever the comparator is. *)
(***************************************************************************)
LEMMA ParentBelow ==
  ASSUME NEW k \in Nat, k > 0
  PROVE  Queue!Parent(k) \in Nat /\ Queue!Parent(k) < k
BY DEF Queue!Parent

\* __push_heap puts x into the hole and then only moves elements.
LEMMA SiftUpRearranges ==
  ASSUME NEW n \in Nat, NEW S, NEW h \in [1 .. n -> S], NEW hole \in 0 .. n - 1, NEW x \in S
  PROVE  /\ Queue!SiftUp(h, hole, x) \in [1 .. n -> S]
         /\ Rearranges(Queue!SiftUp(h, hole, x), [h EXCEPT ![hole + 1] = x], n)
<1>. DEFINE D == 0 .. hole
            V == [1 .. n -> S]
            up(k) == Queue!Parent(k)
            C == {k \in D : k > 0 /\ Less(h[up(k) + 1], x)}
            Def(f) == [k \in D |-> IF k > 0 /\ Less(h[up(k) + 1], x)
                                   THEN [f[up(k)] EXCEPT ![k + 1] = h[up(k) + 1]]
                                   ELSE [h EXCEPT ![k + 1] = x]]
            risen == CHOOSE f : f = Def(f)
<1>1. Queue!SiftUp(h, hole, x) = risen[hole]
  BY Zenon DEF Queue!SiftUp
<1>2. \A k \in D : k \in 0 .. n - 1 /\ k \in Nat /\ k + 1 \in 1 .. n
  OBVIOUS
<1>3. \A k \in C : up(k) \in D /\ up(k) < k /\ up(k) + 1 \in 1 .. n
  BY <1>2, ParentBelow
<1>4. \E f \in [D -> V] : f = Def(f)
  <2>. DEFINE mu == [k \in D |-> k]
              next == [k \in D |-> up(k)]
              base == [k \in D |-> [h EXCEPT ![k + 1] = x]]
              G == [k \in D |-> [v \in V |-> [v EXCEPT ![k + 1] = h[up(k) + 1]]]]
  <2>1. hole \in Nat /\ mu \in [D -> 0 .. hole]
    BY <1>2
  <2>2. base \in [D -> V]
    BY <1>2
  <2>3. ASSUME NEW k \in D, k \in C
        PROVE  next[k] \in D /\ mu[next[k]] < mu[k] /\ \A v \in V : G[k][v] \in V
    BY <1>2, <1>3, <2>3
  <2>4. PICK f \in [D -> V] :
          \A k \in D : f[k] = IF k \in C THEN G[k][f[next[k]]] ELSE base[k]
    <3>. HIDE DEF mu, next, base, G, V, D, C
    <3>1. Descends(D, V, hole, mu, C, next, base, G)
      BY <2>1, <2>2, <2>3 DEF Descends
    <3>. QED
      BY <3>1, RecursiveFunction
  <2>5. ASSUME NEW k \in D PROVE f[k] = Def(f)[k]
    <3>1. CASE k \in C
      <4>1. f[up(k)] \in V
        BY <1>3, <3>1
      <4>. QED
        BY <2>4, <3>1, <4>1
    <3>2. CASE k \notin C
      BY <2>4, <3>2
    <3>. QED
      BY <3>1, <3>2
  <2>6. f = Def(f)
    <3>1. Def(f) = [k \in D |-> Def(f)[k]]
      OBVIOUS
    <3>2. f = [k \in D |-> f[k]]
      OBVIOUS
    <3>. HIDE DEF Def, D, V
    <3>. QED
      BY <2>5, <3>1, <3>2
  <2>. QED
    BY <2>6
<1>5. risen = Def(risen)
  BY <1>4
<1>6. \A k \in D : risen[k] = IF k \in C THEN [risen[up(k)] EXCEPT ![k + 1] = h[up(k) + 1]]
                              ELSE [h EXCEPT ![k + 1] = x]
  <2>. HIDE DEF risen
  <2>1. \A k \in D : risen[k] = Def(risen)[k]
    BY <1>5
  <2>. QED
    BY <2>1
<1>. HIDE DEF risen, Def
<1>. DEFINE Good(k, pi) ==
              /\ Holds(risen[k], h, n, S, k + 1, x, pi)
              /\ \A i \in 1 .. n : i > k + 1 => pi[i] = i
            Bad == {k \in D : ~ \E pi : Good(k, pi)}
<1>7. Bad = {}
  <2>. SUFFICES ASSUME Bad # {} PROVE FALSE
    OBVIOUS
  <2>1. Bad \in SUBSET Nat
    BY <1>2
  <2>2. PICK k \in Bad : \A j \in Bad : k <= j
    <3>. HIDE DEF Bad
    <3>. QED
      BY <2>1, LeastElement
  <2>3. CASE k \in C
    <3>. DEFINE p == up(k)
    <3>1. p \in D /\ p < k /\ p + 1 \in 1 .. n /\ k + 1 \in 1 .. n /\ p \in Nat /\ k \in Nat
      BY <1>2, <1>3, <2>3
    <3>2. PICK pi : Good(p, pi)
      <4>1. p \notin Bad
        <5>. HIDE DEF Bad, p
        <5>. QED
          BY <2>2, <3>1
      <4>. QED
        BY <3>1, <4>1
    <3>3. risen[k] = [risen[p] EXCEPT ![k + 1] = h[p + 1]]
      BY <1>6, <2>3
    <3>. DEFINE q == Exchanged(pi, n, p + 1, k + 1)
    <3>4. pi[k + 1] = k + 1 /\ p + 1 # k + 1
      BY <3>1, <3>2
    <3>5. /\ Holds(risen[k], h, n, S, k + 1, x, q)
          /\ \A i \in 1 .. n : pi[i] = i /\ i # p + 1 /\ i # k + 1 => q[i] = i
      <4>. DEFINE a == p + 1
                  b == k + 1
                  g == risen[p]
      <4>1. /\ a \in 1 .. n /\ b \in 1 .. n /\ a # b /\ pi[b] = b
            /\ Holds(g, h, n, S, a, x, pi)
        BY <3>1, <3>2, <3>4
      <4>. HIDE DEF p, a, b, g, Bad, Good, D, V, C
      <4>2. /\ Holds([g EXCEPT ![b] = h[a]], h, n, S, b, x, Exchanged(pi, n, a, b))
            /\ \A i \in 1 .. n : pi[i] = i /\ i # a /\ i # b => Exchanged(pi, n, a, b)[i] = i
        BY <4>1, HoleMoves
      <4>. QED
        BY <3>3, <4>2 DEF a, b, g
    <3>6. \A i \in 1 .. n : i > k + 1 => q[i] = i
      BY <3>1, <3>2, <3>5
    <3>7. Good(k, q)
      BY <3>5, <3>6
    <3>. QED
      BY <2>2, <3>7
  <2>4. CASE k \notin C
    <3>1. risen[k] = [h EXCEPT ![k + 1] = x]
      BY <1>6, <2>4
    <3>2. k + 1 \in 1 .. n /\ risen[k] \in V
      BY <1>2, <3>1
    <3>3. Good(k, Identity(n))
      BY <3>1, <3>2, IdentityBijects DEF Holds
    <3>. QED
      BY <2>2, <3>3
  <2>. QED
    BY <2>3, <2>4
<1>8. hole \in D
  OBVIOUS
<1>. QED
  BY <1>1, <1>7, <1>8 DEF Rearranges, Holds

\* The child that moves up is in the heap, behind the hole.
LEMMA ChildAbove ==
  ASSUME NEW h, NEW len \in Nat, NEW k \in Nat, Queue!HasChild(k, len)
  PROVE  /\ Queue!LargerChild(h, k, len) \in 0 .. len - 1
         /\ Queue!LargerChild(h, k, len) > k
BY DEF Queue!HasChild, Queue!LargerChild

\* Popping leaves all elements but the first.
LEMMA PopRearranges ==
  ASSUME NEW n \in Nat, n > 0, NEW S, NEW h \in Seq(S), Len(h) = n + 1
  PROVE  /\ Queue!Pop(h) \in [1 .. n -> S]
         /\ Rearranges(Queue!Pop(h), [SubSeq(h, 1, n) EXCEPT ![1] = h[n + 1]], n)
<1>. DEFINE D == 0 .. n - 1
            V == [vector : [1 .. n -> S], leaf : D]
            front == SubSeq(h, 1, n)
            x == h[n + 1]
            child(k) == Queue!LargerChild(h, k, n)
            C == {k \in D : Queue!HasChild(k, n)}
            Def(f) == [k \in D |-> IF Queue!HasChild(k, n)
                                   THEN [f[child(k)] EXCEPT !.vector[k + 1] = h[child(k) + 1]]
                                   ELSE [vector |-> front, leaf |-> k]]
            sunk == CHOOSE f : f = Def(f)
<1>1. Queue!Pop(h) = Queue!SiftUp(sunk[0].vector, sunk[0].leaf, x)
  <2>1. Len(h) # 1 /\ Len(h) - 1 = n
    OBVIOUS
  <2>. QED
    BY <2>1, Zenon DEF Queue!Pop
<1>2. /\ front \in [1 .. n -> S] /\ x \in S
      /\ \A i \in 1 .. n : front[i] = h[i] /\ h[i] \in S
  <2>1. \A i \in 1 .. n + 1 : h[i] \in S
    OBVIOUS
  <2>2. n + 1 \in 1 .. n + 1 /\ \A i \in 1 .. n : i \in 1 .. n + 1
    OBVIOUS
  <2>3. front = [i \in 1 .. n |-> h[i]]
    OBVIOUS
  <2>. HIDE DEF front
  <2>. QED
    BY <2>1, <2>2, <2>3
<1>3. \A k \in D : k \in Nat /\ k + 1 \in 1 .. n
  OBVIOUS
<1>4. \A k \in C : child(k) \in D /\ child(k) > k /\ child(k) + 1 \in 1 .. n
  BY <1>3, ChildAbove
<1>5. \E f \in [D -> V] : f = Def(f)
  <2>. DEFINE mu == [k \in D |-> n - 1 - k]
              next == [k \in D |-> child(k)]
              base == [k \in D |-> [vector |-> front, leaf |-> k]]
              G == [k \in D |-> [v \in V |-> [v EXCEPT !.vector[k + 1] = h[child(k) + 1]]]]
  <2>1. n - 1 \in Nat /\ mu \in [D -> 0 .. n - 1]
    OBVIOUS
  <2>2. base \in [D -> V]
    BY <1>2
  <2>3. ASSUME NEW k \in D, k \in C
        PROVE  next[k] \in D /\ mu[next[k]] < mu[k] /\ \A v \in V : G[k][v] \in V
    <3>1. next[k] \in D /\ mu[next[k]] < mu[k]
      BY <1>3, <1>4, <2>3
    <3>2. h[child(k) + 1] \in S /\ k + 1 \in 1 .. n
      BY <1>2, <1>3, <1>4, <2>3
    <3>3. ASSUME NEW v \in V PROVE [v EXCEPT !.vector[k + 1] = h[child(k) + 1]] \in V
      BY <3>2
    <3>. QED
      BY <2>3, <3>1, <3>3
  <2>4. PICK f \in [D -> V] :
          \A k \in D : f[k] = IF k \in C THEN G[k][f[next[k]]] ELSE base[k]
    <3>. HIDE DEF mu, next, base, G, V, D, C
    <3>1. Descends(D, V, n - 1, mu, C, next, base, G)
      BY <2>1, <2>2, <2>3 DEF Descends
    <3>. QED
      BY <3>1, RecursiveFunction
  <2>5. ASSUME NEW k \in D PROVE f[k] = Def(f)[k]
    <3>1. CASE k \in C
      <4>1. f[child(k)] \in V
        BY <1>4, <3>1
      <4>2. f[k] = [f[child(k)] EXCEPT !.vector[k + 1] = h[child(k) + 1]]
        <5>1. f[k] = G[k][f[child(k)]]
          BY <2>4, <3>1
        <5>. HIDE DEF V
        <5>. QED
          BY <4>1, <5>1
      <4>. QED
        BY <3>1, <4>2
    <3>2. CASE k \notin C
      BY <2>4, <3>2
    <3>. QED
      BY <3>1, <3>2
  <2>6. f = Def(f)
    <3>1. Def(f) = [k \in D |-> Def(f)[k]]
      OBVIOUS
    <3>2. f = [k \in D |-> f[k]]
      OBVIOUS
    <3>. HIDE DEF Def, D, V
    <3>. QED
      BY <2>5, <3>1, <3>2
  <2>. QED
    BY <2>6
<1>6. sunk = Def(sunk)
  BY <1>5
<1>7. \A k \in D : sunk[k] = IF k \in C THEN [sunk[child(k)] EXCEPT !.vector[k + 1] = h[child(k) + 1]]
                             ELSE [vector |-> front, leaf |-> k]
  <2>. HIDE DEF sunk
  <2>1. \A k \in D : sunk[k] = Def(sunk)[k]
    BY <1>6
  <2>. QED
    BY <2>1
<1>. HIDE DEF sunk, Def
<1>. DEFINE filled(k) == [sunk[k].vector EXCEPT ![sunk[k].leaf + 1] = x]
            Good(k, pi) ==
              /\ sunk[k] \in V /\ sunk[k].leaf >= k
              /\ Holds(filled(k), front, n, S, k + 1, x, pi)
              /\ \A i \in 1 .. n : i < k + 1 => pi[i] = i
            Bad == {k \in D : ~ \E pi : Good(k, pi)}
<1>8. Bad = {}
  <2>. SUFFICES ASSUME Bad # {} PROVE FALSE
    OBVIOUS
  <2>1. PICK k \in Bad : \A j \in Bad : j <= k
    <3>1. Bad \in SUBSET (0 .. n - 1) /\ n - 1 \in Nat
      OBVIOUS
    <3>. HIDE DEF Bad
    <3>. QED
      BY <3>1, GreatestElement
  <2>2. CASE k \in C
    <3>. DEFINE c == child(k)
    <3>1. c \in D /\ c > k /\ c + 1 \in 1 .. n /\ k + 1 \in 1 .. n /\ c \in Nat /\ k \in Nat
      BY <1>3, <1>4, <2>2
    <3>2. PICK pi : Good(c, pi)
      <4>1. c \notin Bad
        <5>. HIDE DEF Bad, c
        <5>. QED
          BY <2>1, <3>1
      <4>. QED
        BY <3>1, <4>1
    <3>3. sunk[k] = [sunk[c] EXCEPT !.vector[k + 1] = h[c + 1]]
      BY <1>7, <2>2
    <3>4. /\ sunk[c].vector \in [1 .. n -> S] /\ sunk[c].leaf \in D /\ sunk[c].leaf >= c
          /\ sunk[c] \in V
      BY <3>2
    <3>. HIDE DEF c
    <3>5. /\ sunk[k].vector = [sunk[c].vector EXCEPT ![k + 1] = h[c + 1]]
          /\ sunk[k].leaf = sunk[c].leaf /\ sunk[k] \in V
      <4>. DEFINE e == h[c + 1]
                  r == sunk[c]
      <4>1. e \in S
        BY <1>2, <3>1
      <4>2. /\ r \in [vector : [1 .. n -> S], leaf : D]
            /\ sunk[k] = [r EXCEPT !.vector[k + 1] = e]
        BY <3>3, <3>4
      <4>. HIDE DEF e, r, D, V
      <4>3. sunk[k] = [vector |-> [r.vector EXCEPT ![k + 1] = e], leaf |-> r.leaf]
        BY <4>2
      <4>4. [r.vector EXCEPT ![k + 1] = e] \in [1 .. n -> S] /\ r.leaf \in D
        BY <3>1, <4>1, <4>2
      <4>. QED
        BY <4>3, <4>4 DEF e, r, V
    <3>. DEFINE a == c + 1
                b == k + 1
                l == sunk[c].leaf + 1
                g == filled(c)
                q == Exchanged(pi, n, a, b)
    <3>6. a \in 1 .. n /\ b \in 1 .. n /\ a # b /\ l \in 1 .. n /\ l # b
      BY <3>1, <3>4
    <3>7. pi[b] = b
      BY <3>1, <3>2
    <3>8. filled(k) = [g EXCEPT ![b] = front[a]]
      <4>. DEFINE v == sunk[c].vector
      <4>1. filled(k) = [[v EXCEPT ![b] = h[a]] EXCEPT ![l] = x]
        BY <3>5
      <4>2. g = [v EXCEPT ![l] = x]
        OBVIOUS
      <4>3. v \in [1 .. n -> S] /\ h[a] = front[a]
        BY <1>2, <3>4, <3>6
      <4>. HIDE DEF v, g, a, b, l, filled, front, x
      <4>. QED
        BY <3>6, <4>1, <4>2, <4>3
    <3>9. /\ Holds(filled(k), front, n, S, b, x, q)
          /\ \A i \in 1 .. n : pi[i] = i /\ i # a /\ i # b => q[i] = i
      <4>1. /\ a \in 1 .. n /\ b \in 1 .. n /\ a # b /\ pi[b] = b
            /\ Holds(g, front, n, S, a, x, pi)
        BY <3>2, <3>6, <3>7
      <4>. HIDE DEF g, a, b, Bad, Good, D, V, C, filled, front, x, l, child
      <4>2. /\ Holds([g EXCEPT ![b] = front[a]], front, n, S, b, x, Exchanged(pi, n, a, b))
            /\ \A i \in 1 .. n : pi[i] = i /\ i # a /\ i # b => Exchanged(pi, n, a, b)[i] = i
        BY <4>1, HoleMoves, SMTT(30)
      <4>. QED
        BY <3>8, <4>2
    <3>10. \A i \in 1 .. n : i < k + 1 => q[i] = i
      <4>1. \A i \in 1 .. n : i < k + 1 => pi[i] = i /\ i # a /\ i # b
        BY <3>1, <3>2
      <4>. QED
        BY <3>9, <4>1
    <3>11. sunk[k].leaf >= k
      BY <3>1, <3>4, <3>5
    <3>12. Good(k, q)
      BY <3>5, <3>9, <3>10, <3>11
    <3>. QED
      BY <2>1, <3>12
  <2>3. CASE k \notin C
    <3>1. sunk[k] = [vector |-> front, leaf |-> k] /\ k \in D
      BY <1>7, <2>3
    <3>2. sunk[k].vector = front /\ sunk[k].leaf = k /\ sunk[k] \in V
      BY <1>2, <3>1
    <3>3. k + 1 \in 1 .. n /\ k >= k
      BY <1>3
    <3>4. Holds(filled(k), front, n, S, k + 1, x, Identity(n))
      <4>1. filled(k) = [front EXCEPT ![k + 1] = x]
        BY <3>2
      <4>. HIDE DEF filled, front, x
      <4>2. [front EXCEPT ![k + 1] = x] \in [1 .. n -> S]
        BY <1>2, <3>3
      <4>. QED
        BY <1>2, <3>3, <4>1, <4>2, IdentityBijects DEF Holds
    <3>5. Good(k, Identity(n))
      BY <3>2, <3>3, <3>4, IdentityBijects
    <3>. QED
      BY <2>1, <3>5
  <2>. QED
    BY <2>2, <2>3
<1>9. PICK pi : Good(0, pi)
  <2>1. 0 \in D
    OBVIOUS
  <2>2. 0 \notin Bad
    <3>. HIDE DEF Bad
    <3>. QED
      BY <1>8
  <2>. QED
    BY <2>1, <2>2
<1>10. /\ sunk[0].vector \in [1 .. n -> S] /\ sunk[0].leaf \in 0 .. n - 1
       /\ Rearranges(filled(0), [front EXCEPT ![1] = x], n)
  <2>1. Holds(filled(0), front, n, S, 1, x, pi) /\ sunk[0] \in V
    BY <1>9
  <2>2. Rearranges(filled(0), [front EXCEPT ![1] = x], n)
    <3>. HIDE DEF filled, front, x
    <3>. QED
      BY <2>1 DEF Holds, Rearranges
  <2>. QED
    BY <2>1, <2>2
<1>11. /\ Queue!Pop(h) \in [1 .. n -> S]
       /\ Rearranges(Queue!Pop(h), filled(0), n)
  <2>. DEFINE v == sunk[0].vector
              l == sunk[0].leaf
  <2>1. v \in [1 .. n -> S] /\ l \in 0 .. n - 1 /\ x \in S
    BY <1>2, <1>10
  <2>2. Queue!Pop(h) = Queue!SiftUp(v, l, x) /\ filled(0) = [v EXCEPT ![l + 1] = x]
    BY <1>1
  <2>. HIDE DEF v, l, x, filled
  <2>3. /\ Queue!SiftUp(v, l, x) \in [1 .. n -> S]
        /\ Rearranges(Queue!SiftUp(v, l, x), [v EXCEPT ![l + 1] = x], n)
    BY <2>1, SiftUpRearranges
  <2>. QED
    BY <2>2, <2>3
<1>. HIDE DEF filled
<1>. QED
  BY <1>10, <1>11, RearrangesTransitive

\* Pushing leaves the elements and the new one.
LEMMA PushRearranges ==
  ASSUME NEW S, NEW h \in Seq(S), NEW x \in S
  PROVE  /\ Queue!Push(h, x) \in [1 .. Len(h) + 1 -> S]
         /\ Rearranges(Queue!Push(h, x), Append(h, x), Len(h) + 1)
<1>. DEFINE g == Append(h, x)
            n == Len(h) + 1
            hole == Len(h)
<1>1. n \in Nat /\ hole \in 0 .. n - 1 /\ hole + 1 = n /\ n \in 1 .. n
  OBVIOUS
<1>2. g \in Seq(S) /\ Len(g) = n /\ g[n] = x
  OBVIOUS
<1>3. g \in [1 .. n -> S]
  <2>. HIDE DEF g, n
  <2>. QED
    BY <1>1, <1>2
<1>4. Queue!Push(h, x) = Queue!SiftUp(g, hole, x)
  BY DEF Queue!Push
<1>5. [g EXCEPT ![hole + 1] = x] = g
  <2>. HIDE DEF g, n, hole
  <2>. QED
    BY <1>1, <1>2, <1>3
<1>. HIDE DEF g, n, hole
<1>6. /\ Queue!SiftUp(g, hole, x) \in [1 .. n -> S]
      /\ Rearranges(Queue!SiftUp(g, hole, x), [g EXCEPT ![hole + 1] = x], n)
  BY <1>1, <1>3, SiftUpRearranges
<1>. QED
  BY <1>4, <1>5, <1>6 DEF g, n

-----------------------------------------------------------------------------
(***************************************************************************)
(* What the queue holds.                                                   *)
(***************************************************************************)
Elements(s) == {s[k] : k \in 1 .. Len(s)}
Distinct(s) == \A k, l \in 1 .. Len(s) : s[k] = s[l] => k = l

\* A rearranged sequence has the same elements, as often.
LEMMA RearrangedElements ==
  ASSUME NEW S, NEW h \in Seq(S), NEW n \in Nat, n = Len(h), NEW g \in [1 .. n -> S],
         Rearranges(g, h, n)
  PROVE  /\ g \in Seq(S) /\ Len(g) = n
         /\ Elements(g) = Elements(h)
         /\ Distinct(h) => Distinct(g)
<1>1. PICK pi : Bijects(pi, n) /\ \A i \in 1 .. n : g[i] = h[pi[i]]
  BY DEF Rearranges
<1>2. /\ \A i \in 1 .. n : pi[i] \in 1 .. n
      /\ \A i, j \in 1 .. n : pi[i] = pi[j] => i = j
      /\ \A j \in 1 .. n : \E i \in 1 .. n : pi[i] = j
  BY <1>1 DEF Bijects
<1>3. g \in Seq(S) /\ Len(g) = n
  OBVIOUS
<1>4. Elements(g) \subseteq Elements(h)
  BY <1>1, <1>2, <1>3 DEF Elements
<1>5. ASSUME NEW j \in 1 .. n PROVE h[j] \in Elements(g)
  <2>1. PICK i \in 1 .. n : pi[i] = j
    BY <1>2
  <2>2. h[j] = g[i]
    BY <1>1, <2>1
  <2>. QED
    BY <1>3, <2>2 DEF Elements
<1>6. ASSUME Distinct(h), NEW k \in 1 .. n, NEW l \in 1 .. n, g[k] = g[l] PROVE k = l
  <2>1. h[pi[k]] = h[pi[l]] /\ pi[k] \in 1 .. n /\ pi[l] \in 1 .. n
    BY <1>1, <1>2, <1>6
  <2>2. pi[k] = pi[l]
    BY <1>6, <2>1 DEF Distinct
  <2>. QED
    BY <1>2, <2>2
<1>7. Elements(h) \subseteq Elements(g)
  <2>1. ASSUME NEW x \in Elements(h) PROVE x \in Elements(g)
    <3>1. PICK j \in 1 .. n : x = h[j]
      BY DEF Elements
    <3>. QED
      BY <1>5, <3>1
  <2>. QED
    BY <2>1
<1>8. Distinct(h) => Distinct(g)
  BY <1>3, <1>6 DEF Distinct
<1>. QED
  BY <1>3, <1>4, <1>7, <1>8

\* The queue gains the element that is pushed.
LEMMA PushAdds ==
  ASSUME NEW S, NEW h \in Seq(S), NEW x \in S
  PROVE  /\ Queue!Push(h, x) \in Seq(S)
         /\ Elements(Queue!Push(h, x)) = Elements(h) \cup {x}
         /\ Distinct(h) /\ x \notin Elements(h) => Distinct(Queue!Push(h, x))
<1>. DEFINE a == Append(h, x)
            n == Len(h) + 1
            g == Queue!Push(h, x)
<1>1. /\ a \in Seq(S) /\ Len(a) = n /\ n \in Nat /\ a[n] = x /\ n \in 1 .. n
      /\ \A k \in 1 .. Len(h) : a[k] = h[k] /\ k \in 1 .. n
      /\ \A k \in 1 .. n : k = n \/ k \in 1 .. Len(h)
  OBVIOUS
<1>2. g \in [1 .. n -> S] /\ Rearranges(g, a, n)
  BY PushRearranges
<1>. HIDE DEF g, a, n
<1>3. g \in Seq(S) /\ Elements(g) = Elements(a) /\ (Distinct(a) => Distinct(g))
  BY <1>1, <1>2, RearrangedElements
<1>4. Elements(a) = Elements(h) \cup {x}
  BY <1>1 DEF Elements
<1>5. Distinct(h) /\ x \notin Elements(h) => Distinct(a)
  <2>1. SUFFICES ASSUME Distinct(h), x \notin Elements(h),
                        NEW k \in 1 .. n, NEW l \in 1 .. n, a[k] = a[l]
                 PROVE  k = l
    BY <1>1 DEF Distinct
  <2>2. \A i \in 1 .. Len(h) : a[i] # x
    BY <1>1, <2>1 DEF Elements
  <2>3. CASE k \in 1 .. Len(h) /\ l \in 1 .. Len(h)
    BY <1>1, <2>1, <2>3 DEF Distinct
  <2>. QED
    BY <1>1, <2>1, <2>2, <2>3
<1>. QED
  BY <1>3, <1>4, <1>5 DEF g

\* The queue loses its top, and nothing else.
LEMMA PopRemovesTop ==
  ASSUME NEW S, NEW h \in Seq(S), h # << >>, Distinct(h)
  PROVE  /\ Queue!Top(h) \in Elements(h) /\ Queue!Top(h) \in S
         /\ Queue!Pop(h) \in Seq(S)
         /\ Elements(Queue!Pop(h)) = Elements(h) \ {Queue!Top(h)}
         /\ Distinct(Queue!Pop(h))
<1>1. Len(h) \in Nat /\ Len(h) > 0 /\ 1 \in 1 .. Len(h) /\ Queue!Top(h) = h[1] /\ h[1] \in S
  BY DEF Queue!Top
<1>2. h[1] \in Elements(h)
  BY <1>1 DEF Elements
<1>3. CASE Len(h) = 1
  <2>1. Queue!Pop(h) = << >>
    BY <1>3 DEF Queue!Pop
  <2>2. Elements(h) = {h[1]}
    BY <1>3 DEF Elements
  <2>3. Elements(<< >>) = {} /\ Distinct(<< >>) /\ << >> \in Seq(S)
    BY DEF Elements, Distinct
  <2>. QED
    BY <1>1, <1>2, <2>1, <2>2, <2>3
<1>4. CASE Len(h) # 1
  <2>1. PICK n \in Nat : n > 0 /\ Len(h) = n + 1
    <3>. DEFINE m == Len(h)
    <3>1. m \in Nat /\ m > 0 /\ m # 1
      BY <1>1, <1>4
    <3>. HIDE DEF m
    <3>2. m - 1 \in Nat /\ m - 1 > 0 /\ m = (m - 1) + 1
      BY <3>1
    <3>. QED
      BY <3>2 DEF m
  <2>. DEFINE a == [SubSeq(h, 1, n) EXCEPT ![1] = h[n + 1]]
              g == Queue!Pop(h)
  <2>2. g \in [1 .. n -> S] /\ Rearranges(g, a, n)
    BY <2>1, PopRearranges
  <2>3. /\ a \in [1 .. n -> S]
        /\ \A k \in 1 .. n : a[k] = IF k = 1 THEN h[n + 1] ELSE h[k]
    <3>1. \A k \in 1 .. n + 1 : h[k] \in S
      BY <2>1
    <3>2. SubSeq(h, 1, n) = [k \in 1 .. n |-> h[k]]
      BY <2>1
    <3>3. 1 \in 1 .. n /\ n + 1 \in 1 .. n + 1 /\ \A k \in 1 .. n : k \in 1 .. n + 1
      BY <2>1
    <3>. QED
      BY <3>1, <3>2, <3>3
  <2>. HIDE DEF a, g
  <2>4. a \in Seq(S) /\ Len(a) = n
    BY <2>1, <2>3
  <2>5. g \in Seq(S) /\ Elements(g) = Elements(a) /\ (Distinct(a) => Distinct(g))
    BY <2>1, <2>2, <2>4, RearrangedElements
  <2>6. \A k, l \in 1 .. n + 1 : h[k] = h[l] => k = l
    BY <2>1 DEF Distinct
  <2>7. Distinct(a)
    <3>1. SUFFICES ASSUME NEW k \in 1 .. n, NEW l \in 1 .. n, a[k] = a[l] PROVE k = l
      BY <2>4 DEF Distinct
    <3>. DEFINE place(i) == IF i = 1 THEN n + 1 ELSE i
    <3>2. /\ place(k) \in 1 .. n + 1 /\ a[k] = h[place(k)]
          /\ place(l) \in 1 .. n + 1 /\ a[l] = h[place(l)]
      BY <2>1, <2>3
    <3>3. place(k) = place(l)
      <4>. HIDE DEF place
      <4>. QED
        BY <2>6, <3>1, <3>2
    <3>. QED
      BY <2>1, <3>3
  <2>8. ASSUME NEW k \in 1 .. n PROVE a[k] \in Elements(h) /\ a[k] # h[1]
    <3>. DEFINE i == IF k = 1 THEN n + 1 ELSE k
    <3>1. a[k] = h[i] /\ i \in 1 .. n + 1 /\ i # 1 /\ 1 \in 1 .. n + 1
      BY <2>1, <2>3
    <3>. HIDE DEF i
    <3>. QED
      BY <2>1, <2>6, <3>1 DEF Elements
  <2>9. ASSUME NEW i \in 1 .. n + 1, h[i] # h[1] PROVE h[i] \in Elements(a)
    <3>. DEFINE k == IF i = n + 1 THEN 1 ELSE i
    <3>1. k \in 1 .. n /\ a[k] = h[i]
      BY <2>1, <2>3, <2>9
    <3>. HIDE DEF k
    <3>. QED
      BY <2>4, <3>1 DEF Elements
  <2>10. Elements(a) = Elements(h) \ {h[1]}
    <3>1. \A e \in Elements(a) : e \in Elements(h) /\ e # h[1]
      BY <2>4, <2>8 DEF Elements
    <3>2. \A e \in Elements(h) : e # h[1] => e \in Elements(a)
      BY <2>1, <2>9 DEF Elements
    <3>. QED
      BY <3>1, <3>2
  <2>. QED
    BY <1>1, <1>2, <2>5, <2>7, <2>10 DEF g
<1>. QED
  BY <1>3, <1>4

-----------------------------------------------------------------------------
(***************************************************************************)
(* The inductive invariant.                                                *)
(***************************************************************************)
File(f) == disk[input_files[f]]

Typed ==
  /\ mpc \in {"idle", "load", "queue", "drain", "done", "abort"}
  /\ input_files \in Seq(Nat)
  /\ \A n \in DOMAIN disk : disk[n] \in Seq(Cells)
  /\ loaded \in Seq([content : [1 .. ReadLimit -> Cells \cup {UnreadCell}],
                      size : 0 .. ReadLimit])
  /\ cur \in 1 .. Len(input_files) + 1
  /\ readed_entries \in Nat
  /\ heap \in Seq(Slices)
  /\ popped \in Seq(Slices)

\* The inputs loaded so far are what ReadFromDisk returns for them.
Loading ==
  /\ mpc \notin {"idle", "abort"} =>
       \A f \in 1 .. Len(input_files) : input_files[f] \in DOMAIN disk
  /\ Len(loaded) <= Len(input_files)
  /\ \A f \in 1 .. Len(loaded) :
       loaded[f] = [content |-> ReadBuffer(File(f), ReadLimit),
                    size |-> ReadLength(File(f), ReadLimit)]
  /\ mpc \in {"queue", "drain", "done"} => Len(loaded) = Len(input_files)

\* How far the queueing loop has come.
Queueing ==
  /\ mpc \in {"idle", "load", "abort"} => cur = 1 /\ readed_entries = 0
  /\ mpc \in {"drain", "done"} => cur = Len(input_files) + 1
  /\ mpc \notin {"drain", "done"} => popped = << >>
  /\ mpc = "done" => heap = << >>
  /\ mpc = "queue" /\ cur <= Len(input_files) => readed_entries <= EntriesOf(File(cur))
  /\ cur = Len(input_files) + 1 => readed_entries = 0
  /\ readed_len = EntryCells * readed_entries

\* The slices made so far.
Made ==
  {s \in Slices :
     \/ s.file \in 1 .. cur - 1 /\ s.entry < EntriesOf(File(s.file))
     \/ s.file = cur /\ s.entry < readed_entries}

\* Each slice made is in the queue or has left it, in one place.
InOnePlace ==
  /\ Elements(heap) \cup Elements(popped) = Made
  /\ Elements(heap) \cap Elements(popped) = {}
  /\ Distinct(heap)
  /\ Distinct(popped)

MergerInv == Typed /\ Loading /\ Queueing /\ InOnePlace

-----------------------------------------------------------------------------
\* ReadFromDisk fills its buffer and returns a length within the limit.
LEMMA ReadTypes ==
  ASSUME NEW file \in Seq(Cells)
  PROVE  /\ ReadBuffer(file, ReadLimit) \in [1 .. ReadLimit -> Cells \cup {UnreadCell}]
         /\ ReadLength(file, ReadLimit) \in 0 .. ReadLimit
BY ReadAssumption DEF ReadBuffer, ReadLength

\* Entry e of a file exists iff it starts before the end of what was read.
LEMMA EntryExists ==
  ASSUME NEW file \in Seq(Cells)
  PROVE  /\ EntriesOf(file) \in Nat
         /\ \A e \in Nat : e < EntriesOf(file) <=> EntryCells * e < ReadLength(file, ReadLimit)
<1>1. ReadLength(file, ReadLimit) \in Nat
  BY ReadTypes, ReadAssumption
<1>. QED
  BY <1>1 DEF EntriesOf, EntryCells

\* Once the inputs are open, each is a file of the directory.
LEMMA InputsAreFiles ==
  ASSUME Typed, Loading, mpc \notin {"idle", "abort"}, NEW f \in 1 .. Len(input_files)
  PROVE  File(f) \in Seq(Cells)
BY DEF Typed, Loading, File

\* A step that makes and moves no slice leaves each in its place.
LEMMA PlacesKept ==
  ASSUME InOnePlace, UNCHANGED << heap, popped >>, Made' = Made
  PROVE  InOnePlace'
BY DEF InOnePlace, Elements, Distinct

\* The slices made depend on the files and the loops' positions only.
LEMMA MadeKept ==
  ASSUME UNCHANGED << disk, input_files, cur, readed_entries >>
  PROVE  Made' = Made
BY DEF Made, File

\* Nothing is loaded, made or queued at the start, over any directory.
LEMMA IdleMergerInv ==
  ASSUME Idle, input_files \in Seq(Nat), \A n \in DOMAIN disk : disk[n] \in Seq(Cells)
  PROVE  MergerInv
<1>1. Typed
  BY DEF Idle, Typed
<1>2. Loading
  BY DEF Idle, Loading
<1>3. Queueing
  BY DEF Idle, Queueing, EntryCells
<1>4. Elements(heap) = {} /\ Elements(popped) = {} /\ Distinct(heap) /\ Distinct(popped)
  BY DEF Idle, Elements, Distinct
<1>5. Made = {}
  BY DEF Idle, Made, Slices
<1>. QED
  BY <1>1, <1>2, <1>3, <1>4, <1>5 DEF MergerInv, InOnePlace

LEMMA InitMergerInv == MergerInit => MergerInv
BY IdleMergerInv, InputAssumption DEF MergerInit

\* The steps that move no slice and queue none.
LEMMA ControlKeepsMergerInv ==
  ASSUME MergerInv, OpenInputs \/ AllLoaded \/ AllQueued \/ Finish
  PROVE  MergerInv'
<1>. USE DEF MergerInv
<1>. USE DEF OpenInputs, AllLoaded, AllQueued, Finish
<1>1. Typed'
  BY DEF Typed
<1>2. Loading'
  BY DEF Typed, Loading, File
<1>3. Queueing'
  <2>1. CASE OpenInputs
    BY <2>1 DEF Queueing
  <2>2. CASE AllLoaded
    <3>1. cur = 1 /\ readed_entries = 0 /\ (cur <= Len(input_files) => File(cur) \in Seq(Cells))
      BY <2>2, InputsAreFiles DEF Queueing, Typed
    <3>2. cur <= Len(input_files) => readed_entries <= EntriesOf(File(cur))
      BY <3>1, EntryExists
    <3>3. (File(cur))' = File(cur) /\ (EntriesOf(File(cur)))' = EntriesOf(File(cur))
      BY <2>2 DEF File, EntriesOf, ReadLength
    <3>. QED
      BY <2>2, <3>1, <3>2, <3>3 DEF Queueing
  <2>3. CASE AllQueued
    BY <2>3 DEF Queueing, Typed
  <2>4. CASE Finish
    BY <2>4 DEF Queueing
  <2>. QED
    BY <2>1, <2>2, <2>3, <2>4
<1>4. InOnePlace'
  BY PlacesKept, MadeKept
<1>. QED
  BY <1>1, <1>2, <1>3, <1>4

\* The next input is loaded behind the earlier ones.
LEMMA LoadFileKeepsMergerInv ==
  ASSUME MergerInv, LoadFile
  PROVE  MergerInv'
<1>. DEFINE f == Len(loaded) + 1
            load == [content |-> ReadBuffer(File(f), ReadLimit),
                     size |-> ReadLength(File(f), ReadLimit)]
<1>1. /\ mpc = "load" /\ f \in 1 .. Len(input_files) /\ loaded' = Append(loaded, load)
      /\ UNCHANGED << disk, input_files, logic, mpc, cur, readed_entries, readed_len,
                      heap, last_entry, abandoned, popped >>
  BY DEF LoadFile, MergerInv, Typed, File
<1>2. File(f) \in Seq(Cells)
  BY <1>1, InputsAreFiles DEF MergerInv
<1>3. load \in [content : [1 .. ReadLimit -> Cells \cup {UnreadCell}], size : 0 .. ReadLimit]
  BY <1>2, ReadTypes
<1>4. /\ Len(loaded') = f /\ loaded'[f] = load
      /\ \A k \in 1 .. Len(loaded) : loaded'[k] = loaded[k]
      /\ \A k \in 1 .. f : k = f \/ k \in 1 .. Len(loaded)
  BY <1>1 DEF MergerInv, Typed
<1>5. Typed'
  <2>. HIDE DEF load
  <2>. QED
    BY <1>1, <1>3 DEF MergerInv, Typed
<1>6. Loading'
  <2>1. ASSUME NEW k \in 1 .. f
        PROVE  loaded'[k] = [content |-> ReadBuffer(File(k), ReadLimit),
                             size |-> ReadLength(File(k), ReadLimit)]
    <3>1. CASE k = f
      BY <1>4, <3>1
    <3>2. CASE k \in 1 .. Len(loaded)
      BY <1>4, <3>2 DEF MergerInv, Loading
    <3>. QED
      BY <1>4, <3>1, <3>2
  <2>2. \A k : File(k)' = File(k)
    BY <1>1 DEF File
  <2>. HIDE DEF load, f
  <2>. QED
    BY <1>1, <1>4, <2>1, <2>2 DEF MergerInv, Loading, ReadBuffer, ReadLength
<1>7. Queueing'
  BY <1>1 DEF MergerInv, Queueing
<1>8. InOnePlace'
  BY <1>1, PlacesKept, MadeKept DEF MergerInv
<1>. QED
  BY <1>5, <1>6, <1>7, <1>8 DEF MergerInv

\* The guard of the queueing loop says whether the input has another entry.
LEMMA MoreInFileExists ==
  ASSUME MergerInv, mpc = "queue", cur <= Len(input_files)
  PROVE  /\ cur \in 1 .. Len(input_files) /\ File(cur) \in Seq(Cells)
         /\ EntriesOf(File(cur)) \in Nat /\ readed_entries <= EntriesOf(File(cur))
         /\ MoreInFile <=> readed_entries < EntriesOf(File(cur))
<1>1. cur \in 1 .. Len(input_files)
  BY DEF MergerInv, Typed
<1>2. File(cur) \in Seq(Cells)
  BY <1>1, InputsAreFiles DEF MergerInv
<1>3. loaded[cur].size = ReadLength(File(cur), ReadLimit)
  <2>1. cur \in 1 .. Len(loaded)
    BY <1>1 DEF MergerInv, Loading
  <2>2. loaded[cur] = [content |-> ReadBuffer(File(cur), ReadLimit),
                       size |-> ReadLength(File(cur), ReadLimit)]
    BY <2>1 DEF MergerInv, Loading
  <2>. QED
    BY <2>2
<1>4. MoreInFile <=> EntryCells * readed_entries < ReadLength(File(cur), ReadLimit)
  BY <1>3 DEF MoreInFile, MergerInv, Queueing
<1>. QED
  BY <1>1, <1>2, <1>4, EntryExists DEF MergerInv, Queueing, Typed

\* The slice queued is new, and the next one made.
LEMMA QueueEntryKeepsMergerInv ==
  ASSUME MergerInv, QueueEntry
  PROVE  MergerInv'
<1>. DEFINE s == [file |-> cur, entry |-> readed_entries]
<1>1. /\ mpc = "queue" /\ cur <= Len(input_files) /\ MoreInFile
      /\ heap' = Queue!Push(heap, s) /\ readed_entries' = readed_entries + 1
      /\ readed_len' = EntryEnd(readed_entries)
      /\ UNCHANGED << disk, input_files, mpc, loaded, cur, popped >>
  BY DEF QueueEntry
<1>2. /\ cur \in 1 .. Len(input_files) /\ readed_entries < EntriesOf(File(cur))
      /\ EntriesOf(File(cur)) \in Nat /\ readed_entries \in Nat
      /\ cur \in Nat /\ heap \in Seq(Slices) /\ popped = << >>
  BY <1>1, MoreInFileExists DEF MergerInv, Typed, Queueing
<1>3. s \in Slices /\ s \notin Made
  BY <1>2 DEF Slices, Made
<1>4. /\ heap' \in Seq(Slices) /\ Elements(heap') = Elements(heap) \cup {s}
      /\ Distinct(heap) /\ s \notin Elements(heap) => Distinct(heap')
  <2>. HIDE DEF s
  <2>. QED
    BY <1>1, <1>2, <1>3, PushAdds
<1>5. Typed'
  BY <1>1, <1>2, <1>4 DEF MergerInv, Typed
<1>6. (EntriesOf(File(cur)))' = EntriesOf(File(cur)) /\ \A k : File(k)' = File(k)
  BY <1>1 DEF File, EntriesOf, ReadLength
<1>7. Loading'
  BY <1>1, <1>6 DEF MergerInv, Loading, ReadBuffer, ReadLength, File
<1>8. Queueing'
  BY <1>1, <1>2, <1>6 DEF MergerInv, Queueing, EntryEnd, EntryCells
<1>9. Made' = Made \cup {s}
  <2>1. ASSUME NEW t \in Slices
        PROVE  t.file = cur /\ t.entry < readed_entries + 1 <=>
                 (t.file = cur /\ t.entry < readed_entries) \/ t = s
    BY <1>2 DEF Slices
  <2>2. \A t \in Slices : EntriesOf(File(t.file))' = EntriesOf(File(t.file))
    BY <1>1 DEF File, EntriesOf, ReadLength
  <2>. HIDE DEF s
  <2>. QED
    BY <1>1, <1>3, <2>1, <2>2 DEF Made
<1>10. InOnePlace'
  <2>1. Elements(popped) = {} /\ Elements(popped') = {} /\ Elements(heap) = Made
    BY <1>1, <1>2 DEF MergerInv, InOnePlace, Elements
  <2>. HIDE DEF s
  <2>. QED
    BY <1>1, <1>3, <1>4, <1>9, <2>1 DEF MergerInv, InOnePlace, Elements, Distinct
<1>. QED
  BY <1>5, <1>7, <1>8, <1>10 DEF MergerInv

\* The input that is left has no entry that was not made.
LEMMA NextInputKeepsMergerInv ==
  ASSUME MergerInv, NextInput
  PROVE  MergerInv'
<1>1. /\ mpc = "queue" /\ cur <= Len(input_files) /\ ~MoreInFile
      /\ cur' = cur + 1 /\ readed_entries' = 0 /\ readed_len' = 0
      /\ UNCHANGED << disk, input_files, mpc, loaded, heap, popped >>
  BY DEF NextInput
<1>2. /\ cur \in 1 .. Len(input_files) /\ readed_entries = EntriesOf(File(cur))
      /\ readed_entries \in Nat /\ Len(input_files) \in Nat
  BY <1>1, MoreInFileExists DEF MergerInv, Typed
<1>3. Typed'
  BY <1>1, <1>2 DEF MergerInv, Typed
<1>4. \A k : File(k)' = File(k)
  BY <1>1 DEF File
<1>5. Loading'
  BY <1>1, <1>4 DEF MergerInv, Loading, ReadBuffer, ReadLength, File
<1>6. Queueing'
  <2>1. ASSUME cur + 1 <= Len(input_files) PROVE 0 <= (EntriesOf(File(cur)))'
    <3>1. File(cur + 1) \in Seq(Cells)
      BY <1>1, <1>2, <2>1, InputsAreFiles DEF MergerInv
    <3>2. (EntriesOf(File(cur)))' = EntriesOf(File(cur + 1))
      BY <1>1 DEF File, EntriesOf, ReadLength
    <3>. QED
      BY <3>1, <3>2, EntryExists
  <2>. QED
    BY <1>1, <1>2, <2>1 DEF MergerInv, Queueing, EntryCells
<1>7. Made' = Made
  <2>1. \A t \in Slices : EntriesOf(File(t.file))' = EntriesOf(File(t.file))
    BY <1>1 DEF File, EntriesOf, ReadLength
  <2>2. ASSUME NEW t \in Slices
        PROVE  \/ t.file \in 1 .. (cur + 1) - 1 /\ t.entry < EntriesOf(File(t.file))
               \/ t.file = cur + 1 /\ t.entry < 0
               <=>
               \/ t.file \in 1 .. cur - 1 /\ t.entry < EntriesOf(File(t.file))
               \/ t.file = cur /\ t.entry < readed_entries
    BY <1>2 DEF Slices
  <2>. QED
    BY <1>1, <2>1, <2>2 DEF Made
<1>8. InOnePlace'
  BY <1>1, <1>7, PlacesKept DEF MergerInv
<1>. QED
  BY <1>3, <1>5, <1>6, <1>8 DEF MergerInv

\* The top of the queue was made and has not been given out.
LEMMA PopEntryKeepsMergerInv ==
  ASSUME MergerInv, PopEntry
  PROVE  /\ MergerInv'
         /\ Queue!Top(heap) \in Made \ Elements(popped)
         /\ popped' = Append(popped, Queue!Top(heap))
         /\ Elements(popped') = Elements(popped) \cup {Queue!Top(heap)}
<1>. DEFINE s == Queue!Top(heap)
<1>1. /\ mpc = "drain" /\ heap # << >> /\ popped' = Append(popped, s)
      /\ heap' = Queue!Pop(heap)
      /\ UNCHANGED << disk, input_files, mpc, loaded, cur, readed_entries, readed_len >>
  BY DEF PopEntry
<1>2. heap \in Seq(Slices) /\ popped \in Seq(Slices) /\ Distinct(heap) /\ Distinct(popped)
  BY DEF MergerInv, Typed, InOnePlace
<1>3. /\ s \in Elements(heap) /\ s \in Slices /\ heap' \in Seq(Slices)
      /\ Elements(heap') = Elements(heap) \ {s} /\ Distinct(heap')
  BY <1>1, <1>2, PopRemovesTop
<1>. HIDE DEF s
<1>4. s \in Made \ Elements(popped)
  BY <1>3 DEF MergerInv, InOnePlace
<1>5. /\ popped' \in Seq(Slices) /\ Elements(popped') = Elements(popped) \cup {s}
      /\ Distinct(popped')
  <2>1. /\ popped' \in Seq(Slices) /\ Len(popped') = Len(popped) + 1
        /\ popped'[Len(popped) + 1] = s
        /\ \A k \in 1 .. Len(popped) : popped'[k] = popped[k] /\ k \in 1 .. Len(popped')
        /\ \A k \in 1 .. Len(popped') : k = Len(popped) + 1 \/ k \in 1 .. Len(popped)
        /\ Len(popped) + 1 \in 1 .. Len(popped')
    BY <1>1, <1>2, <1>3
  <2>2. Elements(popped') = Elements(popped) \cup {s}
    BY <2>1 DEF Elements
  <2>3. \A k \in 1 .. Len(popped) : popped[k] # s
    BY <1>4 DEF Elements
  <2>4. Distinct(popped')
    BY <1>2, <2>1, <2>3 DEF Distinct
  <2>. QED
    BY <2>1, <2>2, <2>4
<1>6. Typed'
  BY <1>1, <1>3, <1>5 DEF MergerInv, Typed
<1>7. Loading'
  BY <1>1 DEF MergerInv, Loading, File
<1>8. Queueing'
  BY <1>1 DEF MergerInv, Queueing
<1>9. InOnePlace'
  <2>1. Made' = Made
    BY <1>1, MadeKept
  <2>2. /\ Elements(heap)' = Elements(heap') /\ Elements(popped)' = Elements(popped')
        /\ Distinct(heap)' = Distinct(heap') /\ Distinct(popped)' = Distinct(popped')
    BY DEF Elements, Distinct
  <2>. QED
    BY <1>3, <1>4, <1>5, <2>1, <2>2 DEF MergerInv, InOnePlace
<1>. QED
  BY <1>1, <1>4, <1>5, <1>6, <1>7, <1>8, <1>9 DEF MergerInv, s

\* Every step of the merge keeps the invariant.
LEMMA NextMergerInv == MergerInv /\ [MergerNext]_merger_vars => MergerInv'
<1>. SUFFICES ASSUME MergerInv, [MergerNext]_merger_vars PROVE MergerInv'
  OBVIOUS
<1>1. CASE OpenInputs \/ AllLoaded \/ AllQueued \/ Finish
  BY <1>1, ControlKeepsMergerInv
<1>2. CASE LoadFile
  BY <1>2, LoadFileKeepsMergerInv
<1>3. CASE QueueEntry
  BY <1>3, QueueEntryKeepsMergerInv
<1>4. CASE NextInput
  BY <1>4, NextInputKeepsMergerInv
<1>5. CASE PopEntry
  BY <1>5, PopEntryKeepsMergerInv
<1>6. CASE UNCHANGED merger_vars
  <2>. USE <1>6 DEF merger_vars, MergerInv
  <2>1. Typed' /\ Loading' /\ Queueing'
    BY DEF Typed, Loading, Queueing, File, EntriesOf, ReadLength, ReadBuffer
  <2>2. InOnePlace'
    BY PlacesKept, MadeKept
  <2>. QED
    BY <2>1, <2>2
<1>. QED
  BY <1>1, <1>2, <1>3, <1>4, <1>5, <1>6 DEF MergerNext

\* The invariant of DoCompaction: every slice made so far is in the queue or has
\* been given to Arbitration, in one place, and the loops have made the slices up
\* to the one they are at.
THEOREM MergerInvariance == MergerSpec => []MergerInv
BY InitMergerInv, NextMergerInv, PTL DEF MergerSpec

-----------------------------------------------------------------------------
(***************************************************************************)
(* What DoCompaction promises.                                             *)
(***************************************************************************)
LEMMA PendingIsRest == Pending = OnDisk \ Elements(popped)
BY DEF Pending, Elements

\* The entries of the inputs are slices.
LEMMA OnDiskAreSlices ==
  ASSUME MergerInv
  PROVE  OnDisk \subseteq Slices
<1>1. ASSUME NEW f \in 1 .. Len(input_files), input_files[f] \in DOMAIN disk
      PROVE  {[file |-> f, entry |-> e] : e \in 0 .. EntriesOf(disk[input_files[f]]) - 1}
               \subseteq Slices
  <2>1. EntriesOf(disk[input_files[f]]) \in Nat /\ f \in Nat
    BY <1>1, EntryExists DEF MergerInv, Typed
  <2>. QED
    BY <2>1 DEF Slices
<1>. QED
  BY <1>1 DEF OnDisk

\* When the queue is complete, the slices made are the entries of the inputs.
LEMMA MadeIsOnDisk ==
  ASSUME MergerInv, mpc \in {"drain", "done"}
  PROVE  Made = OnDisk
<1>1. /\ cur - 1 = Len(input_files) /\ readed_entries = 0
      /\ \A f \in 1 .. Len(input_files) : input_files[f] \in DOMAIN disk
  BY DEF MergerInv, Typed, Loading, Queueing
<1>2. \A f \in 1 .. Len(input_files) : EntriesOf(File(f)) \in Nat
  BY InputsAreFiles, EntryExists DEF MergerInv
<1>3. ASSUME NEW s \in Made PROVE s \in OnDisk
  <2>1. s \in Slices /\ s.file \in 1 .. Len(input_files) /\ s.entry < EntriesOf(File(s.file))
    BY <1>1, <1>3 DEF Made, Slices
  <2>2. /\ s.entry \in 0 .. EntriesOf(disk[input_files[s.file]]) - 1
        /\ s = [file |-> s.file, entry |-> s.entry]
    BY <1>2, <2>1 DEF Slices, File
  <2>. QED
    BY <1>1, <2>1, <2>2 DEF OnDisk
<1>4. ASSUME NEW s \in OnDisk PROVE s \in Made
  <2>1. PICK f \in 1 .. Len(input_files) :
          \E e \in 0 .. EntriesOf(disk[input_files[f]]) - 1 : s = [file |-> f, entry |-> e]
    BY <1>4 DEF OnDisk
  <2>2. PICK e \in 0 .. EntriesOf(disk[input_files[f]]) - 1 : s = [file |-> f, entry |-> e]
    BY <2>1
  <2>3. s.file \in 1 .. cur - 1 /\ s.entry < EntriesOf(File(s.file))
    BY <1>1, <1>2, <2>2 DEF File
  <2>. QED
    BY <1>4, <2>3, OnDiskAreSlices DEF Made
<1>. QED
  BY <1>3, <1>4

\* Nothing given to Arbitration is pending or was given twice.
LEMMA EachOnceHolds ==
  ASSUME MergerInv
  PROVE  Merge!EachOnce
<1>1. Pending \subseteq Slices
  BY PendingIsRest, OnDiskAreSlices
<1>2. popped \in Seq(Slices) /\ \A k, l \in 1 .. Len(popped) : popped[k] = popped[l] => k = l
  BY DEF MergerInv, Typed, InOnePlace, Distinct
<1>3. \A k \in 1 .. Len(popped) : popped[k] \notin Pending
  BY PendingIsRest DEF Elements
<1>. QED
  BY <1>1, <1>2, <1>3 DEF Merge!EachOnce

\* When DoCompaction returns, every entry of every input has been given to
\* Arbitration exactly once, whatever the comparator made of the queue.
THEOREM EveryEntryEmitted == MergerSpec => []AllEmitted
<1>1. MergerInv => AllEmitted
  <2>. SUFFICES ASSUME MergerInv, mpc = "done" PROVE Pending = {} /\ Merge!EachOnce
    BY DEF AllEmitted
  <2>1. Elements(heap) = {}
    BY DEF MergerInv, Queueing, Elements
  <2>2. Elements(popped) = OnDisk
    BY <2>1, MadeIsOnDisk DEF MergerInv, InOnePlace
  <2>. QED
    BY <2>2, PendingIsRest, EachOnceHolds
<1>. QED
  BY <1>1, MergerInvariance, PTL

\* The invariant contains the types.
LEMMA MergerInvTypes ==
  ASSUME MergerInv
  PROVE  MergerTypeOK
<1>1. \A k \in 1 .. Len(loaded) :
        Len(loaded[k].content) = ReadLimit /\ loaded[k].size \in 0 .. ReadLimit
  <2>. SUFFICES ASSUME NEW k \in 1 .. Len(loaded)
                PROVE  Len(loaded[k].content) = ReadLimit /\ loaded[k].size \in 0 .. ReadLimit
    OBVIOUS
  <2>. DEFINE c == loaded[k].content
  <2>1. c \in [1 .. ReadLimit -> Cells \cup {UnreadCell}] /\ loaded[k].size \in 0 .. ReadLimit
    <3>. DEFINE Loads == [content : [1 .. ReadLimit -> Cells \cup {UnreadCell}],
                          size : 0 .. ReadLimit]
    <3>1. loaded \in Seq(Loads)
      BY DEF MergerInv, Typed
    <3>2. loaded[k] \in Loads
      <4>. HIDE DEF Loads
      <4>. QED
        BY <3>1
    <3>. QED
      BY <3>2
  <2>. HIDE DEF c
  <2>2. Len(c) = ReadLimit
    BY <2>1, ReadAssumption
  <2>. QED
    BY <2>1, <2>2 DEF c
<1>2. readed_len \in Nat
  BY DEF MergerInv, Typed, Queueing, EntryCells
<1>. QED
  BY <1>1, <1>2 DEF MergerInv, Typed, MergerTypeOK

\* A queued slice ends inside what was loaded, except the last one of a file that
\* reaches the read limit.
THEOREM SlicesInsideContents == MergerSpec => []OverrunOnlyAtLimit
<1>1. MergerInv => OverrunOnlyAtLimit
  <2>. SUFFICES ASSUME MergerInv PROVE OverrunOnlyAtLimit
    OBVIOUS
  <2>1. MergerTypeOK
    BY MergerInvTypes
  <2>2. ASSUME NEW k \in 1 .. Len(heap)
        PROVE  \/ EntryEnd(heap[k].entry) <= Len(loaded[heap[k].file].content)
               \/ /\ Len(disk[input_files[heap[k].file]]) >= ReadLimit
                  /\ heap[k].entry = EntriesOf(disk[input_files[heap[k].file]]) - 1
                  /\ EntryStart(heap[k].entry) <= ReadLimit
    <3>. DEFINE s == heap[k]
                f == s.file
                e == s.entry
    <3>1. s \in Made
      BY DEF MergerInv, InOnePlace, Elements
    <3>2. mpc \in {"queue", "drain", "done"}
      <4>1. CASE mpc \in {"idle", "load", "abort"}
        <5>1. Made = {}
          BY <4>1 DEF MergerInv, Queueing, Made, Slices
        <5>. QED
          BY <3>1, <5>1
      <4>. QED
        BY <4>1 DEF MergerInv, Typed
    <3>. HIDE DEF s
    <3>3. f \in Nat /\ e \in Nat
      BY <3>1 DEF Made, Slices
    <3>4. f \in 1 .. Len(input_files) /\ e < EntriesOf(File(f))
      <4>1. CASE f \in 1 .. cur - 1
        BY <3>1, <4>1 DEF Made, MergerInv, Typed
      <4>2. CASE f = cur /\ e < readed_entries
        <5>1. cur \in 1 .. Len(input_files) /\ mpc = "queue"
          BY <3>2, <3>3, <4>2 DEF MergerInv, Typed, Queueing
        <5>. QED
          BY <3>3, <4>2, <5>1, MoreInFileExists DEF MergerInv, Typed
      <4>. QED
        BY <3>1, <4>1, <4>2 DEF Made
    <3>. HIDE DEF f, e
    <3>5. File(f) \in Seq(Cells) /\ Len(loaded[f].content) = ReadLimit
      <4>1. f \in 1 .. Len(loaded)
        BY <3>2, <3>4 DEF MergerInv, Loading
      <4>. QED
        BY <2>1, <3>2, <3>4, <4>1, InputsAreFiles DEF MergerInv, MergerTypeOK
    <3>6. \/ EntryEnd(e) <= ReadLimit
          \/ /\ Len(File(f)) >= ReadLimit
             /\ e = EntriesOf(File(f)) - 1
             /\ EntryStart(e) <= ReadLimit
      <4>. DEFINE m == Len(File(f))
                  n == EntriesOf(File(f))
      <4>1. m \in Nat /\ ReadLimit \in Nat
        BY <3>5, ReadAssumption
      <4>2. n = ((IF m < ReadLimit THEN m ELSE ReadLimit) + 1) \div 2
        BY <4>1 DEF EntriesOf, ReadLength, EntryCells
      <4>3. e \in Nat /\ e < n
        BY <3>3, <3>4 DEF e
      <4>4. EntryEnd(e) = 2 * e + 2 /\ EntryStart(e) = 2 * e + 1
        BY <4>3 DEF EntryEnd, EntryStart, EntryCells
      <4>. HIDE DEF m, n
      <4>5. CASE m < ReadLimit
        BY <4>1, <4>2, <4>3, <4>4, <4>5
      <4>6. CASE m >= ReadLimit
        <5>1. 2 * e + 2 <= ReadLimit + 1
          BY <4>1, <4>2, <4>3, <4>6
        <5>2. CASE 2 * e + 2 = ReadLimit + 1
          <6>1. n = (2 * e + 2) \div 2
            BY <4>1, <4>2, <4>6, <5>2
          <6>2. n = e + 1
            BY <4>3, <6>1
          <6>3. e = n - 1 /\ EntryStart(e) <= ReadLimit
            BY <4>1, <4>3, <4>4, <5>2, <6>2
          <6>. QED
            BY <4>6, <6>3 DEF m, n
        <5>. QED
          BY <4>1, <4>3, <4>4, <5>1, <5>2
      <4>. QED
        BY <4>1, <4>5, <4>6
    <3>. QED
      BY <3>5, <3>6 DEF File, s, f, e
  <2>. QED
    BY <2>1, <2>2 DEF OverrunOnlyAtLimit
<1>. QED
  BY <1>1, MergerInvariance, PTL

-----------------------------------------------------------------------------
(***************************************************************************)
(* The merge implements the promise of a merger.                           *)
(***************************************************************************)
\* Before the merge, nothing is emitted.
LEMMA InitPending ==
  ASSUME MergerInv, MergerInit
  PROVE  Merge!Init
BY PendingIsRest, OnDiskAreSlices DEF MergerInit, Idle, Merge!Init

\* Only PopEntry changes what is pending and emitted, as Emit does.
LEMMA StepEmits ==
  ASSUME MergerInv, [MergerNext]_merger_vars
  PROVE  [Merge!Next]_(Merge!merge_vars)
<1>1. disk' = disk /\ input_files' = input_files
  BY DEF MergerNext, merger_vars, OpenInputs, LoadFile, AllLoaded, QueueEntry, NextInput,
         AllQueued, PopEntry, Finish
<1>2. OnDisk' = OnDisk
  BY <1>1 DEF OnDisk, EntriesOf, ReadLength
<1>3. CASE PopEntry
  <2>. DEFINE s == Queue!Top(heap)
  <2>1. /\ s \in Made \ Elements(popped) /\ popped' = Append(popped, s)
        /\ Elements(popped') = Elements(popped) \cup {s}
    BY <1>3, PopEntryKeepsMergerInv
  <2>2. Made = OnDisk
    BY <1>3, MadeIsOnDisk DEF PopEntry
  <2>. HIDE DEF s
  <2>3. Pending' = OnDisk \ Elements(popped')
    BY <1>2 DEF Pending, Elements
  <2>4. s \in Pending /\ Pending' = Pending \ {s}
    BY <2>1, <2>2, <2>3, PendingIsRest
  <2>. QED
    BY <2>1, <2>4 DEF Merge!Next, Merge!Emit
<1>4. CASE ~PopEntry
  <2>1. popped' = popped
    BY <1>4 DEF MergerNext, merger_vars, OpenInputs, LoadFile, AllLoaded, QueueEntry,
                NextInput, AllQueued, Finish
  <2>2. Pending' = Pending
    BY <1>2, <2>1 DEF Pending
  <2>. QED
    BY <2>1, <2>2 DEF Merge!merge_vars
<1>. QED
  BY <1>3, <1>4

\* DoCompaction hands over the entries of its inputs one by one, each once, and
\* nothing else: it implements EntryMerge.
THEOREM MergeImplements == MergerSpec => MergesEntries
<1>1. MergerInv /\ MergerInit => Merge!Init
  BY InitPending
<1>2. MergerInv /\ [MergerNext]_merger_vars => [Merge!Next]_(Merge!merge_vars)
  BY StepEmits
<1>. QED
  BY <1>1, <1>2, MergerInvariance, PTL DEF MergerSpec, MergesEntries, Merge!Spec

-----------------------------------------------------------------------------
(***************************************************************************)
(* What the promise of a merger gives its user.                            *)
(***************************************************************************)
\* One Emit keeps every entry on one side.
LEMMA EmitEachOnce ==
  ASSUME Merge!EachOnce, NEW e \in Pending, Merge!Emit(e)
  PROVE  Merge!EachOnce'
<1>1. /\ Len(popped) \in Nat
      /\ popped' = Append(popped, e) /\ Pending' = Pending \ {e}
      /\ e \in Slices /\ popped \in Seq(Slices)
  BY DEF Merge!EachOnce, Merge!Emit
<1>2. /\ popped' \in Seq(Slices)
      /\ Len(popped') = Len(popped) + 1
      /\ popped'[Len(popped) + 1] = e
      /\ \A k \in 1 .. Len(popped) : popped'[k] = popped[k]
  BY <1>1
<1>3. \A k \in 1 .. Len(popped') : popped'[k] \notin Pending'
  BY <1>1, <1>2 DEF Merge!EachOnce
<1>4. ASSUME NEW k \in 1 .. Len(popped'), NEW l \in 1 .. Len(popped'), popped'[k] = popped'[l]
      PROVE  k = l
  <2>1. CASE k <= Len(popped) /\ l <= Len(popped)
    BY <1>1, <1>2, <1>4, <2>1 DEF Merge!EachOnce
  <2>2. CASE k = Len(popped) + 1 /\ l <= Len(popped)
    BY <1>1, <1>2, <1>4, <2>2 DEF Merge!EachOnce
  <2>3. CASE k <= Len(popped) /\ l = Len(popped) + 1
    BY <1>1, <1>2, <1>4, <2>3 DEF Merge!EachOnce
  <2>. QED
    BY <1>1, <1>2, <2>1, <2>2, <2>3
<1>5. Slices' = Slices
  BY DEF Slices
<1>. QED
  BY <1>1, <1>2, <1>3, <1>4, <1>5 DEF Merge!EachOnce

\* A merger that keeps the promise never has an entry both pending and emitted,
\* and emits none twice.
LEMMA EmittedOnce == Merge!Spec => []Merge!EachOnce
<1>1. Merge!Init => Merge!EachOnce
  BY DEF Merge!Init, Merge!EachOnce
<1>2. Merge!EachOnce /\ [Merge!Next]_(Merge!merge_vars) => Merge!EachOnce'
  <2>. SUFFICES ASSUME Merge!EachOnce, [Merge!Next]_(Merge!merge_vars) PROVE Merge!EachOnce'
    OBVIOUS
  <2>1. CASE Merge!Next
    BY <2>1, EmitEachOnce DEF Merge!Next
  <2>2. CASE UNCHANGED Merge!merge_vars
    <3>1. Slices' = Slices
      BY DEF Slices
    <3>. QED
      BY <2>2, <3>1 DEF Merge!merge_vars, Merge!EachOnce
  <2>. QED
    BY <2>1, <2>2
<1>. QED
  BY <1>1, <1>2, PTL DEF Merge!Spec

\* An entry leaves the pending ones only by being emitted.
LEMMA LeavesByEmission == Merge!Spec => Merge!NothingLost
<1>1. Merge!EachOnce /\ [Merge!Next]_(Merge!merge_vars) =>
        [\A e \in Slices :
           (e \in Pending /\ e \notin Pending') =>
             \E k \in 1 .. Len(popped') : popped'[k] = e]_(Merge!merge_vars)
  <2>. SUFFICES ASSUME Merge!EachOnce, Merge!Next,
                       NEW e \in Slices, e \in Pending, e \notin Pending'
                PROVE  \E k \in 1 .. Len(popped') : popped'[k] = e
    BY DEF Merge!merge_vars
  <2>1. popped' = Append(popped, e) /\ popped \in Seq(Slices)
    BY DEF Merge!Next, Merge!Emit, Merge!EachOnce
  <2>2. Len(popped) + 1 \in 1 .. Len(popped') /\ popped'[Len(popped) + 1] = e
    BY <2>1
  <2>. QED
    BY <2>2
<1>. QED
  BY <1>1, EmittedOnce, PTL DEF Merge!Spec, Merge!NothingLost

\* DoCompaction therefore never hands an entry to Arbitration twice, and drops an
\* entry from what is left only by handing it over.
THEOREM MergerKeepsPromise == MergerSpec => []Merge!EachOnce /\ Merge!NothingLost
BY MergeImplements, EmittedOnce, LeavesByEmission, PTL DEF MergesEntries
=============================================================================
