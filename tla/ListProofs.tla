----------------------------- MODULE ListProofs -----------------------------
(***************************************************************************)
(* Lemmas about the lists the renderers build: a set of numbers in order,  *)
(* and a list of lists made flat (FlattenSeq, the two nested loops).       *)
(***************************************************************************)
EXTENDS RegistryContract, FiniteSetTheorems, SequenceTheorems,
        WellFoundedInduction, TLAPS

\* Induction, for a set in the place of a predicate.
LEMMA SetInduction ==
    ASSUME NEW T, 0 \in T, \A n \in Nat : n \in T => n + 1 \in T
    PROVE  Nat \subseteq T
<1> DEFINE U == Nat \ T
           R == OpToRel(<, Nat)
<1> SUFFICES ASSUME U # {} PROVE FALSE
  OBVIOUS
<1>1. IsWellFoundedOn(R, Nat)
  BY NatLessThanWellFounded
<1>2. PICK x \in U : \A y \in U : ~(<<y, x>> \in R)
  <2> HIDE DEF U, R
  <2>1. U \subseteq Nat
    BY DEF U
  <2> QED
    BY <1>1, <2>1, WFMin
<1>3. x \in Nat /\ x # 0
  BY <1>2
<1>4. x - 1 \in Nat /\ (x - 1) + 1 = x /\ <<x - 1, x>> \in R
  BY <1>3 DEF OpToRel
<1> QED
  BY <1>2, <1>4

-----------------------------------------------------------------------------
(* Numbers in order.                                                       *)

\* Every finite set of numbers can be put in order, and Ascending does it.
LEMMA AscendingSorts ==
    ASSUME NEW S \in SUBSET Nat, IsFiniteSet(S)
    PROVE  LET s == Ascending(S)
           IN  /\ Cardinality(S) \in Nat
               /\ s \in [1 .. Cardinality(S) -> S]
               /\ \A i, j \in DOMAIN s : i < j => s[i] < s[j]
<1> DEFINE below(n) == {m \in S : m < n}
           c == Cardinality(S)
           rank == [n \in S |-> Cardinality(below(n)) + 1]
<1>0. \A n \in S : n \in Nat
  OBVIOUS
<1>1. c \in Nat
  BY FS_CardinalityType
<1>2. ASSUME NEW n \in S
      PROVE  IsFiniteSet(below(n)) /\ rank[n] \in 1 .. c
  <2>1. below(n) \in SUBSET S
    OBVIOUS
  <2> HIDE DEF below
  <2>2. IsFiniteSet(below(n)) /\ Cardinality(below(n)) \in Nat
    BY <2>1, FS_Subset, FS_CardinalityType
  <2>3. Cardinality(below(n)) <= c /\ (c = Cardinality(below(n)) => S = below(n))
    BY <2>1, FS_Subset
  <2>4. n \notin below(n)
    BY DEF below
  <2> QED
    BY <1>1, <2>2, <2>3, <2>4
<1>3. ASSUME NEW m \in S, NEW n \in S, m < n
      PROVE  rank[m] < rank[n]
  <2>1. /\ \A k \in S : k < m => k < n
        /\ ~(m < m)
    BY <1>0, <1>3
  <2>2. below(m) \in SUBSET below(n) /\ m \in below(n) /\ m \notin below(m)
    BY <1>3, <2>1
  <2>3. /\ IsFiniteSet(below(m)) /\ IsFiniteSet(below(n))
        /\ rank[m] = Cardinality(below(m)) + 1
        /\ rank[n] = Cardinality(below(n)) + 1
    BY <1>2
  <2> HIDE DEF below, rank
  <2>4. Cardinality(below(m)) \in Nat /\ Cardinality(below(n)) \in Nat
    BY <2>3, FS_CardinalityType
  <2>5. /\ Cardinality(below(m)) <= Cardinality(below(n))
        /\ Cardinality(below(m)) # Cardinality(below(n))
    BY <2>2, <2>3, FS_Subset
  <2> QED
    BY <2>3, <2>4, <2>5
<1>4. rank \in Injection(S, 1 .. c)
  <2>1. rank \in [S -> 1 .. c]
    BY <1>2
  <2>2. \A m, n \in S : rank[m] = rank[n] => m = n
    <3> SUFFICES ASSUME NEW m \in S, NEW n \in S, rank[m] = rank[n], m # n
                 PROVE  FALSE
      OBVIOUS
    <3>1. m < n \/ n < m
      OBVIOUS
    <3>2. rank[m] \in 1 .. c /\ rank[n] \in 1 .. c
      BY <1>2
    <3> HIDE DEF rank
    <3> QED
      BY <1>1, <1>3, <3>1, <3>2
  <2> HIDE DEF rank
  <2> QED
    BY <2>1, <2>2 DEF Injection, IsInjective
<1>5. \A i \in 1 .. c : \E n \in S : rank[n] = i
  <2>1. IsFiniteSet(1 .. c) /\ Cardinality(1 .. c) = c
    BY <1>1, FS_Interval
  <2> HIDE DEF rank
  <2>2. rank \in Surjection(S, 1 .. c)
    BY <1>4, <2>1, FS_Injection
  <2> QED
    BY <2>2 DEF Surjection
<1> DEFINE s == [i \in 1 .. c |-> CHOOSE n \in S : rank[n] = i]
<1>6. s \in [1 .. c -> S] /\ \A i \in 1 .. c : rank[s[i]] = i
  <2> HIDE DEF rank
  <2> QED
    BY <1>5
<1>7. ASSUME NEW m \in S, NEW n \in S, rank[m] < rank[n]
      PROVE  m < n
  <2>1. /\ m \in Nat /\ n \in Nat
        /\ rank[m] \in Nat /\ rank[n] \in Nat
    BY <1>0, <1>1, <1>2
  <2>2. n < m => rank[n] < rank[m]
    BY <1>3
  <2> HIDE DEF rank
  <2> QED
    BY <1>7, <2>1, <2>2
<1>8. \A i, j \in 1 .. c : i < j => s[i] < s[j]
  <2> HIDE DEF rank, s
  <2> QED
    BY <1>6, <1>7
<1> HIDE DEF s
<1> QED
  BY <1>1, <1>6, <1>8 DEF Ascending

-----------------------------------------------------------------------------
(* Lists made flat.                                                        *)

\* Flats(a)[n]: the first n lists of a made flat.
Flats(a) ==
    CHOOSE flatten : flatten =
        [i \in 1 .. Len(a) |->
            IF i = 1 THEN a[i] ELSE flatten[i - 1] \o a[i]]

\* The recursion in FlattenSeq defines a function.
LEMMA FlatsRecursion ==
    ASSUME NEW a, Len(a) \in Nat
    PROVE  \A i \in 1 .. Len(a) :
               Flats(a)[i] = IF i = 1 THEN a[i] ELSE Flats(a)[i - 1] \o a[i]
<1> DEFINE Upto(n, f) ==
               f = [i \in 1 .. n |-> IF i = 1 THEN a[i] ELSE f[i - 1] \o a[i]]
           T == {n \in Nat : \E f : Upto(n, f)}
<1>1. 0 \in T
  <2> DEFINE f == [i \in 1 .. 0 |-> 0]
  <2>1. Upto(0, f)
    OBVIOUS
  <2> QED
    BY <2>1
<1>2. ASSUME NEW n \in Nat, n \in T
      PROVE  n + 1 \in T
  <2>1. PICK f : Upto(n, f)
    BY <1>2
  <2> DEFINE last == IF n + 1 = 1 THEN a[n + 1] ELSE f[n] \o a[n + 1]
             g == [i \in 1 .. n + 1 |-> IF i = n + 1 THEN last ELSE f[i]]
  <2>2. ASSUME NEW i \in 1 .. n + 1
        PROVE  g[i] = IF i = 1 THEN a[i] ELSE g[i - 1] \o a[i]
    <3>1. CASE i = n + 1
      <4>1. g[i] = last
        BY <3>1
      <4>2. i # 1 => i - 1 = n /\ n \in 1 .. n + 1 /\ n # n + 1
        BY <3>1
      <4>3. i # 1 => g[i - 1] = f[n]
        BY <4>2
      <4> HIDE DEF g
      <4> QED
        BY <3>1, <4>1, <4>2, <4>3
    <3>2. CASE i # n + 1
      <4>1. i \in 1 .. n /\ g[i] = f[i]
        BY <3>2
      <4>2. f[i] = IF i = 1 THEN a[i] ELSE f[i - 1] \o a[i]
        BY <2>1, <4>1
      <4>3. i # 1 => g[i - 1] = f[i - 1]
        BY <4>1
      <4> HIDE DEF g
      <4> QED
        BY <4>1, <4>2, <4>3
    <3> QED
      BY <3>1, <3>2
  <2>3. Upto(n + 1, g)
    <3> DEFINE h == [i \in 1 .. n + 1 |-> IF i = 1 THEN a[i] ELSE g[i - 1] \o a[i]]
    <3>1. DOMAIN g = 1 .. n + 1 /\ g = [i \in 1 .. n + 1 |-> g[i]]
      OBVIOUS
    <3>2. \A i \in 1 .. n + 1 : g[i] = h[i]
      BY <2>2
    <3> HIDE DEF g
    <3> QED
      BY <3>1, <3>2
  <2>4. \E e : Upto(n + 1, e)
    <3> HIDE DEF Upto, g
    <3> QED
      BY <2>3
  <2> HIDE DEF Upto
  <2> QED
    BY <2>4
<1>3. Len(a) \in T
  <2> HIDE DEF T
  <2> QED
    BY <1>1, <1>2, SetInduction
<1>4. Upto(Len(a), Flats(a))
  BY <1>3 DEF Flats
<1> QED
  BY <1>4

LEMMA FlattenIsLast ==
    ASSUME NEW a, Len(a) \in Nat
    PROVE  FlattenSeq(a) = IF Len(a) = 0 THEN a ELSE Flats(a)[Len(a)]
BY DEF FlattenSeq, Flats

\* Where the entries of a flat list come from: w lists the places <<i, j>> of
\* a's first n lists, each once, and f has what is there.
Lists(f, w, a, n) ==
    /\ Len(w) = Len(f)
    /\ \A k \in 1 .. Len(f) :
          /\ w[k][1] \in 1 .. n
          /\ w[k][2] \in 1 .. Len(a[w[k][1]])
          /\ f[k] = a[w[k][1]][w[k][2]]
    /\ \A k, l \in 1 .. Len(f) : w[k] = w[l] => k = l

\* The places of a list of lists.
Places(a) == [i \in 1 .. Len(a) |-> [j \in 1 .. Len(a[i]) |-> <<i, j>>]]

Place == Nat \X Nat

LEMMA PlacesTyped ==
    ASSUME NEW S, NEW a \in Seq(Seq(S))
    PROVE  /\ Len(Places(a)) = Len(a) /\ Len(a) \in Nat
           /\ Places(a) \in Seq(Seq(Place))
           /\ \A i \in 1 .. Len(a) :
                 /\ a[i] \in Seq(S)
                 /\ Places(a)[i] \in Seq(Place)
                 /\ Len(Places(a)[i]) = Len(a[i])
                 /\ \A j \in 1 .. Len(a[i]) : Places(a)[i][j] = <<i, j>>
<1>1. \A i \in 1 .. Len(a) : a[i] \in Seq(S) /\ Len(a[i]) \in Nat
  OBVIOUS
<1>2. ASSUME NEW i \in 1 .. Len(a)
      PROVE  /\ Places(a)[i] \in Seq(Place)
             /\ Len(Places(a)[i]) = Len(a[i])
             /\ \A j \in 1 .. Len(a[i]) : Places(a)[i][j] = <<i, j>>
  <2> DEFINE q == [j \in 1 .. Len(a[i]) |-> <<i, j>>]
  <2>1. Places(a)[i] = q
    BY DEF Places
  <2>2. q \in Seq(Place) /\ Len(q) = Len(a[i])
    BY <1>1 DEF Place
  <2> QED
    BY <2>1, <2>2
<1>3. Len(Places(a)) = Len(a) /\ Places(a) \in Seq(Seq(Place))
  <2> DEFINE q == Places(a)
  <2>1. q = [i \in 1 .. Len(a) |-> q[i]]
    BY DEF Places
  <2>2. \A i \in 1 .. Len(a) : q[i] \in Seq(Place)
    BY <1>2
  <2> HIDE DEF q
  <2>3. Len(q) = Len(a) /\ q \in Seq(Seq(Place))
    BY <2>1, <2>2
  <2> QED
    BY <2>3 DEF q
<1> QED
  BY <1>1, <1>2, <1>3

\* One more list.
LEMMA ListsMore ==
    ASSUME NEW S, NEW a \in Seq(Seq(S)), NEW n \in Nat, n < Len(a),
           NEW f \in Seq(S), NEW w \in Seq(Place), Lists(f, w, a, n)
    PROVE  /\ f \o a[n + 1] \in Seq(S)
           /\ w \o Places(a)[n + 1] \in Seq(Place)
           /\ Lists(f \o a[n + 1], w \o Places(a)[n + 1], a, n + 1)
<1> DEFINE b == a[n + 1]
           p == Places(a)[n + 1]
<1>1. /\ b \in Seq(S) /\ p \in Seq(Place) /\ Len(p) = Len(b)
      /\ \A j \in 1 .. Len(b) : p[j] = <<n + 1, j>>
  <2>1. n + 1 \in 1 .. Len(a)
    BY PlacesTyped
  <2> QED
    BY <2>1, PlacesTyped
<1> HIDE DEF b, p
<1> DEFINE g == f \o b
           v == w \o p
<1>2. /\ g \in Seq(S) /\ v \in Seq(Place)
      /\ Len(g) = Len(f) + Len(b) /\ Len(v) = Len(g)
      /\ Len(f) \in Nat /\ Len(b) \in Nat /\ Len(w) = Len(f)
      /\ \A k \in 1 .. Len(f) : g[k] = f[k] /\ v[k] = w[k]
      /\ \A k \in Len(f) + 1 .. Len(g) :
            g[k] = b[k - Len(f)] /\ v[k] = p[k - Len(f)]
  <2>1. Len(w) = Len(f) /\ Len(f) \in Nat /\ Len(b) \in Nat
    BY <1>1 DEF Lists
  <2>2. /\ g \in Seq(S) /\ Len(g) = Len(f) + Len(b)
        /\ \A k \in 1 .. Len(f) + Len(b) :
              g[k] = IF k <= Len(f) THEN f[k] ELSE b[k - Len(f)]
    BY <1>1, ConcatProperties
  <2>3. /\ v \in Seq(Place) /\ Len(v) = Len(w) + Len(p)
        /\ \A k \in 1 .. Len(w) + Len(p) :
              v[k] = IF k <= Len(w) THEN w[k] ELSE p[k - Len(w)]
    BY <1>1, ConcatProperties
  <2> HIDE DEF g, v
  <2>4. Len(g) = Len(f) + Len(b) /\ Len(v) = Len(g)
    BY <1>1, <2>1, <2>2, <2>3
  <2>5. ASSUME NEW k \in 1 .. Len(f)
        PROVE  g[k] = f[k] /\ v[k] = w[k]
    <3>1. k \in 1 .. Len(f) + Len(b) /\ k \in 1 .. Len(w) + Len(p) /\ k <= Len(f)
      BY <1>1, <2>1
    <3> QED
      BY <2>1, <2>2, <2>3, <3>1
  <2>6. ASSUME NEW k \in Len(f) + 1 .. Len(g)
        PROVE  g[k] = b[k - Len(f)] /\ v[k] = p[k - Len(f)]
    <3>1. k \in 1 .. Len(f) + Len(b) /\ k \in 1 .. Len(w) + Len(p) /\ ~(k <= Len(f))
      BY <1>1, <2>1, <2>4
    <3> QED
      BY <2>1, <2>2, <2>3, <3>1
  <2> QED
    BY <2>1, <2>2, <2>3, <2>4, <2>5, <2>6
<1> HIDE DEF g, v
<1>3. ASSUME NEW k \in Len(f) + 1 .. Len(g)
      PROVE  k - Len(f) \in 1 .. Len(b) /\ v[k] = <<n + 1, k - Len(f)>>
  <2>1. k - Len(f) \in 1 .. Len(b)
    BY <1>2
  <2> QED
    BY <1>1, <1>2, <2>1
<1>4. \A k \in 1 .. Len(g) : k \in 1 .. Len(f) \/ k \in Len(f) + 1 .. Len(g)
  BY <1>2
<1>5. ASSUME NEW k \in 1 .. Len(g)
      PROVE  /\ v[k][1] \in 1 .. n + 1
             /\ v[k][2] \in 1 .. Len(a[v[k][1]])
             /\ g[k] = a[v[k][1]][v[k][2]]
  <2>1. CASE k \in 1 .. Len(f)
    <3>1. /\ w[k][1] \in 1 .. n
          /\ w[k][2] \in 1 .. Len(a[w[k][1]])
          /\ f[k] = a[w[k][1]][w[k][2]]
      BY <2>1 DEF Lists
    <3>2. v[k] = w[k] /\ g[k] = f[k]
      BY <1>2, <2>1
    <3> QED
      BY <3>1, <3>2
  <2>2. CASE k \in Len(f) + 1 .. Len(g)
    <3>1. v[k] = <<n + 1, k - Len(f)>> /\ k - Len(f) \in 1 .. Len(b)
      BY <1>3, <2>2
    <3>2. g[k] = b[k - Len(f)]
      BY <1>2, <2>2
    <3> QED
      BY <3>1, <3>2 DEF b
  <2> QED
    BY <1>4, <2>1, <2>2
<1>6. ASSUME NEW k \in 1 .. Len(g), NEW l \in 1 .. Len(g), v[k] = v[l]
      PROVE  k = l
  <2>1. CASE k \in 1 .. Len(f) /\ l \in 1 .. Len(f)
    BY <1>2, <1>6, <2>1 DEF Lists
  <2>2. CASE k \in Len(f) + 1 .. Len(g) /\ l \in Len(f) + 1 .. Len(g)
    BY <1>2, <1>3, <1>6, <2>2
  <2>3. ASSUME NEW x \in 1 .. Len(f), NEW y \in Len(f) + 1 .. Len(g)
        PROVE  v[x] # v[y]
    <3>1. w[x][1] \in 1 .. n /\ v[x] = w[x]
      BY <1>2 DEF Lists
    <3>2. v[y][1] = n + 1
      BY <1>3
    <3> QED
      BY <3>1, <3>2
  <2> QED
    BY <1>4, <1>6, <2>1, <2>2, <2>3
<1>7. Lists(g, v, a, n + 1)
  BY <1>2, <1>5, <1>6 DEF Lists
<1> QED
  BY <1>2, <1>7 DEF g, v, b, p

\* FlattenSeq(a) is a list of what is in a, each place once; which place comes
\* where only depends on the lengths of a's lists.
LEMMA FlattenLists ==
    ASSUME NEW S, NEW a \in Seq(Seq(S))
    PROVE  /\ FlattenSeq(a) \in Seq(S)
           /\ FlattenSeq(Places(a)) \in Seq(Place)
           /\ Lists(FlattenSeq(a), FlattenSeq(Places(a)), a, Len(a))
<1> DEFINE f(n) == IF n = 0 THEN <<>> ELSE Flats(a)[n]
           w(n) == IF n = 0 THEN <<>> ELSE Flats(Places(a))[n]
           T == {n \in Nat : n <= Len(a) =>
                    /\ f(n) \in Seq(S)
                    /\ w(n) \in Seq(Place)
                    /\ Lists(f(n), w(n), a, n)}
<1>0. Len(a) \in Nat /\ Len(Places(a)) = Len(a)
  BY PlacesTyped
<1>1. 0 \in T
  <2>1. Lists(<<>>, <<>>, a, 0)
    BY DEF Lists
  <2>2. f(0) = <<>> /\ w(0) = <<>> /\ <<>> \in Seq(S) /\ <<>> \in Seq(Place)
    OBVIOUS
  <2> HIDE DEF f, w
  <2> QED
    BY <2>1, <2>2
<1>2. ASSUME NEW n \in Nat, n < Len(a)
      PROVE  /\ f(n + 1) = f(n) \o a[n + 1]
             /\ w(n + 1) = w(n) \o Places(a)[n + 1]
  <2>1. n + 1 \in 1 .. Len(a) /\ n + 1 # 0 /\ (n + 1) - 1 = n /\ (n + 1 = 1 <=> n = 0)
    BY <1>0, <1>2
  <2>2. /\ Flats(a)[n + 1] = IF n = 0 THEN a[n + 1] ELSE Flats(a)[n] \o a[n + 1]
        /\ Flats(Places(a))[n + 1] = IF n = 0 THEN Places(a)[n + 1]
                                     ELSE Flats(Places(a))[n] \o Places(a)[n + 1]
    BY <1>0, <2>1, FlatsRecursion
  <2>3. a[n + 1] \in Seq(S) /\ Places(a)[n + 1] \in Seq(Place)
    BY <2>1, PlacesTyped
  <2>4. <<>> \o a[n + 1] = a[n + 1] /\ <<>> \o Places(a)[n + 1] = Places(a)[n + 1]
    BY <2>3
  <2> QED
    BY <2>1, <2>2, <2>4
<1>3. ASSUME NEW n \in Nat, n \in T
      PROVE  n + 1 \in T
  <2> SUFFICES ASSUME n + 1 <= Len(a)
               PROVE  /\ f(n + 1) \in Seq(S)
                      /\ w(n + 1) \in Seq(Place)
                      /\ Lists(f(n + 1), w(n + 1), a, n + 1)
    OBVIOUS
  <2>1. n < Len(a) /\ n <= Len(a)
    BY <1>0
  <2>2. f(n) \in Seq(S) /\ w(n) \in Seq(Place) /\ Lists(f(n), w(n), a, n)
    BY <1>3, <2>1
  <2> HIDE DEF f, w, T
  <2>3. /\ f(n) \o a[n + 1] \in Seq(S)
        /\ w(n) \o Places(a)[n + 1] \in Seq(Place)
        /\ Lists(f(n) \o a[n + 1], w(n) \o Places(a)[n + 1], a, n + 1)
    BY <2>1, <2>2, ListsMore
  <2> QED
    BY <1>2, <2>1, <2>3
<1>4. Len(a) \in T
  <2> HIDE DEF T
  <2> QED
    BY <1>0, <1>1, <1>3, SetInduction
<1>5. f(Len(a)) = FlattenSeq(a) /\ w(Len(a)) = FlattenSeq(Places(a))
  <2>1. Len(a) = 0 => a = <<>> /\ Places(a) = <<>>
    BY <1>0, PlacesTyped
  <2> QED
    BY <1>0, <2>1, FlattenIsLast
<1> HIDE DEF f, w
<1> QED
  BY <1>0, <1>4, <1>5
=============================================================================
