----------------------------- MODULE DataTheorems -----------------------------
(***************************************************************************)
(* What the proofs of several components need to know of their data.       *)
(*                                                                         *)
(* Induction and recursion are stated about sets and functions: what a     *)
(* proof would pass to the library's theorems as a predicate P(_) is here  *)
(* the set of the values that satisfy it, and a recursive definition is    *)
(* one that steps with a function of a known range.                        *)
(***************************************************************************)
EXTENDS Filters, FiniteSetTheorems, FunctionTheorems, SequenceTheorems,
        WellFoundedInduction, TLAPS

-----------------------------------------------------------------------------
(* Induction and recursion.                                                *)

LessThan == {p \in Nat \X Nat : p[1] < p[2]}

LEMMA LeastNumber ==
  ASSUME NEW A \in SUBSET Nat, A # {}
  PROVE  \E n \in A : \A m \in A : n <= m
<1>1. IsWellFoundedOn(LessThan, Nat)
  BY NatLessThanWellFounded DEF OpToRel, LessThan
<1>2. PICK n \in A : \A m \in A : ~(<<m, n>> \in LessThan)
  BY <1>1, WFMin
<1>3. n \in Nat /\ \A m \in A : m \in Nat
  OBVIOUS
<1>4. \A m \in A : ~(m < n)
  BY <1>2, <1>3 DEF LessThan
<1> QED BY <1>3, <1>4

LEMMA NatInduct ==
  ASSUME NEW A, 0 \in A, \A n \in Nat : n \in A => n + 1 \in A
  PROVE  Nat \subseteq A
<1> SUFFICES ASSUME Nat \ A # {} PROVE FALSE
  OBVIOUS
<1>1. PICK n \in Nat \ A : \A m \in Nat \ A : n <= m
  BY LeastNumber
<1>2. n - 1 \in Nat
  BY <1>1
<1> QED BY <1>1, <1>2

\* What a finite set inherits from its subsets with one element less.
LEMMA FiniteSetInduct ==
  ASSUME NEW S, IsFiniteSet(S), NEW A,
         \A s \in SUBSET S : (\A x \in s : s \ {x} \in A) => s \in A
  PROVE  SUBSET S \subseteq A
<1> DEFINE B == {n \in Nat : \A s \in SUBSET S : Cardinality(s) = n => s \in A}
<1>1. 0 \in B
  <2>1. \A s \in SUBSET S : Cardinality(s) = 0 => s = {}
    BY FS_Subset, FS_EmptySet
  <2> QED BY <2>1
<1>2. ASSUME NEW n \in Nat, n \in B  PROVE n + 1 \in B
  <2> SUFFICES ASSUME NEW s \in SUBSET S, Cardinality(s) = n + 1, NEW x \in s
               PROVE  Cardinality(s \ {x}) = n
    BY <1>2
  <2>1. Cardinality(s \ {x}) = Cardinality(s) - 1
    BY FS_Subset, FS_RemoveElement
  <2> QED BY <2>1
<1> HIDE DEF B
<1>3. Nat \subseteq B
  BY <1>1, <1>2, NatInduct
<1>4. \A s \in SUBSET S : Cardinality(s) \in Nat
  BY FS_Subset, FS_CardinalityType
<1> QED BY <1>3, <1>4 DEF B

\* The function g of the subsets of S is defined by taking away the element that
\* pick chooses; step[x][v] adds x to the value v of the rest.
Recursion(g, S, base, step, pick) ==
  \A s \in SUBSET S :
    g[s] = IF s = {} THEN base ELSE step[pick[s]][g[s \ {pick[s]}]]

LEMMA SubsetRecursion ==
  ASSUME NEW S, IsFiniteSet(S), NEW V, NEW base \in V, NEW step \in [S -> [V -> V]],
         NEW pick, \A s \in SUBSET S : s # {} => pick[s] \in s
  PROVE  \E g \in [SUBSET S -> V] : Recursion(g, S, base, step, pick)
<1> DEFINE Solves(g, n) ==
             \A s \in SUBSET S : Cardinality(s) <= n =>
               g[s] = IF s = {} THEN base ELSE step[pick[s]][g[s \ {pick[s]}]]
           A == {n \in Nat : \E g \in [SUBSET S -> V] : Solves(g, n)}
<1>0. \A s \in SUBSET S :
        /\ IsFiniteSet(s) /\ Cardinality(s) \in Nat /\ Cardinality(s) <= Cardinality(S)
        /\ Cardinality(s) = 0 <=> s = {}
  BY FS_Subset, FS_EmptySet, FS_CardinalityType
<1>1. 0 \in A
  <2>1. [s \in SUBSET S |-> base] \in [SUBSET S -> V]
    OBVIOUS
  <2>2. Solves([s \in SUBSET S |-> base], 0)
    BY <1>0
  <2> QED BY <2>1, <2>2
<1>2. ASSUME NEW n \in Nat, n \in A  PROVE n + 1 \in A
  <2>1. PICK g \in [SUBSET S -> V] : Solves(g, n)
    BY <1>2
  <2> DEFINE h == [s \in SUBSET S |-> IF s = {} THEN base
                                      ELSE step[pick[s]][g[s \ {pick[s]}]]]
  <2>2. \A s \in SUBSET S : s # {} => /\ pick[s] \in S /\ s \ {pick[s]} \in SUBSET S
                                      /\ g[s \ {pick[s]}] \in V
    OBVIOUS
  <2>3. h \in [SUBSET S -> V]
    <3>1. \A s \in SUBSET S : s # {} => step[pick[s]][g[s \ {pick[s]}]] \in V
      BY <2>2
    <3> QED BY <3>1
  <2>4. \A s \in SUBSET S : Cardinality(s) <= n => h[s] = g[s]
    BY <2>1
  <2>5. \A s \in SUBSET S : s # {} /\ Cardinality(s) <= n + 1 =>
          h[s \ {pick[s]}] = g[s \ {pick[s]}]
    <3> SUFFICES ASSUME NEW s \in SUBSET S, s # {}, Cardinality(s) <= n + 1
                 PROVE  Cardinality(s \ {pick[s]}) <= n
      BY <2>4
    <3>1. Cardinality(s \ {pick[s]}) = Cardinality(s) - 1
      BY <1>0, FS_RemoveElement
    <3> QED BY <1>0, <3>1
  <2> HIDE DEF h
  <2>6. Solves(h, n + 1)
    BY <2>5 DEF h
  <2> HIDE DEF Solves
  <2> QED BY <2>3, <2>6
<1> HIDE DEF A
<1>3. Cardinality(S) \in A
  BY <1>1, <1>2, NatInduct, FS_CardinalityType
<1> QED BY <1>0, <1>3 DEF A, Recursion

-----------------------------------------------------------------------------
(* The numbers of a set, in order.                                         *)

\* The place of n among the numbers of S.
Place(S, n) == Cardinality({m \in S : m <= n})

Increasing(f) == \A j, k \in DOMAIN f : j < k => f[j] < f[k]

LEMMA PlaceIsOneToOne ==
  ASSUME NEW S \in SUBSET Nat, IsFiniteSet(S)
  PROVE  /\ \A n \in S : Place(S, n) \in 1 .. Cardinality(S)
         /\ \A m, n \in S : m < n => Place(S, m) < Place(S, n)
         /\ \A k \in 1 .. Cardinality(S) : \E n \in S : Place(S, n) = k
<1>1. \A n \in S : /\ IsFiniteSet({m \in S : m <= n})
                   /\ Cardinality({m \in S : m <= n}) \in Nat
                   /\ Cardinality({m \in S : m <= n}) <= Cardinality(S)
                   /\ Cardinality({m \in S : m <= n}) # 0
  <2> TAKE n \in S
  <2> DEFINE T == {m \in S : m <= n}
  <2>1. T \in SUBSET S /\ n \in T
    OBVIOUS
  <2> HIDE DEF T
  <2>2. IsFiniteSet(T) /\ Cardinality(T) <= Cardinality(S)
    BY <2>1, FS_Subset
  <2>x. Cardinality(T) \in Nat
    BY <2>2, FS_CardinalityType
  <2>3. Cardinality(T) # 0
    BY <2>1, <2>2, <2>x, FS_EmptySet
  <2> QED BY <2>2, <2>x, <2>3 DEF T
<1>2. Cardinality(S) \in Nat
  BY FS_CardinalityType
<1>3. \A n \in S : Place(S, n) \in 1 .. Cardinality(S)
  BY <1>1, <1>2 DEF Place
<1>4. ASSUME NEW m \in S, NEW n \in S, m < n  PROVE Place(S, m) < Place(S, n)
  <2> DEFINE T == {i \in S : i <= m}
             U == {i \in S : i <= n}
  <2>0. \A i \in S : i \in Nat
    OBVIOUS
  <2>1. T \in SUBSET U /\ n \in U /\ n \notin T
    <3>1. m \in Nat /\ n \in Nat
      BY <2>0
    <3>2. \A i \in S : i <= m => i <= n
      BY <1>4, <2>0, <3>1
    <3>3. ~(n <= m)
      BY <1>4, <3>1
    <3>4. T \in SUBSET U
      BY <3>2
    <3>5. n \in U /\ n \notin T
      BY <3>1, <3>3
    <3> QED BY <3>4, <3>5
  <2>2. IsFiniteSet(U) /\ Cardinality(T) \in Nat /\ Cardinality(U) \in Nat
    BY <1>1
  <2>3. Place(S, m) = Cardinality(T) /\ Place(S, n) = Cardinality(U)
    BY DEF Place
  <2> HIDE DEF T, U
  <2>4. Cardinality(T) <= Cardinality(U) /\ Cardinality(T) # Cardinality(U)
    BY <2>1, <2>2, FS_Subset
  <2> QED BY <2>2, <2>3, <2>4
<1> DEFINE place == [n \in S |-> Place(S, n)]
<1>5. place \in Injection(S, 1 .. Cardinality(S))
  <2>1. place \in [S -> 1 .. Cardinality(S)]
    BY <1>3
  <2>2. ASSUME NEW m \in S, NEW n \in S, place[m] = place[n]  PROVE m = n
    <3>1. m \in Nat /\ n \in Nat /\ ~(m < n) /\ ~(n < m)
      BY <1>3, <1>4, <2>2
    <3> QED BY <3>1
  <2> QED BY <2>1, <2>2, Fun_IsInj
<1>6. Cardinality(1 .. Cardinality(S)) = Cardinality(S) /\ IsFiniteSet(1 .. Cardinality(S))
  BY <1>2, FS_Interval
<1>7. place \in Surjection(S, 1 .. Cardinality(S))
  BY <1>5, <1>6, FS_Injection
<1>8. \A k \in 1 .. Cardinality(S) : \E n \in S : place[n] = k
  BY <1>7 DEF Surjection
<1> QED BY <1>3, <1>4, <1>8

\* InOrder lists the numbers of a finite set, all of them, in increasing order.
LEMMA InOrderLists ==
  ASSUME NEW S \in SUBSET Nat, IsFiniteSet(S)
  PROVE  /\ Cardinality(S) \in Nat
         /\ InOrder(S) \in [1 .. Cardinality(S) -> S]
         /\ Increasing(InOrder(S))
         /\ \A n \in S : \E k \in 1 .. Cardinality(S) : InOrder(S)[k] = n
<1>0. Cardinality(S) \in Nat
  BY FS_CardinalityType
<1>1. \A k \in 1 .. Cardinality(S) : InOrder(S)[k] \in S /\ Place(S, InOrder(S)[k]) = k
  BY PlaceIsOneToOne DEF InOrder, Place
<1>2. InOrder(S) \in [1 .. Cardinality(S) -> S]
  BY <1>1 DEF InOrder
<1>3. ASSUME NEW m \in S, NEW n \in S, Place(S, m) <= Place(S, n)  PROVE m <= n
  BY <1>3, PlaceIsOneToOne
<1>4. \A n \in S : Place(S, n) \in 1 .. Cardinality(S) /\ InOrder(S)[Place(S, n)] = n
  <2> TAKE n \in S
  <2>1. Place(S, n) \in 1 .. Cardinality(S)
    BY PlaceIsOneToOne
  <2> DEFINE m == InOrder(S)[Place(S, n)]
  <2>2. m \in S /\ Place(S, m) = Place(S, n)
    BY <1>1, <2>1
  <2> HIDE DEF m
  <2>3. m <= n /\ n <= m
    BY <1>3, <2>1, <2>2
  <2>4. m = n
    BY <2>2, <2>3
  <2> QED BY <2>1, <2>4 DEF m
<1>5. Increasing(InOrder(S))
  <2> SUFFICES ASSUME NEW j \in 1 .. Cardinality(S), NEW k \in 1 .. Cardinality(S), j < k
               PROVE  InOrder(S)[j] < InOrder(S)[k]
    BY <1>2 DEF Increasing
  <2> DEFINE m == InOrder(S)[j]
             n == InOrder(S)[k]
  <2>1. m \in S /\ n \in S /\ Place(S, m) = j /\ Place(S, n) = k
    BY <1>1
  <2> HIDE DEF m, n
  <2>2. ~(n <= m)
    <3>1. n = m => Place(S, m) = Place(S, n)
      OBVIOUS
    <3>2. n < m => Place(S, n) < Place(S, m)
      BY <2>1, PlaceIsOneToOne
    <3> QED BY <1>0, <2>1, <3>1, <3>2
  <2>3. m < n
    BY <2>1, <2>2
  <2> QED BY <2>3 DEF m, n
<1> QED BY <1>0, <1>2, <1>4, <1>5

\* Nothing else does.
LEMMA InOrderOnly ==
  ASSUME NEW S \in SUBSET Nat, NEW n \in Nat, NEW f \in [1 .. n -> S], Increasing(f),
         \A m \in S : \E k \in 1 .. n : f[k] = m
  PROVE  IsFiniteSet(S) /\ Cardinality(S) = n /\ f = InOrder(S)
<1>0. \A k \in 1 .. n : f[k] \in S /\ f[k] \in Nat
  OBVIOUS
<1>1. \A j, k \in 1 .. n : j < k => f[j] < f[k]
  BY DEF Increasing
<1>2. \A j, k \in 1 .. n : f[j] <= f[k] => j <= k
  <2> SUFFICES ASSUME NEW j \in 1 .. n, NEW k \in 1 .. n, f[j] <= f[k], k < j
               PROVE  FALSE
    OBVIOUS
  <2>1. f[k] < f[j] /\ f[k] \in Nat /\ f[j] \in Nat
    BY <1>0, <1>1
  <2> QED BY <2>1
<1>3. ASSUME NEW k \in 0 .. n, NEW T \in SUBSET S,
             \A m \in S : m \in T <=> \E j \in 1 .. k : f[j] = m
      PROVE  IsFiniteSet(T) /\ Cardinality(T) = k
  <2> DEFINE g == [j \in 1 .. k |-> f[j]]
  <2>1. g \in [1 .. k -> T]
    <3>1. \A j \in 1 .. k : j \in 1 .. n
      OBVIOUS
    <3>2. \A j \in 1 .. k : f[j] \in T
      BY <1>0, <1>3, <3>1
    <3> QED BY <3>2
  <2>2. \A i, j \in 1 .. k : g[i] = g[j] => i = j
    <3> SUFFICES ASSUME NEW i \in 1 .. k, NEW j \in 1 .. k, f[i] = f[j] PROVE i = j
      OBVIOUS
    <3>1. i \in 1 .. n /\ j \in 1 .. n
      OBVIOUS
    <3>3. f[i] <= f[j] /\ f[j] <= f[i]
      BY <1>0, <3>1
    <3>2. i <= j /\ j <= i
      BY <1>2, <3>1, <3>3
    <3> QED BY <3>1, <3>2
  <2>3. \A m \in T : \E j \in 1 .. k : g[j] = m
    BY <1>3
  <2> HIDE DEF g
  <2>4. g \in Bijection(1 .. k, T)
    BY <2>1, <2>2, <2>3, Fun_IsBij
  <2>5. IsFiniteSet(1 .. k) /\ Cardinality(1 .. k) = k
    BY FS_Interval
  <2>6. ExistsBijection(1 .. k, T)
    BY <2>4 DEF ExistsBijection
  <2> QED BY <2>5, <2>6, FS_Bijection
<1>4. IsFiniteSet(S) /\ Cardinality(S) = n
  BY <1>3
<1>5. ASSUME NEW k \in 1 .. n  PROVE Place(S, f[k]) = k
  <2> DEFINE T == {m \in S : m <= f[k]}
  <2>1. \A m \in S : m \in T <=> \E j \in 1 .. k : f[j] = m
    <3> TAKE m \in S
    <3>1. PICK j \in 1 .. n : f[j] = m
      OBVIOUS
    <3>2. m <= f[k] <=> j <= k
      <4>1. j <= k => f[j] <= f[k]
        <5>1. j < k => f[j] < f[k]
          BY <1>1
        <5>2. f[j] \in Nat /\ f[k] \in Nat
          BY <1>0
        <5> QED BY <5>1, <5>2
      <4> QED BY <1>2, <3>1, <4>1
    <3>3. \A i \in 1 .. k : f[i] = m => i = j
      <4> SUFFICES ASSUME NEW i \in 1 .. k, f[i] = m PROVE i = j
        OBVIOUS
      <4>1. i \in 1 .. n /\ f[i] <= f[j] /\ f[j] <= f[i]
        BY <1>0, <3>1
      <4>2. i <= j /\ j <= i
        BY <1>2, <4>1
      <4> QED BY <4>2
    <3> QED BY <3>1, <3>2, <3>3
  <2>2. T \in SUBSET S
    OBVIOUS
  <2> HIDE DEF T
  <2>3. Cardinality(T) = k
    BY <1>3, <2>1, <2>2
  <2> QED BY <2>3 DEF Place, T
<1>6. ASSUME NEW k \in 1 .. n  PROVE f[k] = InOrder(S)[k]
  <2>1. /\ InOrder(S) \in [1 .. n -> S]
        /\ Increasing(InOrder(S))
        /\ \A m \in S : \E j \in 1 .. n : InOrder(S)[j] = m
    BY <1>4, InOrderLists
  <2>2. InOrder(S)[k] = CHOOSE m \in S : Place(S, m) = k
    BY <1>4 DEF InOrder, Place
  <2>3. f[k] \in S /\ Place(S, f[k]) = k
    BY <1>5
  <2> DEFINE m == CHOOSE m \in S : Place(S, m) = k
  <2>4. m \in S /\ Place(S, m) = k
    BY <2>3
  <2> HIDE DEF m
  <2>5. ~(m < f[k]) /\ ~(f[k] < m)
    <3>1. \A i, j \in S : i < j => Place(S, i) < Place(S, j)
      BY <1>4, PlaceIsOneToOne
    <3>2. ~(k < k)
      OBVIOUS
    <3> QED BY <2>3, <2>4, <3>1, <3>2
  <2>6. m = f[k]
    <3>1. m \in Nat /\ f[k] \in Nat
      BY <2>4
    <3> QED BY <2>5, <3>1
  <2> QED BY <2>2, <2>6 DEF m
<1>7. f = InOrder(S)
  <2>1. InOrder(S) \in [1 .. n -> S]
    BY <1>4, InOrderLists
  <2> QED BY <1>6, <2>1
<1> QED BY <1>4, <1>7

-----------------------------------------------------------------------------
(* What a filter returns.                                                  *)

LEMMA AtIsSeq ==
  ASSUME NEW V, NEW seq \in Seq(V), NEW S \in SUBSET (1 .. Len(seq))
  PROVE  /\ IsFiniteSet(S) /\ Cardinality(S) \in Nat
         /\ At(seq, S) \in Seq(V) /\ Len(At(seq, S)) = Cardinality(S)
         /\ \A k \in 1 .. Cardinality(S) :
              /\ InOrder(S)[k] \in S
              /\ At(seq, S)[k] = seq[InOrder(S)[k]]
<1>1. Len(seq) \in Nat
  BY LenProperties
<1>2. IsFiniteSet(S) /\ S \in SUBSET Nat
  <2>1. IsFiniteSet(1 .. Len(seq))
    BY <1>1, FS_Interval
  <2>2. \A i \in 1 .. Len(seq) : i \in Nat
    BY <1>1
  <2> QED BY <2>1, <2>2, FS_Subset
<1>3. Cardinality(S) \in Nat /\ InOrder(S) \in [1 .. Cardinality(S) -> S]
  BY <1>2, InOrderLists
<1>4. \A k \in 1 .. Cardinality(S) : InOrder(S)[k] \in S /\ seq[InOrder(S)[k]] \in V
  <2> TAKE k \in 1 .. Cardinality(S)
  <2>1. InOrder(S)[k] \in S
    BY <1>3
  <2> QED BY <2>1, ElementOfSeq
<1>5. At(seq, S) \in [1 .. Cardinality(S) -> V]
  BY <1>4 DEF At
<1>6. \A k \in 1 .. Cardinality(S) : At(seq, S)[k] = seq[InOrder(S)[k]]
  BY DEF At
<1> QED BY <1>2, <1>3, <1>4, <1>5, <1>6

LEMMA AppendToConcat ==
  ASSUME NEW V, NEW s \in Seq(V), NEW t \in Seq(V), NEW x \in V
  PROVE  s \o t \in Seq(V) /\ s \o Append(t, x) = Append(s \o t, x)
<1> DEFINE u == s \o Append(t, x)
           v == Append(s \o t, x)
<1>0. Len(s) \in Nat /\ Len(t) \in Nat
  BY LenProperties
<1>1. /\ s \o t \in Seq(V) /\ Len(s \o t) = Len(s) + Len(t)
      /\ \A i \in 1 .. Len(s) + Len(t) :
           (s \o t)[i] = IF i <= Len(s) THEN s[i] ELSE t[i - Len(s)]
  BY ConcatProperties
<1>2. PICK r \in Seq(V) : r = s \o t
  BY <1>1
<1>3. PICK q \in Seq(V) : /\ q = Append(t, x) /\ Len(q) = Len(t) + 1
                          /\ \A i \in 1 .. Len(t) : q[i] = t[i]
                          /\ q[Len(t) + 1] = x
  BY AppendProperties
<1>4. /\ v \in Seq(V) /\ Len(v) = Len(s) + Len(t) + 1
      /\ \A i \in 1 .. Len(s) + Len(t) : v[i] = r[i]
      /\ v[Len(s) + Len(t) + 1] = x
  <2>1. /\ Append(r, x) \in Seq(V) /\ Len(Append(r, x)) = Len(r) + 1
        /\ \A i \in 1 .. Len(r) : Append(r, x)[i] = r[i]
        /\ Append(r, x)[Len(r) + 1] = x
    BY AppendProperties
  <2> QED BY <1>1, <1>2, <2>1
<1>5. /\ u \in Seq(V) /\ Len(u) = Len(s) + Len(q)
      /\ \A i \in 1 .. Len(s) + Len(q) : u[i] = IF i <= Len(s) THEN s[i] ELSE q[i - Len(s)]
  <2>1. /\ s \o q \in Seq(V) /\ Len(s \o q) = Len(s) + Len(q)
        /\ \A i \in 1 .. Len(s) + Len(q) : (s \o q)[i] = IF i <= Len(s) THEN s[i] ELSE q[i - Len(s)]
    BY ConcatProperties
  <2> QED BY <1>3, <2>1
<1> HIDE DEF u, v
<1>6. Len(u) = Len(v)
  BY <1>0, <1>3, <1>4, <1>5
<1>7. ASSUME NEW i \in 1 .. Len(u)  PROVE u[i] = v[i]
  <2>1. CASE i <= Len(s)
    <3>1. i \in 1 .. Len(s) + Len(t) /\ i \in 1 .. Len(s) + Len(q)
      BY <1>0, <1>3, <1>5, <2>1
    <3> QED BY <1>1, <1>2, <1>4, <1>5, <2>1, <3>1
  <2>2. CASE ~(i <= Len(s)) /\ i <= Len(s) + Len(t)
    <3>1. /\ i \in 1 .. Len(s) + Len(t) /\ i \in 1 .. Len(s) + Len(q)
          /\ i - Len(s) \in 1 .. Len(t)
      BY <1>0, <1>3, <1>5, <2>2
    <3>2. v[i] = t[i - Len(s)]
      BY <1>1, <1>2, <1>4, <2>2, <3>1
    <3>3. u[i] = q[i - Len(s)]
      BY <1>5, <2>2, <3>1
    <3> QED BY <1>3, <3>1, <3>2, <3>3
  <2>3. CASE i = Len(s) + Len(t) + 1
    <3>1. /\ i \in 1 .. Len(s) + Len(q) /\ ~(i <= Len(s)) /\ i - Len(s) = Len(t) + 1
      BY <1>0, <1>3, <2>3
    <3>2. u[i] = q[Len(t) + 1]
      BY <1>5, <3>1
    <3> QED BY <1>3, <1>4, <2>3, <3>2
  <2>4. i \in 1 .. (Len(s) + Len(t)) + 1
    BY <1>4, <1>6
  <2>5. \A m, n \in Nat : \A j \in 1 .. (m + n) + 1 : j <= m \/ (~(j <= m) /\ j <= m + n) \/ j = m + n + 1
    OBVIOUS
  <2> QED BY <1>0, <2>1, <2>2, <2>3, <2>4, <2>5
<1>8. u = v
  BY <1>4, <1>5, <1>6, <1>7, SeqEqual
<1> QED BY <1>1, <1>8 DEF u, v

\* A run of a sequence, from place m + 1 to place n.
LEMMA SubSeqShape ==
  ASSUME NEW S, NEW text \in Seq(S), NEW m \in Nat, NEW n \in Nat, m <= n, n <= Len(text)
  PROVE  /\ SubSeq(text, m + 1, n) \in Seq(S)
         /\ Len(SubSeq(text, m + 1, n)) = n - m
         /\ \A i \in 1 .. n - m : SubSeq(text, m + 1, n)[i] = text[m + i]
<1>0. Len(text) \in Nat
  BY LenProperties
<1>1. \A i \in m + 1 .. n : text[i] \in S
  BY <1>0, ElementOfSeq
<1>2. m + 1 \in Int /\ n \in Int
  OBVIOUS
<1>3. /\ SubSeq(text, m + 1, n) \in Seq(S)
      /\ Len(SubSeq(text, m + 1, n)) = IF m + 1 <= n THEN n - (m + 1) + 1 ELSE 0
      /\ \A i \in 1 .. n - (m + 1) + 1 : SubSeq(text, m + 1, n)[i] = text[(m + 1) + i - 1]
  BY <1>1, <1>2, SubSeqProperties
<1>4. n - (m + 1) + 1 = n - m
  OBVIOUS
<1>5. \A i \in 1 .. n - m : (m + 1) + i - 1 = m + i
  OBVIOUS
<1> QED BY <1>3, <1>4, <1>5

\* A number above all others comes last.
LEMMA InOrderGrows ==
  ASSUME NEW S \in SUBSET Nat, IsFiniteSet(S), NEW n \in Nat, \A m \in S : m < n
  PROVE  /\ Cardinality(S \cup {n}) = Cardinality(S) + 1
         /\ InOrder(S \cup {n}) =
              [k \in 1 .. Cardinality(S) + 1 |-> IF k = Cardinality(S) + 1 THEN n ELSE InOrder(S)[k]]
<1> DEFINE c == Cardinality(S)
           old == InOrder(S)
           T == S \cup {n}
           f == [k \in 1 .. c + 1 |-> IF k = c + 1 THEN n ELSE old[k]]
<1>1. /\ c \in Nat /\ old \in [1 .. c -> S] /\ Increasing(old)
      /\ \A m \in S : \E k \in 1 .. c : old[k] = m
  BY InOrderLists
<1>2. T \in SUBSET Nat /\ c + 1 \in Nat /\ n \in T /\ S \subseteq T
  BY <1>1
<1> HIDE DEF c, old
<1>3. \A k \in 1 .. c : f[k] = old[k] /\ old[k] \in S
  BY <1>1
<1>4. f[c + 1] = n
  BY <1>1
<1>5. f \in [1 .. c + 1 -> T]
  <2>1. \A k \in 1 .. c + 1 : k # c + 1 => old[k] \in S
    BY <1>1
  <2> QED BY <1>2, <2>1
<1> HIDE DEF f
<1>6. Increasing(f)
  <2> SUFFICES ASSUME NEW j \in 1 .. c + 1, NEW k \in 1 .. c + 1, j < k PROVE f[j] < f[k]
    BY <1>5 DEF Increasing
  <2>1. j \in 1 .. c
    BY <1>1
  <2>2. CASE k = c + 1
    BY <1>3, <1>4, <2>1, <2>2
  <2>3. CASE k # c + 1
    <3>1. k \in 1 .. c
      BY <1>1, <2>3
    <3> QED BY <1>1, <1>3, <2>1, <3>1 DEF Increasing
  <2> QED BY <2>2, <2>3
<1>7. \A m \in T : \E k \in 1 .. c + 1 : f[k] = m
  <2> TAKE m \in T
  <2>1. CASE m = n
    BY <1>1, <1>4, <2>1
  <2>2. CASE m # n
    <3>1. PICK k \in 1 .. c : old[k] = m
      BY <1>1, <2>2
    <3>2. k \in 1 .. c + 1
      BY <1>1
    <3> QED BY <1>3, <3>1, <3>2
  <2> QED BY <2>1, <2>2
<1> HIDE DEF T
<1>8. Cardinality(T) = c + 1 /\ f = InOrder(T)
  BY <1>2, <1>5, <1>6, <1>7, InOrderOnly
<1> QED BY <1>8 DEF T, c, f, old

\* A filter decides of each element on its own.
LEMMA AtGrows ==
  ASSUME NEW V, NEW seq \in Seq(V), NEW x \in V, NEW S \in SUBSET (1 .. Len(seq))
  PROVE  /\ At(Append(seq, x), S) = At(seq, S)
         /\ At(Append(seq, x), S \cup {Len(seq) + 1}) = Append(At(seq, S), x)
<1> DEFINE n == Len(seq) + 1
           c == Cardinality(S)
           kept == At(seq, S)
           longer == At(Append(seq, x), S \cup {n})
<1>1. /\ Len(seq) \in Nat /\ Append(seq, x) \in Seq(V) /\ Len(Append(seq, x)) = Len(seq) + 1
      /\ \A i \in 1 .. Len(seq) : Append(seq, x)[i] = seq[i]
      /\ Append(seq, x)[Len(seq) + 1] = x
  BY LenProperties, AppendProperties
<1>2. /\ IsFiniteSet(S) /\ c \in Nat /\ kept \in Seq(V) /\ Len(kept) = c
      /\ \A k \in 1 .. c : InOrder(S)[k] \in S /\ kept[k] = seq[InOrder(S)[k]]
  BY AtIsSeq
<1>3. At(Append(seq, x), S) = kept
  <2>1. \A k \in 1 .. c : Append(seq, x)[InOrder(S)[k]] = seq[InOrder(S)[k]]
    BY <1>1, <1>2
  <2> QED BY <2>1 DEF At
<1>4. S \in SUBSET Nat /\ n \in Nat /\ \A m \in S : m < n
  BY <1>1
<1>5. /\ Cardinality(S \cup {n}) = c + 1
      /\ InOrder(S \cup {n}) = [k \in 1 .. c + 1 |-> IF k = c + 1 THEN n ELSE InOrder(S)[k]]
  BY <1>2, <1>4, InOrderGrows
<1>6. S \cup {n} \in SUBSET (1 .. Len(Append(seq, x)))
  <2> HIDE DEF kept, longer, c
  <2>1. n \in 1 .. Len(Append(seq, x)) /\ \A m \in S : m \in 1 .. Len(Append(seq, x))
    BY <1>1
  <2> QED BY <2>1
<1>7. /\ longer \in Seq(V) /\ Len(longer) = c + 1
      /\ \A k \in 1 .. c + 1 : longer[k] = Append(seq, x)[InOrder(S \cup {n})[k]]
  <2>1. PICK more \in Seq(V) : more = Append(seq, x)
    BY <1>1
  <2>2. PICK T \in SUBSET (1 .. Len(more)) : T = S \cup {n}
    BY <1>6, <2>1
  <2> DEFINE w == At(more, T)
  <2>3. /\ w \in Seq(V) /\ Len(w) = Cardinality(T)
        /\ \A k \in 1 .. Cardinality(T) : w[k] = more[InOrder(T)[k]]
    BY AtIsSeq
  <2>4. w = longer
    BY <2>1, <2>2
  <2> HIDE DEF w, longer
  <2> QED BY <1>5, <2>1, <2>2, <2>3, <2>4
<1>8. /\ Append(kept, x) \in Seq(V) /\ Len(Append(kept, x)) = c + 1
      /\ \A k \in 1 .. c : Append(kept, x)[k] = kept[k]
      /\ Append(kept, x)[c + 1] = x
  BY <1>2, AppendProperties
<1> HIDE DEF longer, kept, c
<1>9. ASSUME NEW k \in 1 .. c + 1  PROVE longer[k] = Append(kept, x)[k]
  <2>1. CASE k = c + 1
    <3>1. InOrder(S \cup {n})[k] = n
      BY <1>5, <2>1
    <3> QED BY <1>1, <1>7, <1>8, <2>1, <3>1
  <2>2. CASE k # c + 1
    <3>1. k \in 1 .. c
      BY <1>2, <2>2
    <3>2. InOrder(S \cup {n})[k] = InOrder(S)[k]
      BY <1>5, <2>2
    <3>3. Append(seq, x)[InOrder(S)[k]] = seq[InOrder(S)[k]]
      BY <1>1, <1>2, <3>1
    <3> QED BY <1>2, <1>7, <1>8, <3>1, <3>2, <3>3
  <2> QED BY <2>1, <2>2
<1>10. longer = Append(kept, x)
  BY <1>7, <1>8, <1>9, SeqEqual
<1> QED BY <1>3, <1>10 DEF longer, kept

LEMMA SubSeqOfAppend ==
  ASSUME NEW V, NEW seq \in Seq(V), NEW x \in V, NEW m \in Nat \ {0}, NEW n \in Int, n <= Len(seq)
  PROVE  SubSeq(Append(seq, x), m, n) = SubSeq(seq, m, n)
<1>1. /\ Len(seq) \in Nat
      /\ \A i \in 1 .. Len(seq) : Append(seq, x)[i] = seq[i] /\ seq[i] \in V
  BY LenProperties, ElementOfSeq, AppendProperties
<1>2. \A i \in m .. n : i \in 1 .. Len(seq)
  BY <1>1
<1>3. \A i \in m .. n : Append(seq, x)[i] \in V /\ seq[i] \in V
  BY <1>1, <1>2
<1>4. /\ SubSeq(seq, m, n) \in Seq(V)
      /\ Len(SubSeq(seq, m, n)) = IF m <= n THEN n - m + 1 ELSE 0
      /\ \A i \in 1 .. n - m + 1 : SubSeq(seq, m, n)[i] = seq[m + i - 1]
  BY <1>3, SubSeqProperties
<1>5. /\ SubSeq(Append(seq, x), m, n) \in Seq(V)
      /\ Len(SubSeq(Append(seq, x), m, n)) = IF m <= n THEN n - m + 1 ELSE 0
      /\ \A i \in 1 .. n - m + 1 : SubSeq(Append(seq, x), m, n)[i] = Append(seq, x)[m + i - 1]
  BY <1>3, SubSeqProperties
<1>6. ASSUME NEW i \in 1 .. Len(SubSeq(seq, m, n))
      PROVE  SubSeq(Append(seq, x), m, n)[i] = SubSeq(seq, m, n)[i]
  <2>1. i \in 1 .. n - m + 1 /\ m + i - 1 \in m .. n
    BY <1>4
  <2> QED BY <1>1, <1>2, <1>4, <1>5, <2>1
<1> QED BY <1>4, <1>5, <1>6, SeqEqual

-----------------------------------------------------------------------------
\* The function f holds what a loop through 1 .. n has made of base after each step.
Loop(f, n, base, step) ==
  \A k \in 0 .. n : f[k] = IF k = 0 THEN base ELSE step[k][f[k - 1]]

LEMMA LoopExists ==
  ASSUME NEW n \in Nat, NEW V, NEW base \in V, NEW step \in [1 .. n -> [V -> V]]
  PROVE  \E f \in [0 .. n -> V] : Loop(f, n, base, step)
<1> DEFINE Solves(f, m) == \A k \in 0 .. m : f[k] = IF k = 0 THEN base ELSE step[k][f[k - 1]]
           A == {m \in Nat : m <= n => \E f \in [0 .. m -> V] : Solves(f, m)}
<1>1. 0 \in A
  <2>1. [k \in 0 .. 0 |-> base] \in [0 .. 0 -> V] /\ Solves([k \in 0 .. 0 |-> base], 0)
    OBVIOUS
  <2> QED BY <2>1
<1>2. ASSUME NEW m \in Nat, m \in A  PROVE m + 1 \in A
  <2> SUFFICES ASSUME m + 1 <= n PROVE \E f \in [0 .. m + 1 -> V] : Solves(f, m + 1)
    OBVIOUS
  <2>1. PICK f \in [0 .. m -> V] : Solves(f, m)
    BY <1>2
  <2>2. PICK v \in V : v = step[m + 1][f[m]]
    <3>1. m + 1 \in 1 .. n /\ f[m] \in V
      BY <2>1
    <3> QED BY <3>1
  <2> DEFINE g == [k \in 0 .. m + 1 |-> IF k = m + 1 THEN v ELSE f[k]]
  <2>3. g \in [0 .. m + 1 -> V] /\ g[m + 1] = v /\ \A k \in 0 .. m : g[k] = f[k]
    OBVIOUS
  <2> HIDE DEF g
  <2>4. ASSUME NEW k \in 0 .. m + 1
        PROVE  g[k] = IF k = 0 THEN base ELSE step[k][g[k - 1]]
    <3>1. CASE k = m + 1
      <4>1. k - 1 = m /\ m \in 0 .. m /\ k # 0
        BY <3>1
      <4>2. g[k - 1] = f[m]
        BY <2>3, <4>1
      <4> QED BY <2>2, <2>3, <3>1, <4>1, <4>2
    <3>2. CASE k # m + 1
      <4>1. k \in 0 .. m /\ (k # 0 => k - 1 \in 0 .. m)
        BY <3>2
      <4> QED BY <2>1, <2>3, <4>1
    <3> QED BY <3>1, <3>2
  <2> QED BY <2>3, <2>4
<1> HIDE DEF A
<1>3. n \in A
  <2>1. Nat \subseteq A
    BY <1>1, <1>2, NatInduct
  <2> QED BY <2>1
<1> QED BY <1>3 DEF A, Loop
=============================================================================
