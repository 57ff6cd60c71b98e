---------------------------- MODULE CountProofs ----------------------------
(* That the count the adapters take from the headers of a checkpoint is    *)
(* what the architecture learns, for every family, geometry and number of  *)
(* layers, and that a FITS verdict is no undercount's.                     *)
(*                                                                         *)
(* The counts are sums over sets, folds of the community modules.  The     *)
(* library's induction theorems take a predicate and cannot be             *)
(* instantiated; induction is had from sets instead, by a least element of *)
(* the counterexamples (WFMin).                                            *)
EXTENDS InspectionProofs, FiniteSetTheorems

-----------------------------------------------------------------------------
(* Induction over the naturals and over the subsets of a finite set.       *)

\* Induction over the naturals, for a set of them.
LEMMA NaturalsIn ==
  ASSUME NEW G, 0 \in G, \A n \in Nat : n \in G => n + 1 \in G
  PROVE  Nat \subseteq G
<1> SUFFICES ASSUME Nat \ G # {} PROVE FALSE
  OBVIOUS
<1>1. PICK n \in Nat \ G : \A m \in Nat \ G : ~(<<m, n>> \in OpToRel(<, Nat))
  BY WFMin, NatLessThanWellFounded
<1>2. \A m \in Nat \ G : ~(m < n)
  BY <1>1 DEF OpToRel
<1>3. n # 0 /\ n - 1 \in Nat
  OBVIOUS
<1> QED
  BY <1>2, <1>3

\* Induction over the subsets of a finite set, for a set of them.
LEMMA SubsetsIn ==
  ASSUME NEW S, IsFiniteSet(S), NEW G, {} \in G,
         \A s \in SUBSET S : s # {} /\ (\A x \in s : s \ {x} \in G) => s \in G
  PROVE  SUBSET S \subseteq G
<1> DEFINE H == {n \in Nat : \A s \in SUBSET S : Cardinality(s) = n => s \in G}
<1>1. 0 \in H
  BY FS_EmptySet, FS_Subset
<1>2. ASSUME NEW n \in Nat, n \in H PROVE n + 1 \in H
  <2> SUFFICES ASSUME NEW s \in SUBSET S, Cardinality(s) = n + 1 PROVE s \in G
    OBVIOUS
  <2>1. IsFiniteSet(s)
    BY FS_Subset
  <2>2. s # {}
    BY FS_EmptySet
  <2>3. ASSUME NEW x \in s PROVE s \ {x} \in G
    <3>1. Cardinality(s \ {x}) = Cardinality(s) - 1
      BY <2>1, FS_RemoveElement
    <3> QED
      BY <3>1, <1>2
  <2> QED
    BY <2>2, <2>3
<1> HIDE DEF H
<1>3. Nat \subseteq H
  BY <1>1, <1>2, NaturalsIn
<1>4. ASSUME NEW s \in SUBSET S PROVE s \in G
  <2>1. Cardinality(s) \in Nat
    BY FS_Subset, FS_CardinalityType
  <2> QED
    BY <2>1, <1>3 DEF H
<1> QED
  BY <1>4

-----------------------------------------------------------------------------
(* Sums over finite sets.                                                  *)

First(s) == CHOOSE x \in s : TRUE

\* g[s] is the sum of f over s, for every subset s of S, added up as
\* MapThenSumSet does.
Adds(f, S, g) ==
  g = [s \in SUBSET S |-> IF s = {} THEN 0 ELSE f[First(s)] + g[s \ {First(s)}]]

Sum(f, S) == (CHOOSE g : Adds(f, S, g))[S]

\* The element MapThenSumSet takes next is one of the set.
LEMMA FirstIn ==
  ASSUME NEW s, s # {}
  PROVE  First(s) \in s
  BY DEF First

\* Sums over a set and over a part of it agree on what both add.
LEMMA AddsAgree ==
  ASSUME NEW S, IsFiniteSet(S), NEW T \in SUBSET S, NEW f, NEW g, NEW h,
         Adds(f, S, g), Adds(f, T, h)
  PROVE  \A s \in SUBSET T : g[s] = h[s]
<1> DEFINE G == {s \in SUBSET T : g[s] = h[s]}
<1>1. IsFiniteSet(T)
  BY FS_Subset
<1>2. {} \in G
  BY DEF Adds
<1>3. ASSUME NEW s \in SUBSET T, s # {}, \A x \in s : s \ {x} \in G PROVE s \in G
  <2>1. s \ {First(s)} \in G
    BY <1>3, FirstIn
  <2>2. /\ g[s] = f[First(s)] + g[s \ {First(s)}]
        /\ h[s] = f[First(s)] + h[s \ {First(s)}]
    BY <1>3 DEF Adds
  <2> QED
    BY <2>1, <2>2
<1> HIDE DEF G
<1>4. SUBSET T \subseteq G
  BY <1>1, <1>2, <1>3, SubsetsIn
<1> QED
  BY <1>4 DEF G

\* A finite set can be added up: the recursion defines a function.
LEMMA AddsExists ==
  ASSUME NEW S, IsFiniteSet(S), NEW f
  PROVE  \E g : Adds(f, S, g)
<1> DEFINE Level(n) == {s \in SUBSET S : Cardinality(s) <= n}
           Upto(n, g) == \A s \in Level(n) :
              g[s] = IF s = {} THEN 0 ELSE f[First(s)] + g[s \ {First(s)}]
           G == {n \in Nat : \E g : Upto(n, g)}
<1>1. \A s \in SUBSET S : IsFiniteSet(s) /\ Cardinality(s) \in Nat
  BY FS_Subset, FS_CardinalityType
<1>2. 0 \in G
  <2>1. \A s \in Level(0) : s = {}
    BY <1>1, FS_EmptySet
  <2>2. Upto(0, [s \in {{}} |-> 0])
    BY <2>1
  <2> QED
    BY <2>2
<1>3. ASSUME NEW n \in Nat, n \in G PROVE n + 1 \in G
  <2>1. PICK g : Upto(n, g)
    BY <1>3
  <2> DEFINE h == [s \in Level(n + 1) |->
                     IF s \in Level(n) THEN g[s] ELSE f[First(s)] + g[s \ {First(s)}]]
  <2>2. ASSUME NEW s \in Level(n + 1), s # {}
        PROVE  s \ {First(s)} \in Level(n) /\ s \ {First(s)} \in Level(n + 1)
    <3>1. First(s) \in s /\ Cardinality(s \ {First(s)}) = Cardinality(s) - 1
      BY <2>2, <1>1, FirstIn, FS_RemoveElement
    <3> QED
      BY <3>1, <1>1
  <2>3. ASSUME NEW s \in Level(n + 1)
        PROVE  h[s] = IF s = {} THEN 0 ELSE f[First(s)] + h[s \ {First(s)}]
    <3>1. CASE s = {}
      <4>1. s \in Level(n)
        BY <3>1, FS_EmptySet
      <4> QED
        BY <3>1, <4>1, <2>1
    <3>2. CASE s # {}
      <4>1. h[s \ {First(s)}] = g[s \ {First(s)}]
        BY <3>2, <2>2
      <4>2. h[s] = f[First(s)] + g[s \ {First(s)}]
        BY <3>2, <2>1
      <4> QED
        BY <3>2, <4>1, <4>2
    <3> QED
      BY <3>1, <3>2
  <2> HIDE DEF h
  <2>4. Upto(n + 1, h)
    BY <2>3
  <2> HIDE DEF Upto, Level
  <2>5. \E u : Upto(n + 1, u)
    BY <2>4
  <2> QED
    BY <2>5
<1> HIDE DEF G
<1>4. Cardinality(S) \in G
  BY <1>1, <1>2, <1>3, NaturalsIn
<1>5. PICK g : Upto(Cardinality(S), g)
  BY <1>4 DEF G
<1>6. Level(Cardinality(S)) = SUBSET S
  BY FS_Subset
<1> DEFINE h == [s \in SUBSET S |-> g[s]]
<1>7. Adds(f, S, h)
  <2>1. ASSUME NEW s \in SUBSET S
        PROVE  h[s] = IF s = {} THEN 0 ELSE f[First(s)] + h[s \ {First(s)}]
    <3>1. s \ {First(s)} \in SUBSET S
      OBVIOUS
    <3> QED
      BY <3>1, <1>5, <1>6
  <2>2. h = [s \in SUBSET S |-> h[s]]
    OBVIOUS
  <2> HIDE DEF h
  <2> QED
    BY <2>1, <2>2 DEF Adds
<1> QED
  BY <1>7

\* The sum of every part is what any such function gives it.
LEMMA SumIs ==
  ASSUME NEW S, IsFiniteSet(S), NEW f, NEW g, Adds(f, S, g)
  PROVE  \A s \in SUBSET S : Sum(f, s) = g[s]
<1> TAKE s \in SUBSET S
<1>1. IsFiniteSet(s)
  BY FS_Subset
<1>2. Adds(f, s, CHOOSE h : Adds(f, s, h))
  BY <1>1, AddsExists
<1> QED
  BY <1>2, AddsAgree DEF Sum

\* A sum takes its first element off.
LEMMA SumStep ==
  ASSUME NEW S, IsFiniteSet(S), NEW f
  PROVE  /\ Sum(f, {}) = 0
         /\ S # {} => Sum(f, S) = f[First(S)] + Sum(f, S \ {First(S)})
<1>1. PICK g : Adds(f, S, g)
  BY AddsExists
<1>2. \A s \in SUBSET S : Sum(f, s) = g[s]
  BY <1>1, SumIs
<1>3. {} \in SUBSET S /\ S \in SUBSET S /\ S \ {First(S)} \in SUBSET S
  OBVIOUS
<1>4. g[{}] = 0 /\ (S # {} => g[S] = f[First(S)] + g[S \ {First(S)}])
  BY <1>1, <1>3 DEF Adds
<1> QED
  BY <1>2, <1>3, <1>4

\* Nothing adds up to 0.
LEMMA SumEmpty ==
  ASSUME NEW f
  PROVE  Sum(f, {}) = 0
  BY SumStep, FS_EmptySet

\* A sum of integers is one.
LEMMA SumInt ==
  ASSUME NEW S, IsFiniteSet(S), NEW f, \A x \in S : f[x] \in Int
  PROVE  Sum(f, S) \in Int
<1> DEFINE G == {s \in SUBSET S : Sum(f, s) \in Int}
<1>1. {} \in G
  BY SumEmpty
<1>2. ASSUME NEW s \in SUBSET S, s # {}, \A x \in s : s \ {x} \in G PROVE s \in G
  <2>1. First(s) \in s /\ s \ {First(s)} \in G
    BY <1>2, FirstIn
  <2>2. Sum(f, s) = f[First(s)] + Sum(f, s \ {First(s)})
    BY <1>2, SumStep, FS_Subset
  <2> QED
    BY <2>1, <2>2
<1> HIDE DEF G
<1>3. SUBSET S \subseteq G
  BY <1>1, <1>2, SubsetsIn
<1> QED
  BY <1>3 DEF G

\* The order of adding does not matter.
LEMMA SumRemove ==
  ASSUME NEW S, IsFiniteSet(S), NEW f, \A x \in S : f[x] \in Int, NEW y \in S
  PROVE  Sum(f, S) = f[y] + Sum(f, S \ {y})
<1> DEFINE G == {s \in SUBSET S : \A x \in s : Sum(f, s) = f[x] + Sum(f, s \ {x})}
<1>1. {} \in G
  OBVIOUS
<1>2. ASSUME NEW s \in SUBSET S, s # {}, \A x \in s : s \ {x} \in G PROVE s \in G
  <2> SUFFICES ASSUME NEW x \in s PROVE Sum(f, s) = f[x] + Sum(f, s \ {x})
    OBVIOUS
  <2> DEFINE z == First(s)
             r == (s \ {x}) \ {z}
  <2>1. z \in s /\ Sum(f, s) = f[z] + Sum(f, s \ {z})
    BY SumStep, FS_Subset, FirstIn
  <2>2. CASE z = x
    BY <2>1, <2>2
  <2>3. CASE z # x
    <3> HIDE DEF z
    <3>1. s \ {z} \in G /\ s \ {x} \in G /\ r = (s \ {z}) \ {x}
      BY <2>1, <1>2
    <3>2. Sum(f, s \ {z}) = f[x] + Sum(f, r)
      BY <2>1, <2>3, <3>1
    <3>3. Sum(f, s \ {x}) = f[z] + Sum(f, r)
      BY <2>1, <2>3, <3>1
    <3>4. Sum(f, r) \in Int /\ f[x] \in Int /\ f[z] \in Int
      <4>1. IsFiniteSet(r)
        BY FS_Subset
      <4> QED
        BY <2>1, <4>1, SumInt
    <3> QED
      BY <2>1, <3>2, <3>3, <3>4
  <2> QED
    BY <2>2, <2>3
<1> HIDE DEF G
<1>3. S \in G
  BY <1>1, <1>2, SubsetsIn
<1> QED
  BY <1>3 DEF G

\* The sum over a disjoint union.
LEMMA SumUnion ==
  ASSUME NEW S, IsFiniteSet(S), NEW T, IsFiniteSet(T), S \intersect T = {},
         NEW f, \A x \in S \union T : f[x] \in Int
  PROVE  IsFiniteSet(S \union T) /\ Sum(f, S \union T) = Sum(f, S) + Sum(f, T)
<1> DEFINE G == {t \in SUBSET T : Sum(f, S \union t) = Sum(f, S) + Sum(f, t)}
<1>1. {} \in G
  <2>1. Sum(f, S) \in Int
    BY SumInt
  <2>2. Sum(f, {}) = 0 /\ S \union {} = S
    BY SumEmpty
  <2> QED
    BY <2>1, <2>2
<1>2. ASSUME NEW t \in SUBSET T, t # {}, \A x \in t : t \ {x} \in G PROVE t \in G
  <2>1. PICK x : x \in t
    BY <1>2
  <2>2. IsFiniteSet(t) /\ IsFiniteSet(S \union t)
    BY FS_Subset, FS_Union
  <2>3. Sum(f, t) = f[x] + Sum(f, t \ {x})
    BY <2>1, <2>2, SumRemove
  <2>4. Sum(f, S \union t) = f[x] + Sum(f, (S \union t) \ {x})
    <3>1. \A u \in S \union t : f[u] \in Int
      OBVIOUS
    <3>2. x \in S \union t
      BY <2>1
    <3> HIDE DEF G
    <3> QED
      BY <3>1, <3>2, <2>2, SumRemove
  <2>5. (S \union t) \ {x} = S \union (t \ {x})
    BY <2>1
  <2>6. Sum(f, S \union (t \ {x})) = Sum(f, S) + Sum(f, t \ {x})
    BY <2>1, <1>2
  <2>7. Sum(f, S) \in Int /\ Sum(f, t \ {x}) \in Int /\ f[x] \in Int
    <3>1. IsFiniteSet(t \ {x})
      BY FS_Subset
    <3> QED
      BY <2>1, <3>1, SumInt
  <2> HIDE DEF G
  <2>8. Sum(f, S \union t) = f[x] + (Sum(f, S) + Sum(f, t \ {x}))
    BY <2>4, <2>5, <2>6, Zenon
  <2>9. Sum(f, S \union t) = Sum(f, S) + Sum(f, t)
    BY <2>3, <2>7, <2>8
  <2> QED
    BY <2>9 DEF G
<1> HIDE DEF G
<1>3. T \in G
  BY <1>1, <1>2, SubsetsIn
<1>4. Sum(f, S \union T) = Sum(f, S) + Sum(f, T)
  BY <1>3 DEF G
<1> QED
  BY <1>4, FS_Union

\* Summing over the images of an injection.
LEMMA SumImage ==
  ASSUME NEW S, IsFiniteSet(S), NEW m,
         \A x, y \in S : m[x] = m[y] => x = y,
         NEW f, NEW g, \A x \in S : f[x] = g[m[x]] /\ f[x] \in Int
  PROVE  /\ IsFiniteSet({m[x] : x \in S})
         /\ Sum(f, S) = Sum(g, {m[x] : x \in S})
<1> DEFINE Image(s) == {m[x] : x \in s}
           G == {s \in SUBSET S : IsFiniteSet(Image(s)) /\ Sum(f, s) = Sum(g, Image(s))}
<1>1. {} \in G
  <2>1. Image({}) = {}
    OBVIOUS
  <2> QED
    BY <2>1, SumEmpty, FS_EmptySet
<1>2. ASSUME NEW s \in SUBSET S, s # {}, \A x \in s : s \ {x} \in G PROVE s \in G
  <2>1. PICK x : x \in s
    BY <1>2
  <2>2. IsFiniteSet(s)
    BY FS_Subset
  <2>3. Image(s) = Image(s \ {x}) \union {m[x]} /\ m[x] \notin Image(s \ {x})
    BY <2>1
  <2>4. /\ IsFiniteSet(Image(s \ {x}))
        /\ Sum(f, s \ {x}) = Sum(g, Image(s \ {x}))
    BY <2>1, <1>2
  <2> HIDE DEF G
  <2>6. \A y \in Image(s) : g[y] \in Int
    OBVIOUS
  <2> HIDE DEF Image
  <2>5. IsFiniteSet(Image(s))
    <3>1. IsFiniteSet(Image(s \ {x}) \union {m[x]})
      BY <2>4, FS_AddElement
    <3> QED
      BY <2>3, <3>1, Zenon
  <2>7. m[x] \in Image(s) /\ Image(s) \ {m[x]} = Image(s \ {x})
    BY <2>3
  <2>8. Sum(g, Image(s)) = g[m[x]] + Sum(g, Image(s \ {x}))
    BY <2>5, <2>6, <2>7, SumRemove
  <2>9. Sum(f, s) = f[x] + Sum(f, s \ {x})
    BY <2>1, <2>2, SumRemove
  <2>10. Sum(f, s) = Sum(g, Image(s))
    BY <2>1, <2>4, <2>8, <2>9
  <2> QED
    BY <2>5, <2>10 DEF G
<1> HIDE DEF G
<1>3. S \in G
  BY <1>1, <1>2, SubsetsIn
<1> QED
  BY <1>3 DEF G

\* A sum of naturals is one.
LEMMA SumNatural ==
  ASSUME NEW S, IsFiniteSet(S), NEW f, \A x \in S : f[x] \in Nat
  PROVE  Sum(f, S) \in Nat
<1> DEFINE G == {s \in SUBSET S : Sum(f, s) \in Nat}
<1>1. {} \in G
  BY SumEmpty
<1>2. ASSUME NEW s \in SUBSET S, s # {}, \A x \in s : s \ {x} \in G PROVE s \in G
  <2>1. First(s) \in s /\ s \ {First(s)} \in G
    BY <1>2, FirstIn
  <2>2. Sum(f, s) = f[First(s)] + Sum(f, s \ {First(s)})
    BY <1>2, SumStep, FS_Subset
  <2> QED
    BY <2>1, <2>2
<1> HIDE DEF G
<1>3. SUBSET S \subseteq G
  BY <1>1, <1>2, SubsetsIn
<1> QED
  BY <1>3 DEF G

\* Distinct elements one by one.
LEMMA SumInsert ==
  ASSUME NEW S, IsFiniteSet(S), NEW y, y \notin S,
         NEW f, \A x \in S \union {y} : f[x] \in Int
  PROVE  IsFiniteSet(S \union {y}) /\ Sum(f, S \union {y}) = Sum(f, S) + f[y]
<1>1. IsFiniteSet(S \union {y})
  BY FS_AddElement
<1>2. Sum(f, S \union {y}) = f[y] + Sum(f, (S \union {y}) \ {y})
  BY <1>1, SumRemove
<1>3. (S \union {y}) \ {y} = S
  OBVIOUS
<1>4. Sum(f, S \union {y}) = f[y] + Sum(f, S)
  BY <1>2, <1>3, Zenon
<1>5. Sum(f, S) \in Int /\ f[y] \in Int
  BY SumInt
<1> QED
  BY <1>1, <1>4, <1>5

\* Sums over one, two, three and four elements.
LEMMA SumOfOne ==
  ASSUME NEW a, NEW f, f[a] \in Int
  PROVE  IsFiniteSet({a}) /\ Sum(f, {a}) = f[a]
<1>1. \A x \in {} \union {a} : f[x] \in Int
  OBVIOUS
<1>2. Sum(f, {} \union {a}) = Sum(f, {}) + f[a]
  BY <1>1, FS_EmptySet, SumInsert
<1>3. {} \union {a} = {a}
  OBVIOUS
<1>4. Sum(f, {a}) = 0 + f[a]
  BY <1>2, <1>3, SumEmpty, Zenon
<1>5. IsFiniteSet({a})
  BY FS_Singleton, Zenon
<1> QED
  BY <1>4, <1>5

LEMMA SumOfTwo ==
  ASSUME NEW a, NEW b, a # b, NEW f, f[a] \in Int, f[b] \in Int
  PROVE  IsFiniteSet({a, b}) /\ Sum(f, {a, b}) = f[a] + f[b]
<1>1. IsFiniteSet({a}) /\ Sum(f, {a}) = f[a]
  BY SumOfOne
<1>2. /\ IsFiniteSet({a} \union {b})
      /\ Sum(f, {a} \union {b}) = Sum(f, {a}) + f[b]
  BY <1>1, SumInsert
<1>3. {a} \union {b} = {a, b}
  OBVIOUS
<1> QED
  BY <1>1, <1>2, <1>3, Zenon

LEMMA SumOfThree ==
  ASSUME NEW a, NEW b, NEW d, a # b, a # d, b # d,
         NEW f, f[a] \in Int, f[b] \in Int, f[d] \in Int
  PROVE  IsFiniteSet({a, b, d}) /\ Sum(f, {a, b, d}) = f[a] + f[b] + f[d]
<1>1. IsFiniteSet({a, b}) /\ Sum(f, {a, b}) = f[a] + f[b]
  BY SumOfTwo
<1>2. /\ IsFiniteSet({a, b} \union {d})
      /\ Sum(f, {a, b} \union {d}) = Sum(f, {a, b}) + f[d]
  BY <1>1, SumInsert
<1>3. {a, b} \union {d} = {a, b, d}
  OBVIOUS
<1> QED
  BY <1>1, <1>2, <1>3, Zenon

LEMMA SumOfFour ==
  ASSUME NEW a, NEW b, NEW d, NEW e, a # b, a # d, b # d, a # e, b # e, d # e,
         NEW f, f[a] \in Int, f[b] \in Int, f[d] \in Int, f[e] \in Int
  PROVE  IsFiniteSet({a, b, d, e}) /\ Sum(f, {a, b, d, e}) = f[a] + f[b] + f[d] + f[e]
<1>1. IsFiniteSet({a, b}) /\ Sum(f, {a, b}) = f[a] + f[b]
  BY SumOfTwo
<1>2. IsFiniteSet({d, e}) /\ Sum(f, {d, e}) = f[d] + f[e]
  BY SumOfTwo
<1>3. {a, b} \intersect {d, e} = {} /\ \A x \in {a, b} \union {d, e} : f[x] \in Int
  OBVIOUS
<1>4. /\ IsFiniteSet({a, b} \union {d, e})
      /\ Sum(f, {a, b} \union {d, e}) = Sum(f, {a, b}) + Sum(f, {d, e})
  BY <1>1, <1>2, <1>3, SumUnion
<1>5. {a, b} \union {d, e} = {a, b, d, e}
  OBVIOUS
<1>6. IsFiniteSet({a, b, d, e}) /\ Sum(f, {a, b, d, e}) = (f[a] + f[b]) + (f[d] + f[e])
  BY <1>1, <1>2, <1>4, <1>5, Zenon
<1> QED
  BY <1>6

\* N disjoint finite sets of the same sum.
Joined(L, N) == UNION {L[l] : l \in 0..(N - 1)}

Layered(L, N, f, b) ==
  /\ N \in Nat /\ b \in Int
  /\ \A l \in 0..(N - 1) :
       IsFiniteSet(L[l]) /\ (\A x \in L[l] : f[x] \in Int) /\ Sum(f, L[l]) = b
  /\ \A k, l \in 0..(N - 1) : k # l => L[k] \intersect L[l] = {}

\* Their union adds up to N times that sum.
LEMMA SumLayers ==
  ASSUME NEW L, NEW N, NEW f, NEW b, Layered(L, N, f, b)
  PROVE  IsFiniteSet(Joined(L, N)) /\ Sum(f, Joined(L, N)) = N * b
<1> USE DEF Layered
<1> DEFINE U(n) == UNION {L[l] : l \in 0..(n - 1)}
           G == {n \in Nat : n <= N => IsFiniteSet(U(n)) /\ Sum(f, U(n)) = n * b}
<1>1. 0 \in G
  <2>1. U(0) = {}
    OBVIOUS
  <2> HIDE DEF U
  <2>2. IsFiniteSet(U(0)) /\ Sum(f, U(0)) = 0
    BY <2>1, SumEmpty, FS_EmptySet, Zenon
  <2> QED
    BY <2>2
<1>2. ASSUME NEW n \in Nat, n \in G PROVE n + 1 \in G
  <2> SUFFICES ASSUME n + 1 <= N
               PROVE  IsFiniteSet(U(n + 1)) /\ Sum(f, U(n + 1)) = (n + 1) * b
    OBVIOUS
  <2>1. IsFiniteSet(U(n)) /\ Sum(f, U(n)) = n * b
    BY <1>2
  <2>2. 0..((n + 1) - 1) = 0..(n - 1) \union {n} /\ n \in 0..(N - 1)
    OBVIOUS
  <2>3. U(n + 1) = U(n) \union L[n]
    BY <2>2
  <2>4. U(n) \intersect L[n] = {}
    OBVIOUS
  <2>5. \A x \in U(n) \union L[n] : f[x] \in Int
    OBVIOUS
  <2> HIDE DEF U, G
  <2>6. IsFiniteSet(L[n]) /\ Sum(f, L[n]) = b
    BY <2>2
  <2>7. /\ IsFiniteSet(U(n) \union L[n])
        /\ Sum(f, U(n) \union L[n]) = Sum(f, U(n)) + Sum(f, L[n])
    BY <2>1, <2>4, <2>5, <2>6, SumUnion
  <2>8. IsFiniteSet(U(n + 1)) /\ Sum(f, U(n + 1)) = n * b + b
    BY <2>1, <2>3, <2>6, <2>7, Zenon
  <2>9. n * b + b = (n + 1) * b
    OBVIOUS
  <2> QED
    BY <2>8, <2>9
<1> HIDE DEF G
<1>3. N \in G
  BY <1>1, <1>2, NaturalsIn
<1>4. IsFiniteSet(U(N)) /\ Sum(f, U(N)) = N * b
  BY <1>3 DEF G
<1> QED
  BY <1>4 DEF Joined

-----------------------------------------------------------------------------
(* The sums the modules write with MapThenSumSet.                          *)

\* ElementsOf is a sum of sizes.
LEMMA ElementsAreSum ==
  ASSUME NEW T, IsFiniteSet(T), NEW f, \A t \in T : f[t] = Elements(t.shape)
  PROVE  ElementsOf(T) = Sum(f, T)
<1> DEFINE Iter(g) == g = [s \in SUBSET T |->
             IF s = {} THEN 0
             ELSE Elements((CHOOSE x \in s : TRUE).shape) + g[s \ {CHOOSE x \in s : TRUE}]]
<1>1. ElementsOf(T) = (CHOOSE g : Iter(g))[T]
  BY Zenon DEF ElementsOf, MapThenSumSet, MapThenFoldSet
<1>2. ASSUME NEW s \in SUBSET T, s # {}
      PROVE  f[First(s)] = Elements((CHOOSE x \in s : TRUE).shape)
  BY <1>2 DEF First
<1>3. \A g : Iter(g) <=> Adds(f, T, g)
  BY <1>2 DEF Adds, First
<1> HIDE DEF Iter
<1>4. Adds(f, T, CHOOSE g : Iter(g))
  BY <1>3, AddsExists
<1> QED
  BY <1>1, <1>4, SumIs

\* Biases is a sum of rows.
LEMMA BiasesAreSum ==
  ASSUME NEW c, NEW f, NEW B, B = {p \in Attention \union Mlp : HasBias(c, p)},
         IsFiniteSet(B), \A p \in B : f[p] = Rows(c, p)
  PROVE  Biases(c) = Sum(f, B)
<1> DEFINE Iter(g) == g = [s \in SUBSET B |->
             IF s = {} THEN 0
             ELSE Rows(c, CHOOSE x \in s : TRUE) + g[s \ {CHOOSE x \in s : TRUE}]]
<1>1. Biases(c) = (CHOOSE g : Iter(g))[B]
  BY Zenon DEF Biases, MapThenSumSet, MapThenFoldSet
<1>2. ASSUME NEW s \in SUBSET B, s # {}
      PROVE  f[First(s)] = Rows(c, CHOOSE x \in s : TRUE)
  BY <1>2 DEF First
<1>3. \A g : Iter(g) <=> Adds(f, B, g)
  BY <1>2 DEF Adds, First
<1> HIDE DEF Iter
<1>4. Adds(f, B, CHOOSE g : Iter(g))
  BY <1>3, AddsExists
<1> QED
  BY <1>1, <1>4, SumIs

-----------------------------------------------------------------------------
(* The weights of a family, layer by layer.                                *)

Modules(c) == LayerNorms(c) \union Attention \union Mlp

Biased(c) == {p \in Attention \union Mlp : HasBias(c, p)}

\* The names of one layer's weights.
LayerNames(c, l) ==
  {<<l, m, "weight">> : m \in Modules(c)} \union {<<l, p, "bias">> : p \in Biased(c)}

Sizes(c) == [n \in WeightNames(c) |-> Elements(ShapeOf(c, n))]

\* What one layer learns.
PerLayer(c) ==
  LET s == DecoderSpec(c)
      q == s.heads * s.headDim
      kv == s.kvHeads * s.headDim
  IN s.hidden * (2 * q + 2 * kv) + 3 * s.hidden * c.intermediate + 2 * s.hidden
       + Biases(c) + (IF c.type = "qwen3" THEN 2 * s.headDim ELSE 0)

\* An accepted config has positive dimensions.
Sound(c) ==
  /\ c.type \in Families
  /\ c.layers \in Nat \ {0}
  /\ c.hidden \in Nat \ {0}
  /\ c.heads \in Nat \ {0}
  /\ c.vocab \in Nat \ {0}
  /\ c.intermediate \in Nat \ {0}
  /\ KvHeads(c) \in Nat \ {0}
  /\ HeadDim(c) \in Nat \ {0}

\* What normalize accepts has a positive count of everything.
LEMMA AcceptedIsSound ==
  ASSUME NEW c, Numeric(c), Registered(c), Supported(c)
  PROVE  Sound(c)
<1>1. c.type \in Families
  BY DEF Registered
<1>2. /\ c.layers \in Nat \ {0}
      /\ c.hidden \in Nat \ {0}
      /\ c.heads \in Nat \ {0}
      /\ c.vocab \in Nat \ {0}
      /\ c.intermediate \in Nat \ {0}
  BY DEF Numeric, Supported, Consistent, PositiveInt
<1>3. KvHeads(c) \in Nat \ {0}
  <2>1. KvHeads(c) > 0
    BY DEF Supported, Consistent, PositiveInt
  <2>2. CASE c.kvHeads \notin {Absent, Null}
    <3>1. KvHeads(c) = c.kvHeads
      BY <2>2 DEF KvHeads
    <3> QED
      BY <2>1, <2>2, <3>1 DEF Numeric
  <2>3. CASE c.kvHeads \in {Absent, Null}
    <3>1. CASE c.kvHeads = Absent /\ DefaultKvHeads[c.type] # Absent
      <4>1. KvHeads(c) = DefaultKvHeads[c.type]
        BY <2>3, <3>1 DEF KvHeads
      <4>2. DefaultKvHeads[c.type] \in {8, 32}
        BY <1>1, <3>1 DEF DefaultKvHeads, Families
      <4> QED
        BY <4>1, <4>2
    <3>2. CASE ~(c.kvHeads = Absent /\ DefaultKvHeads[c.type] # Absent)
      <4>1. KvHeads(c) = c.heads
        BY <2>3, <3>2 DEF KvHeads
      <4> QED
        BY <1>2, <4>1
    <3> QED
      BY <3>1, <3>2
  <2> QED
    BY <2>2, <2>3
<1>4. HeadDim(c) \in Nat \ {0}
  <2>1. HeadDim(c) > 0
    BY DEF Supported, Consistent, PositiveInt
  <2>2. CASE UsesDefaultHeadDim(c)
    <3>1. HeadDim(c) = DefaultHeadDim[c.type]
      BY <2>2 DEF HeadDim, UsesDefaultHeadDim, DerivesHeadDim
    <3>2. DefaultHeadDim[c.type] = 128
      BY <1>1, <2>2 DEF DefaultHeadDim, Families, UsesDefaultHeadDim
    <3> QED
      BY <3>1, <3>2
  <2>3. CASE ~UsesDefaultHeadDim(c) /\ DerivesHeadDim(c)
    <3>1. HeadDim(c) = c.hidden \div c.heads
      BY <2>3 DEF HeadDim
    <3>2. c.hidden \div c.heads \in Int
      BY <1>2
    <3> QED
      BY <2>1, <3>1, <3>2
  <2>4. CASE ~UsesDefaultHeadDim(c) /\ ~DerivesHeadDim(c)
    <3>1. HeadDim(c) = c.headDim
      BY <2>4 DEF HeadDim
    <3> QED
      BY <2>1, <2>4, <3>1 DEF Numeric, DerivesHeadDim
  <2> QED
    BY <2>2, <2>3, <2>4
<1> QED
  BY <1>1, <1>2, <1>3, <1>4 DEF Sound

\* The sizes of the weights outside the layers.
LEMMA OuterSizes ==
  ASSUME NEW c, Sound(c)
  PROVE  /\ Elements(ShapeOf(c, Embedding)) = c.vocab * c.hidden
         /\ Elements(ShapeOf(c, Output)) = c.vocab * c.hidden
         /\ Elements(ShapeOf(c, FinalNorm)) = c.hidden
<1>1. /\ ShapeOf(c, Embedding) = <<c.vocab, c.hidden>>
      /\ ShapeOf(c, Output) = <<c.vocab, c.hidden>>
      /\ ShapeOf(c, FinalNorm) = <<c.hidden>>
  BY DEF ShapeOf, Embedding, Output, FinalNorm, DecoderSpec
<1> QED
  BY <1>1 DEF Elements

\* The sizes of the weights of a layer.
LEMMA LayerSizes ==
  ASSUME NEW c, Sound(c), NEW l
  PROVE  LET q == c.heads * HeadDim(c)
             kv == KvHeads(c) * HeadDim(c)
             of(m) == Elements(ShapeOf(c, <<l, m, "weight">>))
         IN /\ of("q_proj") = q * c.hidden
            /\ of("k_proj") = kv * c.hidden
            /\ of("v_proj") = kv * c.hidden
            /\ of("o_proj") = c.hidden * q
            /\ of("gate_proj") = c.intermediate * c.hidden
            /\ of("up_proj") = c.intermediate * c.hidden
            /\ of("down_proj") = c.hidden * c.intermediate
            /\ of("q_norm") = HeadDim(c)
            /\ of("k_norm") = HeadDim(c)
            /\ of("input_layernorm") = c.hidden
            /\ of("post_attention_layernorm") = c.hidden
<1> DEFINE q == c.heads * HeadDim(c)
           kv == KvHeads(c) * HeadDim(c)
           shape(m) == ShapeOf(c, <<l, m, "weight">>)
<1>1. /\ shape("q_proj") = <<q, c.hidden>>
      /\ shape("k_proj") = <<kv, c.hidden>>
      /\ shape("v_proj") = <<kv, c.hidden>>
      /\ shape("o_proj") = <<c.hidden, q>>
  BY DEF ShapeOf, DecoderSpec
<1>2. /\ shape("gate_proj") = <<c.intermediate, c.hidden>>
      /\ shape("up_proj") = <<c.intermediate, c.hidden>>
      /\ shape("down_proj") = <<c.hidden, c.intermediate>>
  BY DEF ShapeOf, DecoderSpec
<1>3. /\ shape("q_norm") = <<HeadDim(c)>>
      /\ shape("k_norm") = <<HeadDim(c)>>
      /\ shape("input_layernorm") = <<c.hidden>>
      /\ shape("post_attention_layernorm") = <<c.hidden>>
  BY DEF ShapeOf, DecoderSpec
<1> HIDE DEF shape
<1>4. \A a, b : Elements(<<a, b>>) = a * b /\ Elements(<<a>>) = a
  BY DEF Elements
<1>5. \A m : Elements(ShapeOf(c, <<l, m, "weight">>)) = Elements(shape(m))
  BY DEF shape
<1> QED
  BY <1>1, <1>2, <1>3, <1>4, <1>5, Zenon

\* A bias has the rows of its projection.
LEMMA BiasSizes ==
  ASSUME NEW c, Sound(c), NEW l, NEW p \in Attention \union Mlp
  PROVE  Elements(ShapeOf(c, <<l, p, "bias">>)) = Rows(c, p) /\ Rows(c, p) \in Nat
<1>1. ShapeOf(c, <<l, p, "bias">>) = <<Rows(c, p)>>
  BY DEF ShapeOf, Rows, DecoderSpec, Attention, Mlp
<1>2. Rows(c, p) \in Nat
  BY DEF Rows, DecoderSpec, Sound, Attention, Mlp
<1> QED
  BY <1>1, <1>2 DEF Elements

\* The products the sizes are made of are naturals.
LEMMA ProductsInt ==
  ASSUME NEW c, Sound(c)
  PROVE  /\ c.heads * HeadDim(c) \in Nat
         /\ KvHeads(c) * HeadDim(c) \in Nat
         /\ c.vocab * c.hidden \in Nat
  BY DEF Sound

\* One layer's weight tensors, their names' modules apart.
LEMMA ModulesSum ==
  ASSUME NEW c, Sound(c), NEW l, NEW w,
         \A m \in Modules(c) : w[m] = Elements(ShapeOf(c, <<l, m, "weight">>))
  PROVE  LET q == c.heads * HeadDim(c)
             kv == KvHeads(c) * HeadDim(c)
         IN /\ IsFiniteSet(Modules(c))
            /\ \A m \in Modules(c) : w[m] \in Nat
            /\ Sum(w, Modules(c)) =
                 c.hidden * (2 * q + 2 * kv) + 3 * c.hidden * c.intermediate + 2 * c.hidden
                   + (IF c.type = "qwen3" THEN 2 * HeadDim(c) ELSE 0)
<1> DEFINE q == c.heads * HeadDim(c)
           kv == KvHeads(c) * HeadDim(c)
           h == c.hidden
           i == c.intermediate
           d == HeadDim(c)
           more == IF c.type = "qwen3" THEN 2 * d ELSE 0
           two == {"input_layernorm", "post_attention_layernorm"}
           heads2 == {"q_norm", "k_norm"}
<1>1. q \in Nat /\ kv \in Nat /\ h \in Nat /\ i \in Nat /\ d \in Nat
  BY ProductsInt DEF Sound
<1>2. /\ w["q_proj"] = q * h /\ w["k_proj"] = kv * h /\ w["v_proj"] = kv * h
      /\ w["o_proj"] = h * q
      /\ w["gate_proj"] = i * h /\ w["up_proj"] = i * h /\ w["down_proj"] = h * i
      /\ w["input_layernorm"] = h /\ w["post_attention_layernorm"] = h
  <2>1. /\ Attention \subseteq Modules(c) /\ Mlp \subseteq Modules(c) /\ two \subseteq Modules(c)
    BY DEF Modules, LayerNorms
  <2>2. \A m \in Attention \union Mlp \union two : w[m] = Elements(ShapeOf(c, <<l, m, "weight">>))
    BY <2>1
  <2> QED
    BY <2>2, LayerSizes DEF Attention, Mlp
<1>3. c.type = "qwen3" => w["q_norm"] = d /\ w["k_norm"] = d
  <2>1. c.type = "qwen3" => heads2 \subseteq Modules(c)
    BY DEF Modules, LayerNorms
  <2> QED
    BY <2>1, LayerSizes
<1> HIDE DEF q, kv, h, i, d
<1>4. q * h \in Nat /\ kv * h \in Nat /\ h * q \in Nat /\ i * h \in Nat /\ h * i \in Nat
  BY <1>1
<1>5. /\ IsFiniteSet(Attention)
      /\ Sum(w, Attention) = q * h + kv * h + kv * h + h * q
  <2>1. /\ IsFiniteSet({"q_proj", "k_proj", "v_proj", "o_proj"})
        /\ Sum(w, {"q_proj", "k_proj", "v_proj", "o_proj"})
             = w["q_proj"] + w["k_proj"] + w["v_proj"] + w["o_proj"]
    BY <1>2, <1>4, SumOfFour
  <2> QED
    BY <1>2, <2>1, Zenon DEF Attention
<1>6. /\ IsFiniteSet(Mlp)
      /\ Sum(w, Mlp) = i * h + i * h + h * i
  <2>1. /\ IsFiniteSet({"gate_proj", "up_proj", "down_proj"})
        /\ Sum(w, {"gate_proj", "up_proj", "down_proj"})
             = w["gate_proj"] + w["up_proj"] + w["down_proj"]
    <3>1. w["gate_proj"] \in Int /\ w["up_proj"] \in Int /\ w["down_proj"] \in Int
      BY <1>2, <1>4
    <3> QED
      BY <3>1, SumOfThree
  <2> QED
    BY <1>2, <2>1, Zenon DEF Mlp
<1>7. IsFiniteSet(two) /\ Sum(w, two) = h + h
  <2>1. IsFiniteSet(two) /\ Sum(w, two) = w["input_layernorm"] + w["post_attention_layernorm"]
    <3>1. w["input_layernorm"] \in Int /\ w["post_attention_layernorm"] \in Int
      BY <1>1, <1>2
    <3> QED
      BY <3>1, SumOfTwo
  <2> QED
    BY <1>2, <2>1, Zenon
<1>8. /\ IsFiniteSet(LayerNorms(c))
      /\ Sum(w, LayerNorms(c)) = 2 * h + more
      /\ \A m \in LayerNorms(c) : w[m] \in Nat
  <2>1. CASE c.type = "qwen3"
    <3>1. IsFiniteSet(heads2) /\ Sum(w, heads2) = w["q_norm"] + w["k_norm"]
      BY <1>1, <1>3, <2>1, SumOfTwo
    <3>2. LayerNorms(c) = two \union heads2
      BY <2>1 DEF LayerNorms
    <3>3. two \intersect heads2 = {} /\ \A m \in two \union heads2 : w[m] \in Nat
      BY <1>1, <1>2, <1>3, <2>1
    <3> HIDE DEF two, heads2
    <3>4. IsFiniteSet(two \union heads2) /\ Sum(w, two \union heads2) = Sum(w, two) + Sum(w, heads2)
      BY <1>7, <3>1, <3>3, SumUnion
    <3>5. Sum(w, LayerNorms(c)) = (h + h) + (w["q_norm"] + w["k_norm"])
      BY <1>7, <3>1, <3>2, <3>4, Zenon
    <3>6. Sum(w, LayerNorms(c)) = 2 * h + more
      BY <1>1, <1>3, <2>1, <3>5
    <3> QED
      BY <3>2, <3>3, <3>4, <3>6, Zenon
  <2>2. CASE c.type # "qwen3"
    <3>1. LayerNorms(c) = two
      BY <2>2 DEF LayerNorms
    <3>2. \A m \in two : w[m] \in Nat
      BY <1>1, <1>2
    <3> HIDE DEF two
    <3>3. Sum(w, LayerNorms(c)) = h + h
      BY <1>7, <3>1, Zenon
    <3>4. Sum(w, LayerNorms(c)) = 2 * h + more
      BY <1>1, <2>2, <3>3
    <3> QED
      BY <1>7, <3>1, <3>2, <3>4, Zenon
  <2> QED
    BY <2>1, <2>2
<1>9. \A m \in Attention \union Mlp : w[m] \in Nat
  BY <1>2, <1>4 DEF Attention, Mlp
<1>10. /\ LayerNorms(c) \intersect Attention = {}
       /\ (LayerNorms(c) \union Attention) \intersect Mlp = {}
  BY DEF LayerNorms, Attention, Mlp
<1> HIDE DEF two, heads2, more
<1>11. /\ IsFiniteSet(LayerNorms(c) \union Attention)
       /\ Sum(w, LayerNorms(c) \union Attention) = Sum(w, LayerNorms(c)) + Sum(w, Attention)
  BY <1>5, <1>8, <1>9, <1>10, SumUnion
<1>12. /\ IsFiniteSet(Modules(c))
       /\ Sum(w, Modules(c)) = Sum(w, LayerNorms(c) \union Attention) + Sum(w, Mlp)
  <2>1. \A m \in (LayerNorms(c) \union Attention) \union Mlp : w[m] \in Int
    BY <1>8, <1>9
  <2> QED
    BY <1>6, <1>10, <1>11, <2>1, SumUnion DEF Modules
<1>13. Sum(w, Modules(c))
         = ((2 * h + more) + (q * h + kv * h + kv * h + h * q)) + (i * h + i * h + h * i)
  BY <1>5, <1>6, <1>8, <1>11, <1>12, Zenon
<1>14. more \in Nat
  BY <1>1 DEF more
<1>15. Sum(w, Modules(c)) = h * (2 * q + 2 * kv) + 3 * h * i + 2 * h + more
  BY <1>1, <1>13, <1>14
<1>16. \A m \in Modules(c) : w[m] \in Nat
  BY <1>8, <1>9 DEF Modules
<1> QED
  BY <1>12, <1>15, <1>16 DEF q, kv, h, i, d, more

\* Every weight has a size.
LEMMA SizesNatural ==
  ASSUME NEW c, Sound(c), NEW l
  PROVE  \A n \in LayerNames(c, l) : Elements(ShapeOf(c, n)) \in Nat
<1> DEFINE w == [m \in Modules(c) |-> Elements(ShapeOf(c, <<l, m, "weight">>))]
<1>1. \A m \in Modules(c) : w[m] = Elements(ShapeOf(c, <<l, m, "weight">>))
  OBVIOUS
<1> HIDE DEF w
<1>2. \A m \in Modules(c) : w[m] \in Nat
  BY <1>1, ModulesSum
<1>3. \A p \in Biased(c) : Elements(ShapeOf(c, <<l, p, "bias">>)) \in Nat
  BY BiasSizes DEF Biased
<1> QED
  BY <1>1, <1>2, <1>3 DEF LayerNames

\* A layer has finitely many biases.
LEMMA BiasedFinite ==
  ASSUME NEW c, Sound(c)
  PROVE  IsFiniteSet(Biased(c))
<1> DEFINE w == [m \in Modules(c) |-> Elements(ShapeOf(c, <<0, m, "weight">>))]
<1>1. \A m \in Modules(c) : w[m] = Elements(ShapeOf(c, <<0, m, "weight">>))
  OBVIOUS
<1> HIDE DEF w
<1>2. IsFiniteSet(Modules(c))
  BY <1>1, ModulesSum
<1>3. Biased(c) \subseteq Modules(c)
  BY DEF Biased, Modules
<1> QED
  BY <1>2, <1>3, FS_Subset

\* What one layer stores is what it learns.
LEMMA LayerSum ==
  ASSUME NEW c, Sound(c), NEW l, NEW f,
         \A n \in LayerNames(c, l) : f[n] = Elements(ShapeOf(c, n))
  PROVE  /\ IsFiniteSet(LayerNames(c, l))
         /\ Sum(f, LayerNames(c, l)) = PerLayer(c)
         /\ PerLayer(c) \in Int
<1> DEFINE weights == {<<l, m, "weight">> : m \in Modules(c)}
           biases == {<<l, p, "bias">> : p \in Biased(c)}
           name == [m \in Modules(c) |-> <<l, m, "weight">>]
           bias == [p \in Biased(c) |-> <<l, p, "bias">>]
           w == [m \in Modules(c) |-> Elements(ShapeOf(c, <<l, m, "weight">>))]
           b == [p \in Biased(c) |-> Elements(ShapeOf(c, <<l, p, "bias">>))]
           q == c.heads * HeadDim(c)
           kv == KvHeads(c) * HeadDim(c)
           most == c.hidden * (2 * q + 2 * kv) + 3 * c.hidden * c.intermediate + 2 * c.hidden
                     + (IF c.type = "qwen3" THEN 2 * HeadDim(c) ELSE 0)
<1>1. /\ IsFiniteSet(Modules(c))
      /\ \A m \in Modules(c) : w[m] \in Nat
      /\ Sum(w, Modules(c)) = most
  <2>1. \A m \in Modules(c) : w[m] = Elements(ShapeOf(c, <<l, m, "weight">>))
    OBVIOUS
  <2> HIDE DEF w
  <2> QED
    BY <2>1, ModulesSum
<1>2. \A m \in Modules(c) : w[m] = f[name[m]]
  BY DEF LayerNames
<1>3. \A m, n \in Modules(c) : name[m] = name[n] => m = n
  OBVIOUS
<1>4. weights = {name[m] : m \in Modules(c)}
  OBVIOUS
<1>5. \A p \in Biased(c) : b[p] = f[bias[p]] /\ b[p] = Rows(c, p) /\ b[p] \in Nat
  BY BiasSizes DEF LayerNames, Biased
<1>6. \A p, n \in Biased(c) : bias[p] = bias[n] => p = n
  OBVIOUS
<1>7. biases = {bias[p] : p \in Biased(c)}
  OBVIOUS
<1> HIDE DEF w, b, name, bias
<1>8. IsFiniteSet(weights) /\ Sum(f, weights) = most
  <2>1. /\ IsFiniteSet({name[m] : m \in Modules(c)})
        /\ Sum(w, Modules(c)) = Sum(f, {name[m] : m \in Modules(c)})
    BY <1>1, <1>2, <1>3, SumImage
  <2> HIDE DEF weights, most
  <2> QED
    BY <1>1, <1>4, <2>1, Zenon
<1>9. IsFiniteSet(biases) /\ Sum(f, biases) = Biases(c)
  <2>1. /\ IsFiniteSet({bias[p] : p \in Biased(c)})
        /\ Sum(b, Biased(c)) = Sum(f, {bias[p] : p \in Biased(c)})
    BY <1>5, <1>6, BiasedFinite, SumImage
  <2>2. Biases(c) = Sum(b, Biased(c))
    BY <1>5, BiasedFinite, BiasesAreSum DEF Biased
  <2> HIDE DEF biases
  <2> QED
    BY <1>7, <2>1, <2>2, Zenon
<1>10. weights \intersect biases = {}
  OBVIOUS
<1>11. \A n \in weights \union biases : f[n] \in Int
  BY SizesNatural DEF LayerNames
<1>12. LayerNames(c, l) = weights \union biases
  BY DEF LayerNames
<1>13. most \in Nat
  BY ProductsInt DEF Sound
<1>14. Biases(c) \in Int
  BY <1>9, <1>11, SumInt
<1>15. PerLayer(c) = most + Biases(c)
  <2>1. PerLayer(c) = c.hidden * (2 * q + 2 * kv) + 3 * c.hidden * c.intermediate + 2 * c.hidden
         + Biases(c) + (IF c.type = "qwen3" THEN 2 * HeadDim(c) ELSE 0)
    BY DEF PerLayer, DecoderSpec
  <2>2. /\ c.hidden * (2 * q + 2 * kv) \in Nat /\ 3 * c.hidden * c.intermediate \in Nat
        /\ 2 * c.hidden \in Nat /\ (IF c.type = "qwen3" THEN 2 * HeadDim(c) ELSE 0) \in Nat
    BY ProductsInt DEF Sound
  <2> QED
    BY <1>14, <2>1, <2>2
<1> HIDE DEF weights, biases, most
<1>16. /\ IsFiniteSet(weights \union biases)
       /\ Sum(f, weights \union biases) = Sum(f, weights) + Sum(f, biases)
  BY <1>8, <1>9, <1>10, <1>11, SumUnion
<1>17. PerLayer(c) \in Int
  BY <1>13, <1>14, <1>15
<1> QED
  BY <1>8, <1>9, <1>12, <1>15, <1>16, <1>17, Zenon

\* A family's weights are the three outside the layers and each layer's.
LEMMA NamesByLayer ==
  ASSUME NEW c, Sound(c)
  PROVE  WeightNames(c) = {Embedding, Output, FinalNorm}
                            \union UNION {LayerNames(c, l) : l \in 0..(c.layers - 1)}
  BY DEF WeightNames, LayerNames, Modules, Biased

\* What a model of untied embeddings stores.
LEMMA WeightsSum ==
  ASSUME NEW c, Sound(c)
  PROVE  /\ IsFiniteSet(WeightNames(c))
         /\ \A n \in WeightNames(c) : Sizes(c)[n] \in Nat
         /\ Sum(Sizes(c), WeightNames(c))
              = c.layers * PerLayer(c) + c.hidden + 2 * (c.vocab * c.hidden)
<1> DEFINE N == c.layers
           L == [l \in 0..(N - 1) |-> LayerNames(c, l)]
           outer == {Embedding, Output, FinalNorm}
           inner == UNION {L[l] : l \in 0..(N - 1)}
           f == Sizes(c)
           vh == c.vocab * c.hidden
<1>1. N \in Nat /\ vh \in Nat /\ c.hidden \in Nat
  BY ProductsInt DEF Sound
<1>2. WeightNames(c) = outer \union inner
  BY NamesByLayer
<1>3. \A n \in WeightNames(c) : f[n] = Elements(ShapeOf(c, n))
  BY DEF Sizes
<1>4. \A l \in 0..(N - 1) : \A n \in LayerNames(c, l) :
        f[n] = Elements(ShapeOf(c, n)) /\ f[n] \in Nat
  BY <1>2, <1>3, SizesNatural
<1>5. /\ f[Embedding] = vh /\ f[Output] = vh /\ f[FinalNorm] = c.hidden
  BY <1>2, <1>3, OuterSizes
<1>6. \A l \in 0..(N - 1) : \A n \in LayerNames(c, l) : n[1] = l
  BY DEF LayerNames
<1>7. \A k, l \in 0..(N - 1) : k # l => L[k] \intersect L[l] = {}
  BY <1>6
<1>8. outer \intersect inner = {}
  <2>1. \A n \in outer : n[1] = -1
    BY DEF Embedding, Output, FinalNorm
  <2>2. \A n \in inner : n[1] \in 0..(N - 1)
    BY <1>6
  <2>3. -1 \notin 0..(N - 1)
    BY <1>1
  <2> HIDE DEF outer, inner
  <2> QED
    BY <2>1, <2>2, <2>3
<1>9. PerLayer(c) \in Int
  <2>1. 0 \in 0..(N - 1)
    BY DEF Sound
  <2> QED
    BY <1>4, <2>1, LayerSum
<1>10. \A l \in 0..(N - 1) : IsFiniteSet(L[l]) /\ Sum(f, L[l]) = PerLayer(c)
  BY <1>4, LayerSum
<1>11. \A l \in 0..(N - 1) : \A n \in L[l] : f[n] \in Int
  BY <1>4
<1> HIDE DEF f, L
<1>12. IsFiniteSet(inner) /\ Sum(f, inner) = N * PerLayer(c)
  <2>1. Layered(L, N, f, PerLayer(c))
    BY <1>1, <1>7, <1>9, <1>10, <1>11 DEF Layered
  <2> QED
    BY <2>1, SumLayers DEF Joined
<1>13. IsFiniteSet(outer) /\ Sum(f, outer) = vh + vh + c.hidden
  <2>1. Embedding # Output /\ Embedding # FinalNorm /\ Output # FinalNorm
    BY DEF Embedding, Output, FinalNorm
  <2>2. f[Embedding] \in Int /\ f[Output] \in Int /\ f[FinalNorm] \in Int
    BY <1>1, <1>5
  <2>3. /\ IsFiniteSet({Embedding, Output})
        /\ Sum(f, {Embedding, Output}) = f[Embedding] + f[Output]
    BY <2>1, <2>2, SumOfTwo
  <2>4. /\ IsFiniteSet({Embedding, Output} \union {FinalNorm})
        /\ Sum(f, {Embedding, Output} \union {FinalNorm})
             = Sum(f, {Embedding, Output}) + f[FinalNorm]
    BY <2>1, <2>2, <2>3, SumInsert
  <2>5. {Embedding, Output} \union {FinalNorm} = outer
    OBVIOUS
  <2> HIDE DEF outer
  <2> QED
    BY <1>5, <2>3, <2>4, <2>5, Zenon
<1>14. \A n \in outer \union inner : f[n] \in Nat
  BY <1>1, <1>4, <1>5 DEF L
<1> HIDE DEF outer, inner
<1>15. /\ IsFiniteSet(outer \union inner)
       /\ Sum(f, outer \union inner) = Sum(f, outer) + Sum(f, inner)
  <2>1. \A n \in outer \union inner : f[n] \in Int
    BY <1>14
  <2> QED
    BY <1>8, <1>12, <1>13, <2>1, SumUnion
<1>16. /\ IsFiniteSet(WeightNames(c))
       /\ Sum(f, WeightNames(c)) = (vh + vh + c.hidden) + N * PerLayer(c)
       /\ \A n \in WeightNames(c) : f[n] \in Nat
  BY <1>2, <1>12, <1>13, <1>14, <1>15, Zenon
<1>17. N * PerLayer(c) \in Int
  BY <1>1, <1>9
<1> HIDE DEF vh
<1>18. Sum(f, WeightNames(c)) = N * PerLayer(c) + c.hidden + 2 * vh
  BY <1>1, <1>16, <1>17
<1> QED
  BY <1>16, <1>18 DEF f, vh

-----------------------------------------------------------------------------
(* The count taken from headers in the standard layout.                    *)

\* There are finitely many rotary buffers.
LEMMA BuffersFinite ==
  ASSUME NEW c, Sound(c)
  PROVE  IsFiniteSet(BufferNames(c))
<1> DEFINE I == (-1)..(c.layers - 1)
           name == [l \in I |-> <<l, "rotary_emb", "inv_freq">>]
           zero == [l \in I |-> 0]
           none == [n \in {name[l] : l \in I} |-> 0]
<1>1. IsFiniteSet(I)
  <2>1. -1 \in Int /\ c.layers - 1 \in Int
    BY DEF Sound
  <2> QED
    BY <2>1, FS_Interval
<1>2. \A k, l \in I : name[k] = name[l] => k = l
  OBVIOUS
<1>3. BufferNames(c) = {name[l] : l \in I}
  <2>1. BufferNames(c) = I \X {"rotary_emb"} \X {"inv_freq"}
    BY DEF BufferNames
  <2> HIDE DEF I
  <2> QED
    BY <2>1
<1>4. \A l \in I : zero[l] = 0 /\ none[name[l]] = 0
  BY <1>3
<1> HIDE DEF I, name, zero, none
<1>5. \A l \in I : zero[l] = none[name[l]] /\ zero[l] \in Int
  BY <1>4
<1>6. /\ IsFiniteSet({name[l] : l \in I})
      /\ Sum(zero, I) = Sum(none, {name[l] : l \in I})
  BY <1>1, <1>2, <1>5, SumImage
<1> QED
  BY <1>3, <1>6, Zenon

\* Headers in the standard layout are finitely many.
LEMMA HeadersFinite ==
  ASSUME NEW c, Sound(c), NEW H, StandardLayout(c, H)
  PROVE  IsFiniteSet(H)
<1> DEFINE names == WeightNames(c) \union BufferNames(c)
           name == [t \in H |-> t.name]
<1>1. \A t \in H : t.name \in names
  BY DEF StandardLayout, ExpectedNames
<1>2. \A t, u \in H : t.name = u.name => t = u
  BY DEF StandardLayout
<1>3. IsFiniteSet(names)
  BY WeightsSum, BuffersFinite, FS_Union
<1> HIDE DEF names
<1>4. name \in Injection(H, names)
  BY <1>1, <1>2 DEF Injection, IsInjective
<1> QED
  BY <1>3, <1>4, FS_Injection

\* Headers add up to the sizes of their names.
LEMMA CountByNames ==
  ASSUME NEW c, Sound(c), NEW H, StandardLayout(c, H), NEW T \in SUBSET H,
         NEW K \in SUBSET WeightNames(c), K = {t.name : t \in T}
  PROVE  ElementsOf(T) = Sum(Sizes(c), K)
<1> DEFINE name == [t \in T |-> t.name]
           f == [t \in T |-> Elements(t.shape)]
<1>1. IsFiniteSet(T)
  BY HeadersFinite, FS_Subset
<1>2. \A t, u \in T : name[t] = name[u] => t = u
  BY DEF StandardLayout
<1>3. \A t \in T : t.name \in K /\ t.name \in WeightNames(c) /\ t.shape = ShapeOf(c, t.name)
  BY DEF StandardLayout
<1>4. \A t \in T : f[t] = Sizes(c)[t.name]
  BY <1>3 DEF Sizes
<1>5. \A t \in T : f[t] = Sizes(c)[name[t]] /\ f[t] \in Int
  <2>1. \A n \in WeightNames(c) : Sizes(c)[n] \in Nat
    BY WeightsSum
  <2> QED
    BY <1>3, <1>4, <2>1
<1>6. \A t \in T : f[t] = Elements(t.shape)
  OBVIOUS
<1>7. K = {name[t] : t \in T}
  OBVIOUS
<1> HIDE DEF name, f
<1>8. Sum(f, T) = Sum(Sizes(c), {name[t] : t \in T})
  BY <1>1, <1>2, <1>5, SumImage
<1>9. ElementsOf(T) = Sum(f, T)
  BY <1>1, <1>6, ElementsAreSum
<1> QED
  BY <1>7, <1>8, <1>9, Zenon

\* The tensors LearnedCount adds.
Learned(c, H) ==
  {t \in H : /\ t.name \notin BufferNames(c)
             /\ ~(c.tied = TRUE /\ t.name = Output /\ \E u \in H : u.name = Embedding)}

\* No weight has the name of a rotary buffer.
LEMMA WeightsAreNoBuffers ==
  ASSUME NEW c
  PROVE  WeightNames(c) \intersect BufferNames(c) = {}
<1>1. \A n \in WeightNames(c) : n[3] \in {"weight", "bias"}
  BY DEF WeightNames, Embedding, Output, FinalNorm
<1>2. \A n \in BufferNames(c) : n[3] = "inv_freq"
  BY DEF BufferNames
<1> QED
  BY <1>1, <1>2

\* Every weight is counted once, one of the tied aliases left out.
LEMMA LearnedNames ==
  ASSUME NEW c, NEW H, StandardLayout(c, H)
  PROVE  {t.name : t \in Learned(c, H)} \in
           IF c.tied = TRUE
           THEN {WeightNames(c) \ {Embedding}, WeightNames(c) \ {Output}}
           ELSE {WeightNames(c)}
<1> DEFINE present == {t.name : t \in H}
           K == {t.name : t \in Learned(c, H)}
           W == WeightNames(c)
<1>1. /\ c.tied = TRUE => {Embedding, Output} \intersect present # {}
      /\ ExpectedNames(c, present) \subseteq present
      /\ present \subseteq ExpectedNames(c, present) \union BufferNames(c)
  BY DEF StandardLayout
<1>2. W \intersect BufferNames(c) = {}
  BY WeightsAreNoBuffers
<1>3. Embedding \in W /\ Output \in W /\ Embedding # Output
  BY DEF WeightNames, Embedding, Output
<1>4. \A n : n \in K <=> /\ n \in present /\ n \notin BufferNames(c)
                         /\ ~(c.tied = TRUE /\ n = Output /\ Embedding \in present)
  BY DEF Learned
<1>5. ExpectedNames(c, present) =
        IF c.tied = TRUE THEN W \ ({Embedding, Output} \ present) ELSE W
  BY DEF ExpectedNames
<1> HIDE DEF present, K, W
<1>6. CASE c.tied = TRUE
  <2>1. CASE Embedding \in present
    <3>1. K = W \ {Output}
      BY <1>1, <1>2, <1>3, <1>4, <1>5, <1>6, <2>1
    <3> QED
      BY <1>6, <3>1 DEF K, W
  <2>2. CASE Embedding \notin present
    <3>1. K = W \ {Embedding}
      BY <1>1, <1>2, <1>3, <1>4, <1>5, <1>6, <2>2
    <3> QED
      BY <1>6, <3>1 DEF K, W
  <2> QED
    BY <2>1, <2>2
<1>7. CASE c.tied # TRUE
  <2>1. K = W
    BY <1>1, <1>2, <1>3, <1>4, <1>5, <1>7
  <2> QED
    BY <1>7, <2>1 DEF K, W
<1> QED
  BY <1>6, <1>7

\* The count of headers in the standard layout is the reference.
LEMMA LearnedIsReference ==
  ASSUME NEW c, Sound(c), NEW H, StandardLayout(c, H)
  PROVE  LearnedCount(c, H) = ReferenceCount(c) /\ ReferenceCount(c) \in Int
<1> DEFINE K == {t.name : t \in Learned(c, H)}
           W == WeightNames(c)
           f == Sizes(c)
           vh == c.vocab * c.hidden
           rest == c.layers * PerLayer(c)
<1>1. /\ IsFiniteSet(W)
      /\ \A n \in W : f[n] \in Int
      /\ Sum(f, W) = rest + c.hidden + 2 * vh
  BY WeightsSum
<1>2. Embedding \in W /\ Output \in W
  BY DEF WeightNames
<1>3. f[Embedding] = vh /\ f[Output] = vh
  BY <1>2, OuterSizes DEF Sizes
<1>4. vh \in Nat /\ c.hidden \in Nat /\ rest \in Int
  <2>1. PerLayer(c) \in Int
    <3>1. 0 \in 0..(c.layers - 1)
      BY DEF Sound
    <3>2. \A n \in LayerNames(c, 0) : f[n] = Elements(ShapeOf(c, n))
      BY <3>1, NamesByLayer DEF Sizes
    <3> QED
      BY <3>2, LayerSum
  <2> QED
    BY <2>1, ProductsInt DEF Sound
<1>5. LearnedCount(c, H) = ElementsOf(Learned(c, H))
  BY DEF LearnedCount, Learned
<1>6. K \subseteq W
  BY LearnedNames
<1>7. LearnedCount(c, H) = Sum(f, K)
  BY <1>5, <1>6, CountByNames DEF Learned
<1>8. ReferenceCount(c) = rest + c.hidden + vh * (IF c.tied = TRUE THEN 1 ELSE 2)
  BY DEF ReferenceCount, PerLayer, DecoderSpec
<1>9. CASE c.tied = TRUE
  <2>1. PICK alias \in {Embedding, Output} : K = W \ {alias}
    BY <1>9, LearnedNames
  <2>2. Sum(f, W) = f[alias] + Sum(f, W \ {alias}) /\ f[alias] = vh
    <3> HIDE DEF f, W
    <3> QED
      BY <1>1, <1>2, <1>3, SumRemove
  <2>3. Sum(f, W \ {alias}) \in Int
    <3>1. IsFiniteSet(W \ {alias})
      BY <1>1, FS_RemoveElement
    <3> HIDE DEF f, W
    <3> QED
      BY <1>1, <3>1, SumInt
  <2> HIDE DEF f, W, K, vh, rest
  <2>4. Sum(f, W \ {alias}) = rest + c.hidden + vh
    BY <1>1, <1>4, <2>2, <2>3
  <2>5. LearnedCount(c, H) = rest + c.hidden + vh
    BY <1>7, <2>1, <2>4, Zenon
  <2> QED
    BY <1>4, <1>8, <1>9, <2>5
<1>10. CASE c.tied # TRUE
  <2>1. K = W
    BY <1>10, LearnedNames
  <2> HIDE DEF f, W, K, vh, rest
  <2>2. LearnedCount(c, H) = rest + c.hidden + 2 * vh
    BY <1>1, <1>7, <2>1, Zenon
  <2>3. ReferenceCount(c) = rest + c.hidden + vh * 2
    BY <1>8, <1>10, Zenon
  <2> QED
    BY <1>4, <2>2, <2>3
<1> QED
  BY <1>9, <1>10

\* What a checkpoint stores is at least what is learned of it.
LEMMA StoredIsEnough ==
  ASSUME NEW c, Sound(c), NEW H, StandardLayout(c, H)
  PROVE  ElementsOf(H) \in Int /\ LearnedCount(c, H) <= ElementsOf(H)
<1> DEFINE f == [t \in H |-> Elements(t.shape)]
           T == Learned(c, H)
<1>1. IsFiniteSet(H) /\ IsFiniteSet(T) /\ IsFiniteSet(H \ T)
  BY HeadersFinite, FS_Subset DEF Learned
<1>2. \A t \in H : f[t] \in Nat
  <2>1. ASSUME NEW t \in H, t.name \in WeightNames(c) PROVE f[t] \in Nat
    <3>1. Sizes(c)[t.name] \in Nat
      BY <2>1, WeightsSum
    <3> QED
      BY <2>1, <3>1 DEF StandardLayout, Sizes
  <2>2. ASSUME NEW t \in H, t.name \in BufferNames(c) PROVE f[t] \in Nat
    <3>1. ShapeOf(c, t.name) = <<HeadDim(c) \div 2>>
      BY <2>2 DEF BufferNames, ShapeOf, DecoderSpec
    <3>2. HeadDim(c) \div 2 \in Nat
      BY DEF Sound
    <3>3. f[t] = Elements(ShapeOf(c, t.name))
      BY DEF StandardLayout
    <3> QED
      BY <3>1, <3>2, <3>3 DEF Elements
  <2>3. \A t \in H : t.name \in WeightNames(c) \union BufferNames(c)
    BY DEF StandardLayout, ExpectedNames
  <2> QED
    BY <2>1, <2>2, <2>3
<1>3. \A t \in H : f[t] = Elements(t.shape)
  OBVIOUS
<1>4. T \union (H \ T) = H /\ T \intersect (H \ T) = {} /\ T \subseteq H
  BY DEF Learned
<1> HIDE DEF f, T
<1>5. ElementsOf(H) = Sum(f, H) /\ ElementsOf(T) = Sum(f, T)
  BY <1>1, <1>3, <1>4, ElementsAreSum
<1>6. Sum(f, T \union (H \ T)) = Sum(f, T) + Sum(f, H \ T)
  <2>1. \A t \in T \union (H \ T) : f[t] \in Int
    BY <1>2, <1>4
  <2> QED
    BY <1>1, <1>4, <2>1, SumUnion
<1>7. Sum(f, T) \in Nat /\ Sum(f, H \ T) \in Nat
  BY <1>1, <1>2, <1>4, SumNatural
<1>8. ElementsOf(H) = Sum(f, T) + Sum(f, H \ T)
  BY <1>4, <1>5, <1>6, Zenon
<1>9. LearnedCount(c, H) = Sum(f, T)
  BY <1>5 DEF LearnedCount, Learned, T
<1> QED
  BY <1>7, <1>8, <1>9

-----------------------------------------------------------------------------
(* The answers.                                                            *)

\* The evidence behind an answer that is no error.
LEMMA AnswerIsJudged ==
  ASSUME PInv, Answered
  PROVE  LET c == config
             s == ParameterSummary(commits[sha].summary)
             k == commits[sha].checkpoint
             h == IF NeedsHeaders(c, s) /\ k # Null THEN TensorInventory(k) ELSE Null
         IN /\ c = commits[sha].config
            /\ Sound(c)
            /\ request \in Requests
            /\ answer = Report(c, ResolveParameters(c, s, h), request)
<1> DEFINE c == config
           s == ParameterSummary(commits[sha].summary)
           k == commits[sha].checkpoint
           h == IF NeedsHeaders(c, s) /\ k # Null THEN TensorInventory(k) ELSE Null
<1>1. /\ sha \in 1..Len(commits) /\ c = commits[sha].config
      /\ answer = JudgeCommit(commits[sha], request) /\ answer # Error
      /\ commits \in Repositories /\ request \in Requests
  BY DEF PInv, Bounds, Gathered, AnswerOfCommit, Answered
<1>2. /\ c # Malformed /\ Registered(c) /\ Supported(c)
      /\ answer = Report(c, ResolveParameters(c, s, h), request)
  BY <1>1 DEF JudgeCommit
<1>3. Numeric(c)
  BY <1>1, <1>2, ConfigsAssumption
<1>4. Sound(c)
  BY <1>2, <1>3, AcceptedIsSound
<1> QED
  BY <1>1, <1>2, <1>4

\* A count from headers comes of headers in the standard layout.
LEMMA HeadersCounted ==
  ASSUME NEW c, NEW s, NEW h, ResolveParameters(c, s, h).source = "safetensors_headers"
  PROVE  StandardLayout(c, h) /\ ResolveParameters(c, s, h).count = LearnedCount(c, h)
<1>1. CASE h = Null /\ ~NeedsHeaders(c, s)
  <2>1. ResolveParameters(c, s, h).source = "hub_safetensors"
    BY <1>1 DEF ResolveParameters, KnownParameters
  <2> QED
    BY <2>1
<1>2. CASE h # Null /\ StandardLayout(c, h)
  <2>1. ResolveParameters(c, s, h) = FromHeaders(c, s, h)
    BY <1>2 DEF ResolveParameters
  <2>2. FromHeaders(c, s, h).count = LearnedCount(c, h)
    BY Zenon DEF FromHeaders, KnownParameters
  <2> QED
    BY <1>2, <2>1, <2>2
<1>3. CASE ~(h = Null /\ ~NeedsHeaders(c, s)) /\ ~(h # Null /\ StandardLayout(c, h))
  <2>1. ResolveParameters(c, s, h).source = "unknown"
    BY <1>3 DEF ResolveParameters, UnknownParameters
  <2> QED
    BY <2>1
<1> QED
  BY <1>1, <1>2, <1>3

\* A count taken from headers is exactly what the architecture learns.
THEOREM HeaderCountCorrect == Spec => []HeaderCountIsReference
<1>1. PInv => HeaderCountIsReference
  <2> SUFFICES ASSUME PInv, Answered, answer.parameters.source = "safetensors_headers"
               PROVE  answer.parameters.count = ReferenceCount(config)
    BY DEF HeaderCountIsReference
  <2> DEFINE c == config
             s == ParameterSummary(commits[sha].summary)
             k == commits[sha].checkpoint
             h == IF NeedsHeaders(c, s) /\ k # Null THEN TensorInventory(k) ELSE Null
  <2>1. Sound(c) /\ answer.parameters = ResolveParameters(c, s, h)
    BY AnswerIsJudged DEF Report
  <2> HIDE DEF c, s, h
  <2>2. StandardLayout(c, h) /\ answer.parameters.count = LearnedCount(c, h)
    BY <2>1, HeadersCounted
  <2>3. answer.parameters.count = ReferenceCount(c)
    BY <2>1, <2>2, LearnedIsReference
  <2> QED
    BY <2>3 DEF c
<1> QED
  BY <1>1, PInvAlways, PTL

\* More parameters never need less.
LEMMA KnownMemoryGrows ==
  ASSUME NEW c, Sound(c), NEW r \in Requests,
         NEW m \in Int, NEW n \in Int, m <= n,
         KnownMemory(DecoderSpec(c), n, r.workload) <= Usable(r.gpu)
  PROVE  KnownMemory(DecoderSpec(c), m, r.workload) <= Usable(r.gpu)
<1> DEFINE w == r.workload
           kvw == KvWorkload(DecoderSpec(c), w)
           e == ElementBytes(w.dtype)
<1>1. e \in {2, 4}
  BY DEF ElementBytes
<1>2. kvw \in Int
  <2>1. /\ c.layers \in Int /\ KvHeads(c) \in Int /\ HeadDim(c) \in Int
        /\ w.prompt + w.output \in Int /\ w.concurrency \in Int
    BY RequestsAssumption DEF Sound, Workloads
  <2> QED
    BY <1>1, <2>1 DEF KvWorkload, KvPerRequest, DecoderSpec, TokensPerRequest
<1>3. Usable(r.gpu) \in Int
  <2>1. Physical(r.gpu) \in Int
    BY RequestsAssumption, GibAssumption DEF Physical, Gpus
  <2>2. Reserved(r.gpu) \in Int
    BY <2>1, RequestsAssumption DEF Reserved, CeilDiv, Gpus
  <2> QED
    BY <2>1, <2>2 DEF Usable
<1>4. m * e \in Int /\ n * e \in Int /\ m * e <= n * e
  BY <1>1
<1>5. \A x : KnownMemory(DecoderSpec(c), x, w) = x * e + kvw
  BY DEF KnownMemory, Weights
<1> HIDE DEF w, kvw, e
<1>6. n * e + kvw <= Usable(r.gpu)
  BY <1>5 DEF w
<1>7. m * e + kvw <= Usable(r.gpu)
  BY <1>2, <1>3, <1>4, <1>6
<1> QED
  BY <1>5, <1>7 DEF w

\* What an answer that fits says of the count.
LEMMA FitsIsKnown ==
  ASSUME NEW c, NEW parameters, NEW r, Report(c, parameters, r).verdict = "fits"
  PROVE  /\ parameters.count # Unknown
         /\ KnownMemory(DecoderSpec(c), parameters.count, r.workload) <= Usable(r.gpu)
<1> DEFINE e == Estimate(DecoderSpec(c), parameters.count, r.workload, r.gpu)
           fit == KnownMemory(DecoderSpec(c), parameters.count, r.workload) <= Usable(r.gpu)
<1>1. Verdict(e) = "fits"
  BY DEF Report
<1>2. e.workloadFits = IF parameters.count = Unknown THEN Unknown ELSE fit
  BY DEF Estimate
<1> HIDE DEF e, fit
<1>3. e.workloadFits # Unknown /\ e.workloadFits
  BY <1>1, Zenon DEF Verdict
<1>4. parameters.count # Unknown
  BY <1>2, <1>3
<1>5. fit
  BY <1>2, <1>3, <1>4, Zenon
<1> QED
  BY <1>4, <1>5 DEF fit

\* A FITS verdict on a standard checkpoint with an honest summary is never an
\* undercount's: what the architecture learns and the cache do fit.
THEOREM FitsCorrect == Spec => []FitsIsSound
<1>1. PInv => FitsIsSound
  <2> SUFFICES ASSUME PInv, Answered, StandardCheckpoint(commits[sha]),
                      HonestSummary(commits[sha]), answer.verdict = "fits"
               PROVE  KnownMemory(DecoderSpec(config), ReferenceCount(config), request.workload)
                        <= Usable(request.gpu)
    BY DEF FitsIsSound
  <2> DEFINE c == config
             raw == commits[sha].summary
             s == ParameterSummary(raw)
             k == commits[sha].checkpoint
             H == TensorInventory(k)
             h == IF NeedsHeaders(c, s) /\ k # Null THEN H ELSE Null
             p == ResolveParameters(c, s, h)
  <2>1. /\ c = commits[sha].config /\ Sound(c) /\ request \in Requests
        /\ answer = Report(c, p, request)
    BY AnswerIsJudged
  <2>2. StandardLayout(c, H) /\ k # Null
    BY <2>1, CompleteIsStandard DEF StandardCheckpoint
  <2>3. /\ LearnedCount(c, H) = ReferenceCount(c) /\ ReferenceCount(c) \in Int
        /\ ElementsOf(H) \in Int /\ ReferenceCount(c) <= ElementsOf(H)
    BY <2>1, <2>2, LearnedIsReference, StoredIsEnough
  <2>4. /\ p.count # Unknown
        /\ KnownMemory(DecoderSpec(c), p.count, request.workload) <= Usable(request.gpu)
    BY <2>1, FitsIsKnown
  <2>5. p.count \in Int /\ ReferenceCount(c) <= p.count
    <3>1. CASE NeedsHeaders(c, s)
      <4>1. H # Null
        BY <2>2, RepositoriesAssumption DEF StandardCheckpoint, PInv, Bounds, Gathered, AnswerOfCommit, Answered
      <4>2. p = FromHeaders(c, s, H)
        BY <2>2, <3>1, <4>1 DEF ResolveParameters
      <4>3. FromHeaders(c, s, H).count = LearnedCount(c, H)
        BY Zenon DEF FromHeaders, KnownParameters
      <4> QED
        BY <2>3, <4>2, <4>3
    <3>2. CASE ~NeedsHeaders(c, s)
      <4>1. p.count = s.total
        BY <3>2 DEF ResolveParameters, KnownParameters
      <4>2. raw # Null /\ s.total = raw.total
        BY <3>2 DEF NeedsHeaders, ParameterSummary
      <4>3. raw.total = ElementsOf(H)
        BY <4>2 DEF HonestSummary
      <4> QED
        BY <2>3, <4>1, <4>2, <4>3
    <3> QED
      BY <3>1, <3>2
  <2> QED
    BY <2>1, <2>3, <2>4, <2>5, KnownMemoryGrows
<1> QED
  BY <1>1, PInvAlways, PTL
====
