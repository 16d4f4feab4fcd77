------------------------------- MODULE SumLemmas -------------------------------
(***************************************************************************)
(* What the folds of the community modules compute: the sum of the values  *)
(* of a function over a finite set does not depend on the order in which   *)
(* they are taken.  SumFunctionOnSet recurses over an element that CHOOSE  *)
(* picks; these lemmas show that the recursion is well founded, that any   *)
(* element may be taken out, and what follows.                             *)
(*                                                                         *)
(* Induction goes by the least counterexample, the least number in a set,  *)
(* so that no theorem with an operator as its parameter is needed.         *)
(***************************************************************************)
EXTENDS Integers, FiniteSets, Functions, FiniteSetTheorems, WellFoundedInduction, TLAPS

LEMMA LeastNumber ==
  ASSUME NEW B, B \subseteq Nat, B # {}
  PROVE  \E n \in B : \A m \in B : n <= m
<1> DEFINE R == OpToRel(<, Nat)
<1>1. IsWellFoundedOn(R, Nat)
  BY NatLessThanWellFounded
<1>2. \E n \in B : \A m \in B : <<m, n>> \notin R
  <2> HIDE DEF R
  <2>1. QED BY <1>1, WFMin
<1>3. \A m, n \in Nat : m < n => <<m, n>> \in R
  BY DEF OpToRel
<1>4. QED
  <2> HIDE DEF R
  <2>1. PICK n \in B : \A m \in B : <<m, n>> \notin R
    BY <1>2
  <2>2. ASSUME NEW m \in B PROVE n <= m
    <3>1. m \in Nat /\ n \in Nat /\ ~(m < n)
      BY <1>3, <2>1
    <3>2. QED BY <3>1
  <2>3. QED BY <2>2

\* The element that a fold takes next, and the recursion that it follows.
Pick(s) == CHOOSE x \in s : TRUE
Recursion(it, f, D) ==
  it = [s \in D |-> IF s = {} THEN 0 ELSE f[Pick(s)] + it[s \ {Pick(s)}]]

Follows(it, f, S) == IsFiniteSet(S) /\ Recursion(it, f, SUBSET S)
Agree(f, h, S) == \A x \in S : f[x] = h[x]
Integral(f, S) == \A x \in S : f[x] \in Int

LEMMA PickIn == ASSUME NEW s, s # {} PROVE Pick(s) \in s
BY DEF Pick

LEMMA SubsetSizes ==
  ASSUME NEW S, IsFiniteSet(S), NEW s \in SUBSET S
  PROVE  /\ IsFiniteSet(s) /\ Cardinality(s) \in Nat /\ Cardinality(s) <= Cardinality(S)
         /\ s = {} <=> Cardinality(s) = 0
         /\ \A x \in s : s \ {x} \in SUBSET S /\ Cardinality(s \ {x}) = Cardinality(s) - 1
BY FS_Subset, FS_CardinalityType, FS_EmptySet, FS_RemoveElement

\* A function that follows the recursion exists.
LEMMA RecursionExists ==
  ASSUME NEW S, IsFiniteSet(S), NEW f
  PROVE  \E it : Recursion(it, f, SUBSET S)
<1> DEFINE Upto(n) == {s \in SUBSET S : Cardinality(s) <= n}
           Missing == {n \in Nat : ~\E it : Recursion(it, f, Upto(n))}
<1>1. Missing = {}
  <2>1. SUFFICES ASSUME Missing # {} PROVE FALSE
    OBVIOUS
  <2>2. PICK n \in Missing : \A m \in Missing : n <= m
    <3> HIDE DEF Missing
    <3>1. Missing \subseteq Nat
      BY DEF Missing
    <3>2. QED BY <2>1, <3>1, LeastNumber
  <2>3. CASE n = 0
    <3>1. Upto(0) = {{}}
      BY SubsetSizes
    <3>2. Recursion([s \in {{}} |-> 0], f, {{}})
      BY DEF Recursion
    <3>3. QED BY <2>3, <3>1, <3>2
  <2>4. CASE n > 0
    <3>1. n - 1 \in Nat /\ n - 1 \notin Missing
      <4>1. Missing \subseteq Nat
        OBVIOUS
      <4> HIDE DEF Missing
      <4>2. QED BY <2>2, <2>4, <4>1
    <3>2. PICK h : Recursion(h, f, Upto(n - 1))
      BY <3>1
    <3> DEFINE g == [s \in Upto(n) |-> IF s = {} THEN 0 ELSE f[Pick(s)] + h[s \ {Pick(s)}]]
    <3>3. \A s \in Upto(n) : s # {} => s \ {Pick(s)} \in Upto(n - 1) /\ s \ {Pick(s)} \in Upto(n)
      BY <2>2, SubsetSizes, PickIn
    <3>4. \A s \in Upto(n - 1) : s \in Upto(n) /\ g[s] = h[s]
      <4>1. ASSUME NEW s \in Upto(n - 1) PROVE s \in Upto(n)
        BY <2>2, <3>1, SubsetSizes
      <4> HIDE DEF Upto
      <4>2. \A s \in Upto(n - 1) : h[s] = IF s = {} THEN 0 ELSE f[Pick(s)] + h[s \ {Pick(s)}]
        BY <3>2 DEF Recursion
      <4>3. QED BY <4>1, <4>2
    <3>5. Recursion(g, f, Upto(n))
      <4> HIDE DEF Upto
      <4>1. g = [s \in Upto(n) |-> IF s = {} THEN 0 ELSE f[Pick(s)] + g[s \ {Pick(s)}]]
        BY <3>3, <3>4
      <4> HIDE DEF g
      <4>2. QED BY <4>1 DEF Recursion
    <3>6. QED BY <2>2, <3>5
  <2>5. QED BY <2>2, <2>3, <2>4
<1>2. Upto(Cardinality(S)) = SUBSET S /\ Cardinality(S) \in Nat
  BY SubsetSizes, FS_CardinalityType
<1>3. QED BY <1>1, <1>2

LEMMA SumRecursion ==
  ASSUME NEW S, IsFiniteSet(S), NEW f
  PROVE  \E it : Recursion(it, f, SUBSET S) /\ SumFunctionOnSet(f, S) = it[S]
<1> DEFINE it == CHOOSE g :
             g = [s \in SUBSET S |-> IF s = {} THEN 0 ELSE f[Pick(s)] + g[s \ {Pick(s)}]]
<1>1. SumFunctionOnSet(f, S) = it[S]
  BY DEF SumFunctionOnSet, FoldFunctionOnSet, MapThenFoldSet, Pick
<1>2. \E g : g = [s \in SUBSET S |-> IF s = {} THEN 0 ELSE f[Pick(s)] + g[s \ {Pick(s)}]]
  <2>1. PICK h : Recursion(h, f, SUBSET S)
    BY RecursionExists
  <2>2. h = [s \in SUBSET S |-> IF s = {} THEN 0 ELSE f[Pick(s)] + h[s \ {Pick(s)}]]
    BY <2>1 DEF Recursion
  <2>3. QED BY <2>2
<1>3. it = [s \in SUBSET S |-> IF s = {} THEN 0 ELSE f[Pick(s)] + it[s \ {Pick(s)}]]
  BY <1>2
<1> HIDE DEF it
<1>4. QED BY <1>1, <1>3 DEF Recursion

\* Any element may be taken out, not only the one that is picked.
LEMMA TakeOut ==
  ASSUME NEW S, NEW f, NEW it, Follows(it, f, S), Integral(f, S)
  PROVE  /\ it[{}] = 0
         /\ \A t \in SUBSET S : it[t] \in Int
         /\ \A t \in SUBSET S : \A x \in t : it[t] = f[x] + it[t \ {x}]
<1>0. IsFiniteSet(S) /\ Recursion(it, f, SUBSET S)
  BY DEF Follows
<1> DEFINE Good(t) == it[t] \in Int /\ \A x \in t : it[t] = f[x] + it[t \ {x}]
           Bad == {n \in Nat : \E t \in SUBSET S : Cardinality(t) = n /\ ~Good(t)}
<1>1. \A t \in SUBSET S : it[t] = IF t = {} THEN 0 ELSE f[Pick(t)] + it[t \ {Pick(t)}]
  BY <1>0 DEF Recursion
<1>2. it[{}] = 0
  BY <1>1
<1>3. Bad = {}
  <2>1. SUFFICES ASSUME Bad # {} PROVE FALSE
    OBVIOUS
  <2>2. Bad \subseteq Nat
    OBVIOUS
  <2>3. PICK n \in Bad : \A m \in Bad : n <= m
    <3> HIDE DEF Bad
    <3>1. QED BY <2>1, <2>2, LeastNumber
  <2>4. PICK t \in SUBSET S : Cardinality(t) = n /\ ~Good(t)
    BY <2>3
  <2>5. \A u \in SUBSET S : Cardinality(u) < n => Good(u)
    <3>1. SUFFICES ASSUME NEW u \in SUBSET S, Cardinality(u) < n, ~Good(u) PROVE FALSE
      OBVIOUS
    <3>2. Cardinality(u) \in Nat
      BY <1>0, SubsetSizes
    <3>3. Cardinality(u) \in Bad
      BY <3>1, <3>2
    <3> HIDE DEF Bad
    <3>4. QED BY <2>2, <2>3, <3>1, <3>2, <3>3
  <2>6. t # {}
    <3>1. Good({})
      BY <1>2
    <3> HIDE DEF Good, Bad
    <3>2. QED BY <2>4, <3>1
  <2> DEFINE c == Pick(t)
  <2>7. c \in t /\ t \ {c} \in SUBSET S /\ Cardinality(t \ {c}) < n
    BY <2>4, <2>6, PickIn, <1>0, SubsetSizes
  <2>8. it[t] = f[c] + it[t \ {c}]
    BY <1>1, <2>6
  <2> HIDE DEF c, Bad
  <2>9. Good(t \ {c})
    BY <2>5, <2>7
  <2>10. it[t] \in Int
    BY <2>7, <2>8, <2>9 DEF Integral
  <2>11. ASSUME NEW x \in t PROVE it[t] = f[x] + it[t \ {x}]
    <3>1. CASE x = c
      BY <2>8, <3>1
    <3>2. CASE x # c
      <4>1. it[t \ {c}] = f[x] + it[(t \ {c}) \ {x}]
        BY <2>9, <3>2
      <4>0. t \ {x} \in SUBSET S /\ Cardinality(t \ {x}) < n /\ c \in t \ {x}
        BY <2>4, <2>7, <3>2, <1>0, SubsetSizes
      <4>2. Good(t \ {x}) /\ c \in t \ {x} /\ t \ {x} \in SUBSET S
        BY <2>5, <4>0
      <4>3. it[t \ {x}] = f[c] + it[(t \ {x}) \ {c}]
        BY <4>2
      <4>4. (t \ {x}) \ {c} = (t \ {c}) \ {x}
        OBVIOUS
      <4>5. (t \ {x}) \ {c} \in SUBSET S /\ Cardinality((t \ {x}) \ {c}) < n
        BY <2>4, <2>7, <4>2, <1>0, SubsetSizes
      <4>6. it[(t \ {x}) \ {c}] \in Int /\ f[x] \in Int /\ f[c] \in Int
        BY <2>5, <2>7, <4>5 DEF Integral
      <4>7. ASSUME NEW a \in Int, NEW b \in Int, NEW w \in Int, NEW u, NEW v, NEW z,
                   z = a + u, u = b + w, v = a + w
            PROVE  z = b + v
        BY <4>7
      <4>8. it[t] = f[c] + it[t \ {c}] /\ it[t \ {c}] = f[x] + it[(t \ {x}) \ {c}]
        BY <2>8, <4>1, <4>4
      <4>9. QED BY <4>3, <4>6, <4>7, <4>8
    <3>3. QED BY <3>1, <3>2
  <2>12. QED BY <2>4, <2>10, <2>11
<1>4. \A t \in SUBSET S : Good(t)
  <2>1. SUFFICES ASSUME NEW t \in SUBSET S, ~Good(t) PROVE FALSE
    OBVIOUS
  <2>2. Cardinality(t) \in Nat
    BY <1>0, SubsetSizes
  <2>3. QED BY <1>3, <2>1, <2>2
<1>5. QED BY <1>2, <1>4

LEMMA SumEmpty == ASSUME NEW f PROVE SumFunctionOnSet(f, {}) = 0
<1>1. IsFiniteSet({})
  BY FS_EmptySet
<1>2. PICK it : Follows(it, f, {}) /\ SumFunctionOnSet(f, {}) = it[{}]
  BY <1>1, SumRecursion DEF Follows
<1>3. Integral(f, {})
  BY DEF Integral
<1>4. QED BY <1>1, <1>2, <1>3, TakeOut

\* Two functions that agree on a set have one sum over it.
LEMMA SameRecursion ==
  ASSUME NEW S, NEW T, NEW f, NEW h, NEW U, NEW it, NEW ih,
         Follows(it, f, S), Follows(ih, h, T), U \subseteq S, U \subseteq T, Agree(f, h, U)
  PROVE  it[U] = ih[U]
<1>0. /\ IsFiniteSet(S) /\ Recursion(it, f, SUBSET S)
      /\ IsFiniteSet(T) /\ Recursion(ih, h, SUBSET T)
  BY DEF Follows
<1> DEFINE Bad == {n \in Nat : \E t \in SUBSET U : Cardinality(t) = n /\ it[t] # ih[t]}
<1>1. /\ \A t \in SUBSET S : it[t] = IF t = {} THEN 0 ELSE f[Pick(t)] + it[t \ {Pick(t)}]
      /\ \A t \in SUBSET T : ih[t] = IF t = {} THEN 0 ELSE h[Pick(t)] + ih[t \ {Pick(t)}]
  BY <1>0 DEF Recursion
<1>2. IsFiniteSet(U)
  BY <1>0, FS_Subset
<1>3. Bad = {}
  <2>1. SUFFICES ASSUME Bad # {} PROVE FALSE
    OBVIOUS
  <2>2. Bad \subseteq Nat
    OBVIOUS
  <2>3. PICK n \in Bad : \A m \in Bad : n <= m
    <3> HIDE DEF Bad
    <3>1. QED BY <2>1, <2>2, LeastNumber
  <2>4. PICK t \in SUBSET U : Cardinality(t) = n /\ it[t] # ih[t]
    BY <2>3
  <2>5. t # {}
    BY <1>1, <2>4
  <2> DEFINE c == Pick(t)
             u == t \ {c}
  <2>6. c \in t /\ u \in SUBSET U /\ Cardinality(u) \in Nat /\ Cardinality(u) < n
    BY <1>2, <2>4, <2>5, PickIn, SubsetSizes
  <2>7. it[t] = f[c] + it[u] /\ ih[t] = h[c] + ih[u]
    BY <1>1, <2>5
  <2> HIDE DEF c, u
  <2>8. it[u] = ih[u]
    <3>1. SUFFICES ASSUME it[u] # ih[u] PROVE FALSE
      OBVIOUS
    <3>2. Cardinality(u) \in Bad
      BY <2>6, <3>1
    <3> HIDE DEF Bad
    <3>3. QED BY <2>2, <2>3, <2>6, <3>2
  <2>9. f[c] = h[c]
    BY <2>6 DEF Agree
  <2>10. QED BY <2>4, <2>7, <2>8, <2>9
<1>4. Cardinality(U) \in Nat
  BY <1>2, SubsetSizes
<1>5. QED BY <1>3, <1>4

LEMMA SumCongruence ==
  ASSUME NEW S, IsFiniteSet(S), NEW f, NEW h, \A x \in S : f[x] = h[x]
  PROVE  SumFunctionOnSet(f, S) = SumFunctionOnSet(h, S)
<1>1. PICK it : Follows(it, f, S) /\ SumFunctionOnSet(f, S) = it[S]
  BY SumRecursion DEF Follows
<1>2. PICK ih : Follows(ih, h, S) /\ SumFunctionOnSet(h, S) = ih[S]
  BY SumRecursion DEF Follows
<1>3. S \subseteq S /\ Agree(f, h, S)
  BY DEF Agree
<1>4. it[S] = ih[S]
  BY <1>1, <1>2, <1>3, SameRecursion
<1>5. QED BY <1>1, <1>2, <1>4

\* One element more.
LEMMA SumAdd ==
  ASSUME NEW S, IsFiniteSet(S), NEW f, NEW x, x \notin S, \A y \in S \cup {x} : f[y] \in Int
  PROVE  /\ SumFunctionOnSet(f, S) \in Int
         /\ SumFunctionOnSet(f, S \cup {x}) = f[x] + SumFunctionOnSet(f, S)
<1> DEFINE T == S \cup {x}
<1>1. IsFiniteSet(T) /\ S \subseteq T /\ x \in T /\ T \ {x} = S
  BY FS_AddElement
<1> HIDE DEF T
<1>2. PICK it : Follows(it, f, S) /\ SumFunctionOnSet(f, S) = it[S]
  BY SumRecursion DEF Follows
<1>3. PICK ih : Follows(ih, f, T) /\ SumFunctionOnSet(f, T) = ih[T]
  BY <1>1, SumRecursion DEF Follows
<1>a. S \subseteq S /\ Agree(f, f, S)
  BY DEF Agree
<1>4. it[S] = ih[S]
  BY <1>1, <1>2, <1>3, <1>a, SameRecursion
<1>5. Integral(f, T) /\ S \in SUBSET T /\ T \in SUBSET T
  BY <1>1 DEF T, Integral
<1>6. ih[T] = f[x] + ih[T \ {x}] /\ ih[S] \in Int
  <2>1. Follows(ih, f, T) /\ Integral(f, T)
    BY <1>3, <1>5
  <2>2. /\ \A t \in SUBSET T : ih[t] \in Int
        /\ \A t \in SUBSET T : \A y \in t : ih[t] = f[y] + ih[t \ {y}]
    BY <2>1, TakeOut
  <2>3. QED BY <1>1, <1>5, <2>2
<1>7. QED BY <1>1, <1>2, <1>3, <1>4, <1>6 DEF T

\* A sum of natural numbers is one, and none of them exceeds it.
LEMMA SumOfNaturals ==
  ASSUME NEW S, IsFiniteSet(S), NEW f, \A x \in S : f[x] \in Nat
  PROVE  /\ SumFunctionOnSet(f, S) \in Nat
         /\ \A x \in S : f[x] <= SumFunctionOnSet(f, S)
<1>1. PICK it : Follows(it, f, S) /\ SumFunctionOnSet(f, S) = it[S]
  BY SumRecursion DEF Follows
<1>2. Integral(f, S)
  BY DEF Integral
<1>3. /\ it[{}] = 0
      /\ \A t \in SUBSET S : it[t] \in Int
      /\ \A t \in SUBSET S : \A x \in t : it[t] = f[x] + it[t \ {x}]
  BY <1>1, <1>2, TakeOut
<1> DEFINE Bad == {n \in Nat : \E t \in SUBSET S : Cardinality(t) = n /\ it[t] \notin Nat}
<1>4. Bad = {}
  <2>1. SUFFICES ASSUME Bad # {} PROVE FALSE
    OBVIOUS
  <2>2. Bad \subseteq Nat
    OBVIOUS
  <2>3. PICK n \in Bad : \A m \in Bad : n <= m
    <3> HIDE DEF Bad
    <3>1. QED BY <2>1, <2>2, LeastNumber
  <2>4. PICK t \in SUBSET S : Cardinality(t) = n /\ it[t] \notin Nat
    BY <2>3
  <2>a. 0 \in Nat
    OBVIOUS
  <2>b. t # {}
    <3> HIDE DEF Bad
    <3>1. QED BY <1>3, <2>4, <2>a
  <2>5. PICK x \in t : TRUE
    BY <2>b
  <2>6. /\ t \ {x} \in SUBSET S /\ Cardinality(t \ {x}) \in Nat /\ Cardinality(t \ {x}) < n
    BY <2>4, SubsetSizes
  <2>7. it[t \ {x}] \in Nat
    <3>1. SUFFICES ASSUME it[t \ {x}] \notin Nat PROVE FALSE
      OBVIOUS
    <3>2. Cardinality(t \ {x}) \in Bad
      BY <2>6, <3>1
    <3> HIDE DEF Bad
    <3>3. QED BY <2>2, <2>3, <2>6, <3>2
  <2>8. it[t] = f[x] + it[t \ {x}] /\ f[x] \in Nat
    BY <1>3, <2>4
  <2>9. QED BY <2>4, <2>7, <2>8
<1>5. \A t \in SUBSET S : it[t] \in Nat
  <2>1. SUFFICES ASSUME NEW t \in SUBSET S, it[t] \notin Nat PROVE FALSE
    OBVIOUS
  <2>2. Cardinality(t) \in Nat
    BY SubsetSizes
  <2>3. QED BY <1>4, <2>1, <2>2
<1>6. ASSUME NEW x \in S PROVE f[x] <= it[S]
  <2>1. it[S] = f[x] + it[S \ {x}] /\ it[S \ {x}] \in Nat /\ f[x] \in Nat
    BY <1>3, <1>5
  <2>2. QED BY <2>1
<1>7. QED BY <1>1, <1>5, <1>6

\* If D - C is nowhere farther than half of u from d - c, their sums are no farther
\* than half of u for each element.
LEMMA SumsWithin ==
  ASSUME NEW S, IsFiniteSet(S), NEW u \in Nat, NEW d, NEW c, NEW D, NEW C,
         \A x \in S : /\ d[x] \in Int /\ c[x] \in Int /\ D[x] \in Int /\ C[x] \in Int
                     /\ 2 * ((D[x] - C[x]) - (d[x] - c[x])) <= u
                     /\ 2 * ((d[x] - c[x]) - (D[x] - C[x])) <= u
  PROVE  /\ SumFunctionOnSet(d, S) \in Int /\ SumFunctionOnSet(c, S) \in Int
         /\ SumFunctionOnSet(D, S) \in Int /\ SumFunctionOnSet(C, S) \in Int
         /\ LET gap == SumFunctionOnSet(D, S) - SumFunctionOnSet(C, S)
                got == SumFunctionOnSet(d, S) - SumFunctionOnSet(c, S)
            IN 2 * (gap - got) <= u * Cardinality(S) /\ 2 * (got - gap) <= u * Cardinality(S)
<1> DEFINE Total(f, t) == SumFunctionOnSet(f, t)
           Whole(t) == /\ Total(d, t) \in Int /\ Total(c, t) \in Int
                       /\ Total(D, t) \in Int /\ Total(C, t) \in Int
           Gap(t) == (Total(D, t) - Total(C, t)) - (Total(d, t) - Total(c, t))
           Within(t) == /\ Whole(t) /\ Gap(t) \in Int
                        /\ 2 * Gap(t) <= u * Cardinality(t) /\ -(2 * Gap(t)) <= u * Cardinality(t)
           Bad == {n \in Nat : \E t \in SUBSET S : Cardinality(t) = n /\ ~Within(t)}
<1>1. Bad = {}
  <2>1. SUFFICES ASSUME Bad # {} PROVE FALSE
    OBVIOUS
  <2>2. Bad \subseteq Nat
    OBVIOUS
  <2>3. PICK n \in Bad : \A k \in Bad : n <= k
    <3> HIDE DEF Bad
    <3>1. QED BY <2>1, <2>2, LeastNumber
  <2>4. PICK t \in SUBSET S : Cardinality(t) = n /\ ~Within(t)
    BY <2>3
  <2>5. t # {}
    <3>1. \A f : Total(f, {}) = 0
      BY SumEmpty
    <3>2. Cardinality({}) = 0
      BY FS_EmptySet
    <3>3. Within({})
      <4> HIDE DEF Total, Bad
      <4>1. QED BY <3>1, <3>2
    <3> HIDE DEF Within, Bad
    <3>4. QED BY <2>4, <3>3
  <2>6. PICK x \in t : TRUE
    BY <2>5
  <2> DEFINE v == t \ {x}
  <2>7. /\ v \in SUBSET S /\ IsFiniteSet(v) /\ Cardinality(v) \in Nat
        /\ Cardinality(v) = n - 1 /\ n \in Nat
    BY <2>4, SubsetSizes
  <2>8. Within(v)
    <3>1. SUFFICES ASSUME ~Within(v) PROVE FALSE
      OBVIOUS
    <3>2. Cardinality(v) \in Bad
      BY <2>7, <3>1
    <3> HIDE DEF Bad, Within, v
    <3>3. QED BY <2>2, <2>3, <2>7, <3>2
  <2>9. v \cup {x} = t /\ x \notin v /\ x \in S
    BY <2>4
  <2>10. /\ \A y \in v \cup {x} : d[y] \in Int /\ c[y] \in Int
         /\ \A y \in v \cup {x} : D[y] \in Int /\ C[y] \in Int
    BY <2>4
  <2> HIDE DEF v, Bad
  <2>11. /\ Total(d, t) = d[x] + Total(d, v) /\ Total(c, t) = c[x] + Total(c, v)
         /\ Total(D, t) = D[x] + Total(D, v) /\ Total(C, t) = C[x] + Total(C, v)
    BY <2>7, <2>9, <2>10, SumAdd
  <2> HIDE DEF Total
  <2>12. /\ d[x] \in Int /\ c[x] \in Int /\ D[x] \in Int /\ C[x] \in Int
         /\ 2 * ((D[x] - C[x]) - (d[x] - c[x])) <= u
         /\ 2 * ((d[x] - c[x]) - (D[x] - C[x])) <= u
    BY <2>9
  <2>13. Whole(t) /\ Whole(v)
    BY <2>8, <2>11, <2>12
  <2>14. Gap(t) = Gap(v) + ((D[x] - C[x]) - (d[x] - c[x]))
    BY <2>11, <2>12, <2>13
  <2>15. u * n = u * (n - 1) + u
    BY <2>7
  <2>16. Within(t)
    <3>1. /\ Gap(v) \in Int /\ 2 * Gap(v) <= u * (n - 1) /\ -(2 * Gap(v)) <= u * (n - 1)
      BY <2>7, <2>8
    <3> DEFINE g == Gap(v)
               e == (D[x] - C[x]) - (d[x] - c[x])
               w == u * (n - 1)
    <3>2. g \in Int /\ e \in Int /\ w \in Int /\ 2 * e <= u /\ -(2 * e) <= u
          /\ 2 * g <= w /\ -(2 * g) <= w
      BY <2>7, <2>12, <3>1
    <3>3. Gap(t) = g + e /\ u * Cardinality(t) = w + u
      BY <2>4, <2>14, <2>15
    <3> HIDE DEF g, e, w, Gap, Whole
    <3>4. QED BY <2>13, <3>2, <3>3
  <2>17. QED BY <2>4, <2>16
<1>2. S \in SUBSET S /\ Cardinality(S) \in Nat
  BY SubsetSizes
<1>3. Within(S)
  BY <1>1, <1>2
<1> DEFINE X == u * Cardinality(S)
<1>4. /\ Whole(S) /\ 2 * Gap(S) <= X /\ -(2 * Gap(S)) <= X /\ X \in Int
  BY <1>2, <1>3
<1> HIDE DEF X
<1>5. 2 * ((Total(d, S) - Total(c, S)) - (Total(D, S) - Total(C, S))) = -(2 * Gap(S))
  <2>1. \A p, q, s, e \in Int : 2 * ((p - q) - (s - e)) = -(2 * ((s - e) - (p - q)))
    OBVIOUS
  <2> HIDE DEF Total
  <2>2. QED BY <1>4, <2>1
<1>6. QED BY <1>4, <1>5 DEF X

LEMMA SumOfTwo ==
  ASSUME NEW f, NEW a, NEW b, a # b, f[a] \in Int, f[b] \in Int
  PROVE  SumFunctionOnSet(f, {a, b}) = f[a] + f[b]
<1>1. SumFunctionOnSet(f, {} \cup {b}) = f[b] + SumFunctionOnSet(f, {})
  BY FS_EmptySet, SumAdd
<1>2. SumFunctionOnSet(f, {b} \cup {a}) = f[a] + SumFunctionOnSet(f, {b})
  BY FS_Singleton, SumAdd
<1>3. {} \cup {b} = {b} /\ {b} \cup {a} = {a, b}
  OBVIOUS
<1>4. SumFunctionOnSet(f, {a, b}) = f[a] + (f[b] + 0)
  <2>1. SumFunctionOnSet(f, {b}) = f[b] + SumFunctionOnSet(f, {})
    BY <1>1, <1>3
  <2>2. SumFunctionOnSet(f, {b}) = f[b] + 0
    BY <2>1, SumEmpty
  <2>3. SumFunctionOnSet(f, {a, b}) = f[a] + SumFunctionOnSet(f, {b})
    BY <1>2, <1>3
  <2>4. QED BY <2>2, <2>3
<1>5. \A x, y \in Int : x + (y + 0) = x + y
  OBVIOUS
<1>6. QED BY <1>4, <1>5

LEMMA SumOfThree ==
  ASSUME NEW f, NEW a, NEW b, NEW c, a # b, a # c, b # c,
         f[a] \in Int, f[b] \in Int, f[c] \in Int
  PROVE  SumFunctionOnSet(f, {a, b, c}) = f[a] + f[b] + f[c]
<1>1. IsFiniteSet({a, b}) /\ c \notin {a, b} /\ \A y \in {a, b} \cup {c} : f[y] \in Int
  <2>1. IsFiniteSet({a}) /\ {a, b} = {a} \cup {b}
    BY FS_Singleton
  <2>2. IsFiniteSet({a} \cup {b})
    BY <2>1, FS_AddElement
  <2>3. QED BY <2>1, <2>2
<1>2. SumFunctionOnSet(f, {a, b} \cup {c}) = f[c] + SumFunctionOnSet(f, {a, b})
  BY <1>1, SumAdd
<1>3. {a, b} \cup {c} = {a, b, c}
  OBVIOUS
<1>4. SumFunctionOnSet(f, {a, b}) = f[a] + f[b]
  BY SumOfTwo
<1>5. SumFunctionOnSet(f, {a, b, c}) = f[c] + (f[a] + f[b])
  BY <1>2, <1>3, <1>4
<1>6. \A x, y, z \in Int : z + (x + y) = x + y + z
  OBVIOUS
<1>7. QED BY <1>5, <1>6
=============================================================================
