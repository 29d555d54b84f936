------------------------------ MODULE SumTheorems ------------------------------
(****************************************************************************)
(* What the sums of the models are, over any finite set: lemmas about       *)
(* SumFunctionOnSet of the community modules, which adds the elements up    *)
(* in an order of its own choosing.  Induction over a set is by its least   *)
(* counterexample (WFMin).                                                  *)
(****************************************************************************)
EXTENDS FiniteSetsExt, FiniteSetTheorems, FunctionTheorems, WellFoundedInduction, TLAPS

--------------------------------------------------------------------------------
(* The definition.                                                          *)

Chosen(s) == CHOOSE x \in s : TRUE

\* g sums f over every subset of S, one chosen element after the other.
Solves(g, f, S) ==
    g = [s \in SUBSET S |-> IF s = {} THEN 0 ELSE f[Chosen(s)] + g[s \ {Chosen(s)}]]

LEMMA Unfold ==
    ASSUME NEW f, NEW S
    PROVE  SumFunctionOnSet(f, S) = (CHOOSE g : Solves(g, f, S))[S]
  BY Zenon DEF SumFunctionOnSet, FoldFunctionOnSet, MapThenFoldSet, Solves, Chosen

LEMMA ChosenIn ==
    ASSUME NEW s, s # {}
    PROVE  Chosen(s) \in s
  BY DEF Chosen

\* A set of finite sets has a least one.
LEMMA LeastSet ==
    ASSUME NEW S, IsFiniteSet(S), NEW T, T \subseteq SUBSET S, T # {}
    PROVE  \E u \in T : \A v \in T : v \subseteq u => v = u
  <1>1. IsWellFoundedOn(StrictSubsetOrdering(S), SUBSET S)
    BY FS_StrictSubsetOrderingWellFounded, FS_FiniteSubsetsOfFinite
  <1>2. PICK u \in T : \A v \in T : ~ (<<v, u>> \in StrictSubsetOrdering(S))
    BY <1>1, WFMin
  <1>3. \A v \in T : v \subseteq u => v = u
    BY <1>2 DEF StrictSubsetOrdering
  <1> QED
    BY <1>3

\* The sum is what is chosen first and the sum of the rest.
Recurs(f, s) ==
    SumFunctionOnSet(f, s) =
        IF s = {} THEN 0 ELSE f[Chosen(s)] + SumFunctionOnSet(f, s \ {Chosen(s)})

\* Whatever solves the equation for a larger set has the sum at s.
Agrees(f, s, S) ==
    \A R \in SUBSET S :
        \A g : s \subseteq R /\ Solves(g, f, R) => g[s] = SumFunctionOnSet(f, s)

LEMMA Recursion ==
    ASSUME NEW S, IsFiniteSet(S), NEW f
    PROVE  \A s \in SUBSET S : Recurs(f, s) /\ Agrees(f, s, S)
  <1> DEFINE T == {s \in SUBSET S : ~ (Recurs(f, s) /\ Agrees(f, s, S))}
  <1>1. SUFFICES ASSUME T # {} PROVE FALSE
    OBVIOUS
  <1>2. PICK s \in T : \A v \in T : v \subseteq s => v = s
    <2>1. T \subseteq SUBSET S
      OBVIOUS
    <2> HIDE DEF T
    <2> QED
      BY <1>1, <2>1, LeastSet
  <1>3. \A v \in SUBSET s : v # s => Recurs(f, v) /\ Agrees(f, v, S)
    BY <1>2
  <1> DEFINE rest == s \ {Chosen(s)}
             value == IF s = {} THEN 0 ELSE f[Chosen(s)] + SumFunctionOnSet(f, rest)
             h == [u \in SUBSET s |-> IF u = s THEN value ELSE SumFunctionOnSet(f, u)]
  <1>4. s # {} => rest \in SUBSET s /\ rest # s
    BY ChosenIn
  <1>5. Solves(h, f, s)
    <2>1. ASSUME NEW u \in SUBSET s
          PROVE  h[u] = IF u = {} THEN 0 ELSE f[Chosen(u)] + h[u \ {Chosen(u)}]
      <3>1. CASE u = s
        BY <1>4, <3>1
      <3>2. CASE u # s
        <4>1. Recurs(f, u) /\ h[u] = SumFunctionOnSet(f, u)
          BY <1>3, <3>2
        <4>2. u # {} => u \ {Chosen(u)} \in SUBSET s /\ u \ {Chosen(u)} # s
          BY <3>2, ChosenIn
        <4>3. u # {} => h[u \ {Chosen(u)}] = SumFunctionOnSet(f, u \ {Chosen(u)})
          BY <4>2
        <4> HIDE DEF h
        <4> QED
          BY <4>1, <4>3 DEF Recurs
      <3> QED
        BY <3>1, <3>2
    <2>2. h = [u \in SUBSET s |-> h[u]]
      OBVIOUS
    <2> HIDE DEF h
    <2> QED
      BY <2>1, <2>2 DEF Solves
  <1>6. ASSUME NEW g, NEW R, s \subseteq R, R \in SUBSET S, Solves(g, f, R)
        PROVE  g[s] = value
    <2>1. g[s] = IF s = {} THEN 0 ELSE f[Chosen(s)] + g[rest]
      BY <1>6 DEF Solves
    <2>2. s # {} => g[rest] = SumFunctionOnSet(f, rest)
      BY <1>3, <1>4, <1>6 DEF Agrees
    <2> QED
      BY <2>1, <2>2
  <1>7. Solves((CHOOSE g : Solves(g, f, s)), f, s)
    BY <1>5
  <1>8. SumFunctionOnSet(f, s) = value
    BY <1>2, <1>6, <1>7, Unfold
  <1> QED
    BY <1>2, <1>6, <1>8 DEF Recurs, Agrees

--------------------------------------------------------------------------------
(* The order does not matter.                                               *)

\* An empty sum is zero.
THEOREM SumOfNone ==
    ASSUME NEW f
    PROVE  SumFunctionOnSet(f, {}) = 0
  <1>1. IsFiniteSet({})
    BY FS_EmptySet
  <1> QED
    BY <1>1, Recursion DEF Recurs

LEMMA SumType ==
    ASSUME NEW S, IsFiniteSet(S), NEW f, \A x \in S : f[x] \in Int
    PROVE  \A s \in SUBSET S : SumFunctionOnSet(f, s) \in Int
  <1> DEFINE T == {s \in SUBSET S : SumFunctionOnSet(f, s) \notin Int}
  <1>1. SUFFICES ASSUME T # {} PROVE FALSE
    OBVIOUS
  <1>2. PICK s \in T : \A v \in T : v \subseteq s => v = s
    <2>1. T \subseteq SUBSET S
      OBVIOUS
    <2> HIDE DEF T
    <2> QED
      BY <1>1, <2>1, LeastSet
  <1>3. Recurs(f, s)
    BY <1>2, Recursion
  <1>4. s # {}
    <2>1. 0 \in Int
      OBVIOUS
    <2> QED
      BY <1>2, <2>1, SumOfNone
  <1>5. Chosen(s) \in s
    BY <1>4, ChosenIn
  <1>6. SumFunctionOnSet(f, s \ {Chosen(s)}) \in Int
    BY <1>2, <1>5
  <1> QED
    BY <1>2, <1>3, <1>4, <1>5, <1>6 DEF Recurs

LEMMA AnyFirst ==
    ASSUME NEW S, IsFiniteSet(S), NEW f, \A x \in S : f[x] \in Int
    PROVE  \A s \in SUBSET S : \A x \in s :
               SumFunctionOnSet(f, s) = f[x] + SumFunctionOnSet(f, s \ {x})
  <1> DEFINE Sum(s) == SumFunctionOnSet(f, s)
             T == {s \in SUBSET S : \E x \in s : Sum(s) # f[x] + Sum(s \ {x})}
  <1> HIDE DEF Sum
  <1>1. SUFFICES ASSUME T # {} PROVE FALSE
    BY DEF Sum
  <1>2. PICK s \in T : \A v \in T : v \subseteq s => v = s
    <2>1. T \subseteq SUBSET S
      OBVIOUS
    <2> HIDE DEF T
    <2> QED
      BY <1>1, <2>1, LeastSet
  <1>3. PICK x \in s : Sum(s) # f[x] + Sum(s \ {x})
    BY <1>2
  <1> DEFINE c == Chosen(s)
  <1>4. c \in s
    BY <1>3, ChosenIn
  <1> HIDE DEF c
  <1>a. \A v \in SUBSET S : v \subseteq s /\ v # s =>
            \A y \in v : Sum(v) = f[y] + Sum(v \ {y})
    BY <1>2
  <1>5. Sum(s) = f[c] + Sum(s \ {c})
    BY <1>2, <1>3, Recursion DEF Recurs, Sum, c
  <1>6. x # c
    BY <1>3, <1>5
  <1>7. Sum(s \ {c}) = f[x] + Sum((s \ {c}) \ {x})
    BY <1>a, <1>4, <1>6
  <1>8. Sum(s \ {x}) = f[c] + Sum((s \ {x}) \ {c})
    BY <1>a, <1>3, <1>4, <1>6
  <1>9. Sum((s \ {c}) \ {x}) = Sum((s \ {x}) \ {c})
    <2>1. (s \ {c}) \ {x} = (s \ {x}) \ {c}
      OBVIOUS
    <2> QED
      BY <2>1, Zenon
  <1>10. Sum((s \ {x}) \ {c}) \in Int /\ f[x] \in Int /\ f[c] \in Int
    BY <1>2, <1>3, <1>4, SumType DEF Sum
  <1>11. \A a, b, z \in Int : b + (a + z) = a + (b + z)
    OBVIOUS
  <1>12. f[c] + (f[x] + Sum((s \ {x}) \ {c})) = f[x] + (f[c] + Sum((s \ {x}) \ {c}))
    BY <1>10, <1>11, Zenon
  <1> QED
    BY <1>3, <1>5, <1>7, <1>8, <1>9, <1>12, Zenon

\* Any element may be added first.
THEOREM SumOfRest ==
    ASSUME NEW S, IsFiniteSet(S), NEW f, \A y \in S : f[y] \in Int, NEW x \in S
    PROVE  /\ SumFunctionOnSet(f, S) \in Int
           /\ SumFunctionOnSet(f, S \ {x}) \in Int
           /\ SumFunctionOnSet(f, S) = f[x] + SumFunctionOnSet(f, S \ {x})
  BY SumType, AnyFirst

--------------------------------------------------------------------------------
(* Sums that are compared.                                                  *)

\* Functions that agree on a set have the same sum over it; larger values have a
\* larger sum.
LEMMA SumCompared ==
    ASSUME NEW S, IsFiniteSet(S), NEW f, NEW g,
           \A x \in S : f[x] \in Int /\ g[x] \in Int /\ f[x] <= g[x]
    PROVE  \A s \in SUBSET S : SumFunctionOnSet(f, s) <= SumFunctionOnSet(g, s)
  <1> DEFINE T == {s \in SUBSET S : ~ (SumFunctionOnSet(f, s) <= SumFunctionOnSet(g, s))}
  <1>1. SUFFICES ASSUME T # {} PROVE FALSE
    OBVIOUS
  <1>2. PICK s \in T : \A v \in T : v \subseteq s => v = s
    <2>1. T \subseteq SUBSET S
      OBVIOUS
    <2> HIDE DEF T
    <2> QED
      BY <1>1, <2>1, LeastSet
  <1>3. s # {}
    <2>1. SumFunctionOnSet(f, {}) <= SumFunctionOnSet(g, {})
      BY SumOfNone
    <2> QED
      BY <1>2, <2>1
  <1>4. PICK x \in s : TRUE
    BY <1>3
  <1>5. IsFiniteSet(s)
    BY FS_Subset
  <1>6. /\ SumFunctionOnSet(f, s) = f[x] + SumFunctionOnSet(f, s \ {x})
        /\ SumFunctionOnSet(g, s) = g[x] + SumFunctionOnSet(g, s \ {x})
        /\ SumFunctionOnSet(f, s \ {x}) \in Int /\ SumFunctionOnSet(g, s \ {x}) \in Int
    BY <1>4, <1>5, SumOfRest
  <1>7. SumFunctionOnSet(f, s \ {x}) <= SumFunctionOnSet(g, s \ {x})
    BY <1>2, <1>4
  <1> QED
    BY <1>2, <1>4, <1>6, <1>7

\* Larger values have the larger sum.
THEOREM SumMonotone ==
    ASSUME NEW S, IsFiniteSet(S), NEW f, NEW g,
           \A x \in S : f[x] \in Int /\ g[x] \in Int /\ f[x] <= g[x]
    PROVE  SumFunctionOnSet(f, S) <= SumFunctionOnSet(g, S)
  BY SumCompared

\* Only the values on the set count.
THEOREM SumAgrees ==
    ASSUME NEW S, IsFiniteSet(S), NEW f, NEW g, \A x \in S : f[x] \in Int /\ f[x] = g[x]
    PROVE  SumFunctionOnSet(f, S) = SumFunctionOnSet(g, S)
  <1>1. SumFunctionOnSet(f, S) <= SumFunctionOnSet(g, S)
    BY SumMonotone
  <1>2. SumFunctionOnSet(g, S) <= SumFunctionOnSet(f, S)
    BY SumMonotone
  <1>3. SumFunctionOnSet(f, S) \in Int /\ SumFunctionOnSet(g, S) \in Int
    BY SumType
  <1> QED
    BY <1>1, <1>2, <1>3

\* One value changes, and the sum by as much.
THEOREM SumChanged ==
    ASSUME NEW S, IsFiniteSet(S), NEW f, NEW g, \A x \in S : f[x] \in Int /\ g[x] \in Int,
           NEW y \in S, \A x \in S \ {y} : g[x] = f[x]
    PROVE  /\ SumFunctionOnSet(f, S) \in Int /\ SumFunctionOnSet(g, S) \in Int
           /\ SumFunctionOnSet(g, S) = SumFunctionOnSet(f, S) + g[y] - f[y]
  <1>1. IsFiniteSet(S \ {y})
    BY FS_RemoveElement
  <1>2. SumFunctionOnSet(f, S \ {y}) = SumFunctionOnSet(g, S \ {y})
    BY <1>1, SumAgrees
  <1>3. /\ SumFunctionOnSet(f, S) \in Int /\ SumFunctionOnSet(f, S \ {y}) \in Int
        /\ SumFunctionOnSet(f, S) = f[y] + SumFunctionOnSet(f, S \ {y})
    BY SumOfRest
  <1>4. /\ SumFunctionOnSet(g, S) \in Int
        /\ SumFunctionOnSet(g, S) = g[y] + SumFunctionOnSet(g, S \ {y})
    BY SumOfRest
  <1> QED
    BY <1>2, <1>3, <1>4

--------------------------------------------------------------------------------
(* Sums over parts of a set, and under other names.                         *)

\* What is not negative makes a sum larger.
LEMMA SumOfMore ==
    ASSUME NEW S, IsFiniteSet(S), NEW f, \A x \in S : f[x] \in Nat
    PROVE  \A s \in SUBSET S :
              /\ SumFunctionOnSet(f, s) \in Nat
              /\ \A x \in s : f[x] <= SumFunctionOnSet(f, s)
  <1> DEFINE T == {s \in SUBSET S : SumFunctionOnSet(f, s) \notin Nat}
  <1>1. ASSUME T # {}
        PROVE  FALSE
    <2>1. PICK s \in T : \A v \in T : v \subseteq s => v = s
      <3>1. T \subseteq SUBSET S
        OBVIOUS
      <3> HIDE DEF T
      <3> QED
        BY <1>1, <3>1, LeastSet
    <2>2. 0 \in Nat
      OBVIOUS
    <2>3. PICK x \in s : TRUE
      BY <2>1, <2>2, SumOfNone
    <2>4. IsFiniteSet(s)
      BY FS_Subset
    <2>5. SumFunctionOnSet(f, s) = f[x] + SumFunctionOnSet(f, s \ {x})
      BY <2>3, <2>4, SumOfRest
    <2>6. SumFunctionOnSet(f, s \ {x}) \in Nat
      BY <2>1, <2>3
    <2> QED
      BY <2>1, <2>3, <2>5, <2>6
  <1>2. ASSUME NEW s \in SUBSET S, NEW x \in s
        PROVE  f[x] <= SumFunctionOnSet(f, s)
    <2>1. IsFiniteSet(s)
      BY FS_Subset
    <2>2. SumFunctionOnSet(f, s) = f[x] + SumFunctionOnSet(f, s \ {x})
      BY <2>1, SumOfRest
    <2>3. SumFunctionOnSet(f, s \ {x}) \in Nat
      BY <1>1
    <2> QED
      BY <2>2, <2>3
  <1> QED
    BY <1>1, <1>2

\* A sum of naturals is one, and no smaller than any of them.
THEOREM SumNatural ==
    ASSUME NEW S, IsFiniteSet(S), NEW f, \A x \in S : f[x] \in Nat
    PROVE  /\ SumFunctionOnSet(f, S) \in Nat
           /\ \A x \in S : f[x] <= SumFunctionOnSet(f, S)
  BY SumOfMore

\* What is zero does not count.
LEMMA SumOfParts ==
    ASSUME NEW S, IsFiniteSet(S), NEW f, \A x \in S : f[x] \in Int,
           NEW R, R \subseteq S
    PROVE  \A s \in SUBSET S : R \subseteq s /\ (\A x \in s \ R : f[x] = 0) =>
               SumFunctionOnSet(f, s) = SumFunctionOnSet(f, R)
  <1> DEFINE Wrong(s) == /\ R \subseteq s /\ \A x \in s \ R : f[x] = 0
                         /\ SumFunctionOnSet(f, s) # SumFunctionOnSet(f, R)
             T == {s \in SUBSET S : Wrong(s)}
  <1>1. SUFFICES ASSUME T # {} PROVE FALSE
    OBVIOUS
  <1>2. PICK s \in T : \A v \in T : v \subseteq s => v = s
    <2>1. T \subseteq SUBSET S
      OBVIOUS
    <2> HIDE DEF T
    <2> QED
      BY <1>1, <2>1, LeastSet
  <1>3. s \subseteq S /\ Wrong(s)
    BY <1>2
  <1>4. s # R
    BY <1>3
  <1>5. PICK x \in s : x \notin R
    BY <1>3, <1>4
  <1>6. f[x] = 0
    BY <1>3, <1>5
  <1>7. s \ {x} \notin T
    BY <1>2, <1>5
  <1>8. SumFunctionOnSet(f, s \ {x}) = SumFunctionOnSet(f, R)
    BY <1>3, <1>5, <1>7
  <1>9. /\ SumFunctionOnSet(f, s \ {x}) \in Int
        /\ SumFunctionOnSet(f, s) = f[x] + SumFunctionOnSet(f, s \ {x})
    <2>1. IsFiniteSet(s) /\ \A y \in s : f[y] \in Int
      BY <1>3, FS_Subset
    <2> QED
      BY <1>5, <2>1, SumOfRest
  <1>10. SumFunctionOnSet(f, s) = SumFunctionOnSet(f, R)
    BY <1>6, <1>8, <1>9
  <1> QED
    BY <1>3, <1>10

THEOREM SumOfPart ==
    ASSUME NEW S, IsFiniteSet(S), NEW f, \A x \in S : f[x] \in Int,
           NEW R, R \subseteq S, \A x \in S \ R : f[x] = 0
    PROVE  SumFunctionOnSet(f, S) = SumFunctionOnSet(f, R)
  BY SumOfParts

LEMMA SumOfImages ==
    ASSUME NEW S, IsFiniteSet(S), NEW f, NEW g, NEW b,
           \A x \in S : f[x] \in Int /\ g[b[x]] = f[x],
           \A x, y \in S : b[x] = b[y] => x = y
    PROVE  \A s \in SUBSET S :
               SumFunctionOnSet(g, {b[x] : x \in s}) = SumFunctionOnSet(f, s)
  <1> DEFINE Image(s) == {b[x] : x \in s}
             T == {s \in SUBSET S : SumFunctionOnSet(g, Image(s)) # SumFunctionOnSet(f, s)}
  <1>1. SUFFICES ASSUME T # {} PROVE FALSE
    OBVIOUS
  <1>2. PICK s \in T : \A v \in T : v \subseteq s => v = s
    <2>1. T \subseteq SUBSET S
      OBVIOUS
    <2> HIDE DEF T
    <2> QED
      BY <1>1, <2>1, LeastSet
  <1>3. s # {}
    <2>1. Image({}) = {}
      OBVIOUS
    <2>2. SumFunctionOnSet(g, Image({})) = SumFunctionOnSet(f, {})
      BY <2>1, SumOfNone
    <2> QED
      BY <1>2, <2>2
  <1>4. PICK x \in s : TRUE
    BY <1>3
  <1>5. IsFiniteSet(s) /\ IsFiniteSet(Image(s))
    <2>1. IsFiniteSet(s)
      BY FS_Subset
    <2>2. [y \in s |-> b[y]] \in Surjection(s, Image(s))
      BY DEF Surjection
    <2> HIDE DEF Image
    <2> QED
      BY <2>1, <2>2, FS_Surjection
  <1>6. Image(s) \ {b[x]} = Image(s \ {x})
    BY <1>2, <1>4
  <1>7. SumFunctionOnSet(f, s) = f[x] + SumFunctionOnSet(f, s \ {x})
    BY <1>4, <1>5, SumOfRest
  <1>8. SumFunctionOnSet(g, Image(s)) = g[b[x]] + SumFunctionOnSet(g, Image(s) \ {b[x]})
    <2>1. \A y \in Image(s) : g[y] \in Int
      OBVIOUS
    <2>2. b[x] \in Image(s)
      BY <1>4
    <2> HIDE DEF Image
    <2> QED
      BY <1>5, <2>1, <2>2, SumOfRest
  <1>9. SumFunctionOnSet(g, Image(s \ {x})) = SumFunctionOnSet(f, s \ {x})
    BY <1>2, <1>4
  <1>10. g[b[x]] = f[x]
    BY <1>2, <1>4
  <1>11. SumFunctionOnSet(g, Image(s)) = SumFunctionOnSet(f, s)
    BY <1>6, <1>7, <1>8, <1>9, <1>10
  <1> QED
    BY <1>2, <1>11

\* A sum does not depend on what the elements are called.
THEOREM SumRenamed ==
    ASSUME NEW S, IsFiniteSet(S), NEW f, NEW g, NEW b,
           \A x \in S : f[x] \in Int /\ g[b[x]] = f[x],
           \A x, y \in S : b[x] = b[y] => x = y
    PROVE  SumFunctionOnSet(g, {b[x] : x \in S}) = SumFunctionOnSet(f, S)
  BY SumOfImages
===============================================================================
