------------------------------ MODULE SumLemmas ------------------------------
(***************************************************************************)
(* What a sum over a finite set is worth, for the proofs about balances:   *)
(* SumFunctionOnSet(f, S) of the community modules is the sum of f[x] for  *)
(* x in S, taken in an order that CHOOSE fixes.                            *)
(*                                                                         *)
(* Its recursion is over the subsets of S.  Instead of an induction scheme *)
(* (a theorem about every predicate, which the provers cannot instantiate) *)
(* the lemmas use the first-order fact behind it: a nonempty set of        *)
(* subsets of a finite set has a minimal element.  Each proof takes a      *)
(* minimal counterexample and contradicts it.                              *)
(***************************************************************************)
EXTENDS Integers, FiniteSets, Functions, FiniteSetTheorems, TLAPS

\* Every nonempty set of subsets of a finite set has a minimal element.
LEMMA MinimalSubset ==
  ASSUME NEW S, IsFiniteSet(S), NEW T \in SUBSET (SUBSET S), T # {}
  PROVE  \E A \in T : \A B \in T : B \subseteq A => B = A
<1>1. IsWellFoundedOn(StrictSubsetOrdering(S), FiniteSubsetsOf(S))
  BY FS_StrictSubsetOrderingWellFounded
<1>2. FiniteSubsetsOf(S) = SUBSET S
  BY FS_FiniteSubsetsOfFinite
<1>3. \E A \in T : \A B \in T : ~(<<B, A>> \in StrictSubsetOrdering(S))
  BY <1>1, <1>2, WFMin
<1>4. QED
  BY <1>3 DEF StrictSubsetOrdering

\* A finite set has an element whose value is the greatest.
LEMMA GreatestExists ==
  ASSUME NEW S, IsFiniteSet(S), S # {}, NEW f, \A x \in S : f[x] \in Int
  PROVE  \E x \in S : \A y \in S : f[y] <= f[x]
<1> DEFINE Above(x) == {y \in S : f[y] >= f[x]}
           T == {A \in SUBSET S : \E x \in S : A = Above(x)}
<1>1. PICK A \in T : \A B \in T : B \subseteq A => B = A
  <2>1. T \in SUBSET (SUBSET S)
    OBVIOUS
  <2>2. T # {}
    <3>1. PICK x \in S : TRUE
      OBVIOUS
    <3>2. Above(x) \in T
      OBVIOUS
    <3>3. QED
      BY <3>2
  <2> HIDE DEF T
  <2>3. QED
    BY <2>1, <2>2, MinimalSubset
<1>2. PICK x \in S : A = Above(x)
  BY <1>1
<1>3. ASSUME NEW y \in S, f[y] > f[x] PROVE FALSE
  <2>1. Above(y) \in T
    OBVIOUS
  <2>2. Above(y) \subseteq Above(x)
    BY <1>3
  <2>3. x \in Above(x) /\ x \notin Above(y)
    BY <1>3
  <2>4. QED
    BY <1>1, <1>2, <2>1, <2>2, <2>3
<1>4. QED
  BY <1>3

-----------------------------------------------------------------------------
(***************************************************************************)
(* The recursion behind a sum                                              *)
(***************************************************************************)

Pick(s) == CHOOSE x \in s : TRUE

\* h gives the sum of f on every subset of S.
Unfolds(h, f, S) ==
    h = [s \in SUBSET S |-> IF s = {} THEN 0
                            ELSE f[Pick(s)] + h[s \ {Pick(s)}]]

\* The element picked from a nonempty set is one of its own.
LEMMA PickIn == \A s : s # {} => Pick(s) \in s
  BY DEF Pick

\* The library's sum is the value of such an h.
LEMMA SumIsUnfolded ==
  ASSUME NEW f, NEW S
  PROVE  SumFunctionOnSet(f, S) = (CHOOSE h : Unfolds(h, f, S))[S]
  BY DEF SumFunctionOnSet, FoldFunctionOnSet, MapThenFoldSet, Unfolds, Pick

\* What an h that unfolds the sum returns.
LEMMA UnfoldedValues ==
  ASSUME NEW f, NEW S, NEW h, Unfolds(h, f, S), NEW s \in SUBSET S
  PROVE  /\ s = {} => h[s] = 0
         /\ s # {} => /\ Pick(s) \in s
                      /\ s \ {Pick(s)} \in SUBSET S
                      /\ h[s] = f[Pick(s)] + h[s \ {Pick(s)}]
<1>1. h[s] = IF s = {} THEN 0 ELSE f[Pick(s)] + h[s \ {Pick(s)}]
  BY DEF Unfolds
<1>2. QED
  BY <1>1, PickIn

\* In particular on the whole set.
LEMMA UnfoldedWhole ==
  ASSUME NEW f, NEW S, NEW h, Unfolds(h, f, S)
  PROVE  h[S] = IF S = {} THEN 0 ELSE f[Pick(S)] + h[S \ {Pick(S)}]
<1>1. S \in SUBSET S
  OBVIOUS
<1>2. QED
  BY <1>1 DEF Unfolds

\* Two that unfold the same sum agree wherever both are defined.
LEMMA UnfoldedOnce ==
  ASSUME NEW f, NEW A, NEW B, IsFiniteSet(A),
         NEW g, Unfolds(g, f, A), NEW h, Unfolds(h, f, B),
         NEW s \in SUBSET (A \cap B)
  PROVE  g[s] = h[s]
<1> DEFINE T == {t \in SUBSET A : t \in SUBSET B /\ g[t] # h[t]}
<1>1. SUFFICES ASSUME T # {} PROVE FALSE
  OBVIOUS
<1>2. PICK t \in T : \A u \in T : u \subseteq t => u = t
  <2>1. T \in SUBSET (SUBSET A)
    OBVIOUS
  <2> HIDE DEF T
  <2>2. QED
    BY <1>1, <2>1, MinimalSubset
<1>3. t \in SUBSET A /\ t \in SUBSET B /\ g[t] # h[t]
  BY <1>2
<1>4. CASE t = {}
  <2>1. g[t] = 0
    BY <1>3, <1>4, UnfoldedValues
  <2>2. h[t] = 0
    BY <1>3, <1>4, UnfoldedValues
  <2>3. QED
    BY <1>3, <2>1, <2>2
<1>5. CASE t # {}
  <2> DEFINE u == t \ {Pick(t)}
  <2>1. Pick(t) \in t
    BY <1>5, PickIn
  <2>2. u \in SUBSET A /\ u \in SUBSET B /\ u \subseteq t /\ u # t
    BY <1>3, <2>1
  <2>3. u \notin T
    BY <1>2, <2>2
  <2>4. g[u] = h[u]
    BY <2>2, <2>3
  <2>5. g[t] = f[Pick(t)] + g[u]
    BY <1>3, <1>5, UnfoldedValues
  <2>6. h[t] = f[Pick(t)] + h[u]
    BY <1>3, <1>5, UnfoldedValues
  <2>7. QED
    BY <1>3, <2>4, <2>5, <2>6
<1>6. QED
  BY <1>4, <1>5

\* A finite set has a sum: there is an h that unfolds it.
LEMMA UnfoldingExists ==
  ASSUME NEW f, NEW S, IsFiniteSet(S)
  PROVE  \E h : Unfolds(h, f, S)
<1> DEFINE Bad == {A \in SUBSET S : ~\E h : Unfolds(h, f, A)}
<1>1. SUFFICES ASSUME Bad # {} PROVE FALSE
  OBVIOUS
<1>2. PICK A \in Bad : \A B \in Bad : B \subseteq A => B = A
  <2>1. Bad \in SUBSET (SUBSET S)
    OBVIOUS
  <2> HIDE DEF Bad
  <2>2. QED
    BY <1>1, <2>1, MinimalSubset
<1>3. A \in SUBSET S /\ ~\E h : Unfolds(h, f, A)
  BY <1>2
<1> DEFINE Of(B) == CHOOSE h : Unfolds(h, f, B)
           Rest(s) == s \ {Pick(s)}
           g == [s \in SUBSET A |-> IF s = {} THEN 0
                                    ELSE f[Pick(s)] + Of(Rest(s))[Rest(s)]]
<1>4. \A B \in SUBSET A : B # A => Unfolds(Of(B), f, B)
  <2>1. SUFFICES ASSUME NEW B \in SUBSET A, B # A
                 PROVE  \E h : Unfolds(h, f, B)
    OBVIOUS
  <2>2. B \notin Bad
    BY <1>2, <2>1
  <2>3. QED
    BY <1>3, <2>1, <2>2
<1>5. \A s \in SUBSET A : s # {} =>
         /\ Rest(s) \in SUBSET A /\ Rest(s) # A /\ Rest(s) \subseteq s
         /\ Rest(s) # s
  BY PickIn
<1>6. \A t \in SUBSET A : t # A => g[t] = Of(t)[t]
  <2>1. SUFFICES ASSUME NEW t \in SUBSET A, t # A
                 PROVE  g[t] = Of(t)[t]
    OBVIOUS
  <2>2. Unfolds(Of(t), f, t)
    BY <1>4, <2>1
  <2>3. IsFiniteSet(t)
    BY <1>3, FS_Subset
  <2> HIDE DEF Of
  <2>4. CASE t = {}
    <3>1. Of(t)[t] = 0
      BY <2>2, <2>4, UnfoldedValues
    <3>2. QED
      BY <2>4, <3>1
  <2>5. CASE t # {}
    <3>1. Of(t)[t] = f[Pick(t)] + Of(t)[Rest(t)]
      BY <2>2, <2>5, UnfoldedValues
    <3>2. Rest(t) \in SUBSET A /\ Rest(t) # A /\ Rest(t) \in SUBSET t
      BY <1>5, <2>5
    <3>3. Unfolds(Of(Rest(t)), f, Rest(t))
      BY <1>4, <3>2
    <3> HIDE DEF Rest
    <3>4. Of(t)[Rest(t)] = Of(Rest(t))[Rest(t)]
      <4>1. Rest(t) \in SUBSET (t \cap Rest(t))
        BY <3>2
      <4>2. QED
        BY <2>2, <2>3, <3>3, <4>1, UnfoldedOnce
    <3>5. g[t] = f[Pick(t)] + Of(Rest(t))[Rest(t)]
      BY <2>5
    <3>6. QED
      BY <3>1, <3>4, <3>5
  <2>6. QED
    BY <2>4, <2>5
<1>7. \A s \in SUBSET A : s # {} => g[s] = f[Pick(s)] + g[Rest(s)]
  <2>1. SUFFICES ASSUME NEW s \in SUBSET A, s # {}
                 PROVE  g[s] = f[Pick(s)] + g[Rest(s)]
    OBVIOUS
  <2>2. g[s] = f[Pick(s)] + Of(Rest(s))[Rest(s)]
    BY <2>1
  <2>3. Rest(s) \in SUBSET A /\ Rest(s) # A
    BY <1>5, <2>1
  <2> HIDE DEF Of, Rest, g
  <2>4. g[Rest(s)] = Of(Rest(s))[Rest(s)]
    BY <1>6, <2>3
  <2>5. QED
    BY <2>2, <2>4
<1>8. Unfolds(g, f, A)
  <2>1. g = [s \in SUBSET A |-> g[s]]
    OBVIOUS
  <2>2. \A s \in SUBSET A : g[s] = IF s = {} THEN 0
                                   ELSE f[Pick(s)] + g[Rest(s)]
    <3>1. g[{}] = 0
      OBVIOUS
    <3> HIDE DEF g
    <3>2. QED
      BY <1>7, <3>1
  <2> HIDE DEF g
  <2>3. QED
    BY <2>1, <2>2 DEF Unfolds
<1>9. QED
  BY <1>3, <1>8

-----------------------------------------------------------------------------
(***************************************************************************)
(* Sums over finite sets                                                   *)
(***************************************************************************)

\* Nothing sums to zero.
LEMMA SumOfNothing == \A f : SumFunctionOnSet(f, {}) = 0
<1>1. TAKE f
<1>2. IsFiniteSet({})
  BY FS_EmptySet
<1> DEFINE g == CHOOSE h : Unfolds(h, f, {})
<1>3. Unfolds(g, f, {})
  BY <1>2, UnfoldingExists
<1>4. SumFunctionOnSet(f, {}) = g[{}]
  BY SumIsUnfolded
<1> HIDE DEF g
<1>5. g[{}] = 0
  BY <1>3, UnfoldedWhole
<1>6. QED
  BY <1>4, <1>5

\* The sum takes one element and goes on with the others.
LEMMA SumPicksOne ==
  ASSUME NEW f, NEW S, IsFiniteSet(S), S # {}
  PROVE  /\ Pick(S) \in S
         /\ SumFunctionOnSet(f, S) =
               f[Pick(S)] + SumFunctionOnSet(f, S \ {Pick(S)})
<1> DEFINE R == S \ {Pick(S)}
           g == CHOOSE h : Unfolds(h, f, S)
           h1 == CHOOSE h : Unfolds(h, f, R)
<1>1. Pick(S) \in S
  BY PickIn
<1>2. IsFiniteSet(R)
  BY FS_Subset
<1>3. Unfolds(g, f, S)
  BY UnfoldingExists
<1>4. Unfolds(h1, f, R)
  BY <1>2, UnfoldingExists
<1>5. SumFunctionOnSet(f, S) = g[S] /\ SumFunctionOnSet(f, R) = h1[R]
  BY SumIsUnfolded
<1> HIDE DEF g, h1
<1>6. g[S] = f[Pick(S)] + g[R]
  BY <1>3, UnfoldedWhole
<1>7. g[R] = h1[R]
  <2>1. R \in SUBSET (S \cap R)
    OBVIOUS
  <2> HIDE DEF R
  <2>2. QED
    BY <1>3, <1>4, <2>1, UnfoldedOnce
<1>8. QED
  BY <1>1, <1>5, <1>6, <1>7

\* A sum of integers is an integer.
LEMMA SumIsInt ==
  ASSUME NEW S, IsFiniteSet(S), NEW f, \A x \in S : f[x] \in Int
  PROVE  SumFunctionOnSet(f, S) \in Int
<1> DEFINE Bad == {A \in SUBSET S : SumFunctionOnSet(f, A) \notin Int}
<1>1. SUFFICES ASSUME Bad # {} PROVE FALSE
  OBVIOUS
<1>2. PICK A \in Bad : \A B \in Bad : B \subseteq A => B = A
  <2>1. Bad \in SUBSET (SUBSET S)
    OBVIOUS
  <2> HIDE DEF Bad
  <2>2. QED
    BY <1>1, <2>1, MinimalSubset
<1>3. A \in SUBSET S /\ SumFunctionOnSet(f, A) \notin Int
  BY <1>2
<1>4. A # {}
  BY <1>3, SumOfNothing
<1>5. IsFiniteSet(A)
  BY <1>3, FS_Subset
<1> DEFINE y == Pick(A)
           B == A \ {y}
<1>6. y \in A /\ SumFunctionOnSet(f, A) = f[y] + SumFunctionOnSet(f, B)
  BY <1>4, <1>5, SumPicksOne
<1>7. B \in SUBSET S /\ B \subseteq A /\ B # A
  BY <1>3, <1>6
<1>8. SumFunctionOnSet(f, B) \in Int
  BY <1>2, <1>7
<1>9. f[y] \in Int
  BY <1>3, <1>6
<1> HIDE DEF y, B
<1>10. QED
  BY <1>3, <1>6, <1>8, <1>9

\* Any element can be taken out of the sum first.
LEMMA SumTakesAny ==
  ASSUME NEW S, IsFiniteSet(S), NEW f, \A x \in S : f[x] \in Int,
         NEW x \in S
  PROVE  SumFunctionOnSet(f, S) = f[x] + SumFunctionOnSet(f, S \ {x})
<1> DEFINE Total(A) == SumFunctionOnSet(f, A)
           Bad == {A \in SUBSET S :
                     \E z \in A : Total(A) # f[z] + Total(A \ {z})}
<1>1. SUFFICES ASSUME Bad # {} PROVE FALSE
  OBVIOUS
<1>2. PICK A \in Bad : \A B \in Bad : B \subseteq A => B = A
  <2>1. Bad \in SUBSET (SUBSET S)
    OBVIOUS
  <2> HIDE DEF Bad
  <2>2. QED
    BY <1>1, <2>1, MinimalSubset
<1>3. A \in SUBSET S
  BY <1>2
<1>4. PICK z \in A : Total(A) # f[z] + Total(A \ {z})
  BY <1>2
<1>5. \A B \in SUBSET S : B \subseteq A /\ B # A =>
         \A u \in B : Total(B) = f[u] + Total(B \ {u})
  BY <1>2
<1>6. \A B \in SUBSET S : IsFiniteSet(B) /\ Total(B) \in Int
  <2>1. SUFFICES ASSUME NEW B \in SUBSET S
                 PROVE  IsFiniteSet(B) /\ Total(B) \in Int
    OBVIOUS
  <2>2. IsFiniteSet(B)
    BY <2>1, FS_Subset
  <2>3. \A u \in B : f[u] \in Int
    BY <2>1
  <2>4. Total(B) \in Int
    BY <2>2, <2>3, SumIsInt
  <2>5. QED
    BY <2>2, <2>4
<1> DEFINE y == Pick(A)
<1>7. y \in A /\ Total(A) = f[y] + Total(A \ {y})
  <2>1. A # {} /\ IsFiniteSet(A)
    BY <1>3, <1>4, <1>6
  <2>2. QED
    BY <2>1, SumPicksOne
<1> HIDE DEF y, Bad
<1>8. y # z
  BY <1>4, <1>7
<1> DEFINE Both == (A \ {y}) \ {z}
<1>9. Total(A \ {y}) = f[z] + Total(Both)
  <2>1. A \ {y} \in SUBSET S /\ A \ {y} \subseteq A /\ A \ {y} # A
    BY <1>3, <1>7
  <2>2. z \in A \ {y}
    BY <1>4, <1>8
  <2> HIDE DEF Total
  <2>3. QED
    BY <1>5, <2>1, <2>2
<1>10. Total(A \ {z}) = f[y] + Total(Both)
  <2>1. A \ {z} \in SUBSET S /\ A \ {z} \subseteq A /\ A \ {z} # A
    BY <1>3, <1>4
  <2>2. y \in A \ {z} /\ (A \ {z}) \ {y} = Both
    BY <1>7, <1>8
  <2> HIDE DEF Total
  <2>3. QED
    BY <1>5, <2>1, <2>2
<1>11. f[y] \in Int /\ f[z] \in Int /\ Total(Both) \in Int
  <2>1. Both \in SUBSET S /\ y \in S /\ z \in S
    BY <1>3, <1>4, <1>7
  <2> HIDE DEF Total, Both
  <2>2. QED
    BY <1>6, <2>1
<1> HIDE DEF Total, Both
<1>12. QED
  BY <1>4, <1>7, <1>9, <1>10, <1>11

\* One element more adds its value.
LEMMA SumOfOneMore ==
  ASSUME NEW S, IsFiniteSet(S), NEW f, NEW x, x \notin S,
         \A y \in S \cup {x} : f[y] \in Int
  PROVE  SumFunctionOnSet(f, S \cup {x}) = SumFunctionOnSet(f, S) + f[x]
<1> DEFINE U == S \cup {x}
           R == U \ {x}
<1>1. IsFiniteSet(U) /\ x \in U
  BY FS_AddElement
<1>2. R = S
  OBVIOUS
<1>3. \A y \in U : f[y] \in Int
  OBVIOUS
<1> HIDE DEF U
<1>4. SumFunctionOnSet(f, U) = f[x] + SumFunctionOnSet(f, R)
  BY <1>1, <1>3, SumTakesAny
<1>5. SumFunctionOnSet(f, S) \in Int
  BY SumIsInt
<1>6. f[x] \in Int
  BY <1>1, <1>3
<1> HIDE DEF R
<1>7. SumFunctionOnSet(f, U) = SumFunctionOnSet(f, S) + f[x]
  BY <1>2, <1>4, <1>5, <1>6
<1>8. QED
  BY <1>7 DEF U

\* One element less takes its value away.
LEMMA SumOfOneLess ==
  ASSUME NEW S, IsFiniteSet(S), NEW f, NEW x \in S,
         \A y \in S : f[y] \in Int
  PROVE  SumFunctionOnSet(f, S \ {x}) = SumFunctionOnSet(f, S) - f[x]
<1> DEFINE R == S \ {x}
<1>1. SumFunctionOnSet(f, S) = f[x] + SumFunctionOnSet(f, R)
  BY SumTakesAny
<1>2. IsFiniteSet(R)
  BY FS_Subset
<1>3. \A y \in R : f[y] \in Int
  OBVIOUS
<1> HIDE DEF R
<1>4. SumFunctionOnSet(f, R) \in Int
  BY <1>2, <1>3, SumIsInt
<1>5. f[x] \in Int
  OBVIOUS
<1>6. QED
  BY <1>1, <1>4, <1>5 DEF R

\* Two functions that agree on the set have the same sum.
LEMMA SumOfSame ==
  ASSUME NEW S, IsFiniteSet(S), NEW f, NEW g, \A x \in S : f[x] = g[x]
  PROVE  SumFunctionOnSet(f, S) = SumFunctionOnSet(g, S)
<1> DEFINE F(A) == SumFunctionOnSet(f, A)
           G(A) == SumFunctionOnSet(g, A)
           Bad == {A \in SUBSET S : F(A) # G(A)}
<1>1. SUFFICES ASSUME Bad # {} PROVE FALSE
  OBVIOUS
<1>2. PICK A \in Bad : \A B \in Bad : B \subseteq A => B = A
  <2>1. Bad \in SUBSET (SUBSET S)
    OBVIOUS
  <2> HIDE DEF Bad
  <2>2. QED
    BY <1>1, <2>1, MinimalSubset
<1>3. A \in SUBSET S /\ F(A) # G(A)
  BY <1>2
<1>4. A # {}
  BY <1>3, SumOfNothing
<1>5. IsFiniteSet(A)
  BY <1>3, FS_Subset
<1> DEFINE y == Pick(A)
           B == A \ {y}
<1>6. y \in A /\ F(A) = f[y] + F(B)
  BY <1>4, <1>5, SumPicksOne
<1>7. G(A) = g[y] + G(B)
  BY <1>4, <1>5, SumPicksOne
<1>8. B \in SUBSET S /\ B \subseteq A /\ B # A
  BY <1>3, <1>6
<1>9. F(B) = G(B)
  BY <1>2, <1>8
<1>10. f[y] = g[y]
  BY <1>3, <1>6
<1> HIDE DEF y, B, F, G
<1>11. QED
  BY <1>3, <1>6, <1>7, <1>9, <1>10

\* When the function changes at one element, the sum changes by as much.
LEMMA SumOfOneChange ==
  ASSUME NEW S, IsFiniteSet(S), NEW f, NEW g, NEW x \in S,
         \A y \in S : f[y] \in Int, g[x] \in Int,
         \A y \in S \ {x} : g[y] = f[y]
  PROVE  SumFunctionOnSet(g, S) = SumFunctionOnSet(f, S) - f[x] + g[x]
<1> DEFINE R == S \ {x}
<1>1. \A y \in S : g[y] \in Int
  OBVIOUS
<1>2. SumFunctionOnSet(f, S) = f[x] + SumFunctionOnSet(f, R)
  BY SumTakesAny
<1>3. SumFunctionOnSet(g, S) = g[x] + SumFunctionOnSet(g, R)
  BY <1>1, SumTakesAny
<1>4. IsFiniteSet(R)
  BY FS_Subset
<1>5. \A y \in R : f[y] \in Int /\ f[y] = g[y]
  OBVIOUS
<1> HIDE DEF R
<1>6. SumFunctionOnSet(f, R) = SumFunctionOnSet(g, R)
  BY <1>4, <1>5, SumOfSame
<1>7. SumFunctionOnSet(f, R) \in Int
  BY <1>4, <1>5, SumIsInt
<1>8. f[x] \in Int /\ g[x] \in Int
  OBVIOUS
<1>9. QED
  BY <1>2, <1>3, <1>6, <1>7, <1>8

\* A sum of naturals is at least zero.
LEMMA SumIsNat ==
  ASSUME NEW S, IsFiniteSet(S), NEW f, \A x \in S : f[x] \in Nat
  PROVE  SumFunctionOnSet(f, S) \in Nat
<1> DEFINE Bad == {A \in SUBSET S : SumFunctionOnSet(f, A) \notin Nat}
<1>1. SUFFICES ASSUME Bad # {} PROVE FALSE
  OBVIOUS
<1>2. PICK A \in Bad : \A B \in Bad : B \subseteq A => B = A
  <2>1. Bad \in SUBSET (SUBSET S)
    OBVIOUS
  <2> HIDE DEF Bad
  <2>2. QED
    BY <1>1, <2>1, MinimalSubset
<1>3. A \in SUBSET S /\ SumFunctionOnSet(f, A) \notin Nat
  BY <1>2
<1>4. A # {}
  BY <1>3, SumOfNothing
<1>5. IsFiniteSet(A)
  BY <1>3, FS_Subset
<1> DEFINE y == Pick(A)
           B == A \ {y}
<1>6. y \in A /\ SumFunctionOnSet(f, A) = f[y] + SumFunctionOnSet(f, B)
  BY <1>4, <1>5, SumPicksOne
<1>7. B \in SUBSET S /\ B \subseteq A /\ B # A
  BY <1>3, <1>6
<1>8. SumFunctionOnSet(f, B) \in Nat
  BY <1>2, <1>7
<1>9. f[y] \in Nat
  BY <1>3, <1>6
<1> HIDE DEF y, B
<1>10. QED
  BY <1>3, <1>6, <1>8, <1>9

\* Zeros sum to zero.
LEMMA SumOfZeros ==
  ASSUME NEW S, IsFiniteSet(S), NEW f, \A x \in S : f[x] = 0
  PROVE  SumFunctionOnSet(f, S) = 0
<1> DEFINE Bad == {A \in SUBSET S : SumFunctionOnSet(f, A) # 0}
<1>1. SUFFICES ASSUME Bad # {} PROVE FALSE
  OBVIOUS
<1>2. PICK A \in Bad : \A B \in Bad : B \subseteq A => B = A
  <2>1. Bad \in SUBSET (SUBSET S)
    OBVIOUS
  <2> HIDE DEF Bad
  <2>2. QED
    BY <1>1, <2>1, MinimalSubset
<1>3. A \in SUBSET S /\ SumFunctionOnSet(f, A) # 0
  BY <1>2
<1>4. A # {}
  BY <1>3, SumOfNothing
<1>5. IsFiniteSet(A)
  BY <1>3, FS_Subset
<1> DEFINE y == Pick(A)
           B == A \ {y}
<1>6. y \in A /\ SumFunctionOnSet(f, A) = f[y] + SumFunctionOnSet(f, B)
  BY <1>4, <1>5, SumPicksOne
<1>7. B \in SUBSET S /\ B \subseteq A /\ B # A
  BY <1>3, <1>6
<1>8. SumFunctionOnSet(f, B) = 0
  BY <1>2, <1>7
<1>9. f[y] = 0
  BY <1>3, <1>6
<1> HIDE DEF y, B
<1>10. QED
  BY <1>3, <1>6, <1>8, <1>9

\* Elements left out of a set may as well count as zero.
LEMMA SumOfSome ==
  ASSUME NEW S, IsFiniteSet(S), NEW T, NEW f, NEW g,
         \A x \in S : f[x] \in Int,
         \A x \in S : g[x] = IF x \in T THEN f[x] ELSE 0
  PROVE  SumFunctionOnSet(g, S) = SumFunctionOnSet(f, S \cap T)
<1> DEFINE F(A) == SumFunctionOnSet(f, A)
           G(A) == SumFunctionOnSet(g, A)
           Bad == {A \in SUBSET S : G(A) # F(A \cap T)}
<1>1. SUFFICES ASSUME Bad # {} PROVE FALSE
  OBVIOUS
<1>2. PICK A \in Bad : \A B \in Bad : B \subseteq A => B = A
  <2>1. Bad \in SUBSET (SUBSET S)
    OBVIOUS
  <2> HIDE DEF Bad
  <2>2. QED
    BY <1>1, <2>1, MinimalSubset
<1>3. A \in SUBSET S /\ G(A) # F(A \cap T)
  BY <1>2
<1>4. A # {}
  <2>1. {} \cap T = {}
    OBVIOUS
  <2>2. QED
    BY <1>3, <2>1, SumOfNothing
<1>5. IsFiniteSet(A)
  BY <1>3, FS_Subset
<1> DEFINE y == Pick(A)
           B == A \ {y}
           R == B \cap T
<1>6. y \in A /\ G(A) = g[y] + G(B)
  BY <1>4, <1>5, SumPicksOne
<1>7. B \in SUBSET S /\ B \subseteq A /\ B # A
  BY <1>3, <1>6
<1>8. G(B) = F(R)
  BY <1>2, <1>7
<1>9. /\ IsFiniteSet(R) /\ y \notin R
      /\ \A x \in R \cup {y} : f[x] \in Int
  <2>1. R \subseteq S /\ y \in S /\ y \notin R
    BY <1>3, <1>6, <1>7
  <2> HIDE DEF R, y
  <2>2. IsFiniteSet(R)
    BY <2>1, FS_Subset
  <2>3. QED
    BY <2>1, <2>2
<1>10. F(R) \in Int
  BY <1>9, SumIsInt
<1>11. CASE y \in T
  <2> DEFINE Q == A \cap T
  <2>1. /\ Q \ {y} = R /\ y \in Q /\ IsFiniteSet(Q)
        /\ \A x \in Q : f[x] \in Int
        /\ g[y] = f[y]
    BY <1>3, <1>5, <1>6, <1>11, FS_Subset
  <2> HIDE DEF Q, R, y
  <2>2. F(Q) = f[y] + F(R)
    BY <2>1, SumTakesAny
  <2> HIDE DEF F, G, B
  <2>3. G(A) = F(Q)
    BY <1>6, <1>8, <2>1, <2>2
  <2>4. QED
    BY <1>3, <2>3 DEF Q
<1>12. CASE y \notin T
  <2>1. A \cap T = R /\ g[y] = 0
    BY <1>3, <1>6, <1>12
  <2> HIDE DEF R, y, F, G, B
  <2>2. QED
    BY <1>3, <1>6, <1>8, <1>10, <2>1
<1>13. QED
  BY <1>11, <1>12
=============================================================================
