---------------------------- MODULE SumTheorems ----------------------------
(***************************************************************************)
(* Sums over finite sets, as SumFunctionOnSet of the community modules     *)
(* defines them: balances, escrows and quotas of the contracts are stated  *)
(* as such sums.  The sum is a fold, that is a recursion on sets that takes*)
(* a chosen element each time; the theorems say that the choice does not   *)
(* matter.  Induction is over the finite set of a set's subsets, ordered by*)
(* inclusion, and needs no operator as a parameter.  And what is used in   *)
(* every account of products and of quotients rounded down.                *)
(***************************************************************************)
EXTENDS Functions, FiniteSetTheorems, TLAPS

(* Of any sets of elements of a finite set one is minimal. *)
LEMMA MinimalSet ==
    ASSUME NEW S, IsFiniteSet(S), NEW T \in SUBSET SUBSET S, T # {}
    PROVE  \E x \in T : \A y \in T : y \subseteq x => y = x
<1>1. IsWellFoundedOn(StrictSubsetOrdering(S), SUBSET S)
  BY FS_StrictSubsetOrderingWellFounded, FS_FiniteSubsetsOfFinite
<1>2. \E x \in T : \A y \in T : ~ (<<y, x>> \in StrictSubsetOrdering(S))
  BY <1>1, WFMin
<1> QED
  BY <1>2 DEF StrictSubsetOrdering

\* Induction over a finite set: what holds of the empty set, and of a set when
\* it holds of the set without one of its elements, holds of S.  Good is the set
\* of the subsets of S it holds of.
THEOREM SetInduction ==
    ASSUME NEW S, IsFiniteSet(S), NEW Good, {} \in Good,
           \A s \in SUBSET S : \A x \in s : s \ {x} \in Good => s \in Good
    PROVE  S \in Good
<1> DEFINE Bad == (SUBSET S) \ Good
<1>1. SUFFICES ASSUME Bad # {} PROVE FALSE
  OBVIOUS
<1>2. Bad \in SUBSET SUBSET S
  OBVIOUS
<1>3. PICK s \in Bad : \A t \in Bad : t \subseteq s => t = s
  <2> HIDE DEF Bad
  <2> QED
    BY <1>1, <1>2, MinimalSet
<1>4. PICK x \in s : TRUE
  BY <1>3
<1>5. s \ {x} \notin Bad
  BY <1>3, <1>4
<1>6. s \in SUBSET S /\ s \ {x} \in Good
  BY <1>3, <1>5
<1> QED
  BY <1>3, <1>4, <1>6

\* Every set of naturals that is not empty has a least one.
LEMMA LeastNumber ==
    ASSUME NEW T \in SUBSET Nat, T # {}
    PROVE  \E m \in T : \A k \in T : m <= k
<1>1. PICK n \in T : TRUE
  OBVIOUS
<1> DEFINE Upto(k) == 0..k
           Below == {Upto(k) : k \in {j \in T : j <= n}}
<1>2. Below \in SUBSET SUBSET Upto(n) /\ Below # {}
  BY <1>1
<1>3. IsFiniteSet(Upto(n))
  BY <1>1, FS_Interval
<1>4. PICK x \in Below : \A y \in Below : y \subseteq x => y = x
  <2> HIDE DEF Below, Upto
  <2> QED
    BY <1>2, <1>3, MinimalSet
<1>5. PICK m \in T : m <= n /\ x = 0..m
  BY <1>4
<1>6. ASSUME NEW k \in T, k < m PROVE FALSE
  <2>1. 0..k \in Below
    BY <1>5, <1>6, <1>1
  <2>2. 0..k \subseteq 0..m /\ m \in 0..m /\ m \notin 0..k
    BY <1>5, <1>6
  <2> QED
    BY <2>1, <2>2, <1>4, <1>5
<1> QED
  BY <1>5, <1>6

Picked(s) == CHOOSE x \in s : TRUE

Term(f, g, s) == IF s = {} THEN 0 ELSE f[Picked(s)] + g[s \ {Picked(s)}]

IsSumOf(g, f, S) == g = [s \in SUBSET S |-> Term(f, g, s)]

\* The element the fold takes next is one of the set's.
LEMMA PickedElement ==
    ASSUME NEW s, s # {}
    PROVE  Picked(s) \in s
BY DEF Picked

\* The community modules' sum is the value at S of a function that solves the
\* recursion of the fold.
LEMMA SumIsFold ==
    ASSUME NEW f, NEW S
    PROVE  SumFunctionOnSet(f, S) = (CHOOSE g : IsSumOf(g, f, S))[S]
BY DEF SumFunctionOnSet, FoldFunctionOnSet, MapThenFoldSet, IsSumOf, Term, Picked

(* The recursion is by number of elements. *)
LEMMA SumExists ==
    ASSUME NEW f, NEW S, IsFiniteSet(S)
    PROVE  \E g : IsSumOf(g, f, S)
<1> DEFINE Upto(n) == {s \in SUBSET S : Cardinality(s) <= n}
           Solves(g, n) == g = [s \in Upto(n) |-> Term(f, g, s)]
           Unsolved == {n \in Nat : ~ \E g : Solves(g, n)}
<1>1. \A s \in SUBSET S : IsFiniteSet(s) /\ Cardinality(s) \in Nat
  BY FS_Subset, FS_CardinalityType
<1>2. \E g : Solves(g, 0)
  <2> DEFINE g == [s \in Upto(0) |-> 0]
  <2>1. \A s \in Upto(0) : s = {}
    BY <1>1, FS_EmptySet
  <2>2. Solves(g, 0)
    BY <2>1 DEF Term
  <2> QED
    BY <2>2
<1>3. ASSUME NEW n \in Nat, NEW g, Solves(g, n)
      PROVE  \E h : Solves(h, n + 1)
  <2> DEFINE h == [s \in Upto(n + 1) |-> IF s \in Upto(n) THEN g[s] ELSE Term(f, g, s)]
  <2>1. ASSUME NEW s \in Upto(n + 1), s # {}
        PROVE  s \ {Picked(s)} \in Upto(n) /\ s \ {Picked(s)} \in Upto(n + 1)
    <3>1. IsFiniteSet(s) /\ Picked(s) \in s
      BY <1>1, <2>1, PickedElement
    <3>2. Cardinality(s \ {Picked(s)}) = Cardinality(s) - 1
      BY <3>1, FS_RemoveElement
    <3> QED
      BY <3>2, <1>1
  <2>2. ASSUME NEW s \in Upto(n + 1)
        PROVE  Term(f, h, s) = Term(f, g, s)
    <3>1. CASE s = {}
      BY <3>1 DEF Term
    <3>2. CASE s # {}
      <4>1. h[s \ {Picked(s)}] = g[s \ {Picked(s)}]
        BY <2>1, <3>2
      <4> QED
        BY <4>1 DEF Term
    <3> QED
      BY <3>1, <3>2
  <2>3. ASSUME NEW s \in Upto(n + 1)
        PROVE  h[s] = Term(f, h, s)
    <3>1. CASE s \in Upto(n)
      <4>1. h[s] = g[s] /\ g[s] = Term(f, g, s)
        BY <3>1, <1>3
      <4> QED
        BY <4>1, <2>2
    <3>2. CASE s \notin Upto(n)
      BY <3>2, <2>2
    <3> QED
      BY <3>1, <3>2
  <2>4. Solves(h, n + 1)
    <3>1. h = [s \in Upto(n + 1) |-> h[s]]
      OBVIOUS
    <3> HIDE DEF h
    <3> QED
      BY <3>1, <2>3
  <2> QED
    BY <2>4
<1>4. Unsolved = {}
  <2>1. SUFFICES ASSUME Unsolved # {} PROVE FALSE
    OBVIOUS
  <2>2. PICK n \in Unsolved : \A k \in Unsolved : n <= k
    <3>1. Unsolved \in SUBSET Nat
      OBVIOUS
    <3> HIDE DEF Unsolved
    <3> QED
      BY <2>1, <3>1, LeastNumber
  <2> HIDE DEF Solves
  <2>3. n \in Nat /\ n # 0
    BY <1>2, <2>2
  <2>4. n - 1 \in Nat /\ n - 1 \notin Unsolved
    <3> HIDE DEF Unsolved
    <3> QED
      BY <2>2, <2>3
  <2>5. PICK g : Solves(g, n - 1)
    BY <2>4
  <2>6. \E h : Solves(h, (n - 1) + 1)
    BY <2>4, <2>5, <1>3
  <2>7. (n - 1) + 1 = n
    BY <2>3
  <2> QED
    BY <2>2, <2>6, <2>7
<1>5. Cardinality(S) \in Nat /\ Upto(Cardinality(S)) = SUBSET S
  BY FS_CardinalityType, FS_Subset
<1>6. \E g : Solves(g, Cardinality(S))
  BY <1>4, <1>5
<1> QED
  BY <1>5, <1>6 DEF IsSumOf

\* Two solutions of that recursion agree wherever both are defined.
LEMMA SumUnique ==
    ASSUME NEW f, NEW S, IsFiniteSet(S), NEW R \in SUBSET S,
           NEW g, IsSumOf(g, f, S), NEW h, IsSumOf(h, f, R)
    PROVE  \A s \in SUBSET R : g[s] = h[s]
<1> DEFINE Differ == {s \in SUBSET R : g[s] # h[s]}
<1>1. SUFFICES ASSUME Differ # {} PROVE FALSE
  OBVIOUS
<1>2. IsFiniteSet(R)
  BY FS_Subset
<1>3. PICK s \in Differ : \A t \in Differ : t \subseteq s => t = s
  <2>1. Differ \in SUBSET SUBSET R
    OBVIOUS
  <2> HIDE DEF Differ
  <2> QED
    BY <1>1, <1>2, <2>1, MinimalSet
<1>4. g[s] = Term(f, g, s) /\ h[s] = Term(f, h, s)
  BY <1>3 DEF IsSumOf
<1>5. s # {}
  BY <1>3, <1>4 DEF Term
<1>6. g[s \ {Picked(s)}] = h[s \ {Picked(s)}]
  BY <1>3, <1>5, PickedElement
<1> QED
  BY <1>3, <1>4, <1>6 DEF Term

\* The sum of a set is one element's term and the sum of the rest.
LEMMA SumStep ==
    ASSUME NEW f, NEW S, IsFiniteSet(S), S # {}
    PROVE  SumFunctionOnSet(f, S) = f[Picked(S)] + SumFunctionOnSet(f, S \ {Picked(S)})
<1> DEFINE R == S \ {Picked(S)}
           g == CHOOSE i : IsSumOf(i, f, S)
           h == CHOOSE i : IsSumOf(i, f, R)
<1>1. R \in SUBSET S /\ IsFiniteSet(R)
  BY FS_Subset
<1>2. IsSumOf(g, f, S) /\ IsSumOf(h, f, R)
  BY <1>1, SumExists
<1>3. SumFunctionOnSet(f, S) = g[S] /\ SumFunctionOnSet(f, R) = h[R]
  BY SumIsFold
<1> HIDE DEF g, h, R
<1>4. g[R] = h[R]
  BY <1>1, <1>2, SumUnique
<1>5. g[S] = Term(f, g, S)
  BY <1>2 DEF IsSumOf
<1> QED
  BY <1>3, <1>4, <1>5 DEF Term, R

-----------------------------------------------------------------------------
(* What the sums of the models obey.                                       *)

\* Nothing sums to 0.
THEOREM SumEmpty ==
    ASSUME NEW f
    PROVE  SumFunctionOnSet(f, {}) = 0
<1> DEFINE g == CHOOSE i : IsSumOf(i, f, {})
<1>1. IsSumOf(g, f, {})
  BY SumExists, FS_EmptySet
<1>2. SumFunctionOnSet(f, {}) = g[{}]
  BY SumIsFold
<1> HIDE DEF g
<1> QED
  BY <1>1, <1>2 DEF IsSumOf, Term

\* Integers sum to an integer.
THEOREM SumInt ==
    ASSUME NEW f, NEW S, IsFiniteSet(S), \A x \in S : f[x] \in Int
    PROVE  SumFunctionOnSet(f, S) \in Int
<1> DEFINE Bad == {s \in SUBSET S : SumFunctionOnSet(f, s) \notin Int}
<1>1. SUFFICES ASSUME Bad # {} PROVE FALSE
  OBVIOUS
<1>2. PICK s \in Bad : \A t \in Bad : t \subseteq s => t = s
  <2>1. Bad \in SUBSET SUBSET S
    OBVIOUS
  <2> HIDE DEF Bad
  <2> QED
    BY <1>1, <2>1, MinimalSet
<1>3. s # {} /\ IsFiniteSet(s)
  <2>1. SumFunctionOnSet(f, {}) \in Int
    BY SumEmpty
  <2> QED
    BY <1>2, <2>1, FS_Subset
<1>4. Picked(s) \in s
  BY <1>3, PickedElement
<1>5. SumFunctionOnSet(f, s \ {Picked(s)}) \in Int
  BY <1>2, <1>4
<1>6. SumFunctionOnSet(f, s) = f[Picked(s)] + SumFunctionOnSet(f, s \ {Picked(s)})
  BY <1>3, SumStep
<1> QED
  BY <1>2, <1>4, <1>5, <1>6

\* Whichever element is taken out, the sum falls by its term: what the balances
\* and quotas of the models come down by when one record leaves.
THEOREM SumRemove ==
    ASSUME NEW f, NEW S, IsFiniteSet(S), \A x \in S : f[x] \in Int, NEW e \in S
    PROVE  SumFunctionOnSet(f, S) = f[e] + SumFunctionOnSet(f, S \ {e})
<1> DEFINE Sum(s) == SumFunctionOnSet(f, s)
           Bad == {s \in SUBSET S : \E x \in s : Sum(s) # f[x] + Sum(s \ {x})}
<1>1. SUFFICES ASSUME Bad # {} PROVE FALSE
  OBVIOUS
<1>2. PICK s \in Bad : \A t \in Bad : t \subseteq s => t = s
  <2>1. Bad \in SUBSET SUBSET S
    OBVIOUS
  <2> HIDE DEF Bad
  <2> QED
    BY <1>1, <2>1, MinimalSet
<1>3. PICK x \in s : Sum(s) # f[x] + Sum(s \ {x})
  BY <1>2
<1> DEFINE p == Picked(s)
<1>4. IsFiniteSet(s) /\ p \in s
  BY <1>2, <1>3, FS_Subset, PickedElement
<1>5. Sum(s) = f[p] + Sum(s \ {p})
  BY <1>3, <1>4, SumStep
<1> HIDE DEF p
<1>6. p # x
  BY <1>3, <1>5
<1>7. Sum(s \ {p}) = f[x] + Sum((s \ {p}) \ {x})
  <2>1. s \ {p} \notin Bad /\ x \in s \ {p}
    BY <1>2, <1>3, <1>4, <1>6
  <2> QED
    BY <2>1, <1>2
<1>8. Sum(s \ {x}) = f[p] + Sum((s \ {x}) \ {p})
  <2>1. s \ {x} \notin Bad /\ p \in s \ {x}
    BY <1>2, <1>3, <1>4, <1>6
  <2> QED
    BY <2>1, <1>2
<1>9. (s \ {p}) \ {x} = (s \ {x}) \ {p}
  OBVIOUS
<1>10. Sum((s \ {x}) \ {p}) \in Int
  <2>1. IsFiniteSet((s \ {x}) \ {p})
    BY <1>4, FS_Subset
  <2> QED
    BY <2>1, <1>2, SumInt
<1> HIDE DEF Sum, Bad
<1>11. f[x] \in Int /\ f[p] \in Int
  BY <1>2, <1>3, <1>4 DEF Bad
<1>12. f[p] + (f[x] + Sum((s \ {x}) \ {p})) = f[x] + (f[p] + Sum((s \ {x}) \ {p}))
  BY <1>10, <1>11
<1> QED
  BY <1>3, <1>5, <1>7, <1>8, <1>9, <1>12

\* One more element adds its term.
THEOREM SumAdd ==
    ASSUME NEW f, NEW S, IsFiniteSet(S), \A x \in S : f[x] \in Int,
           NEW e, e \notin S, f[e] \in Int
    PROVE  SumFunctionOnSet(f, S \cup {e}) = f[e] + SumFunctionOnSet(f, S)
<1> DEFINE R == S \cup {e}
<1>1. IsFiniteSet(R) /\ \A x \in R : f[x] \in Int
  BY FS_AddElement
<1>2. e \in R /\ R \ {e} = S
  OBVIOUS
<1> HIDE DEF R
<1>3. SumFunctionOnSet(f, R) = f[e] + SumFunctionOnSet(f, R \ {e})
  BY <1>1, <1>2, SumRemove
<1> QED
  BY <1>2, <1>3 DEF R

\* Naturals sum to a natural.
THEOREM SumNat ==
    ASSUME NEW f, NEW S, IsFiniteSet(S), \A x \in S : f[x] \in Nat
    PROVE  SumFunctionOnSet(f, S) \in Nat
<1> DEFINE Good == {s \in SUBSET S : SumFunctionOnSet(f, s) \in Nat}
<1>1. {} \in Good
  BY SumEmpty
<1>2. ASSUME NEW s \in SUBSET S, NEW x \in s, s \ {x} \in Good
      PROVE  s \in Good
  <2>1. IsFiniteSet(s) /\ \A y \in s : f[y] \in Int
    BY FS_Subset
  <2>2. SumFunctionOnSet(f, s) = f[x] + SumFunctionOnSet(f, s \ {x})
    BY <2>1, SumRemove
  <2> QED
    BY <2>2, <1>2
<1> HIDE DEF Good
<1>3. S \in Good
  BY <1>1, <1>2, SetInduction
<1> QED
  BY <1>3 DEF Good

\* Term by term no larger, no larger in all.
THEOREM SumMonotone ==
    ASSUME NEW f, NEW g, NEW S, IsFiniteSet(S),
           \A x \in S : f[x] \in Int /\ g[x] \in Int /\ f[x] <= g[x]
    PROVE  SumFunctionOnSet(f, S) <= SumFunctionOnSet(g, S)
<1> DEFINE Good == {s \in SUBSET S : SumFunctionOnSet(f, s) <= SumFunctionOnSet(g, s)}
<1>1. {} \in Good
  <2>1. SumFunctionOnSet(f, {}) = 0 /\ SumFunctionOnSet(g, {}) = 0
    BY SumEmpty
  <2> QED
    BY <2>1
<1>2. ASSUME NEW s \in SUBSET S, NEW x \in s, s \ {x} \in Good
      PROVE  s \in Good
  <2>1. /\ IsFiniteSet(s) /\ IsFiniteSet(s \ {x})
        /\ \A y \in s : f[y] \in Int /\ g[y] \in Int
    BY FS_Subset
  <2>2. /\ SumFunctionOnSet(f, s) = f[x] + SumFunctionOnSet(f, s \ {x})
        /\ SumFunctionOnSet(g, s) = g[x] + SumFunctionOnSet(g, s \ {x})
    BY <2>1, SumRemove
  <2>3. /\ SumFunctionOnSet(f, s \ {x}) \in Int
        /\ SumFunctionOnSet(g, s \ {x}) \in Int
    BY <2>1, SumInt
  <2> QED
    BY <2>1, <2>2, <2>3, <1>2
<1> HIDE DEF Good
<1>3. S \in Good
  BY <1>1, <1>2, SetInduction
<1> QED
  BY <1>3 DEF Good

\* Only the terms on the set matter.
THEOREM SumAgree ==
    ASSUME NEW f, NEW g, NEW S, IsFiniteSet(S),
           \A x \in S : f[x] \in Int /\ g[x] = f[x]
    PROVE  SumFunctionOnSet(g, S) = SumFunctionOnSet(f, S)
<1>1. /\ SumFunctionOnSet(f, S) <= SumFunctionOnSet(g, S)
      /\ SumFunctionOnSet(g, S) <= SumFunctionOnSet(f, S)
  BY SumMonotone
<1>2. SumFunctionOnSet(f, S) \in Int /\ SumFunctionOnSet(g, S) \in Int
  BY SumInt
<1> QED
  BY <1>1, <1>2

\* One term changes.
THEOREM SumChange ==
    ASSUME NEW f, NEW g, NEW S, IsFiniteSet(S), NEW e \in S,
           \A x \in S : f[x] \in Int /\ g[x] \in Int,
           \A x \in S \ {e} : g[x] = f[x]
    PROVE  SumFunctionOnSet(g, S) = SumFunctionOnSet(f, S) + (g[e] - f[e])
<1>1. IsFiniteSet(S \ {e})
  BY FS_Subset
<1>2. /\ SumFunctionOnSet(f, S) = f[e] + SumFunctionOnSet(f, S \ {e})
      /\ SumFunctionOnSet(g, S) = g[e] + SumFunctionOnSet(g, S \ {e})
  BY SumRemove
<1>3. SumFunctionOnSet(g, S \ {e}) = SumFunctionOnSet(f, S \ {e})
  BY <1>1, SumAgree
<1>4. SumFunctionOnSet(f, S \ {e}) \in Int
  BY <1>1, SumInt
<1> QED
  BY <1>2, <1>3, <1>4

\* The same for a function with one value replaced.
THEOREM SumExcept ==
    ASSUME NEW S, IsFiniteSet(S), NEW f \in [S -> Int], NEW e \in S, NEW n \in Int
    PROVE  SumFunctionOnSet([f EXCEPT ![e] = n], S) = SumFunctionOnSet(f, S) + (n - f[e])
<1> DEFINE g == [f EXCEPT ![e] = n]
<1>1. /\ \A x \in S : f[x] \in Int /\ g[x] \in Int
      /\ \A x \in S \ {e} : g[x] = f[x]
      /\ g[e] = n
  OBVIOUS
<1> HIDE DEF g
<1>2. SumFunctionOnSet(g, S) = SumFunctionOnSet(f, S) + (g[e] - f[e])
  BY <1>1, SumChange
<1> QED
  BY <1>1, <1>2 DEF g

\* The same for a function with one value raised or lowered.
THEOREM SumRaise ==
    ASSUME NEW S, IsFiniteSet(S), NEW f \in [S -> Int], NEW e \in S, NEW n \in Int
    PROVE  /\ SumFunctionOnSet([f EXCEPT ![e] = @ + n], S) = SumFunctionOnSet(f, S) + n
           /\ SumFunctionOnSet([f EXCEPT ![e] = @ - n], S) = SumFunctionOnSet(f, S) - n
<1>1. f[e] \in Int /\ f[e] + n \in Int /\ f[e] - n \in Int
  OBVIOUS
<1>2. SumFunctionOnSet(f, S) \in Int
  BY SumInt
<1>3. SumFunctionOnSet([f EXCEPT ![e] = f[e] + n], S) = SumFunctionOnSet(f, S) + ((f[e] + n) - f[e])
  BY <1>1, SumExcept
<1>4. SumFunctionOnSet([f EXCEPT ![e] = f[e] - n], S) = SumFunctionOnSet(f, S) + ((f[e] - n) - f[e])
  BY <1>1, SumExcept
<1> QED
  BY <1>1, <1>2, <1>3, <1>4

\* Zeros sum to 0.
THEOREM SumZero ==
    ASSUME NEW f, NEW S, IsFiniteSet(S), \A x \in S : f[x] = 0
    PROVE  SumFunctionOnSet(f, S) = 0
<1> DEFINE Good == {s \in SUBSET S : SumFunctionOnSet(f, s) = 0}
<1>1. {} \in Good
  BY SumEmpty
<1>2. ASSUME NEW s \in SUBSET S, NEW x \in s, s \ {x} \in Good
      PROVE  s \in Good
  <2>1. IsFiniteSet(s) /\ \A y \in s : f[y] \in Int
    BY FS_Subset
  <2>2. SumFunctionOnSet(f, s) = f[x] + SumFunctionOnSet(f, s \ {x})
    BY <2>1, SumRemove
  <2> QED
    BY <2>2, <1>2
<1> HIDE DEF Good
<1>3. S \in Good
  BY <1>1, <1>2, SetInduction
<1> QED
  BY <1>3 DEF Good

\* The sum over disjoint sets.
THEOREM SumUnion ==
    ASSUME NEW f, NEW R, NEW S, IsFiniteSet(R), IsFiniteSet(S), R \cap S = {},
           \A x \in R \cup S : f[x] \in Int
    PROVE  SumFunctionOnSet(f, R \cup S) = SumFunctionOnSet(f, R) + SumFunctionOnSet(f, S)
<1> DEFINE Good == {s \in SUBSET S : SumFunctionOnSet(f, R \cup s)
                                     = SumFunctionOnSet(f, R) + SumFunctionOnSet(f, s)}
<1>0. SumFunctionOnSet(f, R) \in Int
  BY SumInt
<1>1. {} \in Good
  <2>1. R \cup {} = R /\ SumFunctionOnSet(f, {}) = 0
    BY SumEmpty
  <2> QED
    BY <1>0, <2>1
<1>2. ASSUME NEW s \in SUBSET S, NEW x \in s, s \ {x} \in Good
      PROVE  s \in Good
  <2> DEFINE T == s \ {x}
             U == R \cup T
  <2>1. /\ IsFiniteSet(T) /\ IsFiniteSet(U) /\ x \notin T /\ x \notin U
        /\ \A y \in U : f[y] \in Int
    BY FS_Subset, FS_Union
  <2>2. T \cup {x} = s /\ U \cup {x} = R \cup s /\ f[x] \in Int /\ \A y \in T : f[y] \in Int
    OBVIOUS
  <2>3. SumFunctionOnSet(f, U) = SumFunctionOnSet(f, R) + SumFunctionOnSet(f, T)
    BY <1>2
  <2> HIDE DEF T, U, Good
  <2>4. /\ SumFunctionOnSet(f, T \cup {x}) = f[x] + SumFunctionOnSet(f, T)
        /\ SumFunctionOnSet(f, U \cup {x}) = f[x] + SumFunctionOnSet(f, U)
        /\ SumFunctionOnSet(f, T) \in Int
    BY <2>1, <2>2, SumAdd, SumInt
  <2>5. /\ SumFunctionOnSet(f, T \cup {x}) = SumFunctionOnSet(f, s)
        /\ SumFunctionOnSet(f, U \cup {x}) = SumFunctionOnSet(f, R \cup s)
    BY <2>2, Zenon
  <2>6. SumFunctionOnSet(f, R \cup s) = SumFunctionOnSet(f, R) + SumFunctionOnSet(f, s)
    BY <1>0, <2>2, <2>3, <2>4, <2>5
  <2> QED
    BY <2>6 DEF Good
<1> HIDE DEF Good
<1>3. S \in Good
  BY <1>1, <1>2, SetInduction
<1> QED
  BY <1>3 DEF Good

\* Of naturals, a part of the sum, and a term of it.
THEOREM SumPart ==
    ASSUME NEW f, NEW S, IsFiniteSet(S), NEW R \in SUBSET S, \A x \in S : f[x] \in Nat
    PROVE  SumFunctionOnSet(f, R) <= SumFunctionOnSet(f, S)
<1> DEFINE Rest == S \ R
<1>1. IsFiniteSet(R) /\ IsFiniteSet(Rest) /\ R \cup Rest = S /\ R \cap Rest = {}
  BY FS_Subset
<1>2. \A x \in Rest : f[x] \in Nat
  OBVIOUS
<1> HIDE DEF Rest
<1>3. SumFunctionOnSet(f, R \cup Rest) = SumFunctionOnSet(f, R) + SumFunctionOnSet(f, Rest)
  BY <1>1, SumUnion
<1>4. SumFunctionOnSet(f, R) \in Nat /\ SumFunctionOnSet(f, Rest) \in Nat
  BY <1>1, <1>2, SumNat
<1>5. SumFunctionOnSet(f, R \cup Rest) = SumFunctionOnSet(f, S)
  BY <1>1, Zenon
<1> QED
  BY <1>3, <1>4, <1>5

\* No one term exceeds the sum of naturals.
THEOREM SumTerm ==
    ASSUME NEW f, NEW S, IsFiniteSet(S), \A x \in S : f[x] \in Nat, NEW e \in S
    PROVE  f[e] <= SumFunctionOnSet(f, S)
<1>1. IsFiniteSet(S \ {e})
  BY FS_Subset
<1>2. SumFunctionOnSet(f, S) = f[e] + SumFunctionOnSet(f, S \ {e})
  BY SumRemove
<1>3. SumFunctionOnSet(f, S \ {e}) \in Nat
  BY <1>1, SumNat
<1> QED
  BY <1>2, <1>3

\* Term by term.
THEOREM SumPlus ==
    ASSUME NEW f, NEW g, NEW h, NEW S, IsFiniteSet(S),
           \A x \in S : f[x] \in Int /\ g[x] \in Int /\ h[x] = f[x] + g[x]
    PROVE  SumFunctionOnSet(h, S) = SumFunctionOnSet(f, S) + SumFunctionOnSet(g, S)
<1> DEFINE Good == {s \in SUBSET S : SumFunctionOnSet(h, s)
                                     = SumFunctionOnSet(f, s) + SumFunctionOnSet(g, s)}
<1>1. {} \in Good
  <2>1. /\ SumFunctionOnSet(f, {}) = 0 /\ SumFunctionOnSet(g, {}) = 0
        /\ SumFunctionOnSet(h, {}) = 0
    BY SumEmpty
  <2> QED
    BY <2>1
<1>2. ASSUME NEW s \in SUBSET S, NEW x \in s, s \ {x} \in Good
      PROVE  s \in Good
  <2> DEFINE T == s \ {x}
  <2>1. /\ IsFiniteSet(s) /\ IsFiniteSet(T) /\ x \in s
        /\ \A y \in s : f[y] \in Int /\ g[y] \in Int /\ h[y] \in Int
        /\ \A y \in T : f[y] \in Int /\ g[y] \in Int
        /\ f[x] \in Int /\ g[x] \in Int /\ h[x] = f[x] + g[x]
    BY FS_Subset
  <2>2. /\ SumFunctionOnSet(f, s) = f[x] + SumFunctionOnSet(f, T)
        /\ SumFunctionOnSet(g, s) = g[x] + SumFunctionOnSet(g, T)
        /\ SumFunctionOnSet(h, s) = h[x] + SumFunctionOnSet(h, T)
    BY <2>1, SumRemove
  <2>3. SumFunctionOnSet(h, T) = SumFunctionOnSet(f, T) + SumFunctionOnSet(g, T)
    BY <1>2
  <2> HIDE DEF T, Good
  <2>4. SumFunctionOnSet(f, T) \in Int /\ SumFunctionOnSet(g, T) \in Int
    BY <2>1, SumInt
  <2>5. SumFunctionOnSet(h, s) = SumFunctionOnSet(f, s) + SumFunctionOnSet(g, s)
    BY <2>1, <2>2, <2>3, <2>4
  <2> QED
    BY <2>5 DEF Good
<1> HIDE DEF Good
<1>3. S \in Good
  BY <1>1, <1>2, SetInduction
<1> QED
  BY <1>3 DEF Good

\* A factor of all terms is a factor of their sum.
THEOREM SumTimes ==
    ASSUME NEW f, NEW g, NEW k \in Int, NEW S, IsFiniteSet(S),
           \A x \in S : f[x] \in Int /\ g[x] = f[x] * k
    PROVE  SumFunctionOnSet(g, S) = SumFunctionOnSet(f, S) * k
<1> DEFINE Good == {s \in SUBSET S : SumFunctionOnSet(g, s) = SumFunctionOnSet(f, s) * k}
<1>1. {} \in Good
  <2>1. SumFunctionOnSet(f, {}) = 0 /\ SumFunctionOnSet(g, {}) = 0
    BY SumEmpty
  <2> QED
    BY <2>1
<1>2. ASSUME NEW s \in SUBSET S, NEW x \in s, s \ {x} \in Good
      PROVE  s \in Good
  <2> DEFINE T == s \ {x}
  <2>1. /\ IsFiniteSet(s) /\ IsFiniteSet(T) /\ x \in s
        /\ \A y \in s : f[y] \in Int /\ g[y] \in Int
        /\ \A y \in T : f[y] \in Int
        /\ f[x] \in Int /\ g[x] = f[x] * k
    BY FS_Subset
  <2>2. /\ SumFunctionOnSet(f, s) = f[x] + SumFunctionOnSet(f, T)
        /\ SumFunctionOnSet(g, s) = g[x] + SumFunctionOnSet(g, T)
    BY <2>1, SumRemove
  <2>3. SumFunctionOnSet(g, T) = SumFunctionOnSet(f, T) * k
    BY <1>2
  <2> HIDE DEF T, Good
  <2>4. SumFunctionOnSet(f, T) \in Int
    BY <2>1, SumInt
  <2>5. \A a, b \in Int : (a + b) * k = a * k + b * k
    OBVIOUS
  <2>6. SumFunctionOnSet(g, s) = SumFunctionOnSet(f, s) * k
    BY <2>1, <2>2, <2>3, <2>4, <2>5
  <2> QED
    BY <2>6 DEF Good
<1> HIDE DEF Good
<1>3. S \in Good
  BY <1>1, <1>2, SetInduction
<1> QED
  BY <1>3 DEF Good

-----------------------------------------------------------------------------
(* Products and quotients of naturals: how the contracts divide.           *)

\* A quotient floors.
LEMMA Quotient ==
    ASSUME NEW a \in Nat, NEW b \in Nat, b > 0
    PROVE  a \div b \in Nat /\ b * (a \div b) <= a /\ a < b * (a \div b) + b
OBVIOUS

\* Products are natural, commute and grow with their factors.
LEMMA ProductNat ==
    ASSUME NEW a \in Nat, NEW b \in Nat
    PROVE  a * b \in Nat /\ a * b = b * a
OBVIOUS

LEMMA ProductMonotone ==
    ASSUME NEW a \in Nat, NEW b \in Nat, NEW c \in Nat, a <= b
    PROVE  a * c <= b * c /\ c * a <= c * b
OBVIOUS

\* Of a product that exceeds another one factor does.
LEMMA FactorBelow ==
    ASSUME NEW a \in Int, NEW b \in Int, NEW c \in Nat, c > 0, c * a < c * b
    PROVE  a < b
OBVIOUS

LEMMA FactorAtMost ==
    ASSUME NEW a \in Int, NEW b \in Int, NEW c \in Nat, c > 0, c * a <= c * b
    PROVE  a <= b
OBVIOUS

\* The greatest number whose product is at most a.
LEMMA QuotientAtMost ==
    ASSUME NEW a \in Nat, NEW b \in Nat, b > 0, NEW n \in Nat
    PROVE  /\ n * b <= a <=> n <= a \div b
           /\ a < n * b <=> a \div b < n
<1> DEFINE q == a \div b
<1>1. q \in Nat /\ b * q <= a /\ a < b * (q + 1)
  BY Quotient
<1> HIDE DEF q
<1>2. ASSUME n <= q PROVE n * b <= a
  <2>1. b * n <= b * q
    BY <1>1, <1>2, ProductMonotone
  <2> QED
    BY <1>1, <2>1
<1>3. ASSUME ~ (n <= q) PROVE a < n * b
  <2>1. q + 1 \in Nat /\ q + 1 <= n
    BY <1>1, <1>3
  <2>2. b * (q + 1) <= b * n
    BY <2>1, ProductMonotone
  <2> QED
    BY <1>1, <2>1, <2>2
<1>4. (n * b <= a <=> n <= q) /\ (a < n * b <=> q < n)
  BY <1>1, <1>2, <1>3
<1> QED
  BY <1>4 DEF q

\* A part n * part / whole of n.
LEMMA PartOf ==
    ASSUME NEW n \in Nat, NEW part \in Nat, NEW whole \in Nat, whole > 0, part <= whole
    PROVE  /\ (n * part) \div whole \in Nat /\ (n * part) \div whole <= n
           /\ (part * n) \div whole \in Nat /\ (part * n) \div whole <= n
<1> DEFINE q == (n * part) \div whole
<1>1. n * part \in Nat /\ n * part <= n * whole /\ n * part = part * n
  BY ProductMonotone, ProductNat
<1>2. q \in Nat /\ whole * q <= n * part
  BY <1>1, Quotient
<1> HIDE DEF q
<1>3. whole * q <= whole * n
  BY <1>1, <1>2
<1>4. q <= n
  BY <1>2, <1>3, FactorAtMost
<1> QED
  BY <1>1, <1>2, <1>4 DEF q
=============================================================================
