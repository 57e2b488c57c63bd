-------------------------- MODULE DegreePathProofs --------------------------
(***************************************************************************)
(* The planner of degree paths, for every plan of courses, record, limit   *)
(* and strategy.                                                           *)
(*                                                                         *)
(* Hours are sums over sets of courses, and the frontier is grown from one *)
(* candidate to the next; the lemmas about both go by induction over the   *)
(* subsets of a finite set, in the form of SubsetInduction: Good is the    *)
(* set of the subsets a statement holds of, and among those it fails of    *)
(* none could be minimal.  A recursive function is a CHOOSE of a function  *)
(* that satisfies an equation (AddsUp, Grows); it is unfolded once it is   *)
(* shown that one such function exists and that any two agree.             *)
(***************************************************************************)
EXTENDS DegreePath, FiniteSetTheorems, WellFoundedInduction, TLAPS

----------------------------------------------------------------------------
(* Induction *)

(* What holds of a set if it holds of its strict subsets, holds of every   *)
(* subset of a finite set: a minimal counterexample would contradict it.   *)
LEMMA SubsetInduction ==
  ASSUME NEW S, IsFiniteSet(S), NEW Good,
         \A T \in SUBSET S : (\A U \in SUBSET T : U # T => U \in Good) => T \in Good
  PROVE  SUBSET S \subseteq Good
<1> DEFINE Bad == {T \in SUBSET S : T \notin Good}
<1>1. IsWellFoundedOn(StrictSubsetOrdering(S), SUBSET S)
  BY FS_StrictSubsetOrderingWellFounded, FS_FiniteSubsetsOfFinite
<1>2. SUFFICES ASSUME Bad # {} PROVE FALSE
  OBVIOUS
<1>3. Bad \subseteq SUBSET S
  OBVIOUS
<1>4. \E T \in Bad : \A U \in Bad : ~ (<<U, T>> \in StrictSubsetOrdering(S))
  <2> HIDE DEF Bad
  <2> QED BY <1>1, <1>2, <1>3, WFMin
<1>5. PICK T \in Bad : \A U \in Bad : ~ (<<U, T>> \in StrictSubsetOrdering(S))
  BY <1>4
<1>6. ASSUME NEW U \in SUBSET T, U # T, U \notin Good PROVE FALSE
  <2>1. U \in Bad /\ <<U, T>> \in StrictSubsetOrdering(S)
    BY <1>6 DEF StrictSubsetOrdering
  <2> QED BY <1>5, <2>1
<1> QED
  BY <1>6

(* The same, element by element.                                           *)
LEMMA ElementInduction ==
  ASSUME NEW S, IsFiniteSet(S), NEW Good, {} \in Good,
         \A T \in SUBSET S : \A x \in S : T \in Good /\ x \notin T => T \union {x} \in Good
  PROVE  SUBSET S \subseteq Good
<1>1. ASSUME NEW T \in SUBSET S, \A U \in SUBSET T : U # T => U \in Good
      PROVE  T \in Good
  <2>1. CASE T = {}
    BY <2>1
  <2>2. CASE T # {}
    <3> PICK x \in T : TRUE
      BY <2>2
    <3>1. T \ {x} \in SUBSET T /\ T \ {x} # T /\ (T \ {x}) \union {x} = T
      OBVIOUS
    <3>2. T \ {x} \in SUBSET S /\ x \in S \ (T \ {x}) /\ T \ {x} \in Good
      BY <1>1, <3>1
    <3> QED BY <3>1, <3>2
  <2> QED BY <2>1, <2>2
<1> QED
  BY <1>1, SubsetInduction

----------------------------------------------------------------------------
(* Sums *)

Pick(s) == CHOOSE x \in s : TRUE

(* h adds up f over every subset of S, element by element.                 *)
AddsUp(h, f, S) ==
  h = [s \in SUBSET S |-> IF s = {} THEN 0 ELSE f[Pick(s)] + h[s \ {Pick(s)}]]

LEMMA SumUnfolds ==
  ASSUME NEW f, NEW S
  PROVE  SumFunctionOnSet(f, S) = (CHOOSE h : AddsUp(h, f, S))[S]
  BY DEF SumFunctionOnSet, FoldFunctionOnSet, MapThenFoldSet, AddsUp, Pick

LEMMA PickIsElement ==
  ASSUME NEW s, s # {}
  PROVE  Pick(s) \in s
  BY DEF Pick

LEMMA AddsUpAgree ==
  ASSUME NEW f, NEW S, NEW T, NEW h, NEW k, AddsUp(h, f, S), AddsUp(k, f, T),
         NEW U \in SUBSET S, U \in SUBSET T, IsFiniteSet(U)
  PROVE  h[U] = k[U]
<1> DEFINE Good == {V \in SUBSET U : h[V] = k[V]}
<1>1. ASSUME NEW V \in SUBSET U, \A W \in SUBSET V : W # V => W \in Good
      PROVE  V \in Good
  <2>1. V \in SUBSET S /\ V \in SUBSET T
    OBVIOUS
  <2>2. CASE V = {}
    BY <2>1, <2>2 DEF AddsUp
  <2>3. CASE V # {}
    <3> DEFINE W == V \ {Pick(V)}
    <3>1. W \in SUBSET V /\ W # V
      BY <2>3, PickIsElement
    <3>2. h[W] = k[W]
      BY <1>1, <3>1
    <3>3. h[V] = f[Pick(V)] + h[W] /\ k[V] = f[Pick(V)] + k[W]
      BY <2>1, <2>3 DEF AddsUp
    <3> QED BY <3>2, <3>3
  <2> QED BY <2>2, <2>3
<1>2. SUBSET U \subseteq Good
  <2> HIDE DEF Good
  <2> QED BY <1>1, SubsetInduction
<1> QED
  BY <1>2

LEMMA AddsUpExists ==
  ASSUME NEW f, NEW S, IsFiniteSet(S)
  PROVE  \E h : AddsUp(h, f, S)
<1> DEFINE Good == {T \in SUBSET S : \E h : AddsUp(h, f, T)}
<1>1. ASSUME NEW T \in SUBSET S, \A U \in SUBSET T : U # T => U \in Good
      PROVE  T \in Good
  <2> DEFINE K(U) == (CHOOSE h : AddsUp(h, f, U))[U]
             g == [s \in SUBSET T |-> IF s = {} THEN 0 ELSE f[Pick(s)] + K(s \ {Pick(s)})]
  <2>1. ASSUME NEW U \in SUBSET T, U # T PROVE g[U] = K(U)
    <3> DEFINE h == CHOOSE h : AddsUp(h, f, U)
    <3>1. AddsUp(h, f, U)
      BY <1>1, <2>1
    <3>2. CASE U = {}
      BY <3>1, <3>2 DEF AddsUp
    <3>3. CASE U # {}
      <4> DEFINE W == U \ {Pick(U)}
                 k == CHOOSE k : AddsUp(k, f, W)
      <4>1. W \in SUBSET T /\ W # T /\ W \in SUBSET U
        BY <3>3, PickIsElement
      <4>2. AddsUp(k, f, W)
        BY <1>1, <4>1
      <4>3. IsFiniteSet(W)
        BY <4>1, FS_Subset
      <4>4. h[W] = k[W]
        <5> HIDE DEF h, k, W
        <5> QED BY <3>1, <4>1, <4>2, <4>3, AddsUpAgree
      <4>5. h[U] = f[Pick(U)] + h[W]
        BY <3>1, <3>3 DEF AddsUp
      <4>6. g[U] = f[Pick(U)] + K(W)
        BY <3>3
      <4> QED BY <4>4, <4>5, <4>6
    <3> QED BY <3>2, <3>3
  <2>2. ASSUME NEW s \in SUBSET T, s # {}
        PROVE  g[s \ {Pick(s)}] = K(s \ {Pick(s)})
    BY <2>1, <2>2, PickIsElement
  <2>3. g = [s \in SUBSET T |-> IF s = {} THEN 0 ELSE f[Pick(s)] + g[s \ {Pick(s)}]]
    <3>1. g = [s \in SUBSET T |-> IF s = {} THEN 0 ELSE f[Pick(s)] + K(s \ {Pick(s)})]
      OBVIOUS
    <3> HIDE DEF g, K
    <3>2. ASSUME NEW s \in SUBSET T
          PROVE  (IF s = {} THEN 0 ELSE f[Pick(s)] + K(s \ {Pick(s)})) =
                 (IF s = {} THEN 0 ELSE f[Pick(s)] + g[s \ {Pick(s)}])
      BY <2>2
    <3> DEFINE gg == [s \in SUBSET T |-> IF s = {} THEN 0 ELSE f[Pick(s)] + g[s \ {Pick(s)}]]
    <3>3. [s \in SUBSET T |-> IF s = {} THEN 0 ELSE f[Pick(s)] + K(s \ {Pick(s)})] = gg
      BY <3>2, Zenon
    <3> QED BY <3>1, <3>3
  <2>4. AddsUp(g, f, T)
    BY <2>3 DEF AddsUp
  <2> QED BY <2>4
<1>2. SUBSET S \subseteq Good
  <2> HIDE DEF Good
  <2> QED BY <1>1, SubsetInduction
<1> QED
  BY <1>2

(* What TLC computes with: the sum of a set by that of the set without one *)
(* of its elements.                                                        *)
LEMMA SumRecursion ==
  ASSUME NEW f, NEW S, IsFiniteSet(S)
  PROVE  /\ S = {} => SumFunctionOnSet(f, S) = 0
         /\ S # {} => SumFunctionOnSet(f, S) =
                        f[Pick(S)] + SumFunctionOnSet(f, S \ {Pick(S)})
<1> DEFINE h == CHOOSE h : AddsUp(h, f, S)
<1>1. AddsUp(h, f, S) /\ SumFunctionOnSet(f, S) = h[S]
  BY AddsUpExists, SumUnfolds
<1>2. CASE S = {}
  BY <1>1, <1>2 DEF AddsUp
<1>3. CASE S # {}
  <2> DEFINE W == S \ {Pick(S)}
             k == CHOOSE k : AddsUp(k, f, W)
  <2>1. IsFiniteSet(W) /\ W \in SUBSET S /\ W \in SUBSET W
    BY FS_Subset
  <2>2. AddsUp(k, f, W) /\ SumFunctionOnSet(f, W) = k[W]
    BY <2>1, AddsUpExists, SumUnfolds
  <2>3. h[W] = k[W]
    <3> HIDE DEF h, k, W
    <3> QED BY <1>1, <2>1, <2>2, AddsUpAgree
  <2>4. h[S] = f[Pick(S)] + h[W]
    BY <1>1, <1>3 DEF AddsUp
  <2> QED BY <1>1, <1>3, <2>2, <2>3, <2>4
<1> QED
  BY <1>2, <1>3

LEMMA SumType ==
  ASSUME NEW S, IsFiniteSet(S), NEW f, \A x \in S : f[x] \in Nat
  PROVE  SumFunctionOnSet(f, S) \in Nat
<1> DEFINE Good == {T \in SUBSET S : SumFunctionOnSet(f, T) \in Nat}
<1>1. ASSUME NEW T \in SUBSET S, \A U \in SUBSET T : U # T => U \in Good
      PROVE  T \in Good
  <2>1. IsFiniteSet(T)
    BY FS_Subset
  <2>2. CASE T = {}
    <3>1. SumFunctionOnSet(f, T) = 0
      BY <2>1, <2>2, SumRecursion
    <3> QED BY <3>1
  <2>3. CASE T # {}
    <3>1. T \ {Pick(T)} \in Good /\ f[Pick(T)] \in Nat
      BY <1>1, <2>3, PickIsElement
    <3> QED BY <2>1, <2>3, <3>1, SumRecursion
  <2> QED BY <2>2, <2>3
<1>2. SUBSET S \subseteq Good
  <2> HIDE DEF Good
  <2> QED BY <1>1, SubsetInduction
<1> QED
  BY <1>2

(* Any element can be taken out of a sum, whichever is picked first.       *)
LEMMA SumTakesOut ==
  ASSUME NEW S, IsFiniteSet(S), NEW f, \A x \in S : f[x] \in Nat, NEW x \in S
  PROVE  SumFunctionOnSet(f, S) = f[x] + SumFunctionOnSet(f, S \ {x})
<1> DEFINE Good == {T \in SUBSET S : \A y \in T : SumFunctionOnSet(f, T) =
                      f[y] + SumFunctionOnSet(f, T \ {y})}
<1>1. ASSUME NEW T \in SUBSET S, \A U \in SUBSET T : U # T => U \in Good
      PROVE  T \in Good
  <2> SUFFICES ASSUME NEW y \in T
               PROVE  SumFunctionOnSet(f, T) = f[y] + SumFunctionOnSet(f, T \ {y})
    OBVIOUS
  <2> DEFINE p == Pick(T)
             R == T \ {p, y}
  <2>1. p \in T /\ IsFiniteSet(T) /\ IsFiniteSet(R)
    BY PickIsElement, FS_Subset
  <2>2. SumFunctionOnSet(f, T) = f[p] + SumFunctionOnSet(f, T \ {p})
    BY <2>1, SumRecursion
  <2>3. CASE p = y
    BY <2>2, <2>3
  <2>4. CASE p # y
    <3>1. T \ {p} \in Good /\ T \ {y} \in Good
      BY <1>1, <2>1
    <3>2. (T \ {p}) \ {y} = R /\ (T \ {y}) \ {p} = R
      OBVIOUS
    <3>3. SumFunctionOnSet(f, T \ {p}) = f[y] + SumFunctionOnSet(f, R)
      BY <2>4, <3>1, <3>2
    <3>4. SumFunctionOnSet(f, T \ {y}) = f[p] + SumFunctionOnSet(f, R)
      BY <2>1, <2>4, <3>1, <3>2
    <3>5. f[p] \in Nat /\ f[y] \in Nat /\ SumFunctionOnSet(f, R) \in Nat
      BY <2>1, SumType
    <3> HIDE DEF p, R
    <3> QED BY <2>2, <3>3, <3>4, <3>5
  <2> QED BY <2>3, <2>4
<1>2. SUBSET S \subseteq Good
  <2> HIDE DEF Good
  <2> QED BY <1>1, SubsetInduction
<1> QED
  BY <1>2

LEMMA SumOfNone ==
  ASSUME NEW f
  PROVE  SumFunctionOnSet(f, {}) = 0
  BY SumRecursion, FS_EmptySet

LEMMA SumPutsIn ==
  ASSUME NEW S, IsFiniteSet(S), NEW f, NEW x, x \notin S,
         \A y \in S \union {x} : f[y] \in Nat
  PROVE  SumFunctionOnSet(f, S \union {x}) = SumFunctionOnSet(f, S) + f[x]
<1>1. IsFiniteSet(S \union {x}) /\ (S \union {x}) \ {x} = S
  BY FS_AddElement
<1>2. SumFunctionOnSet(f, S \union {x}) = f[x] + SumFunctionOnSet(f, S)
  BY <1>1, SumTakesOut
<1>3. SumFunctionOnSet(f, S) \in Nat /\ f[x] \in Nat
  BY SumType
<1> QED
  BY <1>2, <1>3

LEMMA SumOfDisjoint ==
  ASSUME NEW S, IsFiniteSet(S), NEW T, IsFiniteSet(T), S \intersect T = {},
         NEW f, \A y \in S \union T : f[y] \in Nat
  PROVE  SumFunctionOnSet(f, S \union T) = SumFunctionOnSet(f, S) + SumFunctionOnSet(f, T)
<1> DEFINE Good == {U \in SUBSET T : SumFunctionOnSet(f, S \union U) =
                      SumFunctionOnSet(f, S) + SumFunctionOnSet(f, U)}
<1>1. SumFunctionOnSet(f, S) \in Nat
  BY SumType
<1>2. {} \in Good
  <2>1. S \union {} = S
    OBVIOUS
  <2> QED BY <1>1, <2>1, SumOfNone
<1>3. ASSUME NEW U \in SUBSET T, NEW x \in T \ U, U \in Good
      PROVE  U \union {x} \in Good
  <2>1. IsFiniteSet(U) /\ IsFiniteSet(S \union U)
    BY FS_Subset, FS_Union
  <2>2. SumFunctionOnSet(f, U \union {x}) = SumFunctionOnSet(f, U) + f[x]
    BY <2>1, SumPutsIn
  <2>3. SumFunctionOnSet(f, (S \union U) \union {x}) = SumFunctionOnSet(f, S \union U) + f[x]
    BY <2>1, SumPutsIn
  <2>4. S \union (U \union {x}) = (S \union U) \union {x}
    OBVIOUS
  <2>5. SumFunctionOnSet(f, U) \in Nat /\ f[x] \in Nat
    BY <2>1, SumType
  <2>6. SumFunctionOnSet(f, S \union U) = SumFunctionOnSet(f, S) + SumFunctionOnSet(f, U)
    BY <1>3
  <2>7. SumFunctionOnSet(f, S \union (U \union {x})) =
          SumFunctionOnSet(f, S) + SumFunctionOnSet(f, U \union {x})
    BY <1>1, <2>2, <2>3, <2>4, <2>5, <2>6
  <2> QED BY <2>7
<1>4. SUBSET T \subseteq Good
  <2> HIDE DEF Good
  <2>1. \A U \in SUBSET T : \A x \in T : U \in Good /\ x \notin U => U \union {x} \in Good
    BY <1>3
  <2>2. IsFiniteSet(T)
    OBVIOUS
  <2> QED BY ONLY <1>2, <2>1, <2>2, ElementInduction
<1> QED
  BY <1>4

LEMMA SumOfSame ==
  ASSUME NEW S, IsFiniteSet(S), NEW f, NEW g, \A x \in S : f[x] = g[x]
  PROVE  SumFunctionOnSet(f, S) = SumFunctionOnSet(g, S)
<1> DEFINE Good == {T \in SUBSET S : SumFunctionOnSet(f, T) = SumFunctionOnSet(g, T)}
<1>1. ASSUME NEW T \in SUBSET S, \A U \in SUBSET T : U # T => U \in Good
      PROVE  T \in Good
  <2>1. IsFiniteSet(T)
    BY FS_Subset
  <2>2. CASE T = {}
    BY <2>1, <2>2, SumRecursion
  <2>3. CASE T # {}
    <3>1. T \ {Pick(T)} \in Good /\ f[Pick(T)] = g[Pick(T)]
      BY <1>1, <2>3, PickIsElement
    <3> QED BY <2>1, <2>3, <3>1, SumRecursion
  <2> QED BY <2>2, <2>3
<1>2. SUBSET S \subseteq Good
  <2> HIDE DEF Good
  <2> QED BY <1>1, SubsetInduction
<1> QED
  BY <1>2

(* Sums of functions that differ at one element only.                      *)
LEMMA SumOfAlmostSame ==
  ASSUME NEW S, IsFiniteSet(S), NEW f, NEW g, NEW x \in S,
         \A y \in S : f[y] \in Nat /\ g[y] \in Nat,
         \A y \in S \ {x} : f[y] = g[y]
  PROVE  SumFunctionOnSet(f, S) - f[x] = SumFunctionOnSet(g, S) - g[x]
<1> DEFINE R == S \ {x}
<1>1. IsFiniteSet(R)
  BY FS_Subset
<1>2. SumFunctionOnSet(f, R) = SumFunctionOnSet(g, R) /\ SumFunctionOnSet(f, R) \in Nat
  BY <1>1, SumOfSame, SumType
<1>3. /\ SumFunctionOnSet(f, S) = f[x] + SumFunctionOnSet(f, R)
      /\ SumFunctionOnSet(g, S) = g[x] + SumFunctionOnSet(g, R)
  BY SumTakesOut
<1> HIDE DEF R
<1> QED
  BY <1>2, <1>3

----------------------------------------------------------------------------
(* What courses are worth *)

LEMMA FiniteCourses ==
  ASSUME NEW S, S \subseteq Courses
  PROVE  IsFiniteSet(S) /\ \A c \in S : Hours[c] \in Nat
  BY DegreePathAssumption, FS_Subset DEF DegreePathAssumption

LEMMA HoursType ==
  ASSUME NEW S, S \subseteq Courses
  PROVE  HoursOf(S) \in Nat
  BY FiniteCourses, SumType DEF HoursOf

LEMMA HoursPutIn ==
  ASSUME NEW S, S \subseteq Courses, NEW c \in Courses \ S
  PROVE  HoursOf(S \union {c}) = HoursOf(S) + Hours[c]
<1>1. S \union {c} \subseteq Courses /\ c \notin S
  OBVIOUS
<1>2. IsFiniteSet(S) /\ \A d \in S \union {c} : Hours[d] \in Nat
  BY <1>1, FiniteCourses
<1> QED
  BY <1>1, <1>2, SumPutsIn DEF HoursOf

LEMMA HoursOfDisjoint ==
  ASSUME NEW S, S \subseteq Courses, NEW T, T \subseteq Courses, S \intersect T = {}
  PROVE  HoursOf(S \union T) = HoursOf(S) + HoursOf(T)
<1>1. S \union T \subseteq Courses
  OBVIOUS
<1>2. IsFiniteSet(S) /\ IsFiniteSet(T) /\ \A d \in S \union T : Hours[d] \in Nat
  BY <1>1, FiniteCourses
<1> QED
  BY <1>2, SumOfDisjoint DEF HoursOf

LEMMA CreditedType ==
  ASSUME NEW D, D \subseteq Courses, NEW g \in Groups
  PROVE  Credited(D, g) \in Nat
<1>1. HoursOf(D \intersect In(g)) \in Nat
  BY HoursType
<1> QED
  BY <1>1, DegreePathAssumption DEF Credited, Least, DegreePathAssumption

Credits(D) == [g \in Groups |-> Credited(D, g)]

(* A record's credits are a sum over the groups.                           *)
LEMMA CompletedType ==
  ASSUME NEW D, D \subseteq Courses
  PROVE  /\ SumFunctionOnSet(Credits(D), Groups) \in Nat
         /\ Completed(D) = Least(SumFunctionOnSet(Credits(D), Groups), Total)
         /\ Completed(D) \in Nat
<1>1. \A g \in Groups : Credits(D)[g] \in Nat
  BY CreditedType DEF Credits
<1>2. SumFunctionOnSet(Credits(D), Groups) \in Nat
  BY <1>1, SumType, DegreePathAssumption DEF DegreePathAssumption
<1>3. Completed(D) = Least(SumFunctionOnSet(Credits(D), Groups), Total)
  BY DEF Completed, SumFunction, Credits
<1> QED
  BY <1>2, <1>3, DegreePathAssumption DEF DegreePathAssumption, Least

(* One more course is worth its hours at most.                             *)
LEMMA CompletedPutIn ==
  ASSUME NEW D, D \subseteq Courses, NEW c \in Courses \ D
  PROVE  Completed(D \union {c}) <= Completed(D) + Hours[c]
<1> DEFINE E == D \union {c}
           h == GroupOf[c]
<1>1. E \subseteq Courses /\ h \in Groups /\ Hours[c] \in Nat /\ Total \in Nat
      /\ IsFiniteSet(Groups) /\ Needed[h] \in Nat
  BY DegreePathAssumption DEF DegreePathAssumption
<1>2. \A g \in Groups : Credits(D)[g] \in Nat /\ Credits(E)[g] \in Nat
  BY <1>1, CreditedType DEF Credits
<1>3. ASSUME NEW g \in Groups \ {h} PROVE Credits(D)[g] = Credits(E)[g]
  <2>1. E \intersect In(g) = D \intersect In(g)
    BY DEF In
  <2> QED BY <2>1 DEF Credits, Credited
<1>4. Credits(E)[h] <= Credits(D)[h] + Hours[c]
  <2> DEFINE S == D \intersect In(h)
  <2>1. E \intersect In(h) = S \union {c} /\ S \subseteq Courses /\ c \in Courses \ S
    BY DEF In
  <2>2. HoursOf(E \intersect In(h)) = HoursOf(S) + Hours[c] /\ HoursOf(S) \in Nat
    BY <2>1, HoursPutIn, HoursType
  <2>3. Credits(E)[h] = Least(HoursOf(S) + Hours[c], Needed[h])
        /\ Credits(D)[h] = Least(HoursOf(S), Needed[h])
    BY <1>1, <2>2 DEF Credits, Credited
  <2> QED BY <1>1, <2>2, <2>3 DEF Least
<1>5. SumFunctionOnSet(Credits(D), Groups) - Credits(D)[h] =
      SumFunctionOnSet(Credits(E), Groups) - Credits(E)[h]
  <2> DEFINE f == Credits(D)
             k == Credits(E)
  <2>1. /\ IsFiniteSet(Groups) /\ h \in Groups
        /\ \A g \in Groups : f[g] \in Nat /\ k[g] \in Nat
        /\ \A g \in Groups \ {h} : f[g] = k[g]
    BY <1>1, <1>2, <1>3
  <2> HIDE DEF f, k, h
  <2>2. SumFunctionOnSet(f, Groups) - f[h] = SumFunctionOnSet(k, Groups) - k[h]
    BY ONLY <2>1, SumOfAlmostSame
  <2> QED BY <2>2 DEF f, k
<1>6. /\ SumFunctionOnSet(Credits(D), Groups) \in Nat
      /\ Completed(D) = Least(SumFunctionOnSet(Credits(D), Groups), Total)
      /\ SumFunctionOnSet(Credits(E), Groups) \in Nat
      /\ Completed(E) = Least(SumFunctionOnSet(Credits(E), Groups), Total)
  BY <1>1, CompletedType
<1> HIDE DEF E, h
<1>7. SumFunctionOnSet(Credits(E), Groups) <= SumFunctionOnSet(Credits(D), Groups) + Hours[c]
  BY <1>1, <1>2, <1>4, <1>5, <1>6
<1>8. Completed(E) <= Completed(D) + Hours[c]
  BY <1>1, <1>6, <1>7 DEF Least
<1> QED
  BY <1>8 DEF E

(* What the projection of a semester gains is what the record with that    *)
(* semester is worth more.                                                 *)
LEMMA GainIsDifference ==
  ASSUME NEW D, D \subseteq Courses, NEW S, S \subseteq Courses
  PROVE  Gain(D, S) = Completed(D \union S) - Completed(D)
<1>1. ASSUME NEW g \in Groups
      PROVE  HoursOf(D \intersect In(g)) + HoursOf((S \ D) \intersect In(g)) =
             HoursOf((D \union S) \intersect In(g))
  <2>1. (D \union S) \intersect In(g) = (D \intersect In(g)) \union ((S \ D) \intersect In(g))
    OBVIOUS
  <2>2. /\ D \intersect In(g) \subseteq Courses /\ (S \ D) \intersect In(g) \subseteq Courses
        /\ (D \intersect In(g)) \intersect ((S \ D) \intersect In(g)) = {}
    OBVIOUS
  <2> QED BY <2>1, <2>2, HoursOfDisjoint
<1>2. [g \in Groups |-> Least(HoursOf(D \intersect In(g)) + HoursOf((S \ D) \intersect In(g)),
                              Needed[g])] = [g \in Groups |-> Credited(D \union S, g)]
  BY <1>1, Zenon DEF Credited
<1> QED
  BY <1>2, Zenon DEF Gain, Completed

(* ... which is the hours of the semester at most.                         *)
LEMMA GainBound ==
  ASSUME NEW D, D \subseteq Courses, NEW S, S \subseteq Courses \ D
  PROVE  Gain(D, S) <= HoursOf(S)
<1> DEFINE Good == {T \in SUBSET S : Completed(D \union T) <= Completed(D) + HoursOf(T)}
<1>1. Completed(D) \in Nat
  BY CompletedType
<1>2. {} \in Good
  <2>1. HoursOf({}) = 0 /\ D \union {} = D
    BY SumOfNone DEF HoursOf
  <2> QED BY <1>1, <2>1
<1>3. ASSUME NEW T \in SUBSET S, NEW c \in S, T \in Good /\ c \notin T
      PROVE  T \union {c} \in Good
  <2> DEFINE E == D \union T
  <2>1. E \subseteq Courses /\ c \in Courses \ E /\ T \subseteq Courses /\ c \in Courses \ T
    BY <1>3
  <2>2. /\ Completed(E \union {c}) <= Completed(E) + Hours[c]
        /\ HoursOf(T \union {c}) = HoursOf(T) + Hours[c]
    BY <2>1, CompletedPutIn, HoursPutIn
  <2>3. /\ Completed(E) \in Nat /\ HoursOf(T) \in Nat /\ Hours[c] \in Nat
        /\ E \union {c} \subseteq Courses
    BY <2>1, CompletedType, HoursType, FiniteCourses
  <2>4. Completed(E \union {c}) \in Nat
    BY <2>3, CompletedType
  <2>5. D \union (T \union {c}) = E \union {c} /\ Completed(E) <= Completed(D) + HoursOf(T)
    BY <1>3
  <2>6. Completed(D \union (T \union {c})) <= Completed(D) + HoursOf(T \union {c})
    <3> DEFINE a == Completed(D)
               b == Completed(E)
               d == Completed(E \union {c})
               m == HoursOf(T)
               n == HoursOf(T \union {c})
    <3>1. /\ a \in Nat /\ b \in Nat /\ d \in Nat /\ m \in Nat /\ Hours[c] \in Nat
          /\ d <= b + Hours[c] /\ n = m + Hours[c] /\ b <= a + m
      BY <1>1, <2>2, <2>3, <2>4, <2>5
    <3>2. Completed(D \union (T \union {c})) = d
      BY <2>5
    <3> HIDE DEF a, b, d, m, n
    <3>3. d <= a + n
      BY ONLY <3>1
    <3> QED BY <3>2, <3>3 DEF a, n
  <2> QED BY <2>6
<1>4. SUBSET S \subseteq Good
  <2> HIDE DEF Good
  <2>1. IsFiniteSet(S)
    BY FiniteCourses
  <2>2. \A T \in SUBSET S : \A c \in S : T \in Good /\ c \notin T => T \union {c} \in Good
    BY <1>3
  <2> QED BY ONLY <1>2, <2>1, <2>2, ElementInduction
<1>5. Completed(D \union S) <= Completed(D) + HoursOf(S)
  BY <1>4
<1>6. Completed(D \union S) \in Nat /\ HoursOf(S) \in Nat
  BY CompletedType, HoursType
<1> QED
  BY <1>1, <1>5, <1>6, GainIsDifference

----------------------------------------------------------------------------
(* The frontier *)

(* The combinations of the courses C that keep the limits and count in     *)
(* full after D.                                                           *)
Full(D, C, cap) ==
  {S \in SUBSET C : /\ Cardinality(S) <= MaxCourses
                    /\ HoursOf(S) <= cap
                    /\ Gain(D, S) = HoursOf(S)}

(* What joining the candidate c makes of some combinations, before the cut *)
Joined(D, sets, c, cap) ==
  sets \union {S \union {c} : S \in {T \in sets : Extends(D, T, c, cap)}}

(* h is the frontier of every subset of the window W.                      *)
Grows(h, D, rank, W, cap) ==
  h = [s \in SUBSET W |->
         IF s = {} THEN {{}}
         ELSE Grown(D, rank, h[s \ {Last(rank, s)}], Last(rank, s), cap)]

LEMMA FrontierUnfolds ==
  ASSUME NEW D, NEW now, NEW cap
  PROVE  Frontier(D, now, cap) =
           (CHOOSE h : Grows(h, D, Ranks(D, now), Window(D, now), cap))[Window(D, now)]
  BY DEF Frontier, Window, Grows

LEMMA GrownIsKept ==
  ASSUME NEW D, NEW rank, NEW sets, NEW c, NEW cap
  PROVE  Grown(D, rank, sets, c, cap) = Kept(D, rank, Joined(D, sets, c, cap))
  BY DEF Grown, Joined

(* The cut only drops combinations ...                                     *)
LEMMA KeptAreSome ==
  ASSUME NEW D, NEW rank, NEW sets
  PROVE  Kept(D, rank, sets) \subseteq sets
  BY DEF Kept

(* ... and drops none if they are few.                                     *)
LEMMA FewAreKept ==
  ASSUME NEW D, NEW rank, NEW sets, Cardinality(sets) <= CombinationLimit
  PROVE  Kept(D, rank, sets) = sets
  BY DEF Kept

(* Ranks number the candidates.                                            *)
LEMMA RanksType ==
  ASSUME NEW D, NEW now
  PROVE  /\ DOMAIN Ranks(D, now) = Candidates(D, now)
         /\ \A c \in Candidates(D, now) : Ranks(D, now)[c] \in Nat
<1> DEFINE C == Candidates(D, now)
           priority == [c \in C |-> Priority(D, now, c)]
           above(c) == {d \in C : Above(priority[d], priority[c])}
<1>1. Ranks(D, now) = [c \in C |-> 1 + Cardinality(above(c))]
  BY DEF Ranks
<1>2. C \subseteq Courses
  BY DEF Candidates, Incomplete, Plan
<1> HIDE DEF C, priority
<1>3. ASSUME NEW c PROVE Cardinality(above(c)) \in Nat
  BY <1>2, FiniteCourses, FS_CardinalityType
<1> HIDE DEF above
<1> QED
  BY <1>1, <1>3 DEF C

LEMMA WindowIsCandidates ==
  ASSUME NEW D, NEW now
  PROVE  /\ Window(D, now) \subseteq Candidates(D, now)
         /\ Window(D, now) \subseteq Courses \ D
<1>1. Window(D, now) \subseteq Candidates(D, now)
  BY RanksType DEF Window, InWindow
<1> QED
  BY <1>1 DEF Candidates, Incomplete, Plan

(* A finite set of candidates has a last one.                              *)
LEMMA LastIsElement ==
  ASSUME NEW D, NEW now, NEW W, W \subseteq Candidates(D, now), W # {}
  PROVE  Last(Ranks(D, now), W) \in W
<1> DEFINE rank == Ranks(D, now)
           Good == {T \in SUBSET W : T # {} => \E c \in T : \A d \in T : rank[d] <= rank[c]}
<1>1. \A c \in W : rank[c] \in Nat
  BY RanksType
<1>2. IsFiniteSet(W)
  BY FiniteCourses DEF Candidates, Incomplete, Plan
<1> HIDE DEF rank
<1>3. {} \in Good
  OBVIOUS
<1>4. ASSUME NEW T \in SUBSET W, NEW x \in W, T \in Good, x \notin T
      PROVE  T \union {x} \in Good
  <2>1. CASE T = {}
    <3>1. rank[x] <= rank[x]
      BY <1>1
    <3> QED BY <2>1, <3>1
  <2>2. CASE T # {}
    <3>1. PICK c \in T : \A d \in T : rank[d] <= rank[c]
      BY <1>4, <2>2
    <3>2. CASE rank[x] <= rank[c]
      <4>1. \A d \in T \union {x} : rank[d] <= rank[c]
        BY <3>1, <3>2
      <4> QED BY <4>1
    <3>3. CASE ~(rank[x] <= rank[c])
      <4>1. \A d \in T \union {x} : rank[d] <= rank[x]
        <5> SUFFICES ASSUME NEW d \in T \union {x} PROVE rank[d] <= rank[x]
          OBVIOUS
        <5>1. rank[d] \in Nat /\ rank[x] \in Nat /\ rank[c] \in Nat
          BY <1>1
        <5> QED BY <3>1, <3>3, <5>1
      <4> QED BY <4>1
    <3> QED BY <3>2, <3>3
  <2> QED BY <2>1, <2>2
<1>5. SUBSET W \subseteq Good
  <2> HIDE DEF Good
  <2>1. \A T \in SUBSET W : \A x \in W : T \in Good /\ x \notin T => T \union {x} \in Good
    BY <1>4
  <2> QED BY ONLY <1>2, <1>3, <2>1, ElementInduction
<1>6. \E c \in W : \A d \in W : rank[d] <= rank[c]
  BY <1>5
<1>7. Last(rank, W) \in W
  BY <1>6 DEF Last
<1> QED
  BY <1>7 DEF rank

LEMMA GrowsAgree ==
  ASSUME NEW D, NEW rank, NEW cap, NEW S, NEW T, NEW h, NEW k,
         Grows(h, D, rank, S, cap), Grows(k, D, rank, T, cap),
         NEW U \in SUBSET S, U \in SUBSET T, IsFiniteSet(U),
         \A V \in SUBSET U : V # {} => Last(rank, V) \in V
  PROVE  h[U] = k[U]
<1> DEFINE Good == {V \in SUBSET U : h[V] = k[V]}
<1>1. ASSUME NEW V \in SUBSET U, \A W \in SUBSET V : W # V => W \in Good
      PROVE  V \in Good
  <2>1. V \in SUBSET S /\ V \in SUBSET T
    OBVIOUS
  <2>2. CASE V = {}
    BY <2>1, <2>2 DEF Grows
  <2>3. CASE V # {}
    <3> DEFINE c == Last(rank, V)
               W == V \ {c}
    <3>1. W \in SUBSET V /\ W # V
      BY <2>3
    <3>2. h[W] = k[W]
      BY <1>1, <3>1
    <3>3. h[V] = Grown(D, rank, h[W], c, cap) /\ k[V] = Grown(D, rank, k[W], c, cap)
      BY <2>1, <2>3 DEF Grows
    <3> QED BY <3>2, <3>3
  <2> QED BY <2>2, <2>3
<1>2. SUBSET U \subseteq Good
  <2> HIDE DEF Good
  <2> QED BY <1>1, SubsetInduction
<1> QED
  BY <1>2

LEMMA GrowsExists ==
  ASSUME NEW D, NEW rank, NEW cap, NEW S, IsFiniteSet(S),
         \A V \in SUBSET S : V # {} => Last(rank, V) \in V
  PROVE  \E h : Grows(h, D, rank, S, cap)
<1> DEFINE Good == {T \in SUBSET S : \E h : Grows(h, D, rank, T, cap)}
           L(s) == Last(rank, s)
<1>1. ASSUME NEW T \in SUBSET S, \A U \in SUBSET T : U # T => U \in Good
      PROVE  T \in Good
  <2> DEFINE K(U) == (CHOOSE h : Grows(h, D, rank, U, cap))[U]
             g == [s \in SUBSET T |-> IF s = {} THEN {{}}
                                      ELSE Grown(D, rank, K(s \ {L(s)}), L(s), cap)]
  <2>1. ASSUME NEW U \in SUBSET T, U # T PROVE g[U] = K(U)
    <3> DEFINE h == CHOOSE h : Grows(h, D, rank, U, cap)
    <3>1. Grows(h, D, rank, U, cap)
      BY <1>1, <2>1
    <3>2. CASE U = {}
      BY <3>1, <3>2 DEF Grows
    <3>3. CASE U # {}
      <4> DEFINE W == U \ {L(U)}
                 k == CHOOSE k : Grows(k, D, rank, W, cap)
      <4>1. W \in SUBSET T /\ W # T /\ W \in SUBSET U /\ W \in SUBSET S
        BY <3>3
      <4>2. Grows(k, D, rank, W, cap)
        BY <1>1, <4>1
      <4>3. IsFiniteSet(W) /\ \A V \in SUBSET W : V # {} => Last(rank, V) \in V
        BY <4>1, FS_Subset
      <4>4. h[W] = k[W]
        <5> HIDE DEF h, k, W
        <5> QED BY <3>1, <4>1, <4>2, <4>3, GrowsAgree
      <4>5. h[U] = Grown(D, rank, h[W], L(U), cap)
        BY <3>1, <3>3 DEF Grows
      <4>6. g[U] = Grown(D, rank, K(W), L(U), cap)
        BY <3>3
      <4> QED BY <4>4, <4>5, <4>6
    <3> QED BY <3>2, <3>3
  <2>2. ASSUME NEW s \in SUBSET T, s # {} PROVE g[s \ {L(s)}] = K(s \ {L(s)})
    <3>1. L(s) \in s
      BY <2>2
    <3> HIDE DEF g, K, L
    <3> QED BY <2>1, <3>1
  <2>3. g = [s \in SUBSET T |-> IF s = {} THEN {{}}
                                ELSE Grown(D, rank, g[s \ {L(s)}], L(s), cap)]
    <3>1. g = [s \in SUBSET T |-> IF s = {} THEN {{}}
                                  ELSE Grown(D, rank, K(s \ {L(s)}), L(s), cap)]
      OBVIOUS
    <3> HIDE DEF g, K, L
    <3>2. ASSUME NEW s \in SUBSET T
          PROVE  (IF s = {} THEN {{}} ELSE Grown(D, rank, K(s \ {L(s)}), L(s), cap)) =
                 (IF s = {} THEN {{}} ELSE Grown(D, rank, g[s \ {L(s)}], L(s), cap))
      BY <2>2
    <3> DEFINE gg == [s \in SUBSET T |-> IF s = {} THEN {{}}
                                         ELSE Grown(D, rank, g[s \ {L(s)}], L(s), cap)]
    <3>3. [s \in SUBSET T |-> IF s = {} THEN {{}}
                              ELSE Grown(D, rank, K(s \ {L(s)}), L(s), cap)] = gg
      BY <3>2, Zenon
    <3> QED BY <3>1, <3>3
  <2>4. Grows(g, D, rank, T, cap)
    BY <2>3 DEF Grows
  <2> QED BY <2>4
<1>2. SUBSET S \subseteq Good
  <2> HIDE DEF Good
  <2> QED BY <1>1, SubsetInduction
<1> QED
  BY <1>2

(* The frontier, as what grows it                                          *)
LEMMA FrontierGrows ==
  ASSUME NEW D, NEW now, NEW cap
  PROVE  \E h : /\ Grows(h, D, Ranks(D, now), Window(D, now), cap)
                /\ Frontier(D, now, cap) = h[Window(D, now)]
<1> DEFINE W == Window(D, now)
           rank == Ranks(D, now)
<1>1. W \subseteq Candidates(D, now) /\ IsFiniteSet(W)
  BY WindowIsCandidates, FiniteCourses
<1>2. \A V \in SUBSET W : V # {} => Last(rank, V) \in V
  BY <1>1, LastIsElement
<1>3. \E h : Grows(h, D, rank, W, cap)
  <2> HIDE DEF W, rank
  <2> QED BY <1>1, <1>2, GrowsExists
<1> QED
  BY <1>3, FrontierUnfolds

(* A combination that counts in full still does without one of its courses. *)
LEMMA FullWithout ==
  ASSUME NEW D, D \subseteq Courses, NEW C, C \subseteq Courses \ D, NEW cap \in Nat,
         NEW S \in Full(D, C, cap), NEW c \in S
  PROVE  S \ {c} \in Full(D, C \ {c}, cap) /\ Extends(D, S \ {c}, c, cap)
<1> DEFINE T == S \ {c}
<1>1. /\ S \subseteq C /\ T \subseteq C \ {c} /\ T \union {c} = S
      /\ S \subseteq Courses /\ T \subseteq Courses /\ c \in Courses \ T
      /\ S \subseteq Courses \ D /\ T \subseteq Courses \ D /\ c \in Courses \ (D \union T)
      /\ D \union T \subseteq Courses /\ D \union S = (D \union T) \union {c}
      /\ D \union S \subseteq Courses
  BY DEF Full
<1>2. Cardinality(S) = Cardinality(T) + 1 /\ Cardinality(T) \in Nat
  <2>1. IsFiniteSet(T) /\ c \notin T
    BY <1>1, FiniteCourses
  <2> HIDE DEF T
  <2> QED BY <1>1, <2>1, FS_AddElement, FS_CardinalityType
<1>3. /\ HoursOf(S) = HoursOf(T) + Hours[c]
      /\ HoursOf(T) \in Nat /\ Hours[c] \in Nat
  <2> HIDE DEF T
  <2> QED BY <1>1, HoursPutIn, HoursType, FiniteCourses
<1>4. Gain(D, T) <= HoursOf(T) /\ Gain(D, S) <= Gain(D, T) + Hours[c] /\ Gain(D, T) \in Int
  <2> HIDE DEF T
  <2>1. Gain(D, T) <= HoursOf(T)
    BY <1>1, GainBound
  <2>2. /\ Gain(D, T) = Completed(D \union T) - Completed(D)
        /\ Gain(D, S) = Completed(D \union S) - Completed(D)
    BY <1>1, GainIsDifference
  <2>3. Completed(D \union S) <= Completed(D \union T) + Hours[c]
    BY <1>1, CompletedPutIn
  <2>4. /\ Completed(D) \in Nat /\ Completed(D \union T) \in Nat /\ Completed(D \union S) \in Nat
    BY <1>1, CompletedType
  <2> QED BY <1>3, <2>1, <2>2, <2>3, <2>4
<1>5. Cardinality(S) <= MaxCourses /\ HoursOf(S) <= cap /\ Gain(D, S) = HoursOf(S)
      /\ MaxCourses \in Nat
  BY DegreePathAssumption DEF Full, DegreePathAssumption
<1> HIDE DEF T
<1>6. Gain(D, T) = HoursOf(T) /\ HoursOf(T) <= cap /\ Cardinality(T) <= MaxCourses
  BY <1>2, <1>3, <1>4, <1>5
<1>7. T \in Full(D, C \ {c}, cap)
  BY <1>1, <1>6 DEF Full
<1>8. Extends(D, T, c, cap)
  BY <1>1, <1>2, <1>3, <1>5 DEF Extends
<1> QED
  BY <1>7, <1>8 DEF T

(* ... and one that another course may join still counts in full.          *)
LEMMA FullWith ==
  ASSUME NEW D, D \subseteq Courses, NEW C, C \subseteq Courses \ D, NEW cap \in Nat,
         NEW c \in C, NEW T \in Full(D, C \ {c}, cap), Extends(D, T, c, cap)
  PROVE  T \union {c} \in Full(D, C, cap)
<1>1. T \subseteq C \ {c} /\ T \subseteq Courses /\ c \in Courses \ T
  BY DEF Full
<1>2. IsFiniteSet(T)
  BY <1>1, FiniteCourses
<1>3. Cardinality(T \union {c}) = Cardinality(T) + 1
  BY <1>1, <1>2, FS_AddElement
<1>4. HoursOf(T \union {c}) = HoursOf(T) + Hours[c]
  BY <1>1, HoursPutIn
<1> QED
  BY <1>1, <1>3, <1>4 DEF Full, Extends

(* One candidate more.                                                     *)
LEMMA FullGrows ==
  ASSUME NEW D, D \subseteq Courses, NEW C, C \subseteq Courses \ D, NEW cap \in Nat,
         NEW c \in C
  PROVE  Full(D, C, cap) = Joined(D, Full(D, C \ {c}, cap), c, cap)
<1>1. Full(D, C \ {c}, cap) \subseteq Full(D, C, cap)
  BY DEF Full
<1>2. ASSUME NEW T \in Full(D, C \ {c}, cap), Extends(D, T, c, cap)
      PROVE  T \union {c} \in Full(D, C, cap)
  BY <1>2, FullWith
<1>3. ASSUME NEW S \in Full(D, C, cap), c \notin S
      PROVE  S \in Full(D, C \ {c}, cap)
  BY <1>3 DEF Full
<1>4. ASSUME NEW S \in Full(D, C, cap), c \in S
      PROVE  \E T \in Full(D, C \ {c}, cap) : Extends(D, T, c, cap) /\ S = T \union {c}
  <2>1. S \ {c} \in Full(D, C \ {c}, cap) /\ Extends(D, S \ {c}, c, cap)
    BY <1>4, FullWithout
  <2>2. S = (S \ {c}) \union {c}
    BY <1>4
  <2> QED BY <2>1, <2>2
<1> DEFINE sets == Full(D, C \ {c}, cap)
           all == Full(D, C, cap)
<1>5. all \subseteq Joined(D, sets, c, cap)
  <2> SUFFICES ASSUME NEW S \in all PROVE S \in Joined(D, sets, c, cap)
    OBVIOUS
  <2>1. S \in sets \/ \E T \in sets : Extends(D, T, c, cap) /\ S = T \union {c}
    BY <1>3, <1>4
  <2> HIDE DEF sets, all
  <2> QED BY <2>1 DEF Joined
<1>6. Joined(D, sets, c, cap) \subseteq all
  <2>1. sets \subseteq all /\ \A T \in sets : Extends(D, T, c, cap) => T \union {c} \in all
    BY <1>1, <1>2
  <2> HIDE DEF sets, all
  <2> QED BY <2>1 DEF Joined
<1> QED
  BY <1>5, <1>6

LEMMA FullOfNone ==
  ASSUME NEW D, D \subseteq Courses, NEW cap \in Nat
  PROVE  Full(D, {}, cap) = {{}}
<1>1. HoursOf({}) = 0 /\ Cardinality({}) = 0 /\ MaxCourses \in Nat
  BY SumOfNone, FS_EmptySet, DegreePathAssumption DEF HoursOf, DegreePathAssumption
<1>2. Gain(D, {}) = 0
  <2>1. D \union {} = D /\ {} \subseteq Courses
    OBVIOUS
  <2> QED BY <2>1, GainIsDifference, CompletedType
<1> QED
  BY <1>1, <1>2 DEF Full

(* The frontier holds only combinations that keep the limits and count in  *)
(* full, and all of them if they are few.                                  *)
LEMMA FrontierIsFull ==
  ASSUME NEW D, D \subseteq Courses, NEW now, NEW cap \in Nat
  PROVE  LET full == Full(D, Window(D, now), cap)
         IN  /\ Frontier(D, now, cap) \subseteq full
             /\ Cardinality(full) <= CombinationLimit => Frontier(D, now, cap) = full
<1> DEFINE W == Window(D, now)
           rank == Ranks(D, now)
<1>1. PICK h : Grows(h, D, rank, W, cap) /\ Frontier(D, now, cap) = h[W]
  BY FrontierGrows
<1>2. W \subseteq Candidates(D, now) /\ W \subseteq Courses \ D /\ IsFiniteSet(W)
  BY WindowIsCandidates, FiniteCourses
<1>3. ASSUME NEW s \in SUBSET W, s # {} PROVE Last(rank, s) \in s
  BY <1>2, <1>3, LastIsElement
<1> HIDE DEF W, rank
<1>4. h[{}] = {{}} /\ \A s \in SUBSET W : s # {} =>
        h[s] = Grown(D, rank, h[s \ {Last(rank, s)}], Last(rank, s), cap)
  BY <1>1 DEF Grows
<1> DEFINE Some == {s \in SUBSET W : h[s] \subseteq Full(D, s, cap)}
<1>5. ASSUME NEW s \in SUBSET W, \A u \in SUBSET s : u # s => u \in Some
      PROVE  s \in Some
  <2>1. CASE s = {}
    BY <1>4, <2>1, FullOfNone
  <2>2. CASE s # {}
    <3> DEFINE c == Last(rank, s)
               sets == h[s \ {c}]
    <3>1. c \in s /\ s \subseteq Courses \ D
      BY <1>2, <1>3, <2>2
    <3>2. sets \subseteq Full(D, s \ {c}, cap)
      <4>1. s \ {c} \in SUBSET s /\ s \ {c} # s
        BY <3>1
      <4> HIDE DEF c
      <4> QED BY <1>5, <4>1
    <3>3. h[s] = Kept(D, rank, Joined(D, sets, c, cap))
      BY <1>4, <2>2, GrownIsKept
    <3> HIDE DEF c, sets
    <3>4. Joined(D, sets, c, cap) \subseteq Joined(D, Full(D, s \ {c}, cap), c, cap)
      BY <3>2 DEF Joined
    <3>5. Full(D, s, cap) = Joined(D, Full(D, s \ {c}, cap), c, cap)
      BY <3>1, FullGrows
    <3>6. h[s] \subseteq Joined(D, sets, c, cap)
      BY <3>3, KeptAreSome
    <3>7. h[s] \subseteq Full(D, s, cap)
      BY ONLY <3>4, <3>5, <3>6
    <3> QED BY <3>7
  <2> QED BY <2>1, <2>2
<1>6. SUBSET W \subseteq Some
  <2> HIDE DEF Some
  <2> QED BY <1>2, <1>5, SubsetInduction
<1>7. ASSUME Cardinality(Full(D, W, cap)) <= CombinationLimit
      PROVE  h[W] = Full(D, W, cap)
  <2> DEFINE Good == {s \in SUBSET W : h[s] = Full(D, s, cap)}
  <2>1. ASSUME NEW s \in SUBSET W PROVE Cardinality(Full(D, s, cap)) <= CombinationLimit
    <3>1. Full(D, s, cap) \subseteq Full(D, W, cap)
      BY DEF Full
    <3>2. IsFiniteSet(Full(D, W, cap))
      <4>1. Full(D, W, cap) \subseteq SUBSET W
        BY DEF Full
      <4> QED BY <1>2, <4>1, FS_SUBSET, FS_Subset
    <3>3. /\ Cardinality(Full(D, s, cap)) <= Cardinality(Full(D, W, cap))
          /\ Cardinality(Full(D, s, cap)) \in Nat /\ Cardinality(Full(D, W, cap)) \in Nat
      BY <3>1, <3>2, FS_Subset, FS_CardinalityType
    <3>4. CombinationLimit \in Nat
      BY DegreePathAssumption DEF DegreePathAssumption
    <3> QED BY <1>7, <3>3, <3>4
  <2>2. ASSUME NEW s \in SUBSET W, \A u \in SUBSET s : u # s => u \in Good
        PROVE  s \in Good
    <3>1. CASE s = {}
      BY <1>4, <3>1, FullOfNone
    <3>2. CASE s # {}
      <4> DEFINE c == Last(rank, s)
      <4>1. c \in s /\ s \subseteq Courses \ D
        BY <1>2, <1>3, <3>2
      <4>2. h[s \ {c}] = Full(D, s \ {c}, cap)
        <5>1. s \ {c} \in SUBSET s /\ s \ {c} # s
          BY <4>1
        <5> HIDE DEF c
        <5> QED BY <2>2, <5>1
      <4>3. h[s] = Kept(D, rank, Joined(D, h[s \ {c}], c, cap))
        BY <1>4, <3>2, GrownIsKept
      <4> HIDE DEF c
      <4>4. Full(D, s, cap) = Joined(D, Full(D, s \ {c}, cap), c, cap)
        BY <4>1, FullGrows
      <4>5. h[s] = Kept(D, rank, Full(D, s, cap))
        BY <4>2, <4>3, <4>4
      <4>6. h[s] = Full(D, s, cap)
        BY <2>1, <4>5, FewAreKept
      <4> QED BY <4>6
    <3> QED BY <3>1, <3>2
  <2>3. SUBSET W \subseteq Good
    <3> HIDE DEF Good
    <3> QED BY <1>2, <2>2, SubsetInduction
  <2> QED BY <2>3
<1>8. h[W] \subseteq Full(D, W, cap)
  BY <1>6
<1> QED
  BY <1>1, <1>7, <1>8 DEF W

----------------------------------------------------------------------------
(* The properties of a path *)

LEMMA CapType ==
  ASSUME PathTypeOK
  PROVE  Cap \in Nat
  BY DegreePathAssumption DEF DegreePathAssumption, PathTypeOK, Cap, Strategies, Least

LEMMA DoneType ==
  ASSUME PathTypeOK
  PROVE  Planned \subseteq Courses /\ Done \subseteq Courses
<1>1. \A i \in DOMAIN terms : terms[i] \subseteq Courses
  BY DEF PathTypeOK
<1> QED
  BY <1>1 DEF Planned, Done, PathTypeOK

(* A semester is made of candidates, none of them done.                    *)
LEMMA SemesterFacts ==
  ASSUME PathTypeOK, NEW S \in SemesterPlans(Done, enrolled, Cap)
  PROVE  /\ S \subseteq Candidates(Done, enrolled)
         /\ S \subseteq Courses /\ S \intersect Done = {}
         /\ Completed(Done \union S) - Completed(Done) = HoursOf(S)
<1>1. S \in Full(Done, Window(Done, enrolled), Cap)
  BY CapType, DoneType, FrontierIsFull DEF SemesterPlans
<1>2. S \subseteq Candidates(Done, enrolled) /\ Gain(Done, S) = HoursOf(S)
  BY <1>1, WindowIsCandidates DEF Full
<1>3. S \subseteq Courses /\ S \intersect Done = {}
  BY <1>2 DEF Candidates, Incomplete, Plan
<1> QED
  BY <1>2, <1>3, DoneType, GainIsDifference

(* One more semester.                                                      *)
LEMMA PlannedGrows ==
  ASSUME PathTypeOK, NEW S \in SUBSET Courses, terms' = Append(terms, S)
  PROVE  Planned' = Planned \union S
<1>1. terms \in Seq(SUBSET Courses)
  BY DEF PathTypeOK
<1>2. /\ DOMAIN terms' = DOMAIN terms \union {Len(terms) + 1}
      /\ \A i \in DOMAIN terms : terms'[i] = terms[i]
      /\ terms'[Len(terms) + 1] = S
  BY <1>1
<1> QED
  BY <1>2 DEF Planned

(* Every variable of the path planner keeps its type, and no path is       *)
(* longer than max_semesters_ahead: the code appends a semester plan only  *)
(* below that horizon.                                                     *)
THEOREM PathTypeCorrect == PathSpec => []PathTypeOK
<1>1. PathInit => PathTypeOK
  BY DegreePathAssumption
  DEF PathInit, PathTypeOK, DegreePathAssumption, Outcomes
<1>2. PathTypeOK /\ [PathNext]_pathVars => PathTypeOK'
  <2> SUFFICES ASSUME PathTypeOK, [PathNext]_pathVars PROVE PathTypeOK'
    OBVIOUS
  <2>1. CASE PlanSemester
    <3>1. PICK S \in SemesterPlans(Done, enrolled, Cap) : terms' = Append(terms, S)
      BY <2>1 DEF PlanSemester
    <3>2. S \in SUBSET Courses
      BY SemesterFacts
    <3>3. terms \in Seq(SUBSET Courses) /\ Len(terms) < Horizon /\ Horizon \in Nat
      BY <2>1, DegreePathAssumption DEF PlanSemester, PathTypeOK, DegreePathAssumption
    <3>4. terms' \in Seq(SUBSET Courses) /\ Len(terms') <= Horizon
      BY <3>1, <3>2, <3>3
    <3> QED BY <2>1, <3>4 DEF PlanSemester, PathTypeOK
  <2>2. CASE Graduate
    BY <2>2 DEF Graduate, Stops, PathTypeOK, Outcomes
  <2>3. CASE ReachHorizon
    <3>1. Evidence \subseteq Blockers
      BY DEF Evidence
    <3> QED BY <2>3, <3>1 DEF ReachHorizon, Stops, PathTypeOK, Outcomes
  <2>4. CASE Stuck
    <3>1. Evidence \union PlanEvidence \subseteq Blockers
      BY DEF Evidence, PlanEvidence
    <3> QED BY <2>4, <3>1 DEF Stuck, Stops, PathTypeOK, Outcomes
  <2>5. CASE UNCHANGED pathVars
    BY <2>5 DEF pathVars, PathTypeOK
  <2> QED BY <2>1, <2>2, <2>3, <2>4, <2>5 DEF PathNext
<1> QED
  BY <1>1, <1>2, PTL DEF PathSpec

(* The hours a path plans are the hours by which it brings the degree      *)
(* nearer, for every plan, record, limit and strategy: plan_semester joins *)
(* only candidates that count in full, and the engine's validation of      *)
(* planned_new_credits against the projection never fails.                 *)
THEOREM PlannedHoursCount == PathSpec => []PlannedCreditsCount
<1>1. PathInit => PlannedCreditsCount
  <2> SUFFICES ASSUME PathInit PROVE PlannedCreditsCount
    OBVIOUS
  <2>1. Planned = {} /\ Done = passed /\ passed \subseteq Courses
    BY DEF PathInit, Planned, Done
  <2> QED BY <2>1, SumOfNone, CompletedType DEF PlannedCreditsCount, HoursOf
<1>2. PathTypeOK /\ PlannedCreditsCount /\ [PathNext]_pathVars => PlannedCreditsCount'
  <2> SUFFICES ASSUME PathTypeOK, PlannedCreditsCount, [PathNext]_pathVars
               PROVE  PlannedCreditsCount'
    OBVIOUS
  <2>1. CASE PlanSemester
    <3>1. PICK S \in SemesterPlans(Done, enrolled, Cap) : terms' = Append(terms, S)
      BY <2>1 DEF PlanSemester
    <3>2. /\ S \subseteq Courses /\ S \intersect Done = {}
          /\ Completed(Done \union S) - Completed(Done) = HoursOf(S)
      BY SemesterFacts
    <3>3. Planned' = Planned \union S /\ Done' = Done \union S /\ passed' = passed
      BY <2>1, <3>1, <3>2, PlannedGrows DEF Done, PlanSemester
    <3>4. HoursOf(Planned \union S) = HoursOf(Planned) + HoursOf(S)
      BY <3>2, DoneType, HoursOfDisjoint DEF Done
    <3>5. /\ passed \subseteq Courses /\ Done \subseteq Courses /\ Done \union S \subseteq Courses
          /\ Planned \subseteq Courses
      BY <3>2, DoneType DEF PathTypeOK
    <3>6. /\ Completed(passed) \in Nat /\ Completed(Done) \in Nat
          /\ Completed(Done \union S) \in Nat
          /\ HoursOf(S) \in Nat /\ HoursOf(Planned) \in Nat
      BY <3>2, <3>5, CompletedType, HoursType
    <3>7. HoursOf(Planned) = Completed(Done) - Completed(passed)
      BY DEF PlannedCreditsCount
    <3>8. HoursOf(Planned \union S) = Completed(Done \union S) - Completed(passed)
      BY <3>2, <3>4, <3>6, <3>7
    <3>9. HoursOf(Planned') = Completed(Done') - Completed(passed')
      BY <3>3, <3>8
    <3> QED BY <3>9 DEF PlannedCreditsCount, HoursOf, Completed, Credited, In
  <2>2. CASE UNCHANGED <<passed, terms>>
    BY <2>2 DEF PlannedCreditsCount, Planned, Done
  <2>3. CASE Graduate \/ ReachHorizon \/ Stuck \/ UNCHANGED pathVars
    BY <2>2, <2>3 DEF Graduate, ReachHorizon, Stuck, Stops, pathVars
  <2> QED BY <2>1, <2>3 DEF PathNext
<1> QED
  BY <1>1, <1>2, PathTypeCorrect, PTL DEF PathSpec

(* As long as the combinations that count in full are no more than the     *)
(* planner keeps, plan_semester finds every one of them, candidate by      *)
(* candidate: what counts in full still does without one of its courses,   *)
(* so that none is lost because a smaller one was refused, and the cut     *)
(* never sees more combinations than there are in the end.                 *)
THEOREM FewCombinationsAreAllPlanned == PathSpec => []FewAreAllPlanned
<1>1. PathTypeOK => FewAreAllPlanned
  <2> SUFFICES ASSUME PathTypeOK PROVE FewAreAllPlanned
    OBVIOUS
  <2> DEFINE W == Window(Done, enrolled)
             full == {S \in SUBSET W :
                        /\ Cardinality(S) <= MaxCourses
                        /\ HoursOf(S) <= Cap
                        /\ Completed(Done \union S) - Completed(Done) = HoursOf(S)}
  <2>1. \A S \in SUBSET W : Gain(Done, S) = Completed(Done \union S) - Completed(Done)
    <3>1. W \subseteq Courses
      BY WindowIsCandidates
    <3> HIDE DEF W
    <3> QED BY <3>1, DoneType, GainIsDifference
  <2>2. Full(Done, W, Cap) = full
    <3> HIDE DEF W
    <3> QED BY <2>1 DEF Full
  <2>3. Cardinality(full) <= CombinationLimit => SemesterPlans(Done, enrolled, Cap) = full \ {{}}
    <3>1. Cardinality(Full(Done, W, Cap)) <= CombinationLimit =>
            Frontier(Done, enrolled, Cap) = Full(Done, W, Cap)
      BY CapType, DoneType, FrontierIsFull
    <3> HIDE DEF W, full
    <3> QED BY <2>2, <3>1 DEF SemesterPlans
  <2> QED BY <2>3 DEF FewAreAllPlanned
<1> QED
  BY <1>1, PathTypeCorrect, PTL

(* The index of citations, by which plan_semester looks only at courses    *)
(* that name one of the semester's courses, brings exactly the courses the *)
(* semester unlocks; it can miss a project only, which hours unlock too.   *)
THEOREM UnlockIndexIsExact == PathSpec => []UnlocksAreExact
<1>1. UnlocksAreExact
  <2> SUFFICES ASSUME NEW S \in SemesterPlans(Done, enrolled, Cap)
               PROVE  LET unlocked == {t \in Incomplete(Done, enrolled) \ S :
                                         ~Eligible(Done, t) /\ Eligible(Done \union S, t)}
                      IN  /\ Unlocked(Done, enrolled, S) \subseteq unlocked
                          /\ unlocked \subseteq Unlocked(Done, enrolled, S) \union Projects
    BY DEF UnlocksAreExact
  <2> DEFINE unlocked == {t \in Incomplete(Done, enrolled) \ S :
                            ~Eligible(Done, t) /\ Eligible(Done \union S, t)}
  <2>1. Unlocked(Done, enrolled, S) \subseteq unlocked
    BY DEF Unlocked, UnlockTargets
  <2>2. ASSUME NEW t \in unlocked, t \notin Projects
        PROVE  t \in Unlocked(Done, enrolled, S)
    <3>1. /\ t \in Incomplete(Done, enrolled) \ Unclear /\ t \notin S
          /\ ~Eligible(Done, t) /\ Eligible(Done \union S, t)
      BY DEF Eligible
    <3>2. PICK options \in Prerequisites[t] : options \intersect Done = {}
      BY <2>2, <3>1 DEF Eligible, PrerequisitesMet, EnoughEarned
    <3>3. PICK c \in S : c \in options
      BY <3>1, <3>2 DEF Eligible, PrerequisitesMet
    <3>4. t \in UnlockTargets(Done, enrolled, c)
      BY <3>1, <3>2, <3>3 DEF UnlockTargets
    <3> QED BY <3>1, <3>3, <3>4 DEF Unlocked
  <2> QED BY <2>1, <2>2
<1> QED
  BY <1>1, PTL
====
