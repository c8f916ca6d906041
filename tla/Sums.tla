-------------------------------- MODULE Sums --------------------------------
(***************************************************************************)
(* Sums over finite sets. SumFunctionOnSet of the community modules is a   *)
(* fold, a recursive function that CHOOSE picks; what it is has to be      *)
(* proved by induction over the set. The induction theorems of the         *)
(* library take an operator, which no prover here instantiates, but that   *)
(* of well-founded orderings can be had for a set: what is to be shown of  *)
(* every subset is membership in a set of subsets, and a smallest one      *)
(* that is left out does not exist.                                        *)
(*                                                                         *)
(* From that, the sum takes one element at a time, in any order            *)
(* (SumTakes), and the lemmas that the proofs of the other modules use:    *)
(* how the sum changes with one value, that equal functions have equal     *)
(* sums, that a larger one has a larger sum, and that sums split and add   *)
(* up.                                                                     *)
(***************************************************************************)
EXTENDS Integers, FiniteSets, Functions, FiniteSetTheorems, WellFoundedInduction, TLAPS

\* Induction over the subsets of a finite set.
LEMMA SubsetInduction ==
    ASSUME NEW S, IsFiniteSet(S), NEW G,
           \A T \in SUBSET S : (\A U \in SUBSET T : U # T => U \in G) => T \in G
    PROVE  \A T \in SUBSET S : T \in G
<1> DEFINE Left == {T \in SUBSET S : T \notin G}
<1>1. SUFFICES ASSUME Left # {} PROVE FALSE
    OBVIOUS
<1>2. IsWellFoundedOn(StrictSubsetOrdering(S), SUBSET S)
    BY FS_StrictSubsetOrderingWellFounded, FS_FiniteSubsetsOfFinite
<1>3. Left \subseteq SUBSET S
    OBVIOUS
<1> HIDE DEF Left
<1>4. PICK T \in Left : \A U \in Left : <<U, T>> \notin StrictSubsetOrdering(S)
    BY <1>1, <1>2, <1>3, WFMin
<1>5. T \in SUBSET S /\ T \notin G
    BY <1>4 DEF Left
<1>6. PICK U \in SUBSET T : U # T /\ U \notin G
    BY <1>5
<1>7. U \in Left /\ <<U, T>> \in StrictSubsetOrdering(S)
    BY <1>5, <1>6 DEF Left, StrictSubsetOrdering
<1> QED
    BY <1>4, <1>7

\* Induction one element at a time.
LEMMA ElementInduction ==
    ASSUME NEW S, IsFiniteSet(S), NEW G, {} \in G,
           \A T \in SUBSET S : \A x \in T : T \ {x} \in G => T \in G
    PROVE  S \in G
<1>1. ASSUME NEW T \in SUBSET S, \A U \in SUBSET T : U # T => U \in G
      PROVE  T \in G
    <2>1. CASE T = {}
        BY <2>1
    <2>2. ASSUME NEW x \in T
          PROVE  T \in G
        <3>1. T \ {x} \in SUBSET T /\ T \ {x} # T
            OBVIOUS
        <3>2. T \ {x} \in G
            BY <1>1, <3>1
        <3> QED
            BY <3>2
    <2> QED
        BY <2>1, <2>2
<1> QED
    BY <1>1, SubsetInduction

\* Induction along an interval.
LEMMA IntervalInduction ==
    ASSUME NEW n \in Nat, NEW G, 0 \in G, \A k \in 0..(n - 1) : k \in G => k + 1 \in G
    PROVE  \A k \in 0..n : k \in G
<1> DEFINE H == {T \in SUBSET (1..n) : \A k \in 0..n : T = 1..k => k \in G}
<1>1. ASSUME NEW T \in SUBSET (1..n), \A U \in SUBSET T : U # T => U \in H
      PROVE  T \in H
    <2>1. ASSUME NEW k \in 0..n, T = 1..k
          PROVE  k \in G
        <3>1. CASE k = 0
            BY <3>1
        <3>2. CASE k # 0
            <4>1. k - 1 \in 0..(n - 1) /\ k - 1 \in 0..n /\ (k - 1) + 1 = k
                BY <3>2
            <4>2. 1..(k - 1) \in SUBSET T /\ k \in T /\ k \notin 1..(k - 1)
                BY <2>1, <3>2
            <4>3. 1..(k - 1) \in H
                BY <1>1, <4>2
            <4>4. k - 1 \in G
                BY <4>1, <4>3
            <4> QED
                BY <4>1, <4>4
        <3> QED
            BY <3>1, <3>2
    <2> QED
        BY <2>1
<1>2. IsFiniteSet(1..n)
    BY FS_Interval
<1> HIDE DEF H
<1>3. \A T \in SUBSET (1..n) : T \in H
    BY <1>1, <1>2, SubsetInduction
<1>4. \A k \in 0..n : 1..k \in SUBSET (1..n)
    OBVIOUS
<1> QED
    BY <1>3, <1>4 DEF H

\* The recursive function that the fold is, and the one that CHOOSE picks.
AnyOf(T) == CHOOSE x \in T : TRUE
IsSummation(f, g, S) == g = [T \in SUBSET S |-> IF T = {} THEN 0 ELSE f[AnyOf(T)] + g[T \ {AnyOf(T)}]]
SumsBelow(f, S) == CHOOSE g : IsSummation(f, g, S)

\* The sum is the value of that function at the whole set.
LEMMA SumIsBelow ==
    ASSUME NEW f, NEW S
    PROVE  SumFunctionOnSet(f, S) = SumsBelow(f, S)[S]
    BY DEF SumFunctionOnSet, FoldFunctionOnSet, MapThenFoldSet, SumsBelow, IsSummation, AnyOf

LEMMA AnyIsIn == \A T : T # {} => AnyOf(T) \in T
    BY DEF AnyOf

\* Two such functions agree where both are defined.
LEMMA SummationsAgree ==
    ASSUME NEW f, NEW S, IsFiniteSet(S), NEW R, NEW g, NEW h, IsSummation(f, g, S), IsSummation(f, h, R)
    PROVE  \A T \in SUBSET (S \cap R) : g[T] = h[T]
<1> DEFINE G == {T \in SUBSET (S \cap R) : g[T] = h[T]}
<1>1. ASSUME NEW T \in SUBSET (S \cap R), \A U \in SUBSET T : U # T => U \in G
      PROVE  T \in G
    <2>1. CASE T = {}
        BY <2>1 DEF IsSummation
    <2>2. CASE T # {}
        <3>1. AnyOf(T) \in T
            BY <2>2, AnyIsIn
        <3>2. g[T \ {AnyOf(T)}] = h[T \ {AnyOf(T)}]
            BY <1>1, <3>1
        <3>3. g[T] = f[AnyOf(T)] + g[T \ {AnyOf(T)}] /\ h[T] = f[AnyOf(T)] + h[T \ {AnyOf(T)}]
            BY <2>2 DEF IsSummation
        <3> QED
            BY <3>2, <3>3
    <2> QED
        BY <2>1, <2>2
<1>2. IsFiniteSet(S \cap R)
    BY FS_Subset
<1> HIDE DEF G
<1>3. \A T \in SUBSET (S \cap R) : T \in G
    BY <1>1, <1>2, SubsetInduction
<1> QED
    BY <1>3 DEF G

\* There is one for every finite set.
LEMMA SummationsExist ==
    ASSUME NEW f, NEW S, IsFiniteSet(S)
    PROVE  \A T \in SUBSET S : \E g : IsSummation(f, g, T)
<1> DEFINE G == {T \in SUBSET S : \E g : IsSummation(f, g, T)}
<1>1. ASSUME NEW T \in SUBSET S, \A U \in SUBSET T : U # T => U \in G
      PROVE  T \in G
    <2> DEFINE val(U) == IF U = {} THEN 0 ELSE f[AnyOf(U)] + SumsBelow(f, U \ {AnyOf(U)})[U \ {AnyOf(U)}]
               g == [U \in SUBSET T |-> val(U)]
    <2>1. ASSUME NEW U \in SUBSET T, U # T
          PROVE  IsSummation(f, SumsBelow(f, U), U)
        BY <1>1, <2>1 DEF SumsBelow
    <2>2. ASSUME NEW U \in SUBSET T, U # T
          PROVE  SumsBelow(f, U)[U] = val(U)
        <3>1. IsSummation(f, SumsBelow(f, U), U)
            BY <2>1, <2>2
        <3>2. CASE U = {}
            BY <3>1, <3>2 DEF IsSummation
        <3>3. CASE U # {}
            <4> DEFINE V == U \ {AnyOf(U)}
            <4>1. AnyOf(U) \in U
                BY <3>3, AnyIsIn
            <4>2. IsSummation(f, SumsBelow(f, V), V)
                BY <2>1, <4>1
            <4>3. IsFiniteSet(V)
                BY FS_Subset
            <4>4. SumsBelow(f, U)[V] = SumsBelow(f, V)[V]
                <5>1. V \in SUBSET (V \cap U)
                    OBVIOUS
                <5> HIDE DEF V
                <5> QED
                    BY <3>1, <4>2, <4>3, <5>1, SummationsAgree
            <4>5. SumsBelow(f, U)[U] = f[AnyOf(U)] + SumsBelow(f, U)[V]
                BY <3>1, <3>3 DEF IsSummation
            <4> QED
                BY <3>3, <4>4, <4>5
        <3> QED
            BY <3>2, <3>3
    <2>3. ASSUME NEW U \in SUBSET T, U # {}
          PROVE  g[U \ {AnyOf(U)}] = SumsBelow(f, U \ {AnyOf(U)})[U \ {AnyOf(U)}]
        BY <2>2, <2>3, AnyIsIn
    <2>4. IsSummation(f, g, T)
        <3>1. \A U \in SUBSET T : g[U] = IF U = {} THEN 0 ELSE f[AnyOf(U)] + g[U \ {AnyOf(U)}]
            BY <2>3
        <3> HIDE DEF g
        <3>2. g = [U \in SUBSET T |-> g[U]]
            BY DEF g
        <3> QED
            BY <3>1, <3>2 DEF IsSummation
    <2> QED
        BY <2>4
<1> HIDE DEF G
<1>2. \A T \in SUBSET S : T \in G
    BY <1>1, SubsetInduction
<1> QED
    BY <1>2 DEF G

\* So the sum takes out the element that CHOOSE picks.
LEMMA SumStep ==
    ASSUME NEW f, NEW S, IsFiniteSet(S)
    PROVE  SumFunctionOnSet(f, S) = IF S = {} THEN 0
                                    ELSE f[AnyOf(S)] + SumFunctionOnSet(f, S \ {AnyOf(S)})
<1>1. \A T \in SUBSET S : IsSummation(f, SumsBelow(f, T), T)
    BY SummationsExist DEF SumsBelow
<1>2. CASE S = {}
    BY <1>1, <1>2, SumIsBelow DEF IsSummation
<1>3. CASE S # {}
    <2> DEFINE V == S \ {AnyOf(S)}
    <2>1. SumsBelow(f, S)[V] = SumsBelow(f, V)[V]
        BY <1>1, SummationsAgree
    <2>2. SumsBelow(f, S)[S] = f[AnyOf(S)] + SumsBelow(f, S)[V]
        BY <1>1, <1>3 DEF IsSummation
    <2> QED
        BY <1>3, <2>1, <2>2, SumIsBelow
<1> QED
    BY <1>2, <1>3

\* The sum takes out any of its elements.
LEMMA SumTakes ==
    ASSUME NEW f, NEW S, IsFiniteSet(S), \A x \in S : f[x] \in Int
    PROVE  /\ SumFunctionOnSet(f, S) \in Int
           /\ \A x \in S : SumFunctionOnSet(f, S) = f[x] + SumFunctionOnSet(f, S \ {x})
<1> DEFINE sum(T) == SumFunctionOnSet(f, T)
           G == {T \in SUBSET S : sum(T) \in Int /\ \A x \in T : sum(T) = f[x] + sum(T \ {x})}
<1>1. ASSUME NEW T \in SUBSET S, \A U \in SUBSET T : U # T => U \in G
      PROVE  T \in G
    <2>1. IsFiniteSet(T)
        BY FS_Subset
    <2>2. CASE T = {}
        <3>1. sum(T) = 0
            BY <2>1, <2>2, SumStep
        <3> QED
            BY <2>2, <3>1
    <2>3. CASE T # {}
        <3> DEFINE c == AnyOf(T)
        <3>1. c \in T /\ f[c] \in Int
            BY <2>3, AnyIsIn
        <3>2. sum(T) = f[c] + sum(T \ {c})
            BY <2>1, <2>3, SumStep
        <3>3. \A x \in T : T \ {x} \in G
            BY <1>1
        <3>4. sum(T) \in Int
            BY <3>1, <3>2, <3>3
        <3>5. ASSUME NEW x \in T
              PROVE  sum(T) = f[x] + sum(T \ {x})
            <4>1. CASE x = c
                BY <3>2, <4>1
            <4>2. CASE x # c
                <5>1. sum(T \ {c}) = f[x] + sum((T \ {c}) \ {x})
                    BY <3>1, <3>3, <4>2
                <5>2. sum(T \ {x}) = f[c] + sum((T \ {x}) \ {c})
                    BY <3>1, <3>3, <4>2
                <5>3. (T \ {c}) \ {x} = (T \ {x}) \ {c}
                    OBVIOUS
                <5>4. (T \ {c}) \ {x} \in G
                    BY <1>1, <3>1
                <5>5. f[x] \in Int /\ sum((T \ {x}) \ {c}) \in Int
                    BY <5>3, <5>4
                <5>6. sum((T \ {c}) \ {x}) = sum((T \ {x}) \ {c})
                    BY <5>3
                <5> HIDE DEF sum, c
                <5> QED
                    BY <3>1, <3>2, <5>1, <5>2, <5>5, <5>6
            <4> QED
                BY <4>1, <4>2
        <3> QED
            BY <3>4, <3>5
    <2> QED
        BY <2>2, <2>3
<1> HIDE DEF G
<1>2. S \in G
    BY <1>1, SubsetInduction
<1> QED
    BY <1>2 DEF G

-----------------------------------------------------------------------------
(* What the proofs use.                                                    *)

LEMMA SumEmpty == \A f : SumFunctionOnSet(f, {}) = 0
BY SumStep, FS_EmptySet

\* Functions that agree have the same sum.
LEMMA SumSame ==
    ASSUME NEW S, IsFiniteSet(S), NEW f, NEW g, \A x \in S : f[x] = g[x] /\ f[x] \in Int
    PROVE  SumFunctionOnSet(f, S) = SumFunctionOnSet(g, S)
<1> DEFINE G == {T \in SUBSET S : SumFunctionOnSet(f, T) = SumFunctionOnSet(g, T)}
<1>1. {} \in G
    BY SumEmpty
<1>2. ASSUME NEW T \in SUBSET S, NEW x \in T, T \ {x} \in G
      PROVE  T \in G
    <2>1. /\ SumFunctionOnSet(f, T) = f[x] + SumFunctionOnSet(f, T \ {x})
          /\ SumFunctionOnSet(g, T) = g[x] + SumFunctionOnSet(g, T \ {x})
        BY FS_Subset, SumTakes
    <2> QED
        BY <1>2, <2>1
<1> HIDE DEF G
<1>3. S \in G
    BY <1>1, <1>2, ElementInduction
<1> QED
    BY <1>3 DEF G

\* A larger function has a larger sum.
LEMMA SumMonotone ==
    ASSUME NEW S, IsFiniteSet(S), NEW f, NEW g,
           \A x \in S : f[x] \in Int /\ g[x] \in Int /\ f[x] <= g[x]
    PROVE  SumFunctionOnSet(f, S) <= SumFunctionOnSet(g, S)
<1> DEFINE G == {T \in SUBSET S : SumFunctionOnSet(f, T) <= SumFunctionOnSet(g, T)}
<1>1. {} \in G
    BY SumEmpty
<1>2. ASSUME NEW T \in SUBSET S, NEW x \in T, T \ {x} \in G
      PROVE  T \in G
    <2>1. /\ SumFunctionOnSet(f, T) = f[x] + SumFunctionOnSet(f, T \ {x})
          /\ SumFunctionOnSet(g, T) = g[x] + SumFunctionOnSet(g, T \ {x})
        BY FS_Subset, SumTakes
    <2>2. /\ SumFunctionOnSet(f, T \ {x}) \in Int /\ SumFunctionOnSet(g, T \ {x}) \in Int
          /\ f[x] \in Int /\ g[x] \in Int /\ f[x] <= g[x]
        BY FS_Subset, SumTakes
    <2> QED
        BY <1>2, <2>1, <2>2
<1> HIDE DEF G
<1>3. S \in G
    BY <1>1, <1>2, ElementInduction
<1> QED
    BY <1>3 DEF G

\* A sum of zeros is zero, and one of naturals a natural, at least each of
\* them.
LEMMA SumZero ==
    ASSUME NEW S, IsFiniteSet(S), NEW f, \A x \in S : f[x] = 0
    PROVE  SumFunctionOnSet(f, S) = 0
<1> DEFINE G == {T \in SUBSET S : SumFunctionOnSet(f, T) = 0}
<1>1. {} \in G
    BY SumEmpty
<1>2. ASSUME NEW T \in SUBSET S, NEW x \in T, T \ {x} \in G
      PROVE  T \in G
    <2>1. SumFunctionOnSet(f, T) = f[x] + SumFunctionOnSet(f, T \ {x})
        BY FS_Subset, SumTakes
    <2> QED
        BY <1>2, <2>1
<1> HIDE DEF G
<1>3. S \in G
    BY <1>1, <1>2, ElementInduction
<1> QED
    BY <1>3 DEF G

LEMMA SumNatural ==
    ASSUME NEW S, IsFiniteSet(S), NEW f, \A x \in S : f[x] \in Nat
    PROVE  /\ SumFunctionOnSet(f, S) \in Nat
           /\ \A x \in S : f[x] <= SumFunctionOnSet(f, S)
<1>1. ASSUME NEW T \in SUBSET S
      PROVE  SumFunctionOnSet(f, T) \in Nat
    <2> DEFINE zero == [x \in T |-> 0]
    <2>1. IsFiniteSet(T) /\ \A x \in T : f[x] \in Int /\ zero[x] = 0 /\ zero[x] <= f[x]
        BY FS_Subset
    <2> HIDE DEF zero
    <2>2. SumFunctionOnSet(zero, T) = 0 /\ SumFunctionOnSet(f, T) \in Int
        BY <2>1, SumZero, SumTakes
    <2>3. SumFunctionOnSet(zero, T) <= SumFunctionOnSet(f, T)
        BY <2>1, SumMonotone
    <2> QED
        BY <2>2, <2>3
<1>2. ASSUME NEW x \in S
      PROVE  f[x] <= SumFunctionOnSet(f, S)
    <2>1. SumFunctionOnSet(f, S) = f[x] + SumFunctionOnSet(f, S \ {x})
        BY SumTakes
    <2>2. SumFunctionOnSet(f, S \ {x}) \in Nat /\ f[x] \in Nat
        BY <1>1
    <2> QED
        BY <2>1, <2>2
<1> QED
    BY <1>1, <1>2

\* One value changes, and the sum by as much.
LEMMA SumChanges ==
    ASSUME NEW S, IsFiniteSet(S), NEW f, NEW g, NEW x \in S,
           f[x] \in Int, g[x] \in Int, \A y \in S \ {x} : f[y] \in Int /\ g[y] = f[y]
    PROVE  SumFunctionOnSet(g, S) = SumFunctionOnSet(f, S) + (g[x] - f[x])
<1>1. IsFiniteSet(S \ {x})
    BY FS_Subset
<1>2. SumFunctionOnSet(f, S \ {x}) = SumFunctionOnSet(g, S \ {x})
    BY <1>1, SumSame
<1>3. /\ SumFunctionOnSet(f, S) = f[x] + SumFunctionOnSet(f, S \ {x})
      /\ SumFunctionOnSet(g, S) = g[x] + SumFunctionOnSet(g, S \ {x})
    BY SumTakes
<1>4. SumFunctionOnSet(f, S \ {x}) \in Int
    BY <1>1, SumTakes
<1> QED
    BY <1>2, <1>3, <1>4

\* The same, by what the other values add up to.
DifferAt(S, f, g, x) ==
    x \in S /\ \A y \in S : f[y] \in Int /\ g[y] \in Int /\ (y # x => g[y] = f[y])
LEMMA SumRest ==
    ASSUME NEW S, IsFiniteSet(S), NEW f, NEW g, NEW x, DifferAt(S, f, g, x)
    PROVE  \E r \in Int : SumFunctionOnSet(g, S) = g[x] + r /\ SumFunctionOnSet(f, S) = f[x] + r
<1>1. /\ x \in S /\ \A y \in S : f[y] \in Int /\ g[y] \in Int
      /\ \A y \in S \ {x} : g[y] = f[y]
    BY DEF DifferAt
<1>2. IsFiniteSet(S \ {x})
    BY FS_Subset
<1>3. SumFunctionOnSet(f, S \ {x}) = SumFunctionOnSet(g, S \ {x})
    BY <1>1, <1>2, SumSame
<1>4. /\ SumFunctionOnSet(f, S) = f[x] + SumFunctionOnSet(f, S \ {x})
      /\ SumFunctionOnSet(g, S) = g[x] + SumFunctionOnSet(g, S \ {x})
    BY <1>1, SumTakes
<1>5. SumFunctionOnSet(f, S \ {x}) \in Int
    BY <1>1, <1>2, SumTakes
<1> QED
    BY <1>3, <1>4, <1>5

\* The same, also for an element that need not be in the set.
LEMMA SumShifts ==
    ASSUME NEW S, IsFiniteSet(S), NEW f, NEW g, NEW x, NEW d \in Int,
           \A y \in S : f[y] \in Int /\ g[y] = f[y] + (IF y = x THEN d ELSE 0)
    PROVE  SumFunctionOnSet(g, S) = SumFunctionOnSet(f, S) + (IF x \in S THEN d ELSE 0)
<1>1. SumFunctionOnSet(f, S) \in Int
    BY SumTakes
<1>2. CASE x \in S
    <2> DEFINE rest == S \ {x}
    <2>1. \A y \in S : f[y] \in Int /\ g[y] \in Int
        OBVIOUS
    <2>2. /\ SumFunctionOnSet(f, S) = f[x] + SumFunctionOnSet(f, rest)
          /\ SumFunctionOnSet(g, S) = g[x] + SumFunctionOnSet(g, rest)
        BY <1>2, <2>1, SumTakes
    <2>3. IsFiniteSet(rest) /\ \A y \in rest : f[y] = g[y] /\ f[y] \in Int
        BY FS_Subset
    <2> HIDE DEF rest
    <2>4. SumFunctionOnSet(f, rest) = SumFunctionOnSet(g, rest) /\ SumFunctionOnSet(f, rest) \in Int
        BY <2>3, SumSame, SumTakes
    <2>5. f[x] \in Int /\ g[x] = f[x] + d
        BY <1>2
    <2> QED
        BY <1>2, <2>2, <2>4, <2>5
<1>3. CASE x \notin S
    <2>1. \A y \in S : f[y] = g[y] /\ f[y] \in Int
        BY <1>3
    <2> QED
        BY <1>1, <1>3, <2>1, SumSame
<1> QED
    BY <1>2, <1>3

\* An element more, and the sum grows by its value.
LEMMA SumAdds ==
    ASSUME NEW S, IsFiniteSet(S), NEW x, x \notin S, NEW f, NEW g,
           \A y \in S : f[y] \in Int /\ g[y] = f[y], g[x] \in Int
    PROVE  SumFunctionOnSet(g, S \cup {x}) = SumFunctionOnSet(f, S) + g[x]
<1>1. IsFiniteSet(S \cup {x}) /\ (S \cup {x}) \ {x} = S
    BY FS_AddElement
<1>2. \A y \in S \cup {x} : g[y] \in Int
    OBVIOUS
<1>3. SumFunctionOnSet(g, S \cup {x}) = g[x] + SumFunctionOnSet(g, S)
    BY <1>1, <1>2, SumTakes
<1>4. SumFunctionOnSet(f, S) = SumFunctionOnSet(g, S) /\ SumFunctionOnSet(f, S) \in Int
    BY SumSame, SumTakes
<1> QED
    BY <1>3, <1>4

\* A sum over a set is that over a part of it and that over the rest.
LEMMA SumSplits ==
    ASSUME NEW S, IsFiniteSet(S), NEW f, \A x \in S : f[x] \in Int, NEW R \in SUBSET S
    PROVE  SumFunctionOnSet(f, S) = SumFunctionOnSet(f, R) + SumFunctionOnSet(f, S \ R)
<1> DEFINE rest == SumFunctionOnSet(f, S \ R)
           G == {T \in SUBSET R : SumFunctionOnSet(f, T \cup (S \ R)) = SumFunctionOnSet(f, T) + rest}
<1>1. rest \in Int /\ IsFiniteSet(R)
    BY FS_Subset, SumTakes
<1>2. {} \in G
    BY <1>1, SumEmpty
<1>3. ASSUME NEW T \in SUBSET R, NEW x \in T, T \ {x} \in G
      PROVE  T \in G
    <2> DEFINE V == T \cup (S \ R)
    <2>1. IsFiniteSet(V) /\ IsFiniteSet(T) /\ IsFiniteSet(T \ {x}) /\ V \in SUBSET S
        BY FS_Subset
    <2>2. V \ {x} = (T \ {x}) \cup (S \ R)
        OBVIOUS
    <2>3. SumFunctionOnSet(f, V) = f[x] + SumFunctionOnSet(f, (T \ {x}) \cup (S \ R))
        BY <2>1, <2>2, SumTakes
    <2>4. SumFunctionOnSet(f, (T \ {x}) \cup (S \ R)) = SumFunctionOnSet(f, T \ {x}) + rest
        BY <1>3
    <2>5. SumFunctionOnSet(f, T) = f[x] + SumFunctionOnSet(f, T \ {x})
        BY <2>1, SumTakes
    <2>6. SumFunctionOnSet(f, T \ {x}) \in Int /\ f[x] \in Int
        BY <2>1, SumTakes
    <2> HIDE DEF rest, V
    <2>7. SumFunctionOnSet(f, V) = SumFunctionOnSet(f, T) + rest
        BY <1>1, <2>3, <2>4, <2>5, <2>6
    <2> QED
        BY <2>7 DEF V
<1> HIDE DEF G
<1>4. R \in G
    BY <1>1, <1>2, <1>3, ElementInduction
<1>5. R \cup (S \ R) = S
    OBVIOUS
<1> QED
    BY <1>4, <1>5 DEF G

\* The sum of two functions is the sum of their sums.
LEMMA SumOfTwo ==
    ASSUME NEW S, IsFiniteSet(S), NEW f, NEW g, NEW h,
           \A x \in S : f[x] \in Int /\ g[x] \in Int /\ h[x] = f[x] + g[x]
    PROVE  SumFunctionOnSet(h, S) = SumFunctionOnSet(f, S) + SumFunctionOnSet(g, S)
<1> DEFINE G == {T \in SUBSET S : SumFunctionOnSet(h, T) = SumFunctionOnSet(f, T) + SumFunctionOnSet(g, T)}
<1>1. {} \in G
    BY SumEmpty
<1>2. ASSUME NEW T \in SUBSET S, NEW x \in T, T \ {x} \in G
      PROVE  T \in G
    <2>1. IsFiniteSet(T) /\ IsFiniteSet(T \ {x}) /\ \A y \in T : f[y] \in Int /\ g[y] \in Int /\ h[y] \in Int
        BY FS_Subset
    <2>2. /\ SumFunctionOnSet(f, T) = f[x] + SumFunctionOnSet(f, T \ {x})
          /\ SumFunctionOnSet(g, T) = g[x] + SumFunctionOnSet(g, T \ {x})
          /\ SumFunctionOnSet(h, T) = h[x] + SumFunctionOnSet(h, T \ {x})
        BY <2>1, SumTakes
    <2>3. SumFunctionOnSet(f, T \ {x}) \in Int /\ SumFunctionOnSet(g, T \ {x}) \in Int
        BY <2>1, SumTakes
    <2>4. f[x] \in Int /\ g[x] \in Int /\ h[x] = f[x] + g[x]
        OBVIOUS
    <2> QED
        BY <1>2, <2>2, <2>3, <2>4
<1> HIDE DEF G
<1>3. S \in G
    BY <1>1, <1>2, ElementInduction
<1> QED
    BY <1>3 DEF G
=============================================================================
