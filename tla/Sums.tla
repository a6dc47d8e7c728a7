------------------------------- MODULE Sums -------------------------------
(***************************************************************************)
(* What the balance, stock and receipt proofs need to know of a sum over a *)
(* finite set: it does not depend on the order of the summands, so a row   *)
(* that is added or removed changes it by its own value.  The sum of the   *)
(* library is a recursive function over the subsets of the set; that one   *)
(* exists, and is the same whatever larger set it is defined on, is shown  *)
(* from the least subset for which it would not be so.                     *)
(***************************************************************************)
EXTENDS FiniteSetsExt, FiniteSetTheorems, TLAPS

First(T) == CHOOSE x \in T : TRUE

(* g adds f up over the subsets of S. *)
Adds(g, f, S) ==
  g = [T \in SUBSET S |-> IF T = {} THEN 0 ELSE f[First(T)] + g[T \ {First(T)}]]

LEMMA SumUnfolds ==
  ASSUME NEW f, NEW S
  PROVE  SumFunctionOnSet(f, S) = (CHOOSE g : Adds(g, f, S))[S]
BY DEF SumFunctionOnSet, FoldFunctionOnSet, MapThenFoldSet, Adds, First

LEMMA FirstIn == ASSUME NEW T, T # {} PROVE First(T) \in T
BY DEF First

(* A set of subsets of a finite set that is not empty has a least member. *)
LEMMA LeastSubset ==
  ASSUME NEW S, IsFiniteSet(S), NEW Bad, Bad \subseteq SUBSET S, Bad # {}
  PROVE  \E T \in Bad : \A U \in SUBSET T : U # T => U \notin Bad
<1>1. IsWellFoundedOn(StrictSubsetOrdering(S), FiniteSubsetsOf(S))
  BY FS_StrictSubsetOrderingWellFounded
<1>2. Bad \subseteq FiniteSubsetsOf(S)
  BY FS_Subset DEF FiniteSubsetsOf
<1>3. \E T \in Bad : \A U \in Bad : ~(<<U, T>> \in StrictSubsetOrdering(S))
  BY <1>1, <1>2, WFMin
<1> QED BY <1>3 DEF StrictSubsetOrdering

(* Two such functions agree on the sets where their summands do. *)
LEMMA AddsAgree ==
  ASSUME NEW S1, NEW S2, NEW f1, NEW f2, NEW g1, NEW g2, IsFiniteSet(S1),
         Adds(g1, f1, S1), Adds(g2, f2, S2),
         NEW T \in SUBSET (S1 \cap S2), \A x \in T : f1[x] = f2[x]
  PROVE  g1[T] = g2[T]
<1> DEFINE Bad == {U \in SUBSET T : g1[U] # g2[U]}
<1>1. IsFiniteSet(T)
  BY FS_Subset
<1>2. SUFFICES ASSUME Bad # {} PROVE FALSE
  OBVIOUS
<1>3. PICK U \in Bad : \A V \in SUBSET U : V # U => V \notin Bad
  <2>1. Bad \subseteq SUBSET T
    OBVIOUS
  <2> HIDE DEF Bad
  <2> QED BY <1>1, <1>2, <2>1, LeastSubset
<1>4. CASE U = {}
  BY <1>4 DEF Adds
<1>5. CASE U # {}
  <2>1. First(U) \in U
    BY <1>5, FirstIn
  <2>2. U \ {First(U)} \in SUBSET U /\ U \ {First(U)} # U
    BY <2>1
  <2>3. g1[U \ {First(U)}] = g2[U \ {First(U)}]
    BY <1>3, <2>2
  <2>4. g1[U] = f1[First(U)] + g1[U \ {First(U)}]
    BY <1>5 DEF Adds
  <2>5. g2[U] = f2[First(U)] + g2[U \ {First(U)}]
    BY <1>5 DEF Adds
  <2>6. f1[First(U)] = f2[First(U)]
    BY <2>1
  <2> QED BY <2>3, <2>4, <2>5, <2>6
<1> QED BY <1>4, <1>5

(* The value over a subset, taken from the function of that subset. *)
LEMMA SumOfPart ==
  ASSUME NEW S, NEW f, NEW g, IsFiniteSet(S), Adds(g, f, S), NEW T \in SUBSET S,
         \E h : Adds(h, f, T)
  PROVE  g[T] = SumFunctionOnSet(f, T)
<1> DEFINE h == CHOOSE h : Adds(h, f, T)
<1>1. Adds(h, f, T)
  OBVIOUS
<1>2. SumFunctionOnSet(f, T) = h[T]
  BY SumUnfolds
<1> HIDE DEF h
<1>3. T \in SUBSET (S \cap T)
  OBVIOUS
<1> QED BY <1>1, <1>2, <1>3, AddsAgree

(* The function exists over any finite set. *)
LEMMA AddsExists ==
  ASSUME NEW S, NEW f, IsFiniteSet(S)
  PROVE  \E g : Adds(g, f, S)
<1> DEFINE Bad == {T \in SUBSET S : ~\E g : Adds(g, f, T)}
<1>1. SUFFICES ASSUME Bad # {} PROVE FALSE
  OBVIOUS
<1>2. PICK T \in Bad : \A U \in SUBSET T : U # T => U \notin Bad
  <2>1. Bad \subseteq SUBSET S
    OBVIOUS
  <2> HIDE DEF Bad
  <2> QED BY <1>1, <2>1, LeastSubset
<1>3. \A U \in SUBSET T : U # T => \E g : Adds(g, f, U)
  BY <1>2
<1> DEFINE Over(U) == IF U = {} THEN 0 ELSE f[First(U)] + SumFunctionOnSet(f, U \ {First(U)})
           h == [U \in SUBSET T |-> Over(U)]
<1>4. ASSUME NEW U \in SUBSET T, U # T PROVE SumFunctionOnSet(f, U) = Over(U)
  <2>1. PICK g : Adds(g, f, U)
    BY <1>3, <1>4
  <2>2. IsFiniteSet(U) /\ U \in SUBSET U
    BY FS_Subset
  <2>3. g[U] = SumFunctionOnSet(f, U)
    BY <2>1, <2>2, SumOfPart
  <2>4. CASE U = {}
    BY <2>1, <2>3, <2>4 DEF Adds
  <2>5. CASE U # {}
    <3>1. First(U) \in U
      BY <2>5, FirstIn
    <3> DEFINE V == U \ {First(U)}
    <3>2. V \in SUBSET U /\ V \in SUBSET T /\ V # T
      BY <3>1
    <3>3. \E k : Adds(k, f, V)
      BY <1>3, <3>2
    <3>4. g[V] = SumFunctionOnSet(f, V)
      BY <2>1, <2>2, <3>2, <3>3, SumOfPart
    <3>5. g[U] = f[First(U)] + g[V]
      BY <2>1, <2>5 DEF Adds
    <3> QED BY <2>3, <2>5, <3>4, <3>5
  <2> QED BY <2>4, <2>5
<1>5. Adds(h, f, T)
  <2>1. ASSUME NEW U \in SUBSET T
        PROVE  Over(U) = IF U = {} THEN 0 ELSE f[First(U)] + h[U \ {First(U)}]
    <3>1. CASE U = {}
      BY <3>1
    <3>2. CASE U # {}
      <4>1. First(U) \in U
        BY <3>2, FirstIn
      <4>2. U \ {First(U)} \in SUBSET T /\ U \ {First(U)} # T
        BY <4>1
      <4>3. h[U \ {First(U)}] = SumFunctionOnSet(f, U \ {First(U)})
        BY <4>2, <1>4
      <4> QED BY <3>2, <4>3
    <3> QED BY <3>1, <3>2
  <2>2. h = [U \in SUBSET T |-> Over(U)]
    OBVIOUS
  <2> HIDE DEF h, Over
  <2> QED BY <2>1, <2>2 DEF Adds
<1> QED BY <1>2, <1>5

LEMMA SumEmpty == ASSUME NEW f PROVE SumFunctionOnSet(f, {}) = 0
<1>1. PICK g : Adds(g, f, {})
  BY AddsExists, FS_EmptySet
<1>2. g[{}] = SumFunctionOnSet(f, {})
  BY <1>1, SumOfPart, FS_EmptySet
<1> QED BY <1>1, <1>2 DEF Adds

LEMMA SumFirst ==
  ASSUME NEW f, NEW S, IsFiniteSet(S), S # {}
  PROVE  SumFunctionOnSet(f, S) = f[First(S)] + SumFunctionOnSet(f, S \ {First(S)})
<1>1. PICK g : Adds(g, f, S)
  BY AddsExists
<1> DEFINE T == S \ {First(S)}
<1>2. IsFiniteSet(T) /\ T \in SUBSET S
  BY FS_Subset
<1>3. \E h : Adds(h, f, T)
  BY <1>2, AddsExists
<1>4. g[T] = SumFunctionOnSet(f, T) /\ g[S] = SumFunctionOnSet(f, S)
  BY <1>1, <1>2, <1>3, SumOfPart
<1> QED BY <1>1, <1>4 DEF Adds

(* A sum only looks at its summands. *)
LEMMA SumOfEqual ==
  ASSUME NEW f, NEW h, NEW S, IsFiniteSet(S), \A x \in S : f[x] = h[x]
  PROVE  SumFunctionOnSet(f, S) = SumFunctionOnSet(h, S)
<1>1. PICK g1 : Adds(g1, f, S)
  BY AddsExists
<1>2. PICK g2 : Adds(g2, h, S)
  BY AddsExists
<1>3. S \in SUBSET (S \cap S)
  OBVIOUS
<1>4. g1[S] = g2[S]
  BY <1>1, <1>2, <1>3, AddsAgree
<1>5. g1[S] = SumFunctionOnSet(f, S) /\ g2[S] = SumFunctionOnSet(h, S)
  BY <1>1, <1>2, SumOfPart
<1> QED BY <1>4, <1>5

(* Integers add up to an integer. *)
LEMMA SumType ==
  ASSUME NEW f, NEW S, IsFiniteSet(S), \A x \in S : f[x] \in Int
  PROVE  SumFunctionOnSet(f, S) \in Int
<1> DEFINE Bad == {T \in SUBSET S : SumFunctionOnSet(f, T) \notin Int}
<1>1. SUFFICES ASSUME Bad # {} PROVE FALSE
  OBVIOUS
<1>2. PICK T \in Bad : \A U \in SUBSET T : U # T => U \notin Bad
  <2>1. Bad \subseteq SUBSET S
    OBVIOUS
  <2> HIDE DEF Bad
  <2> QED BY <1>1, <2>1, LeastSubset
<1>3. T # {}
  BY SumEmpty
<1>4. First(T) \in T /\ IsFiniteSet(T)
  BY <1>3, FirstIn, FS_Subset
<1>5. SumFunctionOnSet(f, T \ {First(T)}) \in Int
  BY <1>2, <1>4
<1>6. SumFunctionOnSet(f, T) = f[First(T)] + SumFunctionOnSet(f, T \ {First(T)})
  BY <1>3, <1>4, SumFirst
<1> QED BY <1>4, <1>5, <1>6

(* Any summand may be taken out first. *)
LEMMA SumRemove ==
  ASSUME NEW f, NEW S, IsFiniteSet(S), \A x \in S : f[x] \in Int, NEW e \in S
  PROVE  SumFunctionOnSet(f, S) = f[e] + SumFunctionOnSet(f, S \ {e})
<1> DEFINE Takes(T) ==
             \A y \in T : SumFunctionOnSet(f, T) = f[y] + SumFunctionOnSet(f, T \ {y})
           Bad == {T \in SUBSET S : ~Takes(T)}
<1>1. SUFFICES ASSUME Bad # {} PROVE FALSE
  OBVIOUS
<1>2. PICK T \in Bad : \A U \in SUBSET T : U # T => U \notin Bad
  <2>1. Bad \subseteq SUBSET S
    OBVIOUS
  <2> HIDE DEF Bad
  <2> QED BY <1>1, <2>1, LeastSubset
<1>3. PICK y \in T : SumFunctionOnSet(f, T) # f[y] + SumFunctionOnSet(f, T \ {y})
  BY <1>2
<1> DEFINE c == First(T)
<1>4. c \in T /\ T # {} /\ IsFiniteSet(T) /\ T \in SUBSET S
  BY <1>2, <1>3, FirstIn, FS_Subset
<1>5. SumFunctionOnSet(f, T) = f[c] + SumFunctionOnSet(f, T \ {c})
  BY <1>4, SumFirst
<1>6. c # y
  BY <1>3, <1>5
<1>7. Takes(T \ {c}) /\ Takes(T \ {y})
  <2>1. T \ {c} \in SUBSET T /\ T \ {c} # T /\ T \ {y} \in SUBSET T /\ T \ {y} # T
    BY <1>4
  <2> QED BY <1>2, <2>1
<1>8. SumFunctionOnSet(f, T \ {c}) = f[y] + SumFunctionOnSet(f, (T \ {c}) \ {y})
  BY <1>3, <1>6, <1>7
<1>9. SumFunctionOnSet(f, T \ {y}) = f[c] + SumFunctionOnSet(f, (T \ {y}) \ {c})
  BY <1>4, <1>6, <1>7
<1>10. (T \ {c}) \ {y} = (T \ {y}) \ {c}
  OBVIOUS
<1>11. f[c] \in Int /\ f[y] \in Int /\ SumFunctionOnSet(f, (T \ {c}) \ {y}) \in Int
  <2>1. IsFiniteSet((T \ {c}) \ {y}) /\ \A x \in (T \ {c}) \ {y} : f[x] \in Int
    BY <1>4, FS_Subset
  <2> QED BY <1>3, <1>4, <2>1, SumType
<1>12. \A a, b, s \in Int : a + (b + s) = b + (a + s)
  OBVIOUS
<1>13. SumFunctionOnSet(f, T) = f[y] + SumFunctionOnSet(f, T \ {y})
  <2> DEFINE rest == SumFunctionOnSet(f, (T \ {c}) \ {y})
  <2>1. SumFunctionOnSet(f, T) = f[c] + (f[y] + rest)
    BY <1>5, <1>8
  <2>2. SumFunctionOnSet(f, T \ {y}) = f[c] + rest
    BY <1>9, <1>10
  <2>3. f[c] + (f[y] + rest) = f[y] + (f[c] + rest)
    BY <1>11, <1>12
  <2> QED BY <2>1, <2>2, <2>3
<1> QED BY <1>3, <1>13

(* A summand more. *)
LEMMA SumAdd ==
  ASSUME NEW f, NEW S, IsFiniteSet(S), NEW e, e \notin S, \A x \in S \cup {e} : f[x] \in Int
  PROVE  SumFunctionOnSet(f, S \cup {e}) = SumFunctionOnSet(f, S) + f[e]
<1>1. IsFiniteSet(S \cup {e}) /\ (S \cup {e}) \ {e} = S
  BY FS_AddElement
<1>2. SumFunctionOnSet(f, S \cup {e}) = f[e] + SumFunctionOnSet(f, S)
  BY <1>1, SumRemove
<1>3. SumFunctionOnSet(f, S) \in Int /\ f[e] \in Int
  BY SumType
<1> QED BY <1>2, <1>3

(* Numbers that are not negative add up to one that is not, and none of    *)
(* them exceeds it.                                                        *)
LEMMA SumOfNats ==
  ASSUME NEW f, NEW S, IsFiniteSet(S), \A x \in S : f[x] \in Nat
  PROVE  SumFunctionOnSet(f, S) \in Nat
<1> DEFINE Bad == {T \in SUBSET S : SumFunctionOnSet(f, T) \notin Nat}
<1>1. SUFFICES ASSUME Bad # {} PROVE FALSE
  OBVIOUS
<1>2. PICK T \in Bad : \A U \in SUBSET T : U # T => U \notin Bad
  <2>1. Bad \subseteq SUBSET S
    OBVIOUS
  <2> HIDE DEF Bad
  <2> QED BY <1>1, <2>1, LeastSubset
<1>3. T # {}
  BY SumEmpty
<1>4. First(T) \in T /\ IsFiniteSet(T)
  BY <1>3, FirstIn, FS_Subset
<1>5. SumFunctionOnSet(f, T \ {First(T)}) \in Nat
  BY <1>2, <1>4
<1>6. SumFunctionOnSet(f, T) = f[First(T)] + SumFunctionOnSet(f, T \ {First(T)})
  BY <1>3, <1>4, SumFirst
<1> QED BY <1>4, <1>5, <1>6

(* Nothing adds up to nothing. *)
LEMMA SumOfZeros ==
  ASSUME NEW f, NEW S, IsFiniteSet(S), \A x \in S : f[x] = 0
  PROVE  SumFunctionOnSet(f, S) = 0
<1> DEFINE Bad == {T \in SUBSET S : SumFunctionOnSet(f, T) # 0}
<1>1. SUFFICES ASSUME Bad # {} PROVE FALSE
  OBVIOUS
<1>2. PICK T \in Bad : \A U \in SUBSET T : U # T => U \notin Bad
  <2>1. Bad \subseteq SUBSET S
    OBVIOUS
  <2> HIDE DEF Bad
  <2> QED BY <1>1, <2>1, LeastSubset
<1>3. T # {}
  BY SumEmpty
<1>4. First(T) \in T /\ IsFiniteSet(T)
  BY <1>3, FirstIn, FS_Subset
<1>5. SumFunctionOnSet(f, T \ {First(T)}) = 0
  BY <1>2, <1>4
<1>6. SumFunctionOnSet(f, T) = f[First(T)] + SumFunctionOnSet(f, T \ {First(T)})
  BY <1>3, <1>4, SumFirst
<1> QED BY <1>4, <1>5, <1>6

(* One summand alone counts. *)
LEMMA SumOfOne ==
  ASSUME NEW f, NEW S, IsFiniteSet(S), NEW e \in S, f[e] \in Int, \A x \in S \ {e} : f[x] = 0
  PROVE  SumFunctionOnSet(f, S) = f[e]
<1>1. \A x \in S : f[x] \in Int
  OBVIOUS
<1>2. SumFunctionOnSet(f, S) = f[e] + SumFunctionOnSet(f, S \ {e})
  BY <1>1, SumRemove
<1>3. IsFiniteSet(S \ {e})
  BY FS_Subset
<1>4. SumFunctionOnSet(f, S \ {e}) = 0
  BY <1>3, SumOfZeros
<1> QED BY <1>2, <1>4

(* One summand more, the sum being written over other records than before. *)
LEMMA SumGrows ==
  ASSUME NEW f, NEW h, NEW S, IsFiniteSet(S), NEW e, e \notin S,
         \A x \in S : f[x] \in Int /\ h[x] = f[x], h[e] \in Int
  PROVE  SumFunctionOnSet(h, S \cup {e}) = SumFunctionOnSet(f, S) + h[e]
<1>1. SumFunctionOnSet(h, S) = SumFunctionOnSet(f, S)
  BY SumOfEqual
<1>2. SumFunctionOnSet(h, S \cup {e}) = SumFunctionOnSet(h, S) + h[e]
  BY SumAdd
<1> QED BY <1>1, <1>2
=============================================================================
