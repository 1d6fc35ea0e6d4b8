-------------------------------- MODULE Sums --------------------------------
(***************************************************************************)
(* Lemmas about SumFunctionOnSet of the community modules and about finite *)
(* sets, for the theorems about invoices, files and lists.  In the place   *)
(* of an induction over a finite set stands the argument that a set of its *)
(* subsets, if not empty, has a smallest member: the ones that a lemma     *)
(* fails for are none, because of a smallest one each proof shows that a   *)
(* smaller one would fail too.                                             *)
(***************************************************************************)
EXTENDS Integers, FiniteSetsExt, FiniteSetTheorems, WellFoundedInduction, TLAPS

\* What a sum over s is, when g has the sums over the subsets of s.
Adds(f, g, s) == IF s = {} THEN 0 ELSE f[CHOOSE x \in s : TRUE] + g[s \ {CHOOSE x \in s : TRUE}]

\* The function g has the sum over every subset of S.
IsSum(f, g, S) == g = [s \in SUBSET S |-> Adds(f, g, s)]

\* The sums of the community module are such sums.
LEMMA Unfold ==
  ASSUME NEW f, NEW S, \E g : IsSum(f, g, S)
  PROVE  \E g : IsSum(f, g, S) /\ SumFunctionOnSet(f, S) = g[S]
<1> DEFINE G == CHOOSE g : g = [s \in SUBSET S |-> IF s = {} THEN 0 ELSE LET x == CHOOSE x \in s : TRUE IN f[x] + g[s \ {x}]]
<1>1. IsSum(f, G, S)
  BY DEF IsSum, Adds
<1>2. SumFunctionOnSet(f, S) = G[S]
  BY DEF SumFunctionOnSet, FoldFunctionOnSet, MapThenFoldSet
<1> QED BY <1>1, <1>2

\* Of subsets of a finite set there is one with no other below it.
LEMMA SmallestSet ==
  ASSUME NEW S, IsFiniteSet(S), NEW B, B \subseteq SUBSET S, B # {}
  PROVE  \E s \in B : IsFiniteSet(s) /\ \A t \in SUBSET s : t # s => t \notin B
<1>1. IsWellFoundedOn(StrictSubsetOrdering(S), SUBSET S)
  BY FS_StrictSubsetOrderingWellFounded, FS_FiniteSubsetsOfFinite
<1>2. PICK s \in B : \A t \in B : ~(<<t, s>> \in StrictSubsetOrdering(S))
  BY <1>1, WFMin
<1>3. \A t \in SUBSET s : t # s => t \notin B
  BY <1>2 DEF StrictSubsetOrdering
<1> QED
  BY <1>2, <1>3, FS_Subset

\* Where the terms agree, so do the sums.
LEMMA SumsAgree ==
  ASSUME NEW f, NEW e, NEW g, NEW h, NEW S, NEW T, IsSum(f, g, S), IsSum(e, h, T),
         NEW R, IsFiniteSet(R), R \subseteq S, R \subseteq T, \A x \in R : f[x] = e[x]
  PROVE  g[R] = h[R]
<1> DEFINE Bad == {s \in SUBSET R : g[s] # h[s]}
<1> SUFFICES ASSUME Bad # {} PROVE FALSE
  OBVIOUS
<1>0. Bad \subseteq SUBSET R
  OBVIOUS
<1>1. PICK s \in Bad : \A t \in SUBSET s : t # s => t \notin Bad
  <2> HIDE DEF Bad
  <2> QED
    BY <1>0, SmallestSet
<1>2. g[s] = Adds(f, g, s) /\ h[s] = Adds(e, h, s)
  BY DEF IsSum
<1>3. s # {}
  BY <1>2 DEF Adds
<1>4. PICK x \in s : x = CHOOSE y \in s : TRUE
  BY <1>3
<1>5. PICK t : t = s \ {x}
  OBVIOUS
<1>6. g[t] = h[t]
  BY <1>1, <1>5
<1>7. Adds(f, g, s) = f[x] + g[t] /\ Adds(e, h, s) = e[x] + h[t]
  BY <1>3, <1>4, <1>5 DEF Adds
<1> QED
  BY <1>2, <1>4, <1>6, <1>7

\* The sums over the subsets of a finite set exist.
LEMMA SumsExist ==
  ASSUME NEW f, NEW S, IsFiniteSet(S)
  PROVE  \E g : IsSum(f, g, S)
<1> DEFINE Bad == {s \in SUBSET S : ~\E g : IsSum(f, g, s)}
<1> SUFFICES ASSUME Bad # {} PROVE FALSE
  OBVIOUS
<1>0. Bad \subseteq SUBSET S
  OBVIOUS
<1>1. PICK s \in Bad : IsFiniteSet(s) /\ \A t \in SUBSET s : t # s => t \notin Bad
  <2> HIDE DEF Bad
  <2> QED
    BY <1>0, SmallestSet
<1> DEFINE Sums(u) == CHOOSE g : IsSum(f, g, u)
           G == [u \in SUBSET s |-> IF u = {} THEN 0
                                    ELSE f[CHOOSE x \in u : TRUE]
                                            + Sums(u \ {CHOOSE x \in u : TRUE})[u \ {CHOOSE x \in u : TRUE}]]
<1>2. ASSUME NEW u \in SUBSET s, u # s
      PROVE  IsSum(f, Sums(u), u)
  BY <1>1, <1>2
<1> HIDE DEF Sums
<1>3. ASSUME NEW u \in SUBSET s, u # s
      PROVE  G[u] = Sums(u)[u]
  <2>1. Sums(u)[u] = Adds(f, Sums(u), u)
    BY <1>2, <1>3 DEF IsSum
  <2>2. CASE u = {}
    BY <2>1, <2>2 DEF Adds
  <2>3. CASE u # {}
    <3>1. PICK x \in u : x = CHOOSE y \in u : TRUE
      BY <2>3
    <3>2. PICK t : t = u \ {x}
      OBVIOUS
    <3>3. t \in SUBSET s /\ t # s /\ t \subseteq u /\ IsFiniteSet(t)
      BY <1>1, <3>1, <3>2, FS_Subset
    <3>4. Sums(u)[t] = Sums(t)[t]
      <4>1. IsSum(f, Sums(u), u) /\ IsSum(f, Sums(t), t)
        BY <1>2, <1>3, <3>3
      <4> QED
        BY <4>1, <3>3, SumsAgree
    <3>5. G[u] = f[x] + Sums(t)[t] /\ Sums(u)[u] = f[x] + Sums(u)[t]
      BY <2>1, <2>3, <3>1, <3>2 DEF Adds
    <3> QED
      BY <3>4, <3>5
  <2> QED
    BY <2>2, <2>3
<1>4. ASSUME NEW u \in SUBSET s
      PROVE  G[u] = Adds(f, G, u)
  <2>1. CASE u = {}
    BY <2>1 DEF Adds
  <2>2. CASE u # {}
    <3>1. PICK x \in u : x = CHOOSE y \in u : TRUE
      BY <2>2
    <3>2. PICK t : t = u \ {x}
      OBVIOUS
    <3>3. t \in SUBSET s /\ t # s
      BY <3>1, <3>2
    <3>4. G[t] = Sums(t)[t]
      BY <1>3, <3>3
    <3>5. G[u] = f[x] + Sums(t)[t] /\ Adds(f, G, u) = f[x] + G[t]
      BY <2>2, <3>1, <3>2 DEF Adds
    <3> QED
      BY <3>4, <3>5
  <2> QED
    BY <2>1, <2>2
<1>5. IsSum(f, G, s)
  BY <1>4 DEF IsSum
<1> QED
  BY <1>5

\* A sum is one of its terms and the rest.
LEMMA SumFirst ==
  ASSUME NEW f, NEW S, IsFiniteSet(S), S # {}
  PROVE  \E x \in S : SumFunctionOnSet(f, S) = f[x] + SumFunctionOnSet(f, S \ {x})
<1>1. PICK x \in S : x = CHOOSE y \in S : TRUE
  OBVIOUS
<1>2. PICK t : t = S \ {x}
  OBVIOUS
<1>3. IsFiniteSet(t) /\ t \subseteq S
  BY <1>2, FS_Subset
<1>4. PICK g : IsSum(f, g, S) /\ SumFunctionOnSet(f, S) = g[S]
  BY SumsExist, Unfold
<1>5. PICK h : IsSum(f, h, t) /\ SumFunctionOnSet(f, t) = h[t]
  BY <1>3, SumsExist, Unfold
<1>6. g[t] = h[t]
  BY <1>3, <1>4, <1>5, SumsAgree
<1>7. g[S] = f[x] + g[t]
  BY <1>1, <1>2, <1>4 DEF IsSum, Adds
<1> QED
  BY <1>2, <1>4, <1>5, <1>6, <1>7

\* Nothing adds up to zero.
LEMMA SumEmpty == ASSUME NEW f PROVE SumFunctionOnSet(f, {}) = 0
<1>1. PICK g : IsSum(f, g, {}) /\ SumFunctionOnSet(f, {}) = g[{}]
  BY SumsExist, Unfold, FS_EmptySet
<1> QED
  BY <1>1 DEF IsSum, Adds

\* Equal terms have equal sums.
LEMMA SumSame ==
  ASSUME NEW f, NEW e, NEW S, IsFiniteSet(S), \A x \in S : f[x] = e[x]
  PROVE  SumFunctionOnSet(f, S) = SumFunctionOnSet(e, S)
<1>1. PICK g : IsSum(f, g, S) /\ SumFunctionOnSet(f, S) = g[S]
  BY SumsExist, Unfold
<1>2. PICK h : IsSum(e, h, S) /\ SumFunctionOnSet(e, S) = h[S]
  BY SumsExist, Unfold
<1> QED
  BY <1>1, <1>2, SumsAgree

\* A sum of integers is one, and any of its terms may be taken out.
LEMMA SumRemove ==
  ASSUME NEW f, NEW S, IsFiniteSet(S), \A x \in S : f[x] \in Int
  PROVE  /\ SumFunctionOnSet(f, S) \in Int
         /\ \A y \in S : SumFunctionOnSet(f, S) = f[y] + SumFunctionOnSet(f, S \ {y})
<1> DEFINE Good(s) == /\ SumFunctionOnSet(f, s) \in Int
                      /\ \A y \in s : SumFunctionOnSet(f, s) = f[y] + SumFunctionOnSet(f, s \ {y})
           Bad == {s \in SUBSET S : ~Good(s)}
<1> SUFFICES ASSUME Bad # {} PROVE FALSE
  OBVIOUS
<1>0. Bad \subseteq SUBSET S
  OBVIOUS
<1>1. PICK s \in Bad : IsFiniteSet(s) /\ \A t \in SUBSET s : t # s => t \notin Bad
  <2> HIDE DEF Bad
  <2> QED
    BY <1>0, SmallestSet
<1>2. \A t \in SUBSET s : t # s => Good(t)
  BY <1>1
<1>3. s # {} /\ IsFiniteSet(s)
  <2>1. Good({})
    BY SumEmpty
  <2> QED
    BY <1>1, <2>1
<1>4. PICK x \in s : SumFunctionOnSet(f, s) = f[x] + SumFunctionOnSet(f, s \ {x})
  BY <1>3, SumFirst
<1>6. f[x] \in Int
  OBVIOUS
<1>7. SumFunctionOnSet(f, s) \in Int
  BY <1>2, <1>4, <1>6
<1>8. ASSUME NEW y \in s
      PROVE  SumFunctionOnSet(f, s) = f[y] + SumFunctionOnSet(f, s \ {y})
  <2>1. CASE y = x
    BY <1>4, <2>1
  <2>2. CASE y # x
    <3>1. PICK r : r = s \ {x, y}
      OBVIOUS
    <3>2. r \in SUBSET s /\ r # s /\ (s \ {x}) \ {y} = r /\ (s \ {y}) \ {x} = r
      BY <3>1
    <3>3. SumFunctionOnSet(f, s \ {x}) = f[y] + SumFunctionOnSet(f, r)
      BY <1>2, <2>2, <3>2
    <3>4. SumFunctionOnSet(f, s \ {y}) = f[x] + SumFunctionOnSet(f, r)
      BY <1>2, <2>2, <3>2
    <3>5. SumFunctionOnSet(f, r) \in Int /\ f[y] \in Int
      BY <1>2, <3>2
    <3> QED
      BY <1>4, <1>6, <3>3, <3>4, <3>5
  <2> QED
    BY <2>1, <2>2
<1> QED
  BY <1>1, <1>7, <1>8

\* One more term.
LEMMA SumInsert ==
  ASSUME NEW f, NEW S, IsFiniteSet(S), \A x \in S : f[x] \in Int, NEW y, y \notin S, f[y] \in Int
  PROVE  SumFunctionOnSet(f, S \cup {y}) = SumFunctionOnSet(f, S) + f[y]
<1>1. PICK T : T = S \cup {y}
  OBVIOUS
<1>2. IsFiniteSet(T) /\ y \in T /\ T \ {y} = S /\ \A x \in T : f[x] \in Int
  BY <1>1, FS_AddElement
<1>3. SumFunctionOnSet(f, T) = f[y] + SumFunctionOnSet(f, S)
  BY <1>2, SumRemove
<1>4. SumFunctionOnSet(f, S) \in Int
  BY SumRemove
<1> QED
  BY <1>1, <1>3, <1>4

\* One term changes.
LEMMA SumChange ==
  ASSUME NEW f, NEW e, NEW S, IsFiniteSet(S), \A x \in S : f[x] \in Int /\ e[x] \in Int,
         NEW y \in S, \A x \in S : x # y => e[x] = f[x]
  PROVE  SumFunctionOnSet(e, S) = SumFunctionOnSet(f, S) + (e[y] - f[y])
<1>1. IsFiniteSet(S \ {y})
  BY FS_Subset
<1>2. SumFunctionOnSet(e, S \ {y}) = SumFunctionOnSet(f, S \ {y})
  BY <1>1, SumSame
<1>3. SumFunctionOnSet(e, S) = e[y] + SumFunctionOnSet(e, S \ {y})
  BY SumRemove
<1>4. SumFunctionOnSet(f, S) = f[y] + SumFunctionOnSet(f, S \ {y})
  BY SumRemove
<1>5. SumFunctionOnSet(f, S \ {y}) \in Int
  BY <1>1, SumRemove
<1> QED
  BY <1>2, <1>3, <1>4, <1>5

\* The terms of two sets that share none.
LEMMA SumUnion ==
  ASSUME NEW f, NEW A, NEW B, IsFiniteSet(A), IsFiniteSet(B), A \cap B = {},
         \A x \in A \cup B : f[x] \in Int
  PROVE  SumFunctionOnSet(f, A \cup B) = SumFunctionOnSet(f, A) + SumFunctionOnSet(f, B)
<1> DEFINE Good(s) == SumFunctionOnSet(f, A \cup s) = SumFunctionOnSet(f, A) + SumFunctionOnSet(f, s)
           Bad == {s \in SUBSET B : ~Good(s)}
<1> SUFFICES ASSUME Bad # {} PROVE FALSE
  OBVIOUS
<1>0. Bad \subseteq SUBSET B
  OBVIOUS
<1>1. PICK s \in Bad : IsFiniteSet(s) /\ \A t \in SUBSET s : t # s => t \notin Bad
  <2> HIDE DEF Bad
  <2> QED
    BY <1>0, SmallestSet
<1>2. SumFunctionOnSet(f, A) \in Int
  BY SumRemove
<1>3. s # {}
  <2>1. A \cup {} = A
    OBVIOUS
  <2>2. Good({})
    BY <1>2, <2>1, SumEmpty
  <2> QED
    BY <1>1, <2>2
<1>4. PICK y \in s : TRUE
  BY <1>3
<1>5. PICK t : t = s \ {y}
  OBVIOUS
<1>6. t \in SUBSET B /\ IsFiniteSet(t) /\ Good(t)
  BY <1>1, <1>4, <1>5, FS_Subset
<1>7. IsFiniteSet(A \cup t) /\ y \notin A \cup t /\ y \notin t
  BY <1>5, <1>6, FS_Union
<1>8. SumFunctionOnSet(f, (A \cup t) \cup {y}) = SumFunctionOnSet(f, A \cup t) + f[y]
  BY <1>6, <1>7, SumInsert
<1>9. SumFunctionOnSet(f, t \cup {y}) = SumFunctionOnSet(f, t) + f[y]
  BY <1>6, <1>7, SumInsert
<1>10. s = t \cup {y} /\ A \cup s = (A \cup t) \cup {y}
  BY <1>4, <1>5
<1>11. SumFunctionOnSet(f, t) \in Int /\ f[y] \in Int
  BY <1>6, SumRemove
<1> QED
  BY <1>1, <1>2, <1>6, <1>8, <1>9, <1>10, <1>11
====
