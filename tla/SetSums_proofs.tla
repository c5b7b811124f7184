--------------------------- MODULE SetSums_proofs ---------------------------
(***************************************************************************)
(* What MapThenSumSet computes for the elements of a finite set: the fold  *)
(* takes them in the order CHOOSE gives, and no other order has another    *)
(* sum.  The induction over sets is a minimal counterexample each time.    *)
(***************************************************************************)
EXTENDS FiniteSetsExt, FiniteSetTheorems, TLAPS

\* The sum of q over S
SumOf(q, S) == MapThenSumSet(LAMBDA x : q[x], S)

FirstOf(s) == CHOOSE x \in s : TRUE

\* One round of the fold over the subsets of S
FoldRound(q, g, s) == IF s = {} THEN 0 ELSE q[FirstOf(s)] + g[s \ {FirstOf(s)}]

\* g is the recursive function of the fold over S.
IsFold(q, g, S) == g = [s \in SUBSET S |-> FoldRound(q, g, s)]

TheFold(q, S) == CHOOSE g : IsFold(q, g, S)

-----------------------------------------------------------------------------
\* A collection of subsets of a finite set has a smallest member.
LEMMA MinimalSubset ==
  ASSUME NEW S, IsFiniteSet(S), NEW B \in SUBSET (SUBSET S), B # {}
  PROVE  \E T \in B : \A U \in B : U \subseteq T => U = T
<1>1. B \subseteq FiniteSubsetsOf(S)
  BY FS_FiniteSubsetsOfFinite
<1>2. IsWellFoundedOn(StrictSubsetOrdering(S), FiniteSubsetsOf(S))
  BY FS_StrictSubsetOrderingWellFounded
<1>3. PICK T \in B : \A U \in B : <<U, T>> \notin StrictSubsetOrdering(S)
  BY <1>1, <1>2, WFMin
<1> QED
  BY <1>3 DEF StrictSubsetOrdering

\* Two folds agree where both are defined.
LEMMA FoldsAgree ==
  ASSUME NEW q, NEW S, IsFiniteSet(S), NEW T, NEW g, NEW h,
         IsFold(q, g, S), IsFold(q, h, T),
         NEW U \in SUBSET S, U \in SUBSET T
  PROVE  g[U] = h[U]
<1> DEFINE B == {V \in SUBSET S : V \in SUBSET T /\ g[V] # h[V]}
<1>1. CASE B = {}
  BY <1>1
<1>2. CASE B # {}
  <2>1. PICK V \in B : \A W \in B : W \subseteq V => W = V
    <3>1. B \in SUBSET (SUBSET S)
      OBVIOUS
    <3> HIDE DEF B
    <3> QED
      BY <1>2, <3>1, MinimalSubset
  <2>2. g[V] = FoldRound(q, g, V) /\ h[V] = FoldRound(q, h, V)
    BY DEF IsFold
  <2>3. CASE V = {}
    BY <2>2, <2>3 DEF FoldRound
  <2>4. CASE V # {}
    <3> DEFINE W == V \ {FirstOf(V)}
    <3>1. FirstOf(V) \in V
      BY <2>4 DEF FirstOf
    <3>2. W \notin B /\ W \in SUBSET S /\ W \in SUBSET T
      BY <2>1, <3>1
    <3>3. g[W] = h[W]
      BY <3>2
    <3> QED
      BY <2>2, <2>4, <3>3 DEF FoldRound
  <2> QED
    BY <2>3, <2>4
<1> QED
  BY <1>1, <1>2

\* The fold over a finite set exists.
LEMMA FoldExists ==
  ASSUME NEW q, NEW S, IsFiniteSet(S)
  PROVE  IsFold(q, TheFold(q, S), S)
<1> DEFINE B == {V \in SUBSET S : ~ \E g : IsFold(q, g, V)}
<1>1. CASE B = {}
  BY <1>1 DEF TheFold
<1>2. CASE B # {}
  <2>1. PICK V \in B : \A W \in B : W \subseteq V => W = V
    <3>1. B \in SUBSET (SUBSET S)
      OBVIOUS
    <3> HIDE DEF B
    <3> QED
      BY <1>2, <3>1, MinimalSubset
  <2> DEFINE less(s) == s \ {FirstOf(s)}
             part(s) == TheFold(q, less(s))[less(s)]
             g == [s \in SUBSET V |-> IF s = {} THEN 0 ELSE q[FirstOf(s)] + part(s)]
  <2>2. \A s \in SUBSET V : s # {} => FirstOf(s) \in s
    BY DEF FirstOf
  <2>3. \A s \in SUBSET V : s # {} => IsFold(q, TheFold(q, less(s)), less(s))
    <3> SUFFICES ASSUME NEW s \in SUBSET V, s # {}
                 PROVE  \E f : IsFold(q, f, less(s))
      BY DEF TheFold
    <3> QED
      BY <2>1, <2>2
  <2>4. ASSUME NEW s \in SUBSET V, s # {}
        PROVE  g[less(s)] = part(s)
    <3>1. less(s) \in SUBSET V /\ IsFiniteSet(less(s))
      BY FS_Subset
    <3>2. part(s) = FoldRound(q, TheFold(q, less(s)), less(s))
      BY <2>3, <2>4 DEF IsFold
    <3>3. CASE less(s) = {}
      BY <3>1, <3>2, <3>3 DEF FoldRound
    <3>4. CASE less(s) # {}
      <4> DEFINE t == less(s)
      <4>1. /\ IsFold(q, TheFold(q, t), t)
            /\ IsFold(q, TheFold(q, less(t)), less(t))
        BY <2>3, <2>4, <3>1, <3>4
      <4>2. less(t) \in SUBSET t /\ less(t) \in SUBSET less(t)
        OBVIOUS
      <4>3. TheFold(q, t)[less(t)] = TheFold(q, less(t))[less(t)]
        <5>1. IsFiniteSet(t)
          BY <3>1
        <5> HIDE DEF t, less
        <5> QED
          BY <4>1, <4>2, <5>1, FoldsAgree
      <4>4. part(s) = q[FirstOf(t)] + TheFold(q, t)[less(t)]
        BY <3>2, <3>4 DEF FoldRound
      <4>5. g[t] = q[FirstOf(t)] + TheFold(q, less(t))[less(t)]
        BY <3>1, <3>4
      <4> QED
        BY <4>3, <4>4, <4>5
    <3> QED
      BY <3>3, <3>4
  <2>5. IsFold(q, g, V)
    <3>1. ASSUME NEW s \in SUBSET V
          PROVE  g[s] = FoldRound(q, g, s)
      BY <2>4 DEF FoldRound
    <3> QED
      BY <3>1 DEF IsFold
  <2> QED
    BY <2>5
<1> QED
  BY <1>1, <1>2

\* The sum is the last value of the fold.
LEMMA SumIsFold ==
  ASSUME NEW q, NEW S
  PROVE  SumOf(q, S) = TheFold(q, S)[S]
BY DEF SumOf, MapThenSumSet, MapThenFoldSet, TheFold, IsFold, FoldRound, FirstOf

-----------------------------------------------------------------------------
(* The equations of a sum *)

\* Nothing costs nothing.
LEMMA SumOfEmpty ==
  ASSUME NEW q
  PROVE  SumOf(q, {}) = 0
<1>1. IsFold(q, TheFold(q, {}), {})
  BY FS_EmptySet, FoldExists
<1>2. TheFold(q, {})[{}] = FoldRound(q, TheFold(q, {}), {})
  BY <1>1 DEF IsFold
<1> QED
  BY <1>2, SumIsFold DEF FoldRound

\* The recursion of the fold, with the element that CHOOSE takes
LEMMA SumOfFirst ==
  ASSUME NEW q, NEW S, IsFiniteSet(S), S # {}
  PROVE  SumOf(q, S) = q[FirstOf(S)] + SumOf(q, S \ {FirstOf(S)})
<1> DEFINE R == S \ {FirstOf(S)}
<1>1. IsFiniteSet(R) /\ R \in SUBSET S /\ R \in SUBSET R
  BY FS_RemoveElement
<1>2. IsFold(q, TheFold(q, S), S) /\ IsFold(q, TheFold(q, R), R)
  BY <1>1, FoldExists
<1>3. TheFold(q, S)[R] = TheFold(q, R)[R]
  <2>1. \A U : U \in SUBSET S /\ U \in SUBSET R
                => TheFold(q, S)[U] = TheFold(q, R)[U]
    <3> HIDE DEF R
    <3> QED
      BY <1>2, FoldsAgree
  <2> QED
    BY <1>1, <2>1
<1>4. TheFold(q, S)[S] = q[FirstOf(S)] + TheFold(q, S)[R]
  BY <1>2 DEF IsFold, FoldRound
<1> QED
  BY <1>3, <1>4, SumIsFold

\* A sum of naturals is a natural.
LEMMA SumOfType ==
  ASSUME NEW D, NEW q \in [D -> Nat], NEW S \in SUBSET D, IsFiniteSet(S)
  PROVE  SumOf(q, S) \in Nat
<1> DEFINE B == {V \in SUBSET S : SumOf(q, V) \notin Nat}
<1>1. CASE B = {}
  BY <1>1
<1>2. CASE B # {}
  <2>1. PICK V \in B : \A W \in B : W \subseteq V => W = V
    <3>1. B \in SUBSET (SUBSET S)
      OBVIOUS
    <3> HIDE DEF B
    <3> QED
      BY <1>2, <3>1, MinimalSubset
  <2>2. V # {}
    BY SumOfEmpty
  <2>3. FirstOf(V) \in V /\ IsFiniteSet(V)
    BY <2>2, FS_Subset DEF FirstOf
  <2>4. SumOf(q, V \ {FirstOf(V)}) \in Nat
    BY <2>1, <2>3
  <2> QED
    BY <2>2, <2>3, <2>4, SumOfFirst
<1> QED
  BY <1>1, <1>2

\* Any element can be taken out first.
LEMMA SumOfRemove ==
  ASSUME NEW D, NEW q \in [D -> Nat], NEW S \in SUBSET D, IsFiniteSet(S),
         NEW x \in S
  PROVE  SumOf(q, S) = q[x] + SumOf(q, S \ {x})
<1> DEFINE Splits(V) == \A y \in V : SumOf(q, V) = q[y] + SumOf(q, V \ {y})
           B == {V \in SUBSET S : ~ Splits(V)}
<1>1. CASE B = {}
  BY <1>1
<1>2. CASE B # {}
  <2>1. PICK V \in B : \A W \in B : W \subseteq V => W = V
    <3>1. B \in SUBSET (SUBSET S)
      OBVIOUS
    <3> HIDE DEF B
    <3> QED
      BY <1>2, <3>1, MinimalSubset
  <2> DEFINE c == FirstOf(V)
  <2>2. ASSUME NEW y \in V
        PROVE  SumOf(q, V) = q[y] + SumOf(q, V \ {y})
    <3>1. c \in V /\ IsFiniteSet(V)
      BY FS_Subset DEF FirstOf
    <3>2. SumOf(q, V) = q[c] + SumOf(q, V \ {c})
      BY <3>1, SumOfFirst
    <3>3. CASE y = c
      BY <3>2, <3>3
    <3>4. CASE y # c
      <4> DEFINE R == (V \ {c}) \ {y}
      <4>1. (V \ {y}) \ {c} = R
        OBVIOUS
      <4>2. Splits(V \ {c}) /\ Splits(V \ {y})
        BY <2>1, <3>1
      <4>3. SumOf(q, V \ {c}) = q[y] + SumOf(q, R)
        BY <3>4, <4>2
      <4>4. SumOf(q, V \ {y}) = q[c] + SumOf(q, R)
        BY <3>1, <3>4, <4>1, <4>2
      <4>5. R \in SUBSET D /\ IsFiniteSet(R)
        BY <3>1, FS_RemoveElement
      <4>6. SumOf(q, R) \in Nat /\ q[c] \in Nat /\ q[y] \in Nat
        BY <3>1, <4>5, SumOfType
      <4> QED
        BY <3>2, <4>3, <4>4, <4>6
    <3> QED
      BY <3>3, <3>4
  <2> QED
    BY <2>2
<1> QED
  BY <1>1, <1>2

\* One more element adds its value.
LEMMA SumOfAdd ==
  ASSUME NEW D, NEW q \in [D -> Nat], NEW S \in SUBSET D, IsFiniteSet(S),
         NEW x \in D, x \notin S
  PROVE  SumOf(q, S \cup {x}) = q[x] + SumOf(q, S)
<1>1. IsFiniteSet(S \cup {x}) /\ S \cup {x} \in SUBSET D
  BY FS_AddElement
<1>2. (S \cup {x}) \ {x} = S
  OBVIOUS
<1> QED
  BY <1>1, <1>2, SumOfRemove

-----------------------------------------------------------------------------
(* Sums of several functions over one set *)

\* Where the values agree, so do the sums.
LEMMA SumOfSame ==
  ASSUME NEW D, NEW f \in [D -> Nat], NEW g \in [D -> Nat],
         NEW S \in SUBSET D, IsFiniteSet(S), \A x \in S : f[x] = g[x]
  PROVE  SumOf(f, S) = SumOf(g, S)
<1> DEFINE B == {V \in SUBSET S : SumOf(f, V) # SumOf(g, V)}
<1>1. CASE B = {}
  BY <1>1
<1>2. CASE B # {}
  <2>1. PICK V \in B : \A W \in B : W \subseteq V => W = V
    <3>1. B \in SUBSET (SUBSET S)
      OBVIOUS
    <3> HIDE DEF B
    <3> QED
      BY <1>2, <3>1, MinimalSubset
  <2>2. PICK x \in V : TRUE
    BY SumOfEmpty
  <2>3. IsFiniteSet(V) /\ V \in SUBSET D
    BY FS_Subset
  <2>4. SumOf(f, V) = f[x] + SumOf(f, V \ {x}) /\ SumOf(g, V) = g[x] + SumOf(g, V \ {x})
    BY <2>3, SumOfRemove
  <2>5. SumOf(f, V \ {x}) = SumOf(g, V \ {x})
    BY <2>1
  <2> QED
    BY <2>4, <2>5
<1> QED
  BY <1>1, <1>2

\* The sum of a sum is the sum of the sums.
LEMMA SumOfPlus ==
  ASSUME NEW D, NEW f \in [D -> Nat], NEW g \in [D -> Nat], NEW k \in [D -> Nat],
         NEW S \in SUBSET D, IsFiniteSet(S), \A x \in S : f[x] = g[x] + k[x]
  PROVE  SumOf(f, S) = SumOf(g, S) + SumOf(k, S)
<1> DEFINE B == {V \in SUBSET S : SumOf(f, V) # SumOf(g, V) + SumOf(k, V)}
<1>1. CASE B = {}
  BY <1>1
<1>2. CASE B # {}
  <2>1. PICK V \in B : \A W \in B : W \subseteq V => W = V
    <3>1. B \in SUBSET (SUBSET S)
      OBVIOUS
    <3> HIDE DEF B
    <3> QED
      BY <1>2, <3>1, MinimalSubset
  <2>2. PICK x \in V : TRUE
    <3>1. V = {} => SumOf(f, V) = 0 /\ SumOf(g, V) = 0 /\ SumOf(k, V) = 0
      BY SumOfEmpty
    <3>2. SumOf(f, V) # SumOf(g, V) + SumOf(k, V)
      BY <2>1
    <3> QED
      BY <3>1, <3>2
  <2>3. IsFiniteSet(V) /\ V \in SUBSET D /\ IsFiniteSet(V \ {x})
    BY FS_Subset
  <2>4. /\ SumOf(f, V) = f[x] + SumOf(f, V \ {x})
        /\ SumOf(g, V) = g[x] + SumOf(g, V \ {x})
        /\ SumOf(k, V) = k[x] + SumOf(k, V \ {x})
    BY <2>3, SumOfRemove
  <2>5. SumOf(f, V \ {x}) = SumOf(g, V \ {x}) + SumOf(k, V \ {x})
    BY <2>1
  <2>6. SumOf(g, V \ {x}) \in Nat /\ SumOf(k, V \ {x}) \in Nat
    BY <2>3, SumOfType
  <2> QED
    BY <2>4, <2>5, <2>6
<1> QED
  BY <1>1, <1>2

\* A greater value at each element makes no smaller sum.
LEMMA SumOfLess ==
  ASSUME NEW D, NEW f \in [D -> Nat], NEW g \in [D -> Nat],
         NEW S \in SUBSET D, IsFiniteSet(S), \A x \in S : f[x] <= g[x]
  PROVE  SumOf(f, S) <= SumOf(g, S)
<1> DEFINE k == [x \in D |-> IF x \in S THEN g[x] - f[x] ELSE 0]
<1>1. k \in [D -> Nat] /\ \A x \in S : g[x] = f[x] + k[x]
  OBVIOUS
<1>2. SumOf(g, S) = SumOf(f, S) + SumOf(k, S)
  <2> HIDE DEF k
  <2> QED
    BY <1>1, SumOfPlus
<1>3. SumOf(f, S) \in Nat /\ SumOf(k, S) \in Nat
  <2> HIDE DEF k
  <2> QED
    BY <1>1, SumOfType
<1> QED
  BY <1>2, <1>3

\* What is left out of the set may be counted as nothing instead.
LEMMA SumOfPart ==
  ASSUME NEW D, NEW q \in [D -> Nat], NEW m \in [D -> Nat],
         NEW S \in SUBSET D, IsFiniteSet(S), NEW R \in SUBSET S,
         \A x \in S : m[x] = IF x \in R THEN q[x] ELSE 0
  PROVE  SumOf(q, R) = SumOf(m, S)
<1> DEFINE B == {V \in SUBSET S : SumOf(q, R \cap V) # SumOf(m, V)}
<1>1. CASE B = {}
  <2>1. S \in SUBSET S /\ S \notin B /\ R \cap S = R
    BY <1>1
  <2> QED
    BY <2>1
<1>2. CASE B # {}
  <2>1. PICK V \in B : \A W \in B : W \subseteq V => W = V
    <3>1. B \in SUBSET (SUBSET S)
      OBVIOUS
    <3> HIDE DEF B
    <3> QED
      BY <1>2, <3>1, MinimalSubset
  <2>2. PICK x \in V : TRUE
    <3>1. V = {} => R \cap V = {}
      OBVIOUS
    <3> QED
      BY <2>1, <3>1, SumOfEmpty
  <2>3. /\ IsFiniteSet(V) /\ V \in SUBSET D /\ IsFiniteSet(V \ {x}) /\ V \ {x} \in SUBSET D
        /\ IsFiniteSet(R \cap V) /\ R \cap V \in SUBSET D
    BY FS_Subset
  <2>4. SumOf(m, V) = m[x] + SumOf(m, V \ {x}) /\ SumOf(m, V \ {x}) \in Nat
    BY <2>3, SumOfRemove, SumOfType
  <2>5. SumOf(q, R \cap (V \ {x})) = SumOf(m, V \ {x})
    BY <2>1
  <2>6. CASE x \in R
    <3>1. SumOf(q, R \cap V) = q[x] + SumOf(q, (R \cap V) \ {x})
      BY <2>3, <2>6, SumOfRemove
    <3>2. (R \cap V) \ {x} = R \cap (V \ {x})
      OBVIOUS
    <3> QED
      BY <2>4, <2>5, <2>6, <3>1, <3>2
  <2>7. CASE x \notin R
    <3>1. R \cap V = R \cap (V \ {x})
      BY <2>7
    <3> QED
      BY <2>4, <2>5, <2>7, <3>1
  <2> QED
    BY <2>6, <2>7
<1> QED
  BY <1>1, <1>2

\* One value changes, and the sum by as much.
LEMMA SumOfChange ==
  ASSUME NEW D, NEW f \in [D -> Nat], NEW g \in [D -> Nat],
         NEW S \in SUBSET D, IsFiniteSet(S), NEW x \in S,
         \A y \in S \ {x} : f[y] = g[y]
  PROVE  SumOf(f, S) + g[x] = SumOf(g, S) + f[x]
<1>1. S \ {x} \in SUBSET D /\ IsFiniteSet(S \ {x})
  BY FS_RemoveElement
<1>2. SumOf(f, S \ {x}) = SumOf(g, S \ {x})
  BY <1>1, SumOfSame
<1>3. SumOf(f, S \ {x}) \in Nat
  BY <1>1, SumOfType
<1>4. SumOf(f, S) = f[x] + SumOf(f, S \ {x}) /\ SumOf(g, S) = g[x] + SumOf(g, S \ {x})
  BY SumOfRemove
<1> QED
  BY <1>2, <1>3, <1>4

\* Nothing adds up to nothing.
LEMMA SumOfZero ==
  ASSUME NEW S, IsFiniteSet(S), NEW f \in [S -> Nat], \A x \in S : f[x] = 0
  PROVE  SumOf(f, S) = 0
<1>1. SumOf(f, S) \in Nat
  BY SumOfType
<1>2. SumOf(f, S) = SumOf(f, S) + SumOf(f, S)
  <2>1. S \in SUBSET S /\ \A x \in S : f[x] = f[x] + f[x]
    OBVIOUS
  <2> QED
    BY <2>1, SumOfPlus
<1>3. \A s \in Nat : s = s + s => s = 0
  OBVIOUS
<1> QED
  BY <1>1, <1>2, <1>3
=============================================================================
