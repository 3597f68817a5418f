-------------------------------- MODULE Sums --------------------------------
(***************************************************************************)
(* Sums over finite sets.  The folds of the community modules take the     *)
(* members in an order nobody knows; what they compute is the number of    *)
(* the following tokens, and that is easy to reason about.                 *)
(***************************************************************************)
EXTENDS Integers, FiniteSets, FiniteSetsExt, Functions, FiniteSetTheorems,
        WellFoundedInduction, TLAPS

\* One token for every unit of f at a member of S: a sum is the number of tokens.
Column(f, x) == {<<x, i>> : i \in 1 .. f[x]}
Tokens(f, S) == UNION {Column(f, x) : x \in S}

LEMMA ColumnFacts ==
  ASSUME NEW f, NEW x, f[x] \in Nat
  PROVE  IsFiniteSet(Column(f, x)) /\ Cardinality(Column(f, x)) = f[x]
<1> DEFINE b == [i \in 1 .. f[x] |-> <<x, i>>]
<1>1. b \in Bijection(1 .. f[x], Column(f, x))
  <2>1. b \in Surjection(1 .. f[x], Column(f, x))
    BY DEF Column, Surjection
  <2>2. \A i, j \in 1 .. f[x] : b[i] = b[j] => i = j
    OBVIOUS
  <2> HIDE DEF b
  <2> QED BY <2>1, <2>2 DEF Bijection, Injection, IsInjective, Surjection
<1>2. IsFiniteSet(1 .. f[x]) /\ Cardinality(1 .. f[x]) = f[x]
  <2>1. 1 \in Int /\ f[x] \in Int
    OBVIOUS
  <2> QED BY <2>1, FS_Interval
<1>3. ExistsBijection(1 .. f[x], Column(f, x))
  BY <1>1 DEF ExistsBijection
<1> QED BY <1>2, <1>3, FS_Bijection

LEMMA TokensFinite ==
  ASSUME NEW S, IsFiniteSet(S), NEW f, \A x \in S : f[x] \in Nat
  PROVE  IsFiniteSet(Tokens(f, S)) /\ Cardinality(Tokens(f, S)) \in Nat
<1> DEFINE C == {Column(f, x) : x \in S}
           b == [x \in S |-> Column(f, x)]
<1>1. b \in Surjection(S, C)
  BY DEF Surjection
<1>2. IsFiniteSet(C)
  <2> HIDE DEF b, C
  <2> QED BY <1>1, FS_Surjection
<1>3. \A c \in C : IsFiniteSet(c)
  BY ColumnFacts
<1>4. IsFiniteSet(UNION C)
  <2> HIDE DEF C
  <2> QED BY <1>2, <1>3, FS_UNION
<1> QED BY <1>4, FS_CardinalityType DEF Tokens

\* The tokens of one member are those of no other.
LEMMA TokensSplit ==
  ASSUME NEW S, IsFiniteSet(S), NEW f, \A x \in S : f[x] \in Nat, NEW x \in S
  PROVE  Cardinality(Tokens(f, S)) = f[x] + Cardinality(Tokens(f, S \ {x}))
<1> DEFINE A == Column(f, x)
           B == Tokens(f, S \ {x})
<1>1. Tokens(f, S) = A \cup B /\ A \cap B = {}
  BY DEF Tokens, Column
<1>2. IsFiniteSet(A) /\ Cardinality(A) = f[x]
  BY ColumnFacts
<1>3. IsFiniteSet(B) /\ Cardinality(B) \in Nat
  <2>1. IsFiniteSet(S \ {x})
    BY FS_RemoveElement
  <2> QED BY <2>1, TokensFinite
<1> HIDE DEF A, B
<1>4. Cardinality(A \cup B) = Cardinality(A) + Cardinality(B) - Cardinality(A \cap B)
  BY <1>2, <1>3, FS_Union
<1>5. Cardinality(A \cap B) = 0
  BY <1>1, FS_EmptySet
<1>6. f[x] \in Nat
  OBVIOUS
<1> QED BY <1>1, <1>2, <1>3, <1>4, <1>5, <1>6 DEF B

\* What the fold behind SumFunctionOnSet computes.
IsTally(g, f, S) ==
  g = [s \in SUBSET S |-> IF s = {} THEN 0
                          ELSE LET x == CHOOSE x \in s : TRUE IN f[x] + g[s \ {x}]]

LEMMA TallyStep ==
  ASSUME NEW S, NEW f, NEW g, IsTally(g, f, S), NEW s \in SUBSET S, s # {}
  PROVE  \E x \in s : x = (CHOOSE y \in s : TRUE) /\ g[s] = f[x] + g[s \ {x}]
BY DEF IsTally

\* Every tally counts tokens, whatever order it chooses: a smallest set that it
\* counts otherwise would not be the smallest.
LEMMA TallyCounts ==
  ASSUME NEW S, IsFiniteSet(S), NEW f, \A x \in S : f[x] \in Nat, NEW g, IsTally(g, f, S)
  PROVE  \A s \in SUBSET S : g[s] = Cardinality(Tokens(f, s))
<1> DEFINE Bad == {s \in SUBSET S : g[s] # Cardinality(Tokens(f, s))}
           R   == StrictSubsetOrdering(S)
<1> SUFFICES ASSUME Bad # {}
             PROVE  FALSE
  OBVIOUS
<1>1. PICK s \in Bad : \A r \in Bad : <<r, s>> \notin R
  <2>1. IsWellFoundedOn(R, FiniteSubsetsOf(S))
    BY FS_StrictSubsetOrderingWellFounded
  <2>2. Bad \subseteq FiniteSubsetsOf(S)
    BY FS_Subset DEF FiniteSubsetsOf
  <2> HIDE DEF Bad, R
  <2> QED BY <2>1, <2>2, WFMin
<1>2. CASE s = {}
  <2>1. g[s] = 0
    BY <1>2 DEF IsTally
  <2>2. Tokens(f, s) = {}
    BY <1>2 DEF Tokens
  <2> QED BY <2>1, <2>2, FS_EmptySet
<1>3. CASE s # {}
  <2>1. PICK x \in s : g[s] = f[x] + g[s \ {x}]
    BY <1>3, TallyStep
  <2>2. s \ {x} \in SUBSET S /\ s \ {x} \notin Bad
    <3>1. <<s \ {x}, s>> \in R
      BY DEF StrictSubsetOrdering
    <3> QED BY <1>1, <3>1
  <2>3. IsFiniteSet(s)
    BY FS_Subset
  <2>4. Cardinality(Tokens(f, s)) = f[x] + Cardinality(Tokens(f, s \ {x}))
    BY <2>3, TokensSplit
  <2> QED BY <2>1, <2>2, <2>4
<1> QED BY <1>2, <1>3

\* And there is one: it counts the tokens.
LEMMA TallyExists ==
  ASSUME NEW S, IsFiniteSet(S), NEW f, \A x \in S : f[x] \in Nat
  PROVE  \E g : IsTally(g, f, S)
<1> DEFINE h == [s \in SUBSET S |-> Cardinality(Tokens(f, s))]
<1>1. IsTally(h, f, S)
  <2> SUFFICES ASSUME NEW s \in SUBSET S
               PROVE  h[s] = IF s = {} THEN 0
                             ELSE LET x == CHOOSE x \in s : TRUE IN f[x] + h[s \ {x}]
    BY DEF IsTally
  <2>1. CASE s = {}
    <3>1. Tokens(f, s) = {}
      BY <2>1 DEF Tokens
    <3> QED BY <2>1, <3>1, FS_EmptySet
  <2>2. CASE s # {}
    <3> DEFINE x == CHOOSE x \in s : TRUE
    <3>1. x \in s /\ x \in S /\ s \ {x} \in SUBSET S
      BY <2>2
    <3>2. IsFiniteSet(s)
      BY FS_Subset
    <3>3. Cardinality(Tokens(f, s)) = f[x] + Cardinality(Tokens(f, s \ {x}))
      BY <3>1, <3>2, TokensSplit
    <3> QED BY <2>2, <3>1, <3>3
  <2> QED BY <2>1, <2>2
<1> HIDE DEF h
<1> QED BY <1>1

LEMMA SumCounts ==
  ASSUME NEW S, IsFiniteSet(S), NEW f, \A x \in S : f[x] \in Nat
  PROVE  SumFunctionOnSet(f, S) = Cardinality(Tokens(f, S))
<1> DEFINE g == CHOOSE g : IsTally(g, f, S)
<1>1. IsTally(g, f, S)
  BY TallyExists
<1>2. SumFunctionOnSet(f, S) = g[S]
  BY DEF SumFunctionOnSet, FoldFunctionOnSet, MapThenFoldSet, IsTally
<1> HIDE DEF g
<1> QED BY <1>1, <1>2, TallyCounts

\* A sum of numbers that a bound holds is held by it as often as there are members.
LEMMA SumBounded ==
  ASSUME NEW S, IsFiniteSet(S), NEW k \in Nat, NEW f, \A x \in S : f[x] \in 0 .. k
  PROVE  /\ IsFiniteSet(Tokens(f, S)) /\ Cardinality(Tokens(f, S)) \in Nat
         /\ Cardinality(Tokens(f, S)) <= Cardinality(S) * k
<1>1. \A x \in S : f[x] \in Nat
  OBVIOUS
<1>2. IsFiniteSet(Tokens(f, S)) /\ Cardinality(Tokens(f, S)) \in Nat
  BY <1>1, TokensFinite
<1>3. IsFiniteSet(1 .. k) /\ Cardinality(1 .. k) = k
  <2>1. 1 \in Int /\ k \in Int
    OBVIOUS
  <2> QED BY <2>1, FS_Interval
<1>4. IsFiniteSet(S \X (1 .. k)) /\ Cardinality(S \X (1 .. k)) = Cardinality(S) * k
  BY <1>3, FS_Product
<1>5. Tokens(f, S) \in SUBSET (S \X (1 .. k))
  BY DEF Tokens, Column
<1>6. Cardinality(Tokens(f, S)) <= Cardinality(S \X (1 .. k))
  BY <1>4, <1>5, FS_Subset
<1> QED BY <1>2, <1>4, <1>6

\* One more at every member of D.
LEMMA SumGrows ==
  ASSUME NEW S, IsFiniteSet(S), NEW D \in SUBSET S, NEW f, NEW g, \A x \in S : f[x] \in Nat,
         \A x \in S : g[x] = IF x \in D THEN f[x] + 1 ELSE f[x]
  PROVE  SumFunctionOnSet(g, S) = SumFunctionOnSet(f, S) + Cardinality(D)
<1> DEFINE A == Tokens(f, S)
           B == {<<x, f[x] + 1>> : x \in D}
           b == [x \in D |-> <<x, f[x] + 1>>]
<1>1. SumFunctionOnSet(g, S) = Cardinality(Tokens(g, S)) /\ SumFunctionOnSet(f, S) = Cardinality(A)
  BY SumCounts
<1>2. Tokens(g, S) = A \cup B /\ A \cap B = {}
  <2>1. \A x \in S : Column(g, x) = IF x \in D THEN Column(f, x) \cup {<<x, f[x] + 1>>} ELSE Column(f, x)
    <3> SUFFICES ASSUME NEW x \in S
                 PROVE  Column(g, x) = IF x \in D THEN Column(f, x) \cup {<<x, f[x] + 1>>} ELSE Column(f, x)
      OBVIOUS
    <3>1. f[x] \in Nat /\ g[x] = IF x \in D THEN f[x] + 1 ELSE f[x]
      OBVIOUS
    <3>2. 1 .. (f[x] + 1) = (1 .. f[x]) \cup {f[x] + 1}
      BY <3>1
    <3> QED BY <3>1, <3>2 DEF Column
  <2>2. Tokens(g, S) = A \cup B
    BY <2>1 DEF Tokens
  <2>3. A \cap B = {}
    <3> SUFFICES ASSUME NEW x \in D, <<x, f[x] + 1>> \in A
                 PROVE  FALSE
      OBVIOUS
    <3>1. f[x] + 1 \in 1 .. f[x]
      BY DEF Tokens, Column
    <3> QED BY <3>1
  <2> QED BY <2>2, <2>3
<1>3. IsFiniteSet(A) /\ Cardinality(A) \in Nat
  BY TokensFinite
<1>4. IsFiniteSet(D) /\ b \in Bijection(D, B)
  <2>1. b \in Surjection(D, B)
    BY DEF Surjection
  <2>2. \A x, y \in D : b[x] = b[y] => x = y
    OBVIOUS
  <2> HIDE DEF b, B
  <2> QED BY <2>1, <2>2, FS_Subset DEF Bijection, Injection, IsInjective, Surjection
<1>5. IsFiniteSet(B) /\ Cardinality(B) = Cardinality(D)
  <2>1. ExistsBijection(D, B)
    BY <1>4 DEF ExistsBijection
  <2> HIDE DEF B
  <2> QED BY <1>4, <2>1, FS_Bijection
<1>6. Cardinality(D) \in Nat
  BY <1>4, FS_CardinalityType
<1> HIDE DEF A, B
<1>7. Cardinality(A \cup B) = Cardinality(A) + Cardinality(B) - Cardinality(A \cap B)
  BY <1>3, <1>5, FS_Union
<1>8. Cardinality(A \cap B) = 0
  BY <1>2, FS_EmptySet
<1> QED BY <1>1, <1>2, <1>3, <1>5, <1>6, <1>7, <1>8
=============================================================================
