-------------------------------- MODULE Sums --------------------------------
(***************************************************************************)
(* Facts about SumFunctionOnSet and SumFunction of the community modules,  *)
(* for finite sets of indices.  The sums are folds, defined by recursion   *)
(* on a set; an induction on finite sets is an argument about a minimal    *)
(* counterexample here, in a set of sets.                                  *)
(***************************************************************************)
EXTENDS Integers, FiniteSets, Functions, FiniteSetTheorems, WellFoundedInduction, TLAPS

\* The element a fold takes out of s first.
First(s) == CHOOSE x \in s : TRUE

\* g maps every subset of S to the sum of f on it.
IsSumMap(f, S, g) ==
  g = [s \in SUBSET S |-> IF s = {} THEN 0 ELSE f[First(s)] + g[s \ {First(s)}]]

\* A set of subsets of a finite set that is not empty has a minimal element.
LEMMA MinimalSubset ==
  ASSUME NEW S, IsFiniteSet(S), NEW T \in SUBSET SUBSET S, T # {}
  PROVE  \E t \in T : \A u \in T : u \subseteq t => u = t
<1>1. IsWellFoundedOn(StrictSubsetOrdering(S), SUBSET S)
  BY FS_StrictSubsetOrderingWellFounded, FS_FiniteSubsetsOfFinite
<1>2. PICK t \in T : \A u \in T : ~ (<<u, t>> \in StrictSubsetOrdering(S))
  BY <1>1, WFMin
<1>3. \A u \in T : u \subseteq t => u = t
  BY <1>2 DEF StrictSubsetOrdering
<1> QED BY <1>3

\* The first element is an element.
LEMMA FirstIn == ASSUME NEW s, s # {} PROVE First(s) \in s
BY DEF First

\* A sum map at one of its sets.
LEMMA SumMapAt ==
  ASSUME NEW f, NEW S, NEW g, IsSumMap(f, S, g), NEW s \in SUBSET S
  PROVE  g[s] = IF s = {} THEN 0 ELSE f[First(s)] + g[s \ {First(s)}]
BY DEF IsSumMap

\* Two sum maps agree where both are defined.
LEMMA SumMapsAgree ==
  ASSUME NEW f, NEW A, NEW B, NEW g, NEW h, IsSumMap(f, A, g), IsSumMap(f, B, h),
         IsFiniteSet(A), NEW s \in SUBSET (A \cap B)
  PROVE  g[s] = h[s]
<1> DEFINE T == {t \in SUBSET (A \cap B) : g[t] # h[t]}
<1>1. IsFiniteSet(A \cap B)
  BY FS_Subset
<1>2. ASSUME T # {} PROVE FALSE
  <2>0. T \in SUBSET SUBSET (A \cap B)
    OBVIOUS
  <2>1. \E t \in T : \A u \in T : u \subseteq t => u = t
    <3> HIDE DEF T
    <3> QED BY <1>1, <1>2, <2>0, MinimalSubset
  <2>t. PICK t \in T : \A u \in T : u \subseteq t => u = t
    BY <2>1
  <2>s. t \in SUBSET A /\ t \in SUBSET B
    OBVIOUS
  <2>2. g[t] = IF t = {} THEN 0 ELSE f[First(t)] + g[t \ {First(t)}]
    BY <2>s, SumMapAt
  <2>3. h[t] = IF t = {} THEN 0 ELSE f[First(t)] + h[t \ {First(t)}]
    <3> HIDE DEF T
    <3> QED BY <2>s, SumMapAt
  <2>4. t # {}
    BY <2>2, <2>3
  <2>5. t \ {First(t)} \in SUBSET (A \cap B) /\ t \ {First(t)} # t
    BY <2>4, FirstIn
  <2>6. g[t \ {First(t)}] = h[t \ {First(t)}]
    BY <2>t, <2>5
  <2> QED BY <2>2, <2>3, <2>6
<1> QED BY <1>2

\* Every finite set has a sum map.
LEMMA SumMapExists ==
  ASSUME NEW f, NEW S, IsFiniteSet(S)
  PROVE  \E g : IsSumMap(f, S, g)
<1> DEFINE T == {t \in SUBSET S : ~ \E g : IsSumMap(f, t, g)}
           M(t) == CHOOSE g : IsSumMap(f, t, g)
<1>1. ASSUME T # {} PROVE FALSE
  <2>0. T \in SUBSET SUBSET S
    OBVIOUS
  <2>1. \E t \in T : \A u \in T : u \subseteq t => u = t
    <3> HIDE DEF T
    <3> QED BY <1>1, <2>0, MinimalSubset
  <2>t. PICK t \in T : \A u \in T : u \subseteq t => u = t
    BY <2>1
  <2> DEFINE G == [s \in SUBSET t |-> IF s = {} THEN 0
                                      ELSE f[First(s)] + M(s \ {First(s)})[s \ {First(s)}]]
  <2>2. ASSUME NEW s \in SUBSET t, s # t PROVE IsSumMap(f, s, M(s)) /\ IsFiniteSet(s)
    <3>1. s \in SUBSET S /\ s \notin T
      BY <2>t, <2>2
    <3>2. \E g : IsSumMap(f, s, g)
      BY <3>1
    <3> HIDE DEF T
    <3> QED BY <3>1, <3>2, FS_Subset
  <2>3. ASSUME NEW s \in SUBSET t, s # t PROVE G[s] = M(s)[s]
    <3>1. IsSumMap(f, s, M(s)) /\ IsFiniteSet(s)
      BY <2>2, <2>3
    <3>2. CASE s = {}
      BY <3>1, <3>2, SumMapAt
    <3>3. CASE s # {}
      <4> DEFINE r == s \ {First(s)}
      <4>1. First(s) \in s
        BY <3>3, FirstIn
      <4>2. r \in SUBSET t /\ r # t /\ r \in SUBSET (s \cap r) /\ r \in SUBSET s
        BY <2>3, <4>1
      <4>3. IsSumMap(f, r, M(r))
        BY <2>2, <4>2
      <4> HIDE DEF M
      <4>4. M(s)[r] = M(r)[r]
        BY <3>1, <4>2, <4>3, SumMapsAgree
      <4>5. M(s)[s] = f[First(s)] + M(s)[r]
        BY <3>1, <3>3, SumMapAt
      <4> QED BY <3>3, <4>4, <4>5
    <3> QED BY <3>2, <3>3
  <2>4. ASSUME NEW s \in SUBSET t, s # {} PROVE G[s] = f[First(s)] + G[s \ {First(s)}]
    <3>1. First(s) \in s
      BY <2>4, FirstIn
    <3>2. s \ {First(s)} \in SUBSET t /\ s \ {First(s)} # t
      BY <3>1
    <3>3. G[s \ {First(s)}] = M(s \ {First(s)})[s \ {First(s)}]
      BY <2>3, <3>2
    <3> HIDE DEF M
    <3> QED BY <2>4, <3>3
  <2>5. IsSumMap(f, t, G)
    <3>0. G[{}] = 0
      OBVIOUS
    <3>1. \A s \in SUBSET t : G[s] = IF s = {} THEN 0 ELSE f[First(s)] + G[s \ {First(s)}]
      <4> HIDE DEF G
      <4> QED BY <2>4, <3>0
    <3>2. G = [s \in SUBSET t |-> G[s]]
      OBVIOUS
    <3> HIDE DEF G
    <3> QED BY <3>1, <3>2 DEF IsSumMap
  <2> QED BY <2>5
<1> QED BY <1>1

\* The recursion that defines a sum.
LEMMA SumUnfold ==
  ASSUME NEW f, NEW S
  PROVE  SumFunctionOnSet(f, S) = (CHOOSE g : IsSumMap(f, S, g))[S]
BY DEF SumFunctionOnSet, FoldFunctionOnSet, MapThenFoldSet, IsSumMap, First

\* The sum over nothing.
LEMMA SumEmpty ==
  ASSUME NEW f
  PROVE  SumFunctionOnSet(f, {}) = 0
<1>1. PICK g : IsSumMap(f, {}, g)
  BY SumMapExists, FS_EmptySet
<1> DEFINE m == CHOOSE k : IsSumMap(f, {}, k)
<1>2. IsSumMap(f, {}, m)
  BY <1>1
<1>3. SumFunctionOnSet(f, {}) = m[{}]
  BY SumUnfold
<1> HIDE DEF m
<1> QED BY <1>2, <1>3, SumMapAt

\* A sum is its first term and the sum of the rest.
LEMMA SumFirst ==
  ASSUME NEW f, NEW S, IsFiniteSet(S), S # {}
  PROVE  SumFunctionOnSet(f, S) = f[First(S)] + SumFunctionOnSet(f, S \ {First(S)})
<1> DEFINE r == S \ {First(S)}
           m == CHOOSE g : IsSumMap(f, S, g)
           n == CHOOSE g : IsSumMap(f, r, g)
<1>1. IsSumMap(f, S, m)
  BY SumMapExists
<1>2. IsFiniteSet(r)
  BY FS_Subset
<1>3. IsSumMap(f, r, n)
  BY <1>2, SumMapExists
<1>4. SumFunctionOnSet(f, S) = m[S] /\ SumFunctionOnSet(f, r) = n[r]
  BY SumUnfold
<1> HIDE DEF m, n
<1>5. m[S] = f[First(S)] + m[r]
  BY <1>1, SumMapAt
<1>6. r \in SUBSET (S \cap r)
  OBVIOUS
<1>7. m[r] = n[r]
  BY <1>1, <1>3, <1>6, SumMapsAgree
<1> QED BY <1>4, <1>5, <1>7

-----------------------------------------------------------------------------
(* Sums of integers.                                                       *)

IntOn(f, S) == \A x \in S : f[x] \in Int

\* What holds of the empty set, and of a set if it holds without the set's first element,
\* holds of every finite set.
LEMMA SubsetInduction ==
  ASSUME NEW S, IsFiniteSet(S), NEW G, {} \in G,
         \A t \in SUBSET S : t # {} /\ t \ {First(t)} \in G => t \in G
  PROVE  S \in G
<1> DEFINE T == (SUBSET S) \ G
<1>1. T \in SUBSET SUBSET S
  OBVIOUS
<1>2. ASSUME T # {} PROVE FALSE
  <2>1. \E t \in T : \A u \in T : u \subseteq t => u = t
    <3> HIDE DEF T
    <3> QED BY <1>1, <1>2, MinimalSubset
  <2>2. PICK t \in T : \A u \in T : u \subseteq t => u = t
    BY <2>1
  <2>3. t # {} /\ t \in SUBSET S
    OBVIOUS
  <2>4. First(t) \in t
    BY <2>3, FirstIn
  <2>5. t \ {First(t)} \in G
    BY <2>2, <2>3, <2>4
  <2> QED BY <2>3, <2>5
<1> QED BY <1>2

\* The sum of a part of a finite set, unfolded.
LEMMA PartUnfold ==
  ASSUME NEW f, NEW S, IsFiniteSet(S), NEW t \in SUBSET S, t # {}
  PROVE  /\ First(t) \in S /\ t \ {First(t)} \in SUBSET S
         /\ SumFunctionOnSet(f, t) = f[First(t)] + SumFunctionOnSet(f, t \ {First(t)})
<1>1. IsFiniteSet(t) /\ First(t) \in t
  BY FS_Subset, FirstIn
<1> QED BY <1>1, SumFirst

\* Integers add up to an integer.
LEMMA SumType ==
  ASSUME NEW f, NEW S, IsFiniteSet(S), IntOn(f, S)
  PROVE  SumFunctionOnSet(f, S) \in Int
<1> DEFINE G == {t \in SUBSET S : SumFunctionOnSet(f, t) \in Int}
<1>1. 0 \in Int
  OBVIOUS
<1>2. {} \in G
  BY <1>1, SumEmpty
<1>3. ASSUME NEW t \in SUBSET S, t # {}, t \ {First(t)} \in G PROVE t \in G
  BY <1>3, PartUnfold DEF IntOn
<1>4. S \in G
  <2> HIDE DEF G
  <2> QED BY <1>2, <1>3, SubsetInduction
<1> QED BY <1>4

\* Any element may be taken out first.
LEMMA SumRemove ==
  ASSUME NEW f, NEW S, IsFiniteSet(S), IntOn(f, S), NEW x \in S
  PROVE  SumFunctionOnSet(f, S) = f[x] + SumFunctionOnSet(f, S \ {x})
<1> DEFINE Good(t) == \A y \in t : SumFunctionOnSet(f, t) = f[y] + SumFunctionOnSet(f, t \ {y})
           T == {t \in SUBSET S : ~ Good(t)}
<1>0. T \in SUBSET SUBSET S
  OBVIOUS
<1>1. ASSUME T # {} PROVE FALSE
  <2>1. \E t \in T : \A u \in T : u \subseteq t => u = t
    <3> HIDE DEF T
    <3> QED BY <1>0, <1>1, MinimalSubset
  <2>2. PICK t \in T : \A u \in T : u \subseteq t => u = t
    BY <2>1
  <2>3. PICK y \in t : SumFunctionOnSet(f, t) # f[y] + SumFunctionOnSet(f, t \ {y})
    OBVIOUS
  <2> DEFINE c == First(t)
  <2>4. IsFiniteSet(t) /\ t \in SUBSET S
    BY FS_Subset
  <2>5. SumFunctionOnSet(f, t) = f[c] + SumFunctionOnSet(f, t \ {c}) /\ c \in t
    BY <2>4, SumFirst, FirstIn
  <2>6. c # y
    BY <2>3, <2>5
  <2>7. Good(t \ {c}) /\ Good(t \ {y})
    BY <2>2, <2>3, <2>4, <2>5
  <2> HIDE DEF c
  <2>8. (t \ {c}) \ {y} = (t \ {y}) \ {c}
    OBVIOUS
  <2> DEFINE z == SumFunctionOnSet(f, (t \ {c}) \ {y})
  <2>9. SumFunctionOnSet(f, t \ {c}) = f[y] + z /\ SumFunctionOnSet(f, t \ {y}) = f[c] + z
    BY <2>5, <2>6, <2>7, <2>8
  <2>10. z \in Int
    <3>1. (t \ {c}) \ {y} \in SUBSET S
      BY <2>4
    <3>2. IsFiniteSet((t \ {c}) \ {y}) /\ IntOn(f, (t \ {c}) \ {y})
      BY <3>1, FS_Subset DEF IntOn
    <3> QED BY <3>2, SumType
  <2>11. f[c] \in Int /\ f[y] \in Int
    BY <2>4, <2>5 DEF IntOn
  <2> HIDE DEF z
  <2> QED BY <2>3, <2>5, <2>9, <2>10, <2>11
<1>2. Good(S)
  BY <1>1
<1> QED BY <1>2

\* A sum depends only on the values at its indices.
LEMMA SumSame ==
  ASSUME NEW f, NEW g, NEW S, IsFiniteSet(S), \A x \in S : f[x] = g[x]
  PROVE  SumFunctionOnSet(f, S) = SumFunctionOnSet(g, S)
<1> DEFINE G == {t \in SUBSET S : SumFunctionOnSet(f, t) = SumFunctionOnSet(g, t)}
<1>1. {} \in G
  BY SumEmpty
<1>2. ASSUME NEW t \in SUBSET S, t # {}, t \ {First(t)} \in G PROVE t \in G
  BY <1>2, PartUnfold
<1>3. S \in G
  <2> HIDE DEF G
  <2> QED BY <1>1, <1>2, SubsetInduction
<1> QED BY <1>3

\* One value changes.
LEMMA SumChange ==
  ASSUME NEW f, NEW g, NEW S, IsFiniteSet(S), IntOn(f, S), IntOn(g, S), NEW x \in S,
         \A y \in S \ {x} : g[y] = f[y]
  PROVE  SumFunctionOnSet(g, S) = SumFunctionOnSet(f, S) - f[x] + g[x]
<1> DEFINE r == S \ {x}
<1>1. IsFiniteSet(r) /\ IntOn(f, r)
  BY FS_Subset DEF IntOn
<1>2. SumFunctionOnSet(g, r) = SumFunctionOnSet(f, r) /\ SumFunctionOnSet(f, r) \in Int
  BY <1>1, SumSame, SumType
<1>3. /\ SumFunctionOnSet(f, S) = f[x] + SumFunctionOnSet(f, r)
      /\ SumFunctionOnSet(g, S) = g[x] + SumFunctionOnSet(g, r)
  BY SumRemove
<1>4. f[x] \in Int /\ g[x] \in Int
  BY DEF IntOn
<1> HIDE DEF r
<1> QED BY <1>2, <1>3, <1>4

\* Indices where the value is zero do not count.
LEMMA SumOfPart ==
  ASSUME NEW f, NEW S, IsFiniteSet(S), NEW P \in SUBSET S, IntOn(f, S),
         \A x \in S \ P : f[x] = 0
  PROVE  SumFunctionOnSet(f, S) = SumFunctionOnSet(f, P)
<1> DEFINE G == {t \in SUBSET S : SumFunctionOnSet(f, t) = SumFunctionOnSet(f, t \cap P)}
<1>1. {} \in G
  BY SumEmpty
<1>2. ASSUME NEW t \in SUBSET S, t # {}, t \ {First(t)} \in G PROVE t \in G
  <2> DEFINE c == First(t)
             r == t \ {c}
  <2>1. /\ c \in t /\ c \in S /\ r \in SUBSET S
        /\ SumFunctionOnSet(f, t) = f[c] + SumFunctionOnSet(f, r)
    BY <1>2, PartUnfold, FirstIn
  <2>2. SumFunctionOnSet(f, r) = SumFunctionOnSet(f, r \cap P)
    BY <1>2
  <2>3. IsFiniteSet(t \cap P) /\ IsFiniteSet(r \cap P) /\ IntOn(f, t \cap P) /\ IntOn(f, r \cap P)
    <3>1. t \cap P \in SUBSET S /\ r \cap P \in SUBSET S
      OBVIOUS
    <3> HIDE DEF r
    <3> QED BY <3>1, FS_Subset DEF IntOn
  <2>4. SumFunctionOnSet(f, r \cap P) \in Int /\ f[c] \in Int
    BY <2>1, <2>3, SumType DEF IntOn
  <2> HIDE DEF c
  <2>5. CASE c \in P
    <3>1. (t \cap P) \ {c} = r \cap P /\ c \in t \cap P
      BY <2>1, <2>5
    <3>2. SumFunctionOnSet(f, t \cap P) = f[c] + SumFunctionOnSet(f, (t \cap P) \ {c})
      BY <2>3, <3>1, SumRemove
    <3>3. SumFunctionOnSet(f, t) = SumFunctionOnSet(f, t \cap P)
      BY <2>1, <2>2, <3>1, <3>2
    <3> QED BY <3>3
  <2>6. CASE c \notin P
    <3>1. t \cap P = r \cap P /\ f[c] = 0
      BY <2>1, <2>6
    <3>2. SumFunctionOnSet(f, t) = SumFunctionOnSet(f, t \cap P)
      BY <2>1, <2>2, <2>4, <3>1
    <3> QED BY <3>2
  <2> QED BY <2>5, <2>6
<1>3. S \in G
  <2> HIDE DEF G
  <2> QED BY <1>1, <1>2, SubsetInduction
<1>4. S \cap P = P
  OBVIOUS
<1> QED BY <1>3, <1>4

\* Zeros add up to zero.
LEMMA SumZero ==
  ASSUME NEW f, NEW S, IsFiniteSet(S), \A x \in S : f[x] = 0
  PROVE  SumFunctionOnSet(f, S) = 0
<1>1. SumFunctionOnSet(f, S) = SumFunctionOnSet(f, {})
  BY SumOfPart DEF IntOn
<1> QED BY <1>1, SumEmpty

\* Only one index counts.
LEMMA SumOne ==
  ASSUME NEW f, NEW S, IsFiniteSet(S), IntOn(f, S), NEW x \in S, \A y \in S \ {x} : f[y] = 0
  PROVE  SumFunctionOnSet(f, S) = f[x]
<1>1. IsFiniteSet(S \ {x})
  BY FS_Subset
<1>2. SumFunctionOnSet(f, S \ {x}) = 0
  BY <1>1, SumZero
<1>3. f[x] \in Int
  BY DEF IntOn
<1> QED BY <1>2, <1>3, SumRemove

\* Sums are monotone.
LEMMA SumMonotone ==
  ASSUME NEW f, NEW g, NEW S, IsFiniteSet(S), IntOn(f, S), IntOn(g, S),
         \A x \in S : f[x] <= g[x]
  PROVE  SumFunctionOnSet(f, S) <= SumFunctionOnSet(g, S)
<1> DEFINE G == {t \in SUBSET S : SumFunctionOnSet(f, t) <= SumFunctionOnSet(g, t)}
<1>1. {} \in G
  BY SumEmpty
<1>2. ASSUME NEW t \in SUBSET S, t # {}, t \ {First(t)} \in G PROVE t \in G
  <2> DEFINE c == First(t)
             r == t \ {c}
  <2>1. /\ c \in S /\ r \in SUBSET S
        /\ SumFunctionOnSet(f, t) = f[c] + SumFunctionOnSet(f, r)
        /\ SumFunctionOnSet(g, t) = g[c] + SumFunctionOnSet(g, r)
    BY <1>2, PartUnfold
  <2>2. IsFiniteSet(r) /\ IntOn(f, r) /\ IntOn(g, r)
    BY <2>1, FS_Subset DEF IntOn
  <2>3. SumFunctionOnSet(f, r) \in Int /\ SumFunctionOnSet(g, r) \in Int
    BY <2>2, SumType
  <2>4. f[c] \in Int /\ g[c] \in Int /\ f[c] <= g[c]
    BY <2>1 DEF IntOn
  <2>5. SumFunctionOnSet(f, r) <= SumFunctionOnSet(g, r)
    BY <1>2
  <2> HIDE DEF c, r
  <2> QED BY <2>1, <2>3, <2>4, <2>5
<1>3. S \in G
  <2> HIDE DEF G
  <2> QED BY <1>1, <1>2, SubsetInduction
<1> QED BY <1>3

\* The sum of a sum of two functions.
LEMMA SumAdd ==
  ASSUME NEW f, NEW g, NEW h, NEW S, IsFiniteSet(S), IntOn(f, S), IntOn(g, S),
         \A x \in S : h[x] = f[x] + g[x]
  PROVE  SumFunctionOnSet(h, S) = SumFunctionOnSet(f, S) + SumFunctionOnSet(g, S)
<1> DEFINE G == {t \in SUBSET S :
                  SumFunctionOnSet(h, t) = SumFunctionOnSet(f, t) + SumFunctionOnSet(g, t)}
<1>1. {} \in G
  BY SumEmpty
<1>2. ASSUME NEW t \in SUBSET S, t # {}, t \ {First(t)} \in G PROVE t \in G
  <2> DEFINE c == First(t)
             r == t \ {c}
  <2>1. /\ c \in S /\ r \in SUBSET S
        /\ SumFunctionOnSet(f, t) = f[c] + SumFunctionOnSet(f, r)
        /\ SumFunctionOnSet(g, t) = g[c] + SumFunctionOnSet(g, r)
        /\ SumFunctionOnSet(h, t) = h[c] + SumFunctionOnSet(h, r)
    BY <1>2, PartUnfold
  <2>2. IsFiniteSet(r) /\ IntOn(f, r) /\ IntOn(g, r)
    BY <2>1, FS_Subset DEF IntOn
  <2>3. SumFunctionOnSet(f, r) \in Int /\ SumFunctionOnSet(g, r) \in Int
    BY <2>2, SumType
  <2>4. f[c] \in Int /\ g[c] \in Int /\ h[c] = f[c] + g[c]
    BY <2>1 DEF IntOn
  <2>5. SumFunctionOnSet(h, r) = SumFunctionOnSet(f, r) + SumFunctionOnSet(g, r)
    BY <1>2
  <2> HIDE DEF c, r
  <2>6. SumFunctionOnSet(h, t) = SumFunctionOnSet(f, t) + SumFunctionOnSet(g, t)
    BY <2>1, <2>3, <2>4, <2>5
  <2> QED BY <2>6
<1>3. S \in G
  <2> HIDE DEF G
  <2> QED BY <1>1, <1>2, SubsetInduction
<1> QED BY <1>3
\* A sum over a part and a sum over the rest make the sum.
LEMMA SumSplit ==
  ASSUME NEW f, NEW S, IsFiniteSet(S), IntOn(f, S), NEW P \in SUBSET S
  PROVE  SumFunctionOnSet(f, S) = SumFunctionOnSet(f, P) + SumFunctionOnSet(f, S \ P)
<1> DEFINE g == [x \in S |-> IF x \in P THEN f[x] ELSE 0]
           h == [x \in S |-> IF x \in P THEN 0 ELSE f[x]]
<1>1. \A x \in S : /\ f[x] = g[x] + h[x] /\ g[x] \in Int /\ h[x] \in Int
                   /\ x \in P => g[x] = f[x] /\ h[x] = 0
                   /\ x \notin P => g[x] = 0 /\ h[x] = f[x]
  BY DEF IntOn
<1> HIDE DEF g, h
<1>2. IntOn(g, S) /\ IntOn(h, S)
  BY <1>1 DEF IntOn
<1>3. SumFunctionOnSet(f, S) = SumFunctionOnSet(g, S) + SumFunctionOnSet(h, S)
  BY <1>1, <1>2, SumAdd
<1>4. IsFiniteSet(P) /\ IsFiniteSet(S \ P) /\ S \ P \in SUBSET S
  BY FS_Subset
<1>5. SumFunctionOnSet(g, S) = SumFunctionOnSet(f, P)
  <2>1. \A x \in S \ P : g[x] = 0
    BY <1>1
  <2>2. SumFunctionOnSet(g, S) = SumFunctionOnSet(g, P)
    BY <1>2, <2>1, SumOfPart
  <2>3. \A x \in P : g[x] = f[x]
    BY <1>1
  <2> QED BY <1>4, <2>2, <2>3, SumSame
<1>6. SumFunctionOnSet(h, S) = SumFunctionOnSet(f, S \ P)
  <2>1. \A x \in S \ (S \ P) : h[x] = 0
    BY <1>1
  <2>2. SumFunctionOnSet(h, S) = SumFunctionOnSet(h, S \ P)
    BY <1>2, <1>4, <2>1, SumOfPart
  <2>3. \A x \in S \ P : h[x] = f[x]
    BY <1>1
  <2> QED BY <1>4, <2>2, <2>3, SumSame
<1> QED BY <1>3, <1>5, <1>6

\* A common factor.
LEMMA SumScale ==
  ASSUME NEW f, NEW h, NEW k \in Int, NEW S, IsFiniteSet(S), IntOn(f, S),
         \A x \in S : h[x] = k * f[x]
  PROVE  SumFunctionOnSet(h, S) = k * SumFunctionOnSet(f, S)
<1> DEFINE G == {t \in SUBSET S : SumFunctionOnSet(h, t) = k * SumFunctionOnSet(f, t)}
<1>1. {} \in G
  BY SumEmpty
<1>2. ASSUME NEW t \in SUBSET S, t # {}, t \ {First(t)} \in G PROVE t \in G
  <2> DEFINE c == First(t)
             r == t \ {c}
  <2>1. /\ c \in S /\ r \in SUBSET S
        /\ SumFunctionOnSet(f, t) = f[c] + SumFunctionOnSet(f, r)
        /\ SumFunctionOnSet(h, t) = h[c] + SumFunctionOnSet(h, r)
    BY <1>2, PartUnfold
  <2>2. IsFiniteSet(r) /\ IntOn(f, r)
    BY <2>1, FS_Subset DEF IntOn
  <2>3. SumFunctionOnSet(f, r) \in Int
    BY <2>2, SumType
  <2>4. f[c] \in Int /\ h[c] = k * f[c]
    BY <2>1 DEF IntOn
  <2>5. SumFunctionOnSet(h, r) = k * SumFunctionOnSet(f, r)
    BY <1>2
  <2> HIDE DEF c, r
  <2> DEFINE y == f[c]
             z == SumFunctionOnSet(f, r)
  <2>6. k * y + k * z = k * (y + z)
    <3> HIDE DEF y, z
    <3> QED BY <2>3, <2>4 DEF y, z
  <2>7. SumFunctionOnSet(h, t) = k * SumFunctionOnSet(f, t)
    BY <2>1, <2>4, <2>5, <2>6
  <2> QED BY <2>7
<1>3. S \in G
  <2> HIDE DEF G
  <2> QED BY <1>1, <1>2, SubsetInduction
<1> QED BY <1>3

\* As many ones as there are indices.
LEMMA SumOfOnes ==
  ASSUME NEW f, NEW S, IsFiniteSet(S), \A x \in S : f[x] = 1
  PROVE  SumFunctionOnSet(f, S) = Cardinality(S)
<1> DEFINE G == {t \in SUBSET S : SumFunctionOnSet(f, t) = Cardinality(t)}
<1>1. {} \in G
  BY SumEmpty, FS_EmptySet
<1>2. ASSUME NEW t \in SUBSET S, t # {}, t \ {First(t)} \in G PROVE t \in G
  <2>1. /\ First(t) \in S /\ First(t) \in t
        /\ SumFunctionOnSet(f, t) = f[First(t)] + SumFunctionOnSet(f, t \ {First(t)})
    BY <1>2, PartUnfold, FirstIn
  <2>2. IsFiniteSet(t) /\ Cardinality(t) \in Nat
    BY FS_Subset, FS_CardinalityType
  <2>3. Cardinality(t \ {First(t)}) = Cardinality(t) - 1
    BY <2>1, <2>2, FS_RemoveElement
  <2>4. SumFunctionOnSet(f, t) = Cardinality(t)
    BY <1>2, <2>1, <2>2, <2>3
  <2> QED BY <2>4
<1>3. S \in G
  <2> HIDE DEF G
  <2> QED BY <1>1, <1>2, SubsetInduction
<1> QED BY <1>3

\* A sum of naturals is one, and no less than any of them.
LEMMA SumOfNaturals ==
  ASSUME NEW f, NEW S, IsFiniteSet(S), \A x \in S : f[x] \in Nat
  PROVE  SumFunctionOnSet(f, S) \in Nat /\ \A x \in S : f[x] <= SumFunctionOnSet(f, S)
<1> DEFINE z == [x \in S |-> 0]
<1>1. ASSUME NEW P \in SUBSET S PROVE SumFunctionOnSet(f, P) \in Nat
  <2>1. IsFiniteSet(P) /\ IntOn(f, P) /\ IntOn(z, P)
    BY FS_Subset DEF IntOn
  <2>2. SumFunctionOnSet(f, P) \in Int
    BY <2>1, SumType
  <2>3. SumFunctionOnSet(z, P) = 0
    BY <2>1, SumZero
  <2>4. SumFunctionOnSet(z, P) <= SumFunctionOnSet(f, P)
    BY <2>1, SumMonotone
  <2> HIDE DEF z
  <2> QED BY <2>2, <2>3, <2>4
<1>2. ASSUME NEW x \in S PROVE f[x] <= SumFunctionOnSet(f, S)
  <2>1. SumFunctionOnSet(f, S) = f[x] + SumFunctionOnSet(f, S \ {x})
    BY SumRemove DEF IntOn
  <2>2. SumFunctionOnSet(f, S \ {x}) \in Nat
    BY <1>1
  <2> QED BY <2>1, <2>2
<1> QED BY <1>1, <1>2

=============================================================================
