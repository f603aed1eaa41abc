----------------------------- MODULE EngineProofs -----------------------------
(***************************************************************************)
(* Theorems about the risk engine, the yield engine and the routing        *)
(* engine.  All three add up over finite sets, so that lemmas about sums   *)
(* come first.  A sum is a function defined by recursion on the subsets of *)
(* what it is over; that such a function exists, and what it adds up to,   *)
(* follow by induction over these subsets, which strict inclusion orders   *)
(* well.                                                                   *)
(***************************************************************************)
EXTENDS RiskEngine, YieldEngine, PortfolioOptimizer, FiniteSetTheorems, WellFoundedInduction, TLAPS

-----------------------------------------------------------------------------
(* Induction over the subsets of a finite set.                             *)

LEMMA MinimumExists ==
  \A R, S, T : IsWellFoundedOn(R, S) /\ T \subseteq S /\ T # {} =>
    \E x \in T : \A y \in T : ~ (<<y, x>> \in R)
BY WFMin

LEMMA Smallest ==
  ASSUME NEW S, IsFiniteSet(S), NEW Bad, Bad \subseteq SUBSET S, Bad # {}
  PROVE  \E T \in Bad : \A U \in Bad : U \subseteq T => U = T
<1> DEFINE R == StrictSubsetOrdering(S)
<1> DEFINE P == SUBSET S
<1>1. IsWellFoundedOn(R, P)
  <2>1. IsWellFoundedOn(StrictSubsetOrdering(S), FiniteSubsetsOf(S))
    BY FS_StrictSubsetOrderingWellFounded
  <2>2. FiniteSubsetsOf(S) = SUBSET S
    BY FS_FiniteSubsetsOfFinite
  <2> QED
    BY <2>1, <2>2
<1>2. Bad \subseteq P
  OBVIOUS
<1>3. \E T \in Bad : \A U \in Bad : ~ (<<U, T>> \in R)
  <2> HIDE DEF R, P
  <2> QED
    BY <1>1, <1>2, MinimumExists
<1> QED
  BY <1>3 DEF StrictSubsetOrdering

LEMMA SubsetInduction ==
  ASSUME NEW S, IsFiniteSet(S), NEW G,
         \A T \in SUBSET S : (\A U \in SUBSET T : U # T => U \in G) => T \in G
  PROVE  \A T \in SUBSET S : T \in G
<1> SUFFICES ASSUME NEW T0 \in SUBSET S, T0 \notin G PROVE FALSE
  OBVIOUS
<1> DEFINE Bad == {T \in SUBSET S : T \notin G}
<1>2. PICK T \in Bad : \A U \in Bad : U \subseteq T => U = T
  <2>1. Bad \subseteq SUBSET S /\ Bad # {}
    OBVIOUS
  <2> HIDE DEF Bad
  <2> QED
    BY <2>1, Smallest
<1>3. \A U \in SUBSET T : U # T => U \in G
  BY <1>2 
<1> QED
  BY <1>2, <1>3

Pick(s) == CHOOSE x \in s : TRUE
Rest(s) == s \ {Pick(s)}

IsIter(g, f, S) == g = [s \in SUBSET S |-> IF s = {} THEN 0 ELSE f[Pick(s)] + g[Rest(s)]]
Iter(f, S) == CHOOSE g : IsIter(g, f, S)

LEMMA SumIsIter == ASSUME NEW f, NEW S PROVE SumFunctionOnSet(f, S) = Iter(f, S)[S]
BY Zenon DEF SumFunctionOnSet, FoldFunctionOnSet, MapThenFoldSet, Iter, IsIter, Pick, Rest

LEMMA PickIn == ASSUME NEW s, s # {} PROVE Pick(s) \in s /\ Rest(s) \subseteq s /\ Rest(s) # s
BY DEF Pick, Rest

LEMMA SumsAgree ==
  ASSUME NEW S, IsFiniteSet(S), NEW f, NEW g, IsIter(g, f, S), NEW U \in SUBSET S, NEW h, IsIter(h, f, U)
  PROVE  \A s \in SUBSET U : g[s] = h[s]
<1> DEFINE G == {s \in SUBSET U : g[s] = h[s]}
<1>1. ASSUME NEW T \in SUBSET U, \A V \in SUBSET T : V # T => V \in G PROVE T \in G
  <2>0. T \in SUBSET S
    OBVIOUS
  <2>1. CASE T = {}
    BY <2>1 DEF IsIter
  <2>2. CASE T # {}
    <3>1. Rest(T) \in SUBSET T /\ Rest(T) # T
      BY <2>2, PickIn
    <3>2. g[Rest(T)] = h[Rest(T)]
      BY <3>1, <1>1
    <3>3. g[T] = f[Pick(T)] + g[Rest(T)]
      BY <2>2, <2>0 DEF IsIter
    <3>4. h[T] = f[Pick(T)] + h[Rest(T)]
      BY <2>2 DEF IsIter
    <3> QED
      BY <3>2, <3>3, <3>4
  <2> QED
    BY <2>1, <2>2
<1>2. IsFiniteSet(U)
  BY FS_Subset
<1> HIDE DEF G
<1>3. \A T \in SUBSET U : (\A V \in SUBSET T : V # T => V \in G) => T \in G
  BY <1>1
<1>4. \A T \in SUBSET U : T \in G
  BY <1>2, <1>3, SubsetInduction
<1> QED
  BY <1>4 DEF G

LEMMA IterExists ==
  ASSUME NEW S, IsFiniteSet(S), NEW f
  PROVE  \A T \in SUBSET S : IsIter(Iter(f, T), f, T)
<1> DEFINE G == {T \in SUBSET S : IsIter(Iter(f, T), f, T)}
<1>1. ASSUME NEW T \in SUBSET S, \A V \in SUBSET T : V # T => V \in G PROVE T \in G
  <2> DEFINE value(s) == IF s = T THEN IF T = {} THEN 0 ELSE f[Pick(T)] + Iter(f, Rest(T))[Rest(T)] ELSE Iter(f, s)[s]
  <2> DEFINE g == [s \in SUBSET T |-> value(s)]
  <2>1. ASSUME NEW s \in SUBSET T PROVE g[s] = IF s = {} THEN 0 ELSE f[Pick(s)] + g[Rest(s)]
    <3>1. CASE s = {}
      <4>1. CASE T = {}
        BY <3>1, <4>1
      <4>2. CASE T # {}
        <5>1. IsIter(Iter(f, s), f, s)
          BY <1>1, <3>1, <4>2
        <5>2. Iter(f, s)[s] = 0
          BY <5>1, <3>1 DEF IsIter
        <5> QED
          BY <3>1, <4>2, <5>2
      <4> QED
        BY <4>1, <4>2
    <3>2. CASE s # {}
      <4>1. Rest(s) \in SUBSET s /\ Rest(s) # s
        BY <3>2, PickIn
      <4>1a. Rest(s) \in SUBSET T /\ Rest(s) # T
        BY <4>1
      <4>2. g[Rest(s)] = Iter(f, Rest(s))[Rest(s)]
        BY <4>1a
      <4>3. CASE s = T
        BY <4>2, <4>3, <3>2
      <4>4. CASE s # T
        <5>1. IsIter(Iter(f, s), f, s)
          BY <1>1, <4>4
        <5>2. IsIter(Iter(f, Rest(s)), f, Rest(s))
          BY <1>1, <4>1a
        <5>3. IsFiniteSet(s)
          BY FS_Subset
        <5>4. Iter(f, s)[Rest(s)] = Iter(f, Rest(s))[Rest(s)]
          BY <5>1, <5>2, <5>3, <4>1, SumsAgree
        <5>5. Iter(f, s)[s] = f[Pick(s)] + Iter(f, s)[Rest(s)]
          BY <5>1, <3>2 DEF IsIter
        <5> QED
          BY <5>4, <5>5, <4>2, <4>4, <3>2
      <4> QED
        BY <4>3, <4>4
    <3> QED
      BY <3>1, <3>2
  <2>2. IsIter(g, f, T)
    <3> HIDE DEF value
    <3>1. g = [s \in SUBSET T |-> g[s]]
      OBVIOUS
    <3> HIDE DEF g
    <3> QED
      BY <2>1, <3>1 DEF IsIter
  <2>3. IsIter(Iter(f, T), f, T)
    <3> HIDE DEF g
    <3> QED
      BY <2>2, Zenon DEF Iter
  <2> QED
    BY <2>3
<1> HIDE DEF G
<1>2. \A T \in SUBSET S : (\A V \in SUBSET T : V # T => V \in G) => T \in G
  BY <1>1
<1>4. \A T \in SUBSET S : T \in G
  BY <1>2, SubsetInduction
<1> QED
  BY <1>4 DEF G

LEMMA SumEmpty == ASSUME NEW f PROVE SumFunctionOnSet(f, {}) = 0
<1>1. IsIter(Iter(f, {}), f, {})
  BY IterExists, FS_EmptySet
<1> QED
  BY <1>1, SumIsIter DEF IsIter

LEMMA SumFirst ==
  ASSUME NEW S, IsFiniteSet(S), S # {}, NEW f
  PROVE  SumFunctionOnSet(f, S) = f[Pick(S)] + SumFunctionOnSet(f, Rest(S))
<1>1. IsIter(Iter(f, S), f, S)
  BY IterExists
<1>2. Rest(S) \in SUBSET S
  BY PickIn
<1>3. IsIter(Iter(f, Rest(S)), f, Rest(S))
  BY <1>2, IterExists
<1>4. Iter(f, S)[Rest(S)] = Iter(f, Rest(S))[Rest(S)]
  BY <1>1, <1>2, <1>3, SumsAgree
<1>5. Iter(f, S)[S] = f[Pick(S)] + Iter(f, S)[Rest(S)]
  BY <1>1 DEF IsIter
<1> QED
  BY <1>4, <1>5, SumIsIter

LEMMA SumInt ==
  ASSUME NEW S, IsFiniteSet(S), NEW f, \A x \in S : f[x] \in Int
  PROVE  \A T \in SUBSET S : SumFunctionOnSet(f, T) \in Int
<1> DEFINE G == {T \in SUBSET S : SumFunctionOnSet(f, T) \in Int}
<1>1. ASSUME NEW T \in SUBSET S, \A V \in SUBSET T : V # T => V \in G PROVE T \in G
  <2>1. CASE T = {}
    BY <2>1, SumEmpty
  <2>2. CASE T # {}
    <3>1. Pick(T) \in T /\ Rest(T) \in SUBSET T /\ Rest(T) # T
      BY <2>2, PickIn
    <3>2. IsFiniteSet(T)
      BY FS_Subset
    <3>3. SumFunctionOnSet(f, T) = f[Pick(T)] + SumFunctionOnSet(f, Rest(T))
      BY <2>2, <3>2, SumFirst
    <3> QED
      BY <3>1, <3>3, <1>1
  <2> QED
    BY <2>1, <2>2
<1> HIDE DEF G
<1>2. \A T \in SUBSET S : (\A V \in SUBSET T : V # T => V \in G) => T \in G
  BY <1>1
<1>3. \A T \in SUBSET S : T \in G
  BY <1>2, SubsetInduction
<1> QED
  BY <1>3 DEF G

(* A sum may begin with any of its terms.                                  *)
LEMMA SumWithout ==
  ASSUME NEW S, IsFiniteSet(S), NEW f, \A x \in S : f[x] \in Int
  PROVE  \A T \in SUBSET S : \A x \in T :
           SumFunctionOnSet(f, T) = f[x] + SumFunctionOnSet(f, T \ {x})
<1> DEFINE G == {T \in SUBSET S : \A x \in T : SumFunctionOnSet(f, T) = f[x] + SumFunctionOnSet(f, T \ {x})}
<1>1. ASSUME NEW T \in SUBSET S, \A V \in SUBSET T : V # T => V \in G PROVE T \in G
  <2> SUFFICES ASSUME NEW x \in T
               PROVE  SumFunctionOnSet(f, T) = f[x] + SumFunctionOnSet(f, T \ {x})
    OBVIOUS
  <2>1. /\ Pick(T) \in T /\ Rest(T) \in SUBSET T /\ Rest(T) # T
        /\ IsFiniteSet(T) /\ IsFiniteSet(T \ {x})
    BY PickIn, FS_Subset
  <2>2. SumFunctionOnSet(f, T) = f[Pick(T)] + SumFunctionOnSet(f, Rest(T))
    BY <2>1, SumFirst
  <2>3. CASE x = Pick(T)
    BY <2>2, <2>3 DEF Rest
  <2>4. CASE x # Pick(T)
    <3> DEFINE p == Pick(T)
    <3>0. p \in T /\ p # x /\ Rest(T) = T \ {p}
      BY <2>1, <2>4 DEF Rest
    <3> HIDE DEF p
    <3>1. T \ {p} \in G /\ x \in T \ {p} /\ T \ {x} \in G /\ p \in T \ {x}
      BY <3>0, <1>1
    <3>2. SumFunctionOnSet(f, T \ {p}) = f[x] + SumFunctionOnSet(f, (T \ {p}) \ {x})
      BY <3>1
    <3>3. SumFunctionOnSet(f, T \ {x}) = f[p] + SumFunctionOnSet(f, (T \ {x}) \ {p})
      BY <3>1
    <3>4. (T \ {p}) \ {x} = (T \ {x}) \ {p}
      OBVIOUS
    <3>5. SumFunctionOnSet(f, (T \ {x}) \ {p}) \in Int /\ f[p] \in Int /\ f[x] \in Int
      BY <3>0, SumInt
    <3>6. SumFunctionOnSet(f, T) = f[p] + SumFunctionOnSet(f, T \ {p})
      BY <2>2, <3>0 DEF p
    <3> DEFINE both == SumFunctionOnSet(f, (T \ {x}) \ {p})
    <3>7. SumFunctionOnSet(f, T \ {p}) = f[x] + both /\ SumFunctionOnSet(f, T \ {x}) = f[p] + both
      BY <3>2, <3>3, <3>4
    <3> HIDE DEF G, both
    <3>8. both \in Int
      BY <3>5 DEF both
    <3> QED
      BY <3>5, <3>6, <3>7, <3>8
  <2> QED
    BY <2>3, <2>4
<1> HIDE DEF G
<1>2. \A T \in SUBSET S : (\A V \in SUBSET T : V # T => V \in G) => T \in G
  BY <1>1
<1>3. \A T \in SUBSET S : T \in G
  BY <1>2, SubsetInduction
<1> QED
  BY <1>3 DEF G


LEMMA SetInduction ==
  ASSUME NEW S, IsFiniteSet(S), NEW G, {} \in G,
         \A T \in SUBSET S : \A x \in S \ T : T \in G => T \cup {x} \in G
  PROVE  S \in G
<1>1. ASSUME NEW T \in SUBSET S, \A V \in SUBSET T : V # T => V \in G PROVE T \in G
  <2>1. CASE T = {}
    BY <2>1
  <2>2. CASE T # {}
    <3>1. PICK x : x \in T
      BY <2>2
    <3>2. T \ {x} \in SUBSET S /\ x \in S \ (T \ {x}) /\ T \ {x} \in G /\ (T \ {x}) \cup {x} = T
      BY <3>1, <1>1
    <3> QED
      BY <3>2
  <2> QED
    BY <2>1, <2>2
<1>2. \A T \in SUBSET S : (\A V \in SUBSET T : V # T => V \in G) => T \in G
  BY <1>1
<1> QED
  BY <1>2, SubsetInduction

LEMMA SumWith ==
  ASSUME NEW T, IsFiniteSet(T), NEW x, x \notin T, NEW f, \A y \in T \cup {x} : f[y] \in Int
  PROVE  SumFunctionOnSet(f, T \cup {x}) = f[x] + SumFunctionOnSet(f, T)
<1>1. IsFiniteSet(T \cup {x}) /\ (T \cup {x}) \ {x} = T
  BY FS_AddElement
<1> QED
  BY <1>1, SumWithout

(* Sums of whole functions.                                                *)
LEMMA SumMonotone ==
  ASSUME NEW S, IsFiniteSet(S), NEW f, NEW g,
         \A x \in S : f[x] \in Int /\ g[x] \in Int /\ f[x] <= g[x]
  PROVE  SumFunctionOnSet(f, S) <= SumFunctionOnSet(g, S)
<1> DEFINE G == {T \in SUBSET S : SumFunctionOnSet(f, T) <= SumFunctionOnSet(g, T)}
<1>1. {} \in G
  BY SumEmpty
<1>2. ASSUME NEW T \in SUBSET S, NEW x \in S \ T, T \in G PROVE T \cup {x} \in G
  <2>1. IsFiniteSet(T)
    BY FS_Subset
  <2>2. SumFunctionOnSet(f, T \cup {x}) = f[x] + SumFunctionOnSet(f, T)
    BY <2>1, SumWith
  <2>3. SumFunctionOnSet(g, T \cup {x}) = g[x] + SumFunctionOnSet(g, T)
    BY <2>1, SumWith
  <2>4. SumFunctionOnSet(f, T) \in Int /\ SumFunctionOnSet(g, T) \in Int
    BY SumInt
  <2> QED
    BY <1>2, <2>2, <2>3, <2>4
<1>3. S \in G
  <2> HIDE DEF G
  <2> QED  BY <1>1, <1>2, SetInduction
<1> QED
  BY <1>3

LEMMA SumSame ==
  ASSUME NEW S, IsFiniteSet(S), NEW f, NEW g, \A x \in S : f[x] \in Int /\ f[x] = g[x]
  PROVE  SumFunctionOnSet(f, S) = SumFunctionOnSet(g, S)
<1>1. SumFunctionOnSet(f, S) \in Int /\ SumFunctionOnSet(g, S) \in Int
  BY SumInt
<1>2. SumFunctionOnSet(f, S) <= SumFunctionOnSet(g, S) /\ SumFunctionOnSet(g, S) <= SumFunctionOnSet(f, S)
  BY SumMonotone
<1> QED
  BY <1>1, <1>2

Linear(S, f, g, h, c) ==
  /\ IsFiniteSet(S) /\ c \in Int
  /\ \A x \in S : f[x] \in Int /\ g[x] \in Int /\ h[x] = f[x] + c * g[x]

LEMMA SumLinear ==
  ASSUME NEW S, NEW f, NEW g, NEW h, NEW c, Linear(S, f, g, h, c)
  PROVE  SumFunctionOnSet(h, S) = SumFunctionOnSet(f, S) + c * SumFunctionOnSet(g, S)
<1> DEFINE G == {T \in SUBSET S : SumFunctionOnSet(h, T) = SumFunctionOnSet(f, T) + c * SumFunctionOnSet(g, T)}
<1>0. /\ IsFiniteSet(S) /\ c \in Int
      /\ \A x \in S : f[x] \in Int /\ g[x] \in Int /\ h[x] = f[x] + c * g[x]
  BY DEF Linear
<1>1. {} \in G
  BY <1>0, SumEmpty
<1>2. ASSUME NEW T \in SUBSET S, NEW x \in S \ T, T \in G PROVE T \cup {x} \in G
  <2>1. IsFiniteSet(T)
    BY <1>0, FS_Subset
  <2>2. SumFunctionOnSet(f, T \cup {x}) = f[x] + SumFunctionOnSet(f, T)
    BY <1>0, <2>1, SumWith
  <2>3. SumFunctionOnSet(g, T \cup {x}) = g[x] + SumFunctionOnSet(g, T)
    BY <1>0, <2>1, SumWith
  <2>4. \A y \in S : h[y] \in Int
    BY <1>0
  <2>5. SumFunctionOnSet(h, T \cup {x}) = h[x] + SumFunctionOnSet(h, T)
    BY <1>0, <2>1, <2>4, SumWith
  <2>6. SumFunctionOnSet(f, T) \in Int /\ SumFunctionOnSet(g, T) \in Int
    BY <1>0, SumInt
  <2>7. c * (g[x] + SumFunctionOnSet(g, T)) = c * g[x] + c * SumFunctionOnSet(g, T)
    BY <1>0, <2>6
  <2> QED
    BY <1>0, <1>2, <2>2, <2>3, <2>5, <2>6, <2>7
<1>3. S \in G
  <2> HIDE DEF G
  <2> QED  BY <1>0, <1>1, <1>2, SetInduction
<1> QED
  BY <1>3

LEMMA SumUnion ==
  ASSUME NEW S, IsFiniteSet(S), NEW R, IsFiniteSet(R), S \cap R = {}, NEW f, \A x \in S \cup R : f[x] \in Int
  PROVE  SumFunctionOnSet(f, R \cup S) = SumFunctionOnSet(f, R) + SumFunctionOnSet(f, S)
<1> DEFINE G == {T \in SUBSET S : SumFunctionOnSet(f, R \cup T) = SumFunctionOnSet(f, R) + SumFunctionOnSet(f, T)}
<1>0. SumFunctionOnSet(f, R) \in Int
  BY SumInt
<1>1. {} \in G
  BY <1>0, SumEmpty
<1>2. ASSUME NEW T \in SUBSET S, NEW x \in S \ T, T \in G PROVE T \cup {x} \in G
  <2>1. IsFiniteSet(T) /\ IsFiniteSet(R \cup T) /\ x \notin R \cup T
    BY FS_Subset, FS_Union
  <2>2. SumFunctionOnSet(f, T \cup {x}) = f[x] + SumFunctionOnSet(f, T)
    BY <2>1, SumWith
  <2>3. SumFunctionOnSet(f, (R \cup T) \cup {x}) = f[x] + SumFunctionOnSet(f, R \cup T)
    BY <2>1, SumWith
  <2>4. SumFunctionOnSet(f, T) \in Int
    BY SumInt
  <2>5. (R \cup T) \cup {x} = R \cup (T \cup {x})
    OBVIOUS
  <2>6. SumFunctionOnSet(f, R \cup (T \cup {x})) = SumFunctionOnSet(f, R) + SumFunctionOnSet(f, T \cup {x})
    <3>1. SumFunctionOnSet(f, R \cup (T \cup {x})) = f[x] + SumFunctionOnSet(f, R \cup T)
      BY <2>3, <2>5
    <3>2. SumFunctionOnSet(f, R \cup T) = SumFunctionOnSet(f, R) + SumFunctionOnSet(f, T)
      BY <1>2
    <3>3. f[x] \in Int
      OBVIOUS
    <3> HIDE DEF G
    <3> QED
      BY <1>0, <2>2, <2>4, <3>1, <3>2, <3>3
  <2> QED
    BY <2>6
<1>3. S \in G
  <2> HIDE DEF G
  <2> QED  BY <1>1, <1>2, SetInduction
<1> QED
  BY <1>3

(* What adds nothing may be left out.                                      *)
LEMMA SumZeros ==
  ASSUME NEW S, IsFiniteSet(S), NEW T \in SUBSET S, NEW f, \A x \in S : f[x] \in Int,
         \A x \in S \ T : f[x] = 0
  PROVE  SumFunctionOnSet(f, S) = SumFunctionOnSet(f, T)
<1>1. IsFiniteSet(T) /\ IsFiniteSet(S \ T) /\ S = T \cup (S \ T)
  BY FS_Subset
<1> DEFINE zero == [x \in S \ T |-> 0]
<1>2. SumFunctionOnSet(f, S \ T) = SumFunctionOnSet(zero, S \ T)
  BY <1>1, SumSame
<1>3. SumFunctionOnSet(zero, S \ T) = SumFunctionOnSet(zero, S \ T) + 1 * SumFunctionOnSet(zero, S \ T)
  <2> HIDE DEF zero
  <2>1. \A x \in S \ T : zero[x] \in Int /\ zero[x] = zero[x] + 1 * zero[x]
    BY DEF zero
  <2>2. Linear(S \ T, zero, zero, zero, 1)
    BY <1>1, <2>1 DEF Linear
  <2> QED
    BY <2>2, SumLinear
<1>4. SumFunctionOnSet(zero, S \ T) \in Int
  BY <1>1, SumInt
<1>5. SumFunctionOnSet(f, T) \in Int
  BY SumInt
<1>6. SumFunctionOnSet(f, T \cup (S \ T)) = SumFunctionOnSet(f, T) + SumFunctionOnSet(f, S \ T)
  BY <1>1, SumUnion
<1>7. SumFunctionOnSet(zero, S \ T) = 0
  <2>1. \A k \in Int : k = k + 1 * k => k = 0
    OBVIOUS
  <2> HIDE DEF zero
  <2> QED  BY <1>3, <1>4, <2>1
<1>8. SumFunctionOnSet(f, S) = SumFunctionOnSet(f, T) + SumFunctionOnSet(f, S \ T)
  BY <1>1, <1>6
<1> QED
  <2> HIDE DEF zero
  <2> QED  BY <1>2, <1>5, <1>7, <1>8

(* Nothing negative: a sum over more is no less.                           *)
LEMMA SumGrows ==
  ASSUME NEW S, IsFiniteSet(S), NEW T \in SUBSET S, NEW f, \A x \in S : f[x] \in Nat
  PROVE  0 <= SumFunctionOnSet(f, T) /\ SumFunctionOnSet(f, T) <= SumFunctionOnSet(f, S)
<1> DEFINE g == [x \in S |-> IF x \in T THEN f[x] ELSE 0]
<1> DEFINE zero == [x \in S |-> 0]
<1>1. IsFiniteSet(T)
  BY FS_Subset
<1>2. SumFunctionOnSet(g, S) = SumFunctionOnSet(g, T)
  BY SumZeros
<1>3. SumFunctionOnSet(g, T) = SumFunctionOnSet(f, T)
  BY <1>1, SumSame
<1>4. SumFunctionOnSet(g, S) <= SumFunctionOnSet(f, S)
  BY SumMonotone
<1>5. SumFunctionOnSet(zero, T) = SumFunctionOnSet(zero, {})
  BY <1>1, SumZeros
<1>6. SumFunctionOnSet(zero, T) <= SumFunctionOnSet(f, T)
  BY <1>1, SumMonotone
<1> QED
  <2> HIDE DEF g, zero
  <2> QED  BY <1>2, <1>3, <1>4, <1>5, <1>6, SumEmpty

LEMMA SumPositive ==
  ASSUME NEW S, IsFiniteSet(S), NEW f, \A x \in S : f[x] \in Nat, \E x \in S : f[x] > 0
  PROVE  SumFunctionOnSet(f, S) \in Nat \ {0}
<1>1. PICK x \in S : f[x] > 0
  OBVIOUS
<1>2. S \in SUBSET S /\ S \ {x} \in SUBSET S /\ \A y \in S : f[y] \in Int
  OBVIOUS
<1>3. SumFunctionOnSet(f, S) = f[x] + SumFunctionOnSet(f, S \ {x})
  BY <1>2, SumWithout
<1>4. SumFunctionOnSet(f, S \ {x}) \in Int /\ 0 <= SumFunctionOnSet(f, S \ {x})
  BY <1>2, SumInt, SumGrows
<1> QED
  BY <1>1, <1>3, <1>4

LEMMA SumOnes ==
  ASSUME NEW S, IsFiniteSet(S), NEW f, \A x \in S : f[x] = 1
  PROVE  SumFunctionOnSet(f, S) = Cardinality(S)
<1> DEFINE G == {T \in SUBSET S : SumFunctionOnSet(f, T) = Cardinality(T)}
<1>0. \A x \in S : f[x] \in Int
  OBVIOUS
<1>1. {} \in G
  BY SumEmpty, FS_EmptySet
<1>2. ASSUME NEW T \in SUBSET S, NEW x \in S \ T, T \in G PROVE T \cup {x} \in G
  <2>1. IsFiniteSet(T) /\ Cardinality(T) \in Nat
    BY FS_Subset, FS_CardinalityType
  <2>2. SumFunctionOnSet(f, T \cup {x}) = f[x] + SumFunctionOnSet(f, T)
    <3> HIDE DEF G
    <3> QED  BY <1>0, <2>1, SumWith
  <2>3. Cardinality(T \cup {x}) = Cardinality(T) + 1
    BY <2>1, FS_AddElement
  <2> QED
    BY <1>2, <2>1, <2>2, <2>3
<1>3. S \in G
  <2> HIDE DEF G
  <2> QED  BY <1>1, <1>2, SetInduction
<1> QED
  BY <1>3

(* A sum may be taken group by group.                                      *)
LEMMA SumByGroups ==
  ASSUME NEW S, IsFiniteSet(S), \A group \in S : IsFiniteSet(group),
         \A g, h \in S : g # h => g \cap h = {},
         NEW f, \A x \in UNION S : f[x] \in Int,
         NEW sums, \A group \in S : sums[group] = SumFunctionOnSet(f, group)
  PROVE  SumFunctionOnSet(sums, S) = SumFunctionOnSet(f, UNION S)
<1> DEFINE G == {T \in SUBSET S : SumFunctionOnSet(sums, T) = SumFunctionOnSet(f, UNION T)}
<1>0. \A group \in S : sums[group] \in Int
  BY SumInt
<1>1. {} \in G
  BY SumEmpty
<1>2. ASSUME NEW T \in SUBSET S, NEW x \in S \ T, T \in G PROVE T \cup {x} \in G
  <2>1. IsFiniteSet(T) /\ IsFiniteSet(UNION T) /\ IsFiniteSet(x)
    BY FS_Subset, FS_UNION
  <2>2. SumFunctionOnSet(sums, T \cup {x}) = sums[x] + SumFunctionOnSet(sums, T)
    BY <1>0, <2>1, SumWith
  <2>3. x \cap UNION T = {} /\ UNION (T \cup {x}) = (UNION T) \cup x
    OBVIOUS
  <2>4. \A y \in x \cup UNION T : f[y] \in Int
    OBVIOUS
  <2>5. SumFunctionOnSet(f, (UNION T) \cup x) = SumFunctionOnSet(f, UNION T) + SumFunctionOnSet(f, x)
    BY <2>1, <2>3, <2>4, SumUnion
  <2>6. SumFunctionOnSet(f, UNION T) \in Int /\ sums[x] \in Int
    BY <1>0, <2>1, <2>4, SumInt
  <2>7. sums[x] = SumFunctionOnSet(f, x) /\ SumFunctionOnSet(sums, T) = SumFunctionOnSet(f, UNION T)
    BY <1>2
  <2>8. SumFunctionOnSet(sums, T \cup {x}) = SumFunctionOnSet(f, UNION (T \cup {x}))
    <3>1. SumFunctionOnSet(f, UNION (T \cup {x})) = SumFunctionOnSet(f, UNION T) + SumFunctionOnSet(f, x)
      BY <2>3, <2>5
    <3> HIDE DEF G
    <3> QED  BY <2>2, <2>6, <2>7, <3>1
  <2> QED
    BY <2>8
<1>3. S \in G
  <2> HIDE DEF G
  <2> QED  BY <1>1, <1>2, SetInduction
<1> QED
  BY <1>3

-----------------------------------------------------------------------------
(* RiskEngine.  The score of a factor.                                     *)

LEMMA RiskNumbers ==
  /\ FactorSet = 1 .. 16 /\ IsFiniteSet(FactorSet)
  /\ MethodologyV1.minimumCoverage = 70 /\ MethodologyV1.unknownRiskProxy = 75
  /\ \A c \in Categories :
       /\ MethodologyV1.weights[c] = CategoryWeightsV1[c]
       /\ \A f \in FactorSet : CategoryWeightsV1[c][f] \in 0 .. 100
       /\ SumFunction([f \in FactorSet |-> CategoryWeightsV1[c][f]]) = 100
<1>1. FactorSet = 1 .. 16
  BY DEF FactorSet, RiskFactors
<1>2. IsFiniteSet(FactorSet)
  <2>1. \A a, b \in Int : IsFiniteSet(a .. b)
    BY FS_Interval
  <2>2. 1 \in Int /\ 16 \in Int
    OBVIOUS
  <2>3. IsFiniteSet(1 .. 16)
    BY <2>1, <2>2, Zenon
  <2> QED
    BY <1>1, <2>3
<1>3. \A c \in Categories : MethodologyV1.weights[c] = CategoryWeightsV1[c] /\ CompleteWeights(CategoryWeightsV1[c])
  <2>1. MethodologyV1.weights = CategoryWeightsV1
    BY DEF MethodologyV1
  <2>2. \A c \in Categories : CompleteWeights(MethodologyV1.weights[c])
    BY SeededMethodology DEF ValidMethodology
  <2> QED
    BY <2>1, <2>2
<1>4. MethodologyV1.minimumCoverage = 70 /\ MethodologyV1.unknownRiskProxy = 75
  BY DEF MethodologyV1
<1> QED
  BY <1>1, <1>2, <1>3, <1>4 DEF CompleteWeights, Percentages

(* Division that rounds down.                                              *)
LEMMA Quotient ==
  ASSUME NEW a \in Int, NEW d \in Nat \ {0}
  PROVE  a \div d \in Int /\ d * (a \div d) <= a /\ a < d * (a \div d) + d
OBVIOUS

LEMMA QuotientBounds ==
  ASSUME NEW a \in Int, NEW d \in Nat \ {0}, NEW low \in Int, NEW high \in Int
  PROVE  /\ low * d <= a => low <= a \div d
         /\ a <= high * d => a \div d <= high
<1> DEFINE q == a \div d
<1>1. q \in Int /\ d * q <= a /\ a < d * q + d
  BY Quotient
<1> HIDE DEF q
<1>2. ASSUME low * d <= a PROVE low <= q
  <2>1. SUFFICES ASSUME q + 1 <= low PROVE FALSE
    BY <1>1
  <2>2. d * (q + 1) <= d * low /\ d * (q + 1) = d * q + d /\ d * low = low * d
    BY <1>1, <2>1
  <2> QED
    BY <1>1, <1>2, <2>2
<1>3. ASSUME a <= high * d PROVE q <= high
  <2>1. SUFFICES ASSUME high + 1 <= q PROVE FALSE
    BY <1>1
  <2>2. d * (high + 1) <= d * q /\ d * (high + 1) = high * d + d
    BY <1>1, <2>1
  <2> QED
    BY <1>1, <1>3, <2>2
<1> QED
  BY <1>2, <1>3 DEF q

LEMMA QuotientMonotone ==
  ASSUME NEW a \in Int, NEW b \in Int, NEW d \in Nat \ {0}, a <= b
  PROVE  a \div d <= b \div d
<1> DEFINE q == a \div d
<1>1. q \in Int /\ d * q <= a
  BY Quotient
<1> HIDE DEF q
<1>2. q * d <= b
  BY <1>1
<1> QED
  BY <1>1, <1>2, QuotientBounds DEF q

(* A factor is scored from 0 to 100, and only if its required metrics and  *)
(* enough of the others are there.                                         *)
LEMMA FactorScored ==
  ASSUME NEW metrics \in FactorMetrics, NEW minimum \in 1 .. 100
  PROVE  LET r == ScoreFactor(metrics, minimum) IN
         /\ r.status \in {"AVAILABLE", "UNAVAILABLE"} /\ r.coverage \in 0 .. 100
         /\ r.status = "AVAILABLE" =>
              /\ r.score \in 0 .. 100 /\ r.coverage >= minimum
              /\ \A x \in metrics : x.required => x.score # -1
<1> DEFINE some == Measured(metrics)
           weight == [x \in metrics |-> x.weight]
           taken == [x \in some |-> x.weight]
           scored == [x \in some |-> x.score * x.weight]
           full == [x \in some |-> 0 + 100 * x.weight]
           W == SumFunctionOnSet(weight, metrics)
           M == SumFunctionOnSet(weight, some)
           V == SumFunctionOnSet(scored, some)
<1>1. /\ IsFiniteSet(metrics) /\ metrics # {}
      /\ \A x \in metrics : x.score \in {-1} \cup 0 .. 100 /\ x.weight \in 1 .. 100 /\ x.required \in BOOLEAN
  BY RiskConstants DEF Percentages
<1>2. some \in SUBSET metrics /\ IsFiniteSet(some) /\ \A x \in some : x.score \in 0 .. 100
  <2>1. some \in SUBSET metrics /\ \A x \in some : x.score \in 0 .. 100
    BY <1>1 DEF Measured
  <2> QED
    BY <1>1, <2>1, FS_Subset
<1>3. W \in Int /\ M \in Int /\ 0 <= M /\ M <= W
  <2>1. \A x \in metrics : weight[x] \in Nat
    BY <1>1
  <2> HIDE DEF weight, some
  <2> QED
    BY <1>1, <1>2, <2>1, SumGrows, SumInt
<1>4. W >= 1
  <2>1. PICK x : x \in metrics
    BY <1>1
  <2>2. \A y \in metrics : weight[y] \in Nat
    BY <1>1
  <2>3. weight[x] >= 1
    BY <1>1, <2>1
  <2> HIDE DEF weight
  <2>4. W = weight[x] + SumFunctionOnSet(weight, metrics \ {x})
    BY <1>1, <2>1, <2>2, SumWithout
  <2>5. 0 <= SumFunctionOnSet(weight, metrics \ {x}) /\ SumFunctionOnSet(weight, metrics \ {x}) \in Int
    BY <1>1, <2>2, SumGrows, SumInt
  <2> QED
    BY <2>1, <2>2, <2>3, <2>4, <2>5
<1>5. MetricWeight(metrics) = W /\ MetricWeight(some) = M
  <2>1. MetricWeight(metrics) = SumFunctionOnSet(weight, metrics)
    BY DEF MetricWeight, SumFunction
  <2>2. MetricWeight(some) = SumFunctionOnSet(taken, some)
    BY DEF MetricWeight, SumFunction
  <2>3. SumFunctionOnSet(taken, some) = SumFunctionOnSet(weight, some)
    <3>1. \A x \in some : taken[x] \in Int /\ taken[x] = weight[x]
      BY <1>1, <1>2
    <3> HIDE DEF taken, weight, some
    <3> QED  BY <1>2, <3>1, SumSame
  <2> QED
    BY <2>1, <2>2, <2>3
<1>6. V \in Int /\ 0 <= V /\ V <= 100 * M
  <2>1. \A x \in some : /\ scored[x] \in Nat /\ scored[x] <= full[x] /\ full[x] \in Int
                        /\ weight[x] \in Int
    <3>1. ASSUME NEW x \in some PROVE scored[x] \in Nat /\ scored[x] <= full[x] /\ full[x] \in Int /\ weight[x] \in Int
      <4>1. x.score \in 0 .. 100 /\ x.weight \in 1 .. 100 /\ x \in metrics
        BY <1>1, <1>2
      <4>2. scored[x] = x.score * x.weight /\ full[x] = 100 * x.weight /\ weight[x] = x.weight
        BY <4>1
      <4>3. ASSUME NEW a \in 0 .. 100, NEW b \in 1 .. 100 PROVE a * b \in Nat /\ a * b <= 100 * b
        OBVIOUS
      <4>4. x.score * x.weight \in Nat /\ x.score * x.weight <= 100 * x.weight
        BY <4>1, <4>3
      <4> HIDE DEF scored, full, weight, some
      <4> QED
        BY <4>1, <4>2, <4>4
    <3> QED
      BY <3>1
  <2>2. SumFunctionOnSet(scored, some) <= SumFunctionOnSet(full, some)
    <3> HIDE DEF scored, full, some, weight
    <3>1. \A x \in some : scored[x] \in Int /\ full[x] \in Int /\ scored[x] <= full[x]
      BY <2>1
    <3> QED  BY <1>2, <3>1, SumMonotone
  <2>3. SumFunctionOnSet(full, some) = 100 * M
    <3> DEFINE zero == [x \in some |-> 0]
    <3>1. \A x \in some : zero[x] = 0 /\ full[x] = zero[x] + 100 * weight[x]
      BY <1>2
    <3> HIDE DEF full, some, zero, weight
    <3>2. SumFunctionOnSet(full, some) = SumFunctionOnSet(zero, some) + 100 * SumFunctionOnSet(weight, some)
      <4>1. Linear(some, zero, weight, full, 100)
        BY <1>2, <2>1, <3>1 DEF Linear
      <4> QED  BY <4>1, SumLinear
    <3>3. SumFunctionOnSet(zero, some) = 0
      <4>1. {} \in SUBSET some
        OBVIOUS
      <4> QED  BY <1>2, <3>1, <4>1, SumZeros, SumEmpty
    <3> QED
      BY <1>3, <3>2, <3>3
  <2>4. 0 <= V /\ V \in Int
    <3> HIDE DEF scored, some, weight, full
    <3>1. \A x \in some : scored[x] \in Nat /\ scored[x] \in Int
      BY <2>1
    <3>2. some \in SUBSET some
      OBVIOUS
    <3> QED  BY <1>2, <3>1, <3>2, SumGrows, SumInt
  <2> QED
    BY <2>2, <2>3, <2>4
<1>7. SumFunction(scored) = V
  BY DEF SumFunction
<1> DEFINE coverage == (100 * M) \div W
<1>8. coverage \in 0 .. 100 /\ (~(100 * M < minimum * W) => coverage >= minimum)
  <2> HIDE DEF W, M
  <2>1. W \in Nat \ {0} /\ 100 * M \in Int /\ 0 * W <= 100 * M /\ 100 * M <= 100 * W
    BY <1>3, <1>4
  <2>2. coverage \in Int /\ 0 <= coverage /\ coverage <= 100
    BY <2>1, Quotient, QuotientBounds
  <2>3. ASSUME ~(100 * M < minimum * W) PROVE coverage >= minimum
    <3>1. minimum * W <= 100 * M
      BY <1>3, <2>3
    <3> QED
      BY <2>1, <3>1, QuotientBounds
  <2> QED
    BY <2>2, <2>3
<1>9. ASSUME ~(100 * M < minimum * W) PROVE V \div M \in 0 .. 100
  <2> HIDE DEF W, M, V
  <2>1. M >= 1
    <3>1. minimum * W >= 1
      BY <1>3, <1>4
    <3> QED  BY <1>3, <1>9, <3>1
  <2>2. M \in Nat \ {0} /\ 0 * M <= V /\ V <= 100 * M
    BY <1>3, <1>6, <2>1
  <2> QED
    BY <1>6, <2>2, Quotient, QuotientBounds
<1>10. ScoreFactor(metrics, minimum) =
         IF (\E x \in metrics : x.required /\ x.score = -1) \/ 100 * M < minimum * W
         THEN [NoFactor EXCEPT !.coverage = coverage]
         ELSE [status |-> "AVAILABLE", score |-> V \div M, coverage |-> coverage]
  <2> HIDE DEF W, M, V
  <2> QED  BY <1>5, <1>7 DEF ScoreFactor
<1> QED
  <2> HIDE DEF W, M, V, coverage
  <2> QED  BY <1>8, <1>9, <1>10 DEF NoFactor

-----------------------------------------------------------------------------
(* The composite score is a sum over all factors, of whole weights that    *)
(* add up to 100.                                                          *)

FactorsOf(known) ==
  [f \in FactorSet |->
     IF f \in Watched THEN ScoreFactor(known[f], MethodologyV1.minimumCoverage)
     ELSE [status |-> "AVAILABLE", score |-> 60, coverage |-> 100]]

EffectiveIn(known, f) == EffectiveScore(MethodologyV1, FactorsOf(known)[f])

Evidence == [Watched -> FactorMetrics]

LEMMA Calculated ==
  ASSUME NEW c, NEW known
  PROVE  Calculate(c, known) =
           [composite |-> Composite(MethodologyV1, c, FactorsOf(known)),
            penalty   |-> TotalPenalty(MethodologyV1, c, FactorsOf(known))]
BY DEF Calculate, FactorsOf

LEMMA WatchedAreFactors == Watched \subseteq FactorSet
BY RiskConstants DEF Watched

LEMMA FactorFacts ==
  ASSUME NEW known \in Evidence, NEW f \in FactorSet
  PROVE  LET r == FactorsOf(known)[f] IN
         /\ Supplied(FactorsOf(known), f) = r
         /\ r.coverage \in 0 .. 100 /\ EffectiveIn(known, f) \in 0 .. 100
         /\ Usable(MethodologyV1, r) =>
              /\ r.coverage >= 70
              /\ f \in Watched => \A x \in known[f] : x.required => x.score # -1
         /\ EffectiveIn(known, f) = IF f \in Watched THEN EffectiveOf(known[f]) ELSE 60
<1> DEFINE r == FactorsOf(known)[f]
<1>1. CASE f \in Watched
  <2>1. known[f] \in FactorMetrics /\ MethodologyV1.minimumCoverage \in 1 .. 100
        /\ MethodologyV1.minimumCoverage = 70 /\ MethodologyV1.unknownRiskProxy = 75
    BY <1>1, RiskNumbers DEF Evidence
  <2>2. r = ScoreFactor(known[f], MethodologyV1.minimumCoverage)
    BY <1>1 DEF FactorsOf
  <2>3. /\ r.status \in {"AVAILABLE", "UNAVAILABLE"} /\ r.coverage \in 0 .. 100
        /\ r.status = "AVAILABLE" =>
             /\ r.score \in 0 .. 100 /\ r.coverage >= MethodologyV1.minimumCoverage
             /\ \A x \in known[f] : x.required => x.score # -1
    BY <2>1, <2>2, FactorScored
  <2>4. Supplied(FactorsOf(known), f) = r
    BY DEF Supplied, FactorsOf
  <2>5. EffectiveIn(known, f) = EffectiveOf(known[f])
    BY <2>2 DEF EffectiveIn, EffectiveOf
  <2>6. EffectiveIn(known, f) = IF Usable(MethodologyV1, r) THEN r.score ELSE 75
    BY <2>1 DEF EffectiveIn, EffectiveScore
  <2> HIDE DEF r
  <2> QED
    BY <1>1, <2>1, <2>3, <2>4, <2>5, <2>6 DEF Usable, r
<1>2. CASE f \notin Watched
  <2>1. r = [status |-> "AVAILABLE", score |-> 60, coverage |-> 100]
    BY <1>2 DEF FactorsOf
  <2>2. Supplied(FactorsOf(known), f) = r
    BY DEF Supplied, FactorsOf
  <2>3. Usable(MethodologyV1, r)
    BY <2>1, RiskNumbers DEF Usable
  <2>4. EffectiveIn(known, f) = 60
    BY <2>1, <2>3 DEF EffectiveIn, EffectiveScore
  <2> HIDE DEF r
  <2> QED
    BY <1>2, <2>1, <2>2, <2>4 DEF r
<1> QED
  BY <1>1, <1>2

Weighs(c, h, g, low, high) ==
  /\ c \in Categories /\ low \in Nat /\ high \in Nat
  /\ \A f \in FactorSet : h[f] \in low .. high /\ g[f] = CategoryWeightsV1[c][f] * h[f]

(* A weighted mean, in hundredths, lies between what it is the mean of.    *)
LEMMA WeightedMean ==
  ASSUME NEW c, NEW low, NEW high, NEW h, NEW g, Weighs(c, h, g, low, high)
  PROVE  /\ \A f \in FactorSet : g[f] \in Nat
         /\ SumFunctionOnSet(g, FactorSet) \in Int
         /\ 100 * low <= SumFunctionOnSet(g, FactorSet)
         /\ SumFunctionOnSet(g, FactorSet) <= 100 * high
<1> DEFINE w == [f \in FactorSet |-> CategoryWeightsV1[c][f]]
           zero == [f \in FactorSet |-> 0]
           lows == [f \in FactorSet |-> 0 + low * w[f]]
           highs == [f \in FactorSet |-> 0 + high * w[f]]
<1>0. /\ c \in Categories /\ low \in Nat /\ high \in Nat
      /\ \A f \in FactorSet : h[f] \in low .. high /\ g[f] = CategoryWeightsV1[c][f] * h[f]
  BY DEF Weighs
<1>1. IsFiniteSet(FactorSet) /\ (\A f \in FactorSet : w[f] \in 0 .. 100) /\ SumFunctionOnSet(w, FactorSet) = 100
  BY <1>0, RiskNumbers DEF SumFunction
<1>2. \A f \in FactorSet : g[f] \in Nat /\ lows[f] \in Int /\ highs[f] \in Int /\ lows[f] <= g[f] /\ g[f] <= highs[f]
  <2> SUFFICES ASSUME NEW f \in FactorSet
               PROVE  g[f] \in Nat /\ lows[f] \in Int /\ highs[f] \in Int /\ lows[f] <= g[f] /\ g[f] <= highs[f]
    OBVIOUS
  <2>1. g[f] = w[f] * h[f] /\ lows[f] = low * w[f] /\ highs[f] = high * w[f] /\ w[f] \in 0 .. 100 /\ h[f] \in low .. high
    BY <1>0, <1>1
  <2>2. ASSUME NEW a \in 0 .. 100, NEW b \in low .. high
        PROVE  a * b \in Nat /\ low * a <= a * b /\ a * b <= high * a /\ low * a \in Int /\ high * a \in Int
    BY <1>0
  <2> HIDE DEF w, lows, highs
  <2>3. /\ w[f] * h[f] \in Nat /\ low * w[f] <= w[f] * h[f] /\ w[f] * h[f] <= high * w[f]
        /\ low * w[f] \in Int /\ high * w[f] \in Int
    BY <2>1, <2>2
  <2> QED
    BY <2>1, <2>3
<1>3. SumFunctionOnSet(zero, FactorSet) = 0
  <2>1. \A f \in FactorSet : zero[f] = 0
    OBVIOUS
  <2> HIDE DEF zero
  <2>2. {} \in SUBSET FactorSet /\ \A f \in FactorSet : zero[f] \in Int
    BY <2>1
  <2> QED  BY <1>1, <2>1, <2>2, SumZeros, SumEmpty
<1>4. SumFunctionOnSet(lows, FactorSet) = 100 * low /\ SumFunctionOnSet(highs, FactorSet) = 100 * high
  <2>1. \A f \in FactorSet : /\ zero[f] \in Int /\ w[f] \in Int
                             /\ lows[f] = zero[f] + low * w[f] /\ highs[f] = zero[f] + high * w[f]
    BY <1>1
  <2> HIDE DEF zero, w, lows, highs
  <2>2. SumFunctionOnSet(lows, FactorSet) = SumFunctionOnSet(zero, FactorSet) + low * SumFunctionOnSet(w, FactorSet)
    <3>1. \A f \in FactorSet : zero[f] \in Int /\ w[f] \in Int /\ lows[f] = zero[f] + low * w[f]
      BY <2>1
    <3>2. low \in Int
      BY <1>0
    <3>3. Linear(FactorSet, zero, w, lows, low)
      BY <1>1, <3>1, <3>2 DEF Linear
    <3> QED  BY <3>3, SumLinear
  <2>3. SumFunctionOnSet(highs, FactorSet) = SumFunctionOnSet(zero, FactorSet) + high * SumFunctionOnSet(w, FactorSet)
    <3>1. \A f \in FactorSet : zero[f] \in Int /\ w[f] \in Int /\ highs[f] = zero[f] + high * w[f]
      BY <2>1
    <3>2. high \in Int
      BY <1>0
    <3>3. Linear(FactorSet, zero, w, highs, high)
      BY <1>1, <3>1, <3>2 DEF Linear
    <3> QED  BY <3>3, SumLinear
  <2> QED
    BY <1>0, <1>1, <1>3, <2>2, <2>3
<1>5. /\ SumFunctionOnSet(lows, FactorSet) <= SumFunctionOnSet(g, FactorSet)
      /\ SumFunctionOnSet(g, FactorSet) <= SumFunctionOnSet(highs, FactorSet)
      /\ SumFunctionOnSet(g, FactorSet) \in Int
  <2> HIDE DEF lows, highs
  <2>1. \A f \in FactorSet : g[f] \in Int
    BY <1>2
  <2>2. FactorSet \in SUBSET FactorSet
    OBVIOUS
  <2> QED  BY <1>1, <1>2, <2>1, <2>2, SumMonotone, SumInt
<1> QED
  BY <1>2, <1>4, <1>5

Scores(c, known) == [f \in FactorSet |-> CategoryWeightsV1[c][f] * EffectiveIn(known, f)]

CompositeIn(c, known) == Composite(MethodologyV1, c, FactorsOf(known))

LEMMA CompositeBand ==
  ASSUME NEW c, NEW known
  PROVE  CompositeIn(c, known).band = BandOf(CompositeIn(c, known).score)
BY DEF CompositeIn, Composite

LEMMA CompositeFacts ==
  ASSUME NEW c \in Categories, NEW known \in Evidence
  PROVE  LET k == CompositeIn(c, known) IN
         /\ \A f \in FactorSet : Scores(c, known)[f] \in Nat
         /\ k.score = SumFunctionOnSet(Scores(c, known), FactorSet)
         /\ k.score \in 0 .. 100 * 100 /\ k.coverage \in 0 .. 100 * 100
         /\ k.unavailable \subseteq FactorSet
         /\ k.status = "VERIFIED" =>
              /\ k.coverage >= 100 * 70
              /\ \A f \in Watched : CategoryWeightsV1[c][f] > 0 =>
                   \A x \in known[f] : x.required => x.score # -1
<1> DEFINE weights == CategoryWeightsV1[c]
           weighted == {f \in FactorSet : weights[f] > 0}
           factors == FactorsOf(known)
           unknown == {f \in weighted : ~Usable(MethodologyV1, factors[f])}
           score == SumFunctionOnSet(Scores(c, known), FactorSet)
           part == [f \in weighted |-> weights[f] * EffectiveIn(known, f)]
           covered == [f \in FactorSet |->
                         IF f \in weighted THEN IF f \in unknown THEN 0 ELSE factors[f].coverage ELSE 70]
           covering == [f \in FactorSet |-> weights[f] * covered[f]]
           covers == [f \in weighted \ unknown |-> weights[f] * factors[f].coverage]
           k == CompositeIn(c, known)
<1>1. /\ IsFiniteSet(FactorSet) /\ MethodologyV1.weights[c] = weights
      /\ \A f \in FactorSet : weights[f] \in 0 .. 100
  BY RiskNumbers
<1>2. \A f \in FactorSet :
        /\ Supplied(factors, f) = factors[f]
        /\ EffectiveScore(MethodologyV1, Supplied(factors, f)) = EffectiveIn(known, f)
        /\ EffectiveIn(known, f) \in 0 .. 100 /\ factors[f].coverage \in 0 .. 100
        /\ Usable(MethodologyV1, factors[f]) =>
             /\ factors[f].coverage >= 70
             /\ f \in Watched => \A x \in known[f] : x.required => x.score # -1
  BY FactorFacts DEF EffectiveIn
<1>3. Weighted(MethodologyV1, c) = weighted
  BY <1>1 DEF Weighted
<1>4. {f \in Weighted(MethodologyV1, c) : ~Usable(MethodologyV1, Supplied(factors, f))} = unknown
  BY <1>2, <1>3
<1>5. part = [f \in Weighted(MethodologyV1, c) |->
                MethodologyV1.weights[c][f] * EffectiveScore(MethodologyV1, Supplied(factors, f))]
  BY <1>1, <1>2, <1>3
<1>6. covers = [f \in Weighted(MethodologyV1, c) \ unknown |-> MethodologyV1.weights[c][f] * factors[f].coverage]
  BY <1>1, <1>3
<1>7. k = [status      |-> IF unknown = {} THEN "VERIFIED" ELSE "PROVISIONAL",
           score       |-> SumFunctionOnSet(part, weighted),
           band        |-> BandOf(SumFunctionOnSet(part, weighted)),
           unavailable |-> unknown,
           coverage    |-> SumFunctionOnSet(covers, weighted \ unknown)]
  <2>1. k = [status      |-> IF unknown = {} THEN "VERIFIED" ELSE "PROVISIONAL",
             score       |-> SumFunction(part),
             band        |-> BandOf(SumFunction(part)),
             unavailable |-> unknown,
             coverage    |-> SumFunction(covers)]
    <3> HIDE DEF part, covers, unknown, factors
    <3> QED  BY <1>4, <1>5, <1>6 DEF Composite, CompositeIn, factors
  <2>2. SumFunction(part) = SumFunctionOnSet(part, weighted) /\ SumFunction(covers) = SumFunctionOnSet(covers, weighted \ unknown)
    BY DEF SumFunction
  <2> HIDE DEF part, covers, unknown, factors, weighted
  <2> QED  BY <2>1, <2>2
<1>8. /\ \A f \in FactorSet : Scores(c, known)[f] \in Nat
      /\ score \in Int /\ 0 <= score /\ score <= 100 * 100
  <2> DEFINE h == [f \in FactorSet |-> EffectiveIn(known, f)]
             g == Scores(c, known)
  <2>1. \A f \in FactorSet : h[f] \in 0 .. 100 /\ g[f] = CategoryWeightsV1[c][f] * h[f]
    BY <1>2 DEF Scores
  <2> HIDE DEF h, g
  <2>2. /\ \A f \in FactorSet : g[f] \in Nat
        /\ SumFunctionOnSet(g, FactorSet) \in Int
        /\ 100 * 0 <= SumFunctionOnSet(g, FactorSet)
        /\ SumFunctionOnSet(g, FactorSet) <= 100 * 100
    <3>1. Weighs(c, h, g, 0, 100)
      BY <2>1 DEF Weighs
    <3> QED  BY <3>1, WeightedMean
  <2> QED
    BY <2>2 DEF g
<1>9. SumFunctionOnSet(part, weighted) = score
  <2> DEFINE g == Scores(c, known)
  <2>1. \A f \in FactorSet : g[f] \in Int
    BY <1>8
  <2>2. \A f \in FactorSet \ weighted : g[f] = 0
    <3>1. ASSUME NEW f \in FactorSet \ weighted PROVE g[f] = 0
      <4>1. weights[f] = 0 /\ EffectiveIn(known, f) \in 0 .. 100
        BY <1>1, <1>2
      <4> QED
        BY <4>1 DEF Scores
    <3> QED
      BY <3>1
  <2>3. \A f \in weighted : part[f] = g[f] /\ part[f] \in Int
    BY <2>1 DEF Scores
  <2>4. weighted \in SUBSET FactorSet /\ IsFiniteSet(weighted)
    BY <1>1, FS_Subset
  <2> HIDE DEF g, part, weighted
  <2>5. SumFunctionOnSet(g, FactorSet) = SumFunctionOnSet(g, weighted)
    BY <1>1, <2>1, <2>2, <2>4, SumZeros
  <2>6. SumFunctionOnSet(part, weighted) = SumFunctionOnSet(g, weighted)
    BY <2>3, <2>4, SumSame
  <2> QED
    BY <2>5, <2>6 DEF g
<1>10. /\ SumFunctionOnSet(covers, weighted \ unknown) = SumFunctionOnSet(covering, FactorSet)
       /\ \A f \in FactorSet : covered[f] \in 0 .. 100 /\ covering[f] \in Nat
  <2>1. \A f \in FactorSet : covered[f] \in 0 .. 100 /\ covering[f] = CategoryWeightsV1[c][f] * covered[f]
    BY <1>2
  <2>2. \A f \in FactorSet : covering[f] \in Nat /\ covering[f] \in Int
    <3> HIDE DEF covered, covering
    <3>1. Weighs(c, covered, covering, 0, 100)
      BY <2>1 DEF Weighs
    <3>2. \A f \in FactorSet : covering[f] \in Nat
      BY <3>1, WeightedMean
    <3> QED  BY <3>2
  <2>3. \A f \in FactorSet \ (weighted \ unknown) : covering[f] = 0
    <3>1. ASSUME NEW f \in FactorSet \ (weighted \ unknown) PROVE covering[f] = 0
      <4>1. CASE f \in unknown
        BY <4>1, <1>1
      <4>2. CASE f \notin weighted
        BY <4>2, <1>1
      <4> QED
        BY <4>1, <4>2
    <3> QED
      BY <3>1
  <2>4. \A f \in weighted \ unknown : covers[f] = covering[f] /\ covers[f] \in Int
    BY <2>2
  <2>5. weighted \ unknown \in SUBSET FactorSet /\ IsFiniteSet(weighted \ unknown)
    BY <1>1, FS_Subset
  <2> HIDE DEF covering, covers, weighted, unknown, covered
  <2>6. SumFunctionOnSet(covering, FactorSet) = SumFunctionOnSet(covering, weighted \ unknown)
    BY <1>1, <2>2, <2>3, <2>5, SumZeros
  <2>7. SumFunctionOnSet(covers, weighted \ unknown) = SumFunctionOnSet(covering, weighted \ unknown)
    BY <2>4, <2>5, SumSame
  <2> QED
    BY <2>1, <2>2, <2>6, <2>7
<1> DEFINE sum == SumFunctionOnSet(covering, FactorSet)
<1>11. sum \in Int /\ 0 <= sum /\ sum <= 100 * 100
  <2>1. \A f \in FactorSet : covered[f] \in 0 .. 100 /\ covering[f] = CategoryWeightsV1[c][f] * covered[f]
    BY <1>10
  <2> HIDE DEF covered, covering
  <2>2. SumFunctionOnSet(covering, FactorSet) \in Int /\ 100 * 0 <= sum /\ sum <= 100 * 100
    <3>1. Weighs(c, covered, covering, 0, 100)
      BY <2>1 DEF Weighs
    <3> QED  BY <3>1, WeightedMean
  <2> QED
    BY <2>2
<1>12. ASSUME unknown = {} PROVE sum >= 100 * 70
  <2>1. \A f \in FactorSet : covered[f] \in 70 .. 100 /\ covering[f] = CategoryWeightsV1[c][f] * covered[f]
    BY <1>2, <1>12
  <2> HIDE DEF covered, covering
  <2>2. 100 * 70 <= sum /\ sum \in Int
    <3>1. Weighs(c, covered, covering, 70, 100)
      BY <2>1 DEF Weighs
    <3> QED  BY <3>1, WeightedMean
  <2> QED
    BY <2>2
<1>13. ASSUME unknown = {}, NEW f \in Watched, weights[f] > 0
       PROVE  \A x \in known[f] : x.required => x.score # -1
  BY <1>2, <1>13, WatchedAreFactors
<1>14. k.score = score /\ k.coverage = sum /\ k.unavailable = unknown
       /\ (k.status = "VERIFIED" <=> unknown = {})
  <2> HIDE DEF part, covers, sum, score, covering, covered, weighted, unknown, k
  <2> QED  BY <1>7, <1>9, <1>10 DEF sum
<1>15. unknown \subseteq FactorSet
  OBVIOUS
<1>16. /\ \A f \in FactorSet : Scores(c, known)[f] \in Nat
       /\ k.score = SumFunctionOnSet(Scores(c, known), FactorSet)
       /\ k.score \in 0 .. 100 * 100 /\ k.coverage \in 0 .. 100 * 100
       /\ k.unavailable \subseteq FactorSet
       /\ k.status = "VERIFIED" =>
            /\ k.coverage >= 100 * 70
            /\ \A f \in Watched : CategoryWeightsV1[c][f] > 0 =>
                 \A x \in known[f] : x.required => x.score # -1
  <2>1. k.score = SumFunctionOnSet(Scores(c, known), FactorSet)
    BY <1>14
  <2>9. k.score \in 0 .. 100 * 100 /\ k.coverage \in 0 .. 100 * 100
    <3> HIDE DEF sum, unknown, k, part, covers, covering, covered, weighted, factors, weights
    <3>1. k.score = score /\ k.coverage = sum
      BY <1>14
    <3>3. score \in 0 .. 100 * 100 /\ sum \in 0 .. 100 * 100
      <4>1. score \in Int /\ 0 <= score /\ score <= 100 * 100
        BY <1>8
      <4>2. sum \in Int /\ 0 <= sum /\ sum <= 100 * 100
        BY <1>11
      <4>3. score \in 0 .. 100 * 100
        <5> HIDE DEF score
        <5> QED  BY <4>1
      <4>4. sum \in 0 .. 100 * 100
        BY <4>2
      <4> QED  BY <4>3, <4>4
    <3>4. k.score \in 0 .. 100 * 100 /\ k.coverage \in 0 .. 100 * 100
      BY <3>1, <3>3
    <3> QED  BY <3>4
  <2>2. ASSUME k.status = "VERIFIED" PROVE k.coverage >= 100 * 70
    <3> HIDE DEF sum, unknown, k, part, covers, covering, covered, weighted, factors, weights
    <3> QED  BY <1>12, <1>14, <2>2
  <2>3. ASSUME k.status = "VERIFIED", NEW f \in Watched, CategoryWeightsV1[c][f] > 0
        PROVE  \A x \in known[f] : x.required => x.score # -1
    <3>1. unknown = {}
      <4> HIDE DEF sum, unknown, k, part, covers, covering, covered, weighted, factors, weights
      <4> QED  BY <1>14, <2>3
    <3>2. weights[f] > 0
      BY <2>3
    <3> HIDE DEF sum, unknown, k, part, covers, covering, covered, weighted, factors, weights
    <3> QED  BY <1>13, <2>3, <3>1, <3>2
  <2>4. k.unavailable \subseteq FactorSet
    <3> HIDE DEF sum, unknown, k, part, covers, covering, covered, weighted, factors, weights
    <3> QED  BY <1>14, <1>15
  <2>5. \A f \in FactorSet : Scores(c, known)[f] \in Nat
    BY <1>8
  <2>6. \A f \in Watched : k.status = "VERIFIED" /\ CategoryWeightsV1[c][f] > 0 =>
          \A x \in known[f] : x.required => x.score # -1
    <3> HIDE DEF sum, unknown, k, part, covers, covering, covered, weighted, factors, weights, score
    <3> QED  BY <2>3
  <2> HIDE DEF sum, unknown, k, part, covers, covering, covered, weighted, factors, weights, score
  <2>7. k.status = "VERIFIED" =>
          /\ k.coverage >= 100 * 70
          /\ \A f \in Watched : CategoryWeightsV1[c][f] > 0 =>
               \A x \in known[f] : x.required => x.score # -1
    BY <2>2, <2>6
  <2> QED  BY <2>1, <2>4, <2>5, <2>7, <2>9
<1> QED
  BY <1>16

-----------------------------------------------------------------------------
(* The groups of the penalties, by the numbers of their factors.           *)

LEMMA FactorNumber ==
  ASSUME NEW i \in FactorSet
  PROVE  Factor(RiskFactors[i]) = i
<1>1. FactorSet = 1 .. 16
  BY RiskNumbers
<1>2. \A j \in 1 .. 16 : RiskFactors[j] = RiskFactors[i] => j = i
  BY <1>1 DEF RiskFactors
<1> QED
  BY <1>1, <1>2 DEF Factor

Groups == {{1}, {2, 15}, {3, 14}, {4}, {5, 6, 7, 13}, {10}, {11}, {12}, {8, 9}, {16}}

LEMMA GroupNumbers ==
  /\ PenaltyGroups = Groups /\ UNION PenaltyGroups = FactorSet
  /\ IsFiniteSet(PenaltyGroups)
  /\ \A g \in PenaltyGroups : IsFiniteSet(g) /\ g \subseteq FactorSet
  /\ \A g, h \in PenaltyGroups : g # h => g \cap h = {}
<1>1. FactorSet = 1 .. 16 /\ IsFiniteSet(FactorSet)
  BY RiskNumbers
<1>2. /\ Factor("LIQUIDITY") = 1 /\ Factor("REDEMPTION") = 2 /\ Factor("ISSUER_OR_COUNTERPARTY") = 3
      /\ Factor("CUSTODY") = 4 /\ Factor("SMART_CONTRACT") = 5 /\ Factor("ORACLE") = 6
      /\ Factor("CHAIN") = 7 /\ Factor("STABLECOIN_OR_DEPEG") = 8
  <2>1. /\ RiskFactors[1] = "LIQUIDITY" /\ RiskFactors[2] = "REDEMPTION"
        /\ RiskFactors[3] = "ISSUER_OR_COUNTERPARTY" /\ RiskFactors[4] = "CUSTODY"
        /\ RiskFactors[5] = "SMART_CONTRACT" /\ RiskFactors[6] = "ORACLE"
        /\ RiskFactors[7] = "CHAIN" /\ RiskFactors[8] = "STABLECOIN_OR_DEPEG"
    BY DEF RiskFactors
  <2>2. \A i \in 1 .. 16 : Factor(RiskFactors[i]) = i
    BY <1>1, FactorNumber
  <2> QED
    BY <2>1, <2>2
<1>3. /\ Factor("MARKET_PRICE") = 9 /\ Factor("CONCENTRATION") = 10
      /\ Factor("YIELD_INSTABILITY") = 11 /\ Factor("INCENTIVE_DEPENDENCY") = 12
      /\ Factor("GOVERNANCE_AND_UPGRADEABILITY") = 13 /\ Factor("OPERATIONAL") = 14
      /\ Factor("LEGAL_AND_ELIGIBILITY_UNCERTAINTY") = 15 /\ Factor("DATA_QUALITY") = 16
  <2>1. /\ RiskFactors[9] = "MARKET_PRICE" /\ RiskFactors[10] = "CONCENTRATION"
        /\ RiskFactors[11] = "YIELD_INSTABILITY" /\ RiskFactors[12] = "INCENTIVE_DEPENDENCY"
        /\ RiskFactors[13] = "GOVERNANCE_AND_UPGRADEABILITY" /\ RiskFactors[14] = "OPERATIONAL"
        /\ RiskFactors[15] = "LEGAL_AND_ELIGIBILITY_UNCERTAINTY" /\ RiskFactors[16] = "DATA_QUALITY"
    BY DEF RiskFactors
  <2>2. \A i \in 1 .. 16 : Factor(RiskFactors[i]) = i
    BY <1>1, FactorNumber
  <2> QED
    BY <2>1, <2>2
<1>4. PenaltyGroups = Groups
  <2>1. PenaltyGroups =
          {{Factor("LIQUIDITY")}, {Factor("REDEMPTION"), Factor("LEGAL_AND_ELIGIBILITY_UNCERTAINTY")},
           {Factor("ISSUER_OR_COUNTERPARTY"), Factor("OPERATIONAL")}, {Factor("CUSTODY")},
           {Factor("SMART_CONTRACT"), Factor("ORACLE"), Factor("CHAIN"),
            Factor("GOVERNANCE_AND_UPGRADEABILITY")},
           {Factor("CONCENTRATION")}, {Factor("YIELD_INSTABILITY")}, {Factor("INCENTIVE_DEPENDENCY")},
           {Factor("STABLECOIN_OR_DEPEG"), Factor("MARKET_PRICE")}, {Factor("DATA_QUALITY")}}
    BY DEF PenaltyGroups
  <2> QED
    BY <1>2, <1>3, <2>1 DEF Groups
<1>5. UNION Groups = 1 .. 16
  BY DEF Groups
<1>6. IsFiniteSet(Groups) /\ \A g \in Groups : IsFiniteSet(g) /\ g \subseteq FactorSet
  <2>1. \A g \in Groups : g \in SUBSET FactorSet
    BY <1>1, <1>5
  <2>2. Groups \in SUBSET SUBSET FactorSet /\ IsFiniteSet(SUBSET FactorSet)
    BY <1>1, <2>1, FS_SUBSET
  <2> QED
    BY <1>1, <2>1, <2>2, FS_Subset
<1>7. \A g, h \in Groups : g # h => g \cap h = {}
  BY DEF Groups
<1> QED
  BY <1>1, <1>4, <1>5, <1>6, <1>7

-----------------------------------------------------------------------------
(* The penalty of a group, and of all.                                     *)

WeightsIn(c) == [f \in FactorSet |-> CategoryWeightsV1[c][f]]
WeightOf(c, group) == SumFunctionOnSet(WeightsIn(c), group)
Severity(c, known, group) == SumFunctionOnSet(Scores(c, known), group)
PenaltyIn(c, known, group) ==
  IF WeightOf(c, group) = 0 THEN 0
  ELSE (Severity(c, known, group) * Severity(c, known, group)) \div WeightOf(c, group)
TotalIn(c, known) == TotalPenalty(MethodologyV1, c, FactorsOf(known))

LEMMA SquareMonotone ==
  ASSUME NEW a \in Nat, NEW b \in Nat, a <= b
  PROVE  a * a <= b * b
<1>1. a * a <= a * b
  OBVIOUS
<1>2. a * b <= b * b
  OBVIOUS
<1>3. a * a \in Int /\ a * b \in Int /\ b * b \in Int
  OBVIOUS
<1> QED
  BY <1>1, <1>2, <1>3

LEMMA ScoreTerms ==
  ASSUME NEW c \in Categories, NEW known \in Evidence, NEW f \in FactorSet
  PROVE  /\ WeightsIn(c)[f] \in 0 .. 100 /\ Scores(c, known)[f] \in Nat
         /\ Scores(c, known)[f] <= 100 * WeightsIn(c)[f]
         /\ Scores(c, known)[f] = WeightsIn(c)[f] * EffectiveIn(known, f)
<1>1. WeightsIn(c)[f] \in 0 .. 100 /\ WeightsIn(c)[f] = CategoryWeightsV1[c][f]
  BY RiskNumbers DEF WeightsIn
<1>2. EffectiveIn(known, f) \in 0 .. 100
  BY FactorFacts
<1>3. Scores(c, known)[f] = WeightsIn(c)[f] * EffectiveIn(known, f)
  BY <1>1 DEF Scores
<1>4. ASSUME NEW a \in 0 .. 100, NEW b \in 0 .. 100 PROVE a * b \in Nat /\ a * b <= 100 * a
  OBVIOUS
<1>5. /\ WeightsIn(c)[f] * EffectiveIn(known, f) \in Nat
      /\ WeightsIn(c)[f] * EffectiveIn(known, f) <= 100 * WeightsIn(c)[f]
  BY <1>1, <1>2, <1>4
<1> QED
  BY <1>1, <1>3, <1>5

LEMMA GroupFacts ==
  ASSUME NEW c \in Categories, NEW known \in Evidence, NEW group \in PenaltyGroups
  PROVE  /\ WeightOf(c, group) \in Nat /\ Severity(c, known, group) \in Nat
         /\ Severity(c, known, group) <= 100 * WeightOf(c, group)
<1> DEFINE w == WeightsIn(c)
           s == Scores(c, known)
           zero == [f \in group |-> 0]
           full == [f \in group |-> 100 * w[f]]
<1>1. IsFiniteSet(FactorSet) /\ group \subseteq FactorSet /\ IsFiniteSet(group)
  BY RiskNumbers, GroupNumbers
<1>2. \A f \in FactorSet : w[f] \in 0 .. 100 /\ s[f] \in Nat /\ s[f] <= 100 * w[f]
  BY ScoreTerms
<1>3. \A f \in group : zero[f] = 0 /\ full[f] = zero[f] + 100 * w[f] /\ full[f] \in Int /\ s[f] <= full[f]
  <2> HIDE DEF s, w
  <2> QED  BY <1>1, <1>2
<1> HIDE DEF w, s, zero, full
<1>4. /\ 0 <= SumFunctionOnSet(w, group) /\ SumFunctionOnSet(w, group) \in Int
      /\ 0 <= SumFunctionOnSet(s, group) /\ SumFunctionOnSet(s, group) \in Int
  <2>1. \A f \in FactorSet : w[f] \in Nat /\ w[f] \in Int /\ s[f] \in Int /\ s[f] \in Nat
    BY <1>2
  <2>2. group \in SUBSET FactorSet
    BY <1>1
  <2> QED
    BY <1>1, <2>1, <2>2, SumGrows, SumInt
<1>5. SumFunctionOnSet(s, group) <= SumFunctionOnSet(full, group)
  <2>1. \A f \in group : s[f] \in Int /\ full[f] \in Int /\ s[f] <= full[f]
    BY <1>1, <1>2, <1>3
  <2> QED
    BY <1>1, <2>1, SumMonotone
<1>6. SumFunctionOnSet(full, group) = SumFunctionOnSet(zero, group) + 100 * SumFunctionOnSet(w, group)
  <2>1. Linear(group, zero, w, full, 100)
    BY <1>1, <1>2, <1>3 DEF Linear
  <2> QED
    BY <2>1, SumLinear
<1>7. SumFunctionOnSet(zero, group) = 0
  <2>1. {} \in SUBSET group /\ \A f \in group : zero[f] = 0 /\ zero[f] \in Int
    BY <1>3
  <2> QED
    BY <1>1, <2>1, SumZeros, SumEmpty
<1>8. SumFunctionOnSet(s, group) <= 100 * SumFunctionOnSet(w, group)
  BY <1>4, <1>5, <1>6, <1>7
<1> QED
  BY <1>4, <1>8 DEF WeightOf, Severity, w, s

LEMMA PenaltyIsIn ==
  ASSUME NEW c \in Categories, NEW known \in Evidence, NEW group \in PenaltyGroups
  PROVE  Penalty(MethodologyV1, c, FactorsOf(known), group) = PenaltyIn(c, known, group)
<1> DEFINE share == [f \in group |-> MethodologyV1.weights[c][f]]
           sev == [f \in group |-> MethodologyV1.weights[c][f] *
                                    EffectiveScore(MethodologyV1, Supplied(FactorsOf(known), f))]
<1>1. group \subseteq FactorSet /\ IsFiniteSet(group)
  BY GroupNumbers
<1>2. \A f \in group : /\ share[f] = WeightsIn(c)[f] /\ share[f] \in Int
                       /\ sev[f] = Scores(c, known)[f] /\ sev[f] \in Int
  <2> SUFFICES ASSUME NEW f \in group
               PROVE  /\ share[f] = WeightsIn(c)[f] /\ share[f] \in Int
                      /\ sev[f] = Scores(c, known)[f] /\ sev[f] \in Int
    OBVIOUS
  <2>1. f \in FactorSet
    BY <1>1
  <2>2. MethodologyV1.weights[c][f] = WeightsIn(c)[f] /\ WeightsIn(c)[f] \in 0 .. 100
    BY <2>1, RiskNumbers DEF WeightsIn
  <2>3. EffectiveScore(MethodologyV1, Supplied(FactorsOf(known), f)) = EffectiveIn(known, f)
    BY <2>1, FactorFacts DEF EffectiveIn
  <2>4. Scores(c, known)[f] = WeightsIn(c)[f] * EffectiveIn(known, f) /\ Scores(c, known)[f] \in Nat
    BY <2>1, ScoreTerms
  <2>5. share[f] = MethodologyV1.weights[c][f]
        /\ sev[f] = MethodologyV1.weights[c][f] * EffectiveScore(MethodologyV1, Supplied(FactorsOf(known), f))
    OBVIOUS
  <2> HIDE DEF share, sev
  <2> QED
    BY <2>2, <2>3, <2>4, <2>5
<1>3. SumFunction(share) = WeightOf(c, group)
  <2>1. SumFunction(share) = SumFunctionOnSet(share, group)
    BY DEF SumFunction
  <2> HIDE DEF share
  <2>2. SumFunctionOnSet(share, group) = SumFunctionOnSet(WeightsIn(c), group)
    BY <1>1, <1>2, SumSame
  <2> QED
    BY <2>1, <2>2 DEF WeightOf
<1>4. SumFunction(sev) = Severity(c, known, group)
  <2>1. SumFunction(sev) = SumFunctionOnSet(sev, group)
    BY DEF SumFunction
  <2> HIDE DEF sev
  <2>2. SumFunctionOnSet(sev, group) = SumFunctionOnSet(Scores(c, known), group)
    BY <1>1, <1>2, SumSame
  <2> QED
    BY <2>1, <2>2 DEF Severity
<1>5. Penalty(MethodologyV1, c, FactorsOf(known), group) =
        IF SumFunction(share) = 0 THEN 0 ELSE (SumFunction(sev) * SumFunction(sev)) \div SumFunction(share)
  BY DEF Penalty
<1> HIDE DEF share, sev
<1> QED
  BY <1>3, <1>4, <1>5 DEF PenaltyIn

Penalties(c, known) == [group \in PenaltyGroups |-> PenaltyIn(c, known, group)]

LEMMA TotalIsSum ==
  ASSUME NEW c \in Categories, NEW known \in Evidence
  PROVE  TotalIn(c, known) = SumFunctionOnSet(Penalties(c, known), PenaltyGroups)
<1>1. [g \in PenaltyGroups |-> Penalty(MethodologyV1, c, FactorsOf(known), g)] = Penalties(c, known)
  BY PenaltyIsIn DEF Penalties
<1> QED
  BY <1>1 DEF TotalIn, TotalPenalty, SumFunction, Penalties

(* Of one group: no penalty is above its severity, and one of a hundredth  *)
(* more would make up for the rounding.                                    *)
LEMMA PenaltyFacts ==
  ASSUME NEW c \in Categories, NEW known \in Evidence, NEW group \in PenaltyGroups
  PROVE  LET p == PenaltyIn(c, known, group)
             s == Severity(c, known, group) IN
         /\ p \in Nat /\ p <= 100 * s
         /\ s * s <= WeightOf(c, group) * (p + 1)
<1> DEFINE w == WeightOf(c, group)
           s == Severity(c, known, group)
           p == PenaltyIn(c, known, group)
<1>1. w \in Nat /\ s \in Nat /\ s <= 100 * w
  BY GroupFacts
<1>2. p = IF w = 0 THEN 0 ELSE (s * s) \div w
  BY DEF PenaltyIn
<1> HIDE DEF w, s, p
<1>3. s * s \in Nat
  BY <1>1
<1>4. CASE w = 0
  <2>1. s = 0 /\ p = 0
    BY <1>1, <1>2, <1>4
  <2> QED
    BY <1>4, <2>1 DEF w, s, p
<1>5. CASE w # 0
  <2>1. w \in Nat \ {0} /\ p = (s * s) \div w
    BY <1>1, <1>2, <1>5
  <2>2. p \in Int /\ w * p <= s * s /\ s * s < w * p + w
    BY <1>3, <2>1, Quotient
  <2>3. s * s <= w * (p + 1)
    <3>1. w * (p + 1) = w * p + w /\ w * p \in Int
      BY <1>1, <2>2
    <3> QED
      BY <1>1, <1>3, <2>2, <3>1
  <2>4. 0 * w <= s * s
    BY <1>1, <1>3
  <2>5. s * s <= (100 * s) * w
    <3>1. s * s <= s * (100 * w)
      BY <1>1
    <3>2. s * (100 * w) = (100 * s) * w
      BY <1>1
    <3> QED
      BY <3>1, <3>2
  <2>6. 0 <= p /\ p <= 100 * s
    <3>1. 100 * s \in Int /\ 0 \in Int /\ s * s \in Int
      BY <1>1, <1>3
    <3> QED
      BY <2>1, <2>4, <2>5, <3>1, QuotientBounds
  <2> QED
    BY <2>2, <2>3, <2>6 DEF w, s, p
<1> QED
  BY <1>4, <1>5

(* Severity that is nowhere less costs no less.                            *)
LEMMA PenaltyMonotone ==
  ASSUME NEW c \in Categories, NEW known \in Evidence, NEW worse \in Evidence,
         \A f \in FactorSet : EffectiveIn(known, f) <= EffectiveIn(worse, f)
  PROVE  /\ \A f \in FactorSet : Scores(c, known)[f] <= Scores(c, worse)[f]
         /\ SumFunctionOnSet(Scores(c, known), FactorSet) <= SumFunctionOnSet(Scores(c, worse), FactorSet)
         /\ TotalIn(c, known) <= TotalIn(c, worse)
<1> DEFINE s == Scores(c, known)
           t == Scores(c, worse)
<1>1. IsFiniteSet(FactorSet)
  BY RiskNumbers
<1>2. \A f \in FactorSet : s[f] \in Nat /\ t[f] \in Nat /\ s[f] <= t[f]
  <2> SUFFICES ASSUME NEW f \in FactorSet PROVE s[f] \in Nat /\ t[f] \in Nat /\ s[f] <= t[f]
    OBVIOUS
  <2>1. /\ WeightsIn(c)[f] \in 0 .. 100 /\ s[f] \in Nat /\ t[f] \in Nat
        /\ s[f] = WeightsIn(c)[f] * EffectiveIn(known, f)
        /\ t[f] = WeightsIn(c)[f] * EffectiveIn(worse, f)
    BY ScoreTerms
  <2>2. EffectiveIn(known, f) \in 0 .. 100 /\ EffectiveIn(worse, f) \in 0 .. 100
    BY FactorFacts
  <2>3. ASSUME NEW a \in Nat, NEW x \in Nat, NEW y \in Nat, x <= y PROVE a * x <= a * y
    BY <2>3
  <2>4. WeightsIn(c)[f] * EffectiveIn(known, f) <= WeightsIn(c)[f] * EffectiveIn(worse, f)
    <3>1. WeightsIn(c)[f] \in Nat /\ EffectiveIn(known, f) \in Nat /\ EffectiveIn(worse, f) \in Nat
      BY <2>1, <2>2
    <3> QED
      BY <2>3, <3>1
  <2> HIDE DEF s, t
  <2> QED
    BY <2>1, <2>4
<1> HIDE DEF s, t
<1>3. \A group \in PenaltyGroups \cup {FactorSet} : SumFunctionOnSet(s, group) <= SumFunctionOnSet(t, group)
  <2> SUFFICES ASSUME NEW group \in PenaltyGroups \cup {FactorSet}
               PROVE  SumFunctionOnSet(s, group) <= SumFunctionOnSet(t, group)
    OBVIOUS
  <2>1. IsFiniteSet(group) /\ group \subseteq FactorSet
    BY <1>1, GroupNumbers
  <2>2. \A f \in group : s[f] \in Int /\ t[f] \in Int /\ s[f] <= t[f]
    BY <1>2, <2>1
  <2> QED
    BY <2>1, <2>2, SumMonotone
<1>4. \A group \in PenaltyGroups : /\ PenaltyIn(c, known, group) \in Int /\ PenaltyIn(c, worse, group) \in Int
                                   /\ PenaltyIn(c, known, group) <= PenaltyIn(c, worse, group)
  <2> SUFFICES ASSUME NEW group \in PenaltyGroups
               PROVE  /\ PenaltyIn(c, known, group) \in Int /\ PenaltyIn(c, worse, group) \in Int
                      /\ PenaltyIn(c, known, group) <= PenaltyIn(c, worse, group)
    OBVIOUS
  <2> DEFINE w == WeightOf(c, group)
             x == Severity(c, known, group)
             y == Severity(c, worse, group)
  <2>1. w \in Nat /\ x \in Nat /\ y \in Nat
    BY GroupFacts
  <2>2. x <= y
    BY <1>3 DEF Severity, s, t
  <2>3. /\ PenaltyIn(c, known, group) = IF w = 0 THEN 0 ELSE (x * x) \div w
        /\ PenaltyIn(c, worse, group) = IF w = 0 THEN 0 ELSE (y * y) \div w
    BY DEF PenaltyIn
  <2>4. PenaltyIn(c, known, group) \in Int /\ PenaltyIn(c, worse, group) \in Int
    BY PenaltyFacts
  <2> HIDE DEF w, x, y
  <2>5. x * x <= y * y /\ x * x \in Int /\ y * y \in Int
    BY <2>1, <2>2, SquareMonotone
  <2>6. CASE w = 0
    BY <2>3, <2>6
  <2>7. CASE w # 0
    <3>1. w \in Nat \ {0}
      BY <2>1, <2>7
    <3>2. (x * x) \div w <= (y * y) \div w
      BY <2>5, <3>1, QuotientMonotone
    <3> QED
      BY <2>3, <2>4, <2>7, <3>2
  <2> QED
    BY <2>6, <2>7
<1>5. SumFunctionOnSet(Penalties(c, known), PenaltyGroups) <= SumFunctionOnSet(Penalties(c, worse), PenaltyGroups)
  <2> DEFINE p == Penalties(c, known)
             q == Penalties(c, worse)
  <2>1. \A group \in PenaltyGroups : p[group] \in Int /\ q[group] \in Int /\ p[group] <= q[group]
    BY <1>4 DEF Penalties
  <2>2. IsFiniteSet(PenaltyGroups)
    BY GroupNumbers
  <2> HIDE DEF p, q
  <2>3. SumFunctionOnSet(p, PenaltyGroups) <= SumFunctionOnSet(q, PenaltyGroups)
    BY <2>1, <2>2, SumMonotone
  <2> QED
    BY <2>3 DEF p, q
<1>6. SumFunctionOnSet(s, FactorSet) <= SumFunctionOnSet(t, FactorSet)
  BY <1>3
<1> QED
  BY <1>2, <1>5, <1>6, TotalIsSum DEF s, t

-----------------------------------------------------------------------------
(* A square of a sum against sums: the inequality of Cauchy.               *)

LEMMA ProductMonotone ==
  ASSUME NEW a \in Nat, NEW b \in Nat, NEW x \in Nat, NEW y \in Nat, a <= b, x <= y
  PROVE  a * x <= b * y
<1>1. a * x <= b * x
  OBVIOUS
<1>2. b * x <= b * y
  OBVIOUS
<1>3. a * x \in Int /\ b * x \in Int /\ b * y \in Int
  OBVIOUS
<1> QED
  BY <1>1, <1>2, <1>3

LEMMA MeansOfSquares ==
  ASSUME NEW x \in Nat, NEW y \in Nat, NEW t \in Nat, t * t <= x * y
  PROVE  2 * t <= x + y
<1>1. SUFFICES ASSUME x + y + 1 <= 2 * t PROVE FALSE
  OBVIOUS
<1> DEFINE a == x + y
<1>2. (a + 1) * (a + 1) <= (2 * t) * (2 * t)
  BY <1>1, SquareMonotone
<1>3. (2 * t) * (2 * t) = 4 * (t * t)
  OBVIOUS
<1>4. 4 * (x * y) <= a * a
  <2>1. a * a = 4 * (x * y) + (x - y) * (x - y)
    OBVIOUS
  <2>2. 0 <= (x - y) * (x - y)
    OBVIOUS
  <2>3. x * y \in Int /\ (x - y) * (x - y) \in Int /\ a * a \in Int
    OBVIOUS
  <2> HIDE DEF a
  <2> QED
    BY <2>1, <2>2, <2>3
<1>5. (a + 1) * (a + 1) = a * a + 2 * a + 1
  OBVIOUS
<1>6. a \in Nat /\ a * a \in Int /\ t * t \in Int /\ x * y \in Int
  OBVIOUS
<1> HIDE DEF a
<1>7. (a + 1) * (a + 1) <= a * a
  <2>1. 4 * (t * t) <= 4 * (x * y)
    BY <1>6
  <2> QED
    BY <1>2, <1>3, <1>4, <1>5, <1>6, <2>1
<1> QED
  BY <1>5, <1>6, <1>7

LEMMA CauchyStep ==
  ASSUME NEW S \in Nat, NEW W \in Nat, NEW Q \in Nat, S * S <= W * Q,
         NEW s \in Nat, NEW w \in Nat, NEW q \in Nat, s * s <= w * q
  PROVE  (s + S) * (s + S) <= (w + W) * (q + Q)
<1> DEFINE x == w * Q
           y == W * q
           t == s * S
<1>1. x \in Nat /\ y \in Nat /\ t \in Nat
  OBVIOUS
<1>2. t * t <= x * y
  <2>1. (s * s) * (S * S) <= (w * q) * (W * Q)
    <3>1. s * s \in Nat /\ S * S \in Nat /\ w * q \in Nat /\ W * Q \in Nat
      OBVIOUS
    <3> QED
      BY <3>1, ProductMonotone
  <2>2. t * t = (s * s) * (S * S)
    OBVIOUS
  <2>3. x * y = (w * q) * (W * Q)
    OBVIOUS
  <2> QED
    BY <2>1, <2>2, <2>3
<1>3. (s + S) * (s + S) = s * s + 2 * t + S * S
  OBVIOUS
<1>4. (w + W) * (q + Q) = w * q + x + y + W * Q
  OBVIOUS
<1> HIDE DEF x, y, t
<1>5. 2 * t <= x + y
  BY <1>1, <1>2, MeansOfSquares
<1>6. s * s \in Int /\ S * S \in Int /\ w * q \in Int /\ W * Q \in Int
  OBVIOUS
<1> QED
  BY <1>1, <1>3, <1>4, <1>5, <1>6

Squares(S, f, g, h) ==
  /\ IsFiniteSet(S)
  /\ \A x \in S : f[x] \in Nat /\ g[x] \in Nat /\ h[x] \in Nat /\ f[x] * f[x] <= g[x] * h[x]

LEMMA Cauchy ==
  ASSUME NEW S, NEW f, NEW g, NEW h, Squares(S, f, g, h)
  PROVE  SumFunctionOnSet(f, S) * SumFunctionOnSet(f, S) <= SumFunctionOnSet(g, S) * SumFunctionOnSet(h, S)
<1> DEFINE Sum(k, T) == SumFunctionOnSet(k, T)
           G == {T \in SUBSET S : Sum(f, T) * Sum(f, T) <= Sum(g, T) * Sum(h, T)}
<1>0. /\ IsFiniteSet(S)
      /\ \A x \in S : f[x] \in Nat /\ g[x] \in Nat /\ h[x] \in Nat /\ f[x] * f[x] <= g[x] * h[x]
  BY DEF Squares
<1>1. {} \in G
  BY SumEmpty
<1>2. ASSUME NEW T \in SUBSET S, NEW x \in S \ T, T \in G PROVE T \cup {x} \in G
  <2>1. IsFiniteSet(T)
    BY <1>0, FS_Subset
  <2>2. \A y \in T \cup {x} : f[y] \in Int /\ g[y] \in Int /\ h[y] \in Int
    BY <1>0
  <2>3. Sum(f, T \cup {x}) = f[x] + Sum(f, T)
    BY <2>1, <2>2, SumWith
  <2>4. Sum(g, T \cup {x}) = g[x] + Sum(g, T)
    BY <2>1, <2>2, SumWith
  <2>5. Sum(h, T \cup {x}) = h[x] + Sum(h, T)
    BY <2>1, <2>2, SumWith
  <2>6. Sum(f, T) \in Nat /\ Sum(g, T) \in Nat /\ Sum(h, T) \in Nat
    <3>1. \A y \in S : f[y] \in Int /\ g[y] \in Int /\ h[y] \in Int
      BY <1>0
    <3>2. Sum(f, T) \in Int /\ Sum(g, T) \in Int /\ Sum(h, T) \in Int
      BY <1>0, <3>1, SumInt
    <3>3. 0 <= Sum(f, T) /\ 0 <= Sum(g, T) /\ 0 <= Sum(h, T)
      BY <1>0, SumGrows
    <3> QED
      BY <3>2, <3>3
  <2>7. Sum(f, T) * Sum(f, T) <= Sum(g, T) * Sum(h, T)
    BY <1>2
  <2>8. f[x] \in Nat /\ g[x] \in Nat /\ h[x] \in Nat /\ f[x] * f[x] <= g[x] * h[x]
    BY <1>0
  <2> HIDE DEF Sum
  <2>9. (f[x] + Sum(f, T)) * (f[x] + Sum(f, T)) <= (g[x] + Sum(g, T)) * (h[x] + Sum(h, T))
    BY <2>6, <2>7, <2>8, CauchyStep
  <2>10. Sum(f, T \cup {x}) * Sum(f, T \cup {x}) <= Sum(g, T \cup {x}) * Sum(h, T \cup {x})
    BY <2>3, <2>4, <2>5, <2>9
  <2> QED
    BY <2>10
<1>3. S \in G
  <2> HIDE DEF G
  <2> QED  BY <1>0, <1>1, <1>2, SetInduction
<1> QED
  BY <1>3

LEMMA TotalBounds ==
  ASSUME NEW c \in Categories, NEW known \in Evidence
  PROVE  LET total == TotalIn(c, known)
             score == SumFunctionOnSet(Scores(c, known), FactorSet) IN
         /\ total \in Nat /\ total <= 100 * score
         /\ score * score <= 100 * (total + Cardinality(PenaltyGroups))
<1> DEFINE s == Scores(c, known)
           w == WeightsIn(c)
           p == Penalties(c, known)
           score == SumFunctionOnSet(s, FactorSet)
           total == TotalIn(c, known)
           ones == [g \in PenaltyGroups |-> 1]
           severities == [g \in PenaltyGroups |-> Severity(c, known, g)]
           shares == [g \in PenaltyGroups |-> WeightOf(c, g)]
           full == [g \in PenaltyGroups |-> p[g] + 1 * ones[g]]
           zero == [g \in PenaltyGroups |-> 0]
           charged == [g \in PenaltyGroups |-> zero[g] + 100 * severities[g]]
<1>1. /\ IsFiniteSet(PenaltyGroups) /\ UNION PenaltyGroups = FactorSet
      /\ \A g \in PenaltyGroups : IsFiniteSet(g) /\ g \subseteq FactorSet
      /\ \A g, h \in PenaltyGroups : g # h => g \cap h = {}
  BY GroupNumbers
<1>2. total = SumFunctionOnSet(p, PenaltyGroups)
  BY TotalIsSum
<1>3. \A f \in FactorSet : s[f] \in Int /\ w[f] \in Int /\ s[f] \in Nat
  BY ScoreTerms
<1>4. SumFunctionOnSet(severities, PenaltyGroups) = score
  <2>1. \A g \in PenaltyGroups : severities[g] = SumFunctionOnSet(s, g)
    BY DEF Severity
  <2> HIDE DEF severities, s
  <2> QED
    BY <1>1, <1>3, <2>1, SumByGroups
<1>5. SumFunctionOnSet(shares, PenaltyGroups) = 100
  <2>1. \A g \in PenaltyGroups : shares[g] = SumFunctionOnSet(w, g)
    BY DEF WeightOf
  <2>2. SumFunctionOnSet(w, FactorSet) = 100
    BY RiskNumbers DEF SumFunction, WeightsIn
  <2> HIDE DEF shares, w
  <2>3. SumFunctionOnSet(shares, PenaltyGroups) = SumFunctionOnSet(w, UNION PenaltyGroups)
    BY <1>1, <1>3, <2>1, SumByGroups
  <2> QED
    BY <1>1, <2>2, <2>3
<1>6. \A g \in PenaltyGroups :
        /\ ones[g] = 1 /\ zero[g] = 0
        /\ p[g] \in Nat /\ severities[g] \in Nat /\ shares[g] \in Nat
        /\ full[g] = p[g] + 1 * ones[g] /\ full[g] \in Nat
        /\ charged[g] = zero[g] + 100 * severities[g] /\ charged[g] \in Int
        /\ p[g] <= charged[g]
        /\ severities[g] * severities[g] <= shares[g] * full[g]
  <2> SUFFICES ASSUME NEW g \in PenaltyGroups
               PROVE  /\ ones[g] = 1 /\ zero[g] = 0
                      /\ p[g] \in Nat /\ severities[g] \in Nat /\ shares[g] \in Nat
                      /\ full[g] = p[g] + 1 * ones[g] /\ full[g] \in Nat
                      /\ charged[g] = zero[g] + 100 * severities[g] /\ charged[g] \in Int
                      /\ p[g] <= charged[g]
                      /\ severities[g] * severities[g] <= shares[g] * full[g]
    OBVIOUS
  <2>1. /\ p[g] = PenaltyIn(c, known, g) /\ severities[g] = Severity(c, known, g)
        /\ shares[g] = WeightOf(c, g)
    BY DEF Penalties
  <2>2. ones[g] = 1 /\ zero[g] = 0 /\ full[g] = p[g] + 1 * ones[g]
        /\ charged[g] = zero[g] + 100 * severities[g]
    OBVIOUS
  <2>3. /\ PenaltyIn(c, known, g) \in Nat /\ PenaltyIn(c, known, g) <= 100 * Severity(c, known, g)
        /\ Severity(c, known, g) * Severity(c, known, g) <= WeightOf(c, g) * (PenaltyIn(c, known, g) + 1)
    BY PenaltyFacts
  <2>4. WeightOf(c, g) \in Nat /\ Severity(c, known, g) \in Nat
    BY GroupFacts
  <2> HIDE DEF p, severities, shares, ones, zero, full, charged
  <2>5. full[g] = PenaltyIn(c, known, g) + 1
    BY <2>1, <2>2, <2>3
  <2>6. severities[g] * severities[g] <= shares[g] * full[g]
    BY <2>1, <2>3, <2>5
  <2> QED
    BY <2>1, <2>2, <2>3, <2>4, <2>5, <2>6
<1> HIDE DEF s, w, p, ones, severities, shares, full, zero, charged, total
<1>7. total \in Int /\ 0 <= total
  <2>1. \A g \in PenaltyGroups : p[g] \in Nat /\ p[g] \in Int
    BY <1>6
  <2>2. PenaltyGroups \in SUBSET PenaltyGroups
    OBVIOUS
  <2> QED
    BY <1>1, <1>2, <2>1, <2>2, SumGrows, SumInt
<1>8. score \in Int
  BY <1>3, RiskNumbers, SumInt
<1>9. total <= 100 * score
  <2>1. \A g \in PenaltyGroups : p[g] \in Int /\ charged[g] \in Int /\ p[g] <= charged[g]
    BY <1>6
  <2>2. SumFunctionOnSet(p, PenaltyGroups) <= SumFunctionOnSet(charged, PenaltyGroups)
    BY <1>1, <2>1, SumMonotone
  <2>3. SumFunctionOnSet(charged, PenaltyGroups) =
          SumFunctionOnSet(zero, PenaltyGroups) + 100 * SumFunctionOnSet(severities, PenaltyGroups)
    <3>1. Linear(PenaltyGroups, zero, severities, charged, 100)
      BY <1>1, <1>6 DEF Linear
    <3> QED  BY <3>1, SumLinear
  <2>4. SumFunctionOnSet(zero, PenaltyGroups) = 0
    <3>1. {} \in SUBSET PenaltyGroups /\ \A g \in PenaltyGroups : zero[g] = 0 /\ zero[g] \in Int
      BY <1>6
    <3> QED  BY <1>1, <3>1, SumZeros, SumEmpty
  <2> HIDE DEF score
  <2> QED
    BY <1>2, <1>4, <1>8, <2>2, <2>3, <2>4
<1>10. SumFunctionOnSet(full, PenaltyGroups) = total + Cardinality(PenaltyGroups)
  <2>1. SumFunctionOnSet(full, PenaltyGroups) =
          SumFunctionOnSet(p, PenaltyGroups) + 1 * SumFunctionOnSet(ones, PenaltyGroups)
    <3>1. Linear(PenaltyGroups, p, ones, full, 1)
      BY <1>1, <1>6 DEF Linear
    <3> QED  BY <3>1, SumLinear
  <2>2. SumFunctionOnSet(ones, PenaltyGroups) = Cardinality(PenaltyGroups)
    BY <1>1, <1>6, SumOnes
  <2>3. Cardinality(PenaltyGroups) \in Nat
    BY <1>1, FS_CardinalityType
  <2> QED
    BY <1>2, <1>7, <2>1, <2>2, <2>3
<1>11. score * score <= 100 * (total + Cardinality(PenaltyGroups))
  <2>1. Squares(PenaltyGroups, severities, shares, full)
    BY <1>1, <1>6 DEF Squares
  <2>2. SumFunctionOnSet(severities, PenaltyGroups) * SumFunctionOnSet(severities, PenaltyGroups)
          <= SumFunctionOnSet(shares, PenaltyGroups) * SumFunctionOnSet(full, PenaltyGroups)
    BY <2>1, Cauchy
  <2> HIDE DEF score
  <2> QED
    BY <1>4, <1>5, <1>10, <2>2
<1> QED
  BY <1>7, <1>9, <1>11 DEF s, total

-----------------------------------------------------------------------------
(* The bands.                                                              *)

BandsOver(score) == {i \in 1 .. 5 : score <= 100 * RiskBands[i].maximum}

LEMMA BandFacts ==
  ASSUME NEW score \in 0 .. 100 * 100
  PROVE  /\ BandNumber(BandOf(score)) \in BandsOver(score)
         /\ \A i \in BandsOver(score) : BandNumber(BandOf(score)) <= i
<1>1. DOMAIN RiskBands = 1 .. 5
  BY DEF RiskBands
<1>2. \A i \in 1 .. 5 : BandNumber(RiskBands[i].code) = i
  <2> SUFFICES ASSUME NEW i \in 1 .. 5 PROVE BandNumber(RiskBands[i].code) = i
    OBVIOUS
  <2>1. \A j \in 1 .. 5 : RiskBands[j].code = RiskBands[i].code => j = i
    BY DEF RiskBands
  <2> QED
    BY <1>1, <2>1 DEF BandNumber
<1> DEFINE I == BandsOver(score)
<1>3. 5 \in I /\ I \subseteq 1 .. 5
  <2>1. RiskBands[5].maximum = 100
    BY DEF RiskBands
  <2> DEFINE top == RiskBands[5].maximum
  <2>2. score <= 100 * top
    <3>1. top = 100
      BY <2>1
    <3> HIDE DEF top
    <3> QED
      BY <3>1
  <2> QED
    BY <2>2 DEF BandsOver
<1>4. \E m \in I : \A i \in I : m <= i
  <2> HIDE DEF I
  <2>1. CASE 1 \in I
    BY <1>3, <2>1
  <2>2. CASE 1 \notin I /\ 2 \in I
    BY <1>3, <2>2
  <2>3. CASE 1 \notin I /\ 2 \notin I /\ 3 \in I
    BY <1>3, <2>3
  <2>4. CASE 1 \notin I /\ 2 \notin I /\ 3 \notin I /\ 4 \in I
    BY <1>3, <2>4
  <2>5. CASE 1 \notin I /\ 2 \notin I /\ 3 \notin I /\ 4 \notin I
    BY <1>3, <2>5
  <2> QED
    BY <2>1, <2>2, <2>3, <2>4, <2>5
<1>5. Min(I) \in I /\ \A i \in I : Min(I) <= i
  <2> HIDE DEF I
  <2> QED  BY <1>4 DEF Min
<1>6. BandOf(score) = RiskBands[Min(I)].code
  BY <1>1 DEF BandOf, BandsOver
<1> HIDE DEF I
<1>7. BandNumber(BandOf(score)) = Min(I)
  BY <1>2, <1>3, <1>5, <1>6
<1> QED
  BY <1>5, <1>7 DEF I

LEMMA BandMonotone ==
  ASSUME NEW low \in 0 .. 100 * 100, NEW high \in 0 .. 100 * 100, low <= high
  PROVE  BandNumber(BandOf(low)) <= BandNumber(BandOf(high))
<1>1. BandsOver(high) \subseteq BandsOver(low)
  BY DEF BandsOver, RiskBands
<1>2. BandNumber(BandOf(high)) \in BandsOver(high)
  BY BandFacts
<1>3. \A i \in BandsOver(low) : BandNumber(BandOf(low)) <= i
  BY BandFacts
<1> QED
  BY <1>1, <1>2, <1>3

-----------------------------------------------------------------------------
(* What is shown of a route is calculated from its evidence of the moment. *)

RiskInv ==
  /\ category \in Categories /\ factorMetrics \in Evidence
  /\ composite = CompositeIn(category, factorMetrics)
  /\ penalty = TotalIn(category, factorMetrics)

LEMMA CalculatedIn ==
  ASSUME NEW c, NEW known
  PROVE  /\ Calculate(c, known).composite = CompositeIn(c, known)
         /\ Calculate(c, known).penalty = TotalIn(c, known)
BY Calculated DEF CompositeIn, TotalIn

LEMMA RiskStarts == RiskInit => RiskInv
BY CalculatedIn DEF RiskInit, RiskInv, Evidence

LEMMA RiskMoves ==
  ASSUME RiskInv, NEW f \in Watched, FactorChanges(f)
  PROVE  /\ RiskInv' /\ category' = category
         /\ \A g \in Watched : g # f => factorMetrics'[g] = factorMetrics[g]
<1>1. PICK known \in FactorMetrics :
        /\ factorMetrics' = [factorMetrics EXCEPT ![f] = known]
        /\ composite' = Calculate(category, [factorMetrics EXCEPT ![f] = known]).composite
        /\ penalty' = Calculate(category, [factorMetrics EXCEPT ![f] = known]).penalty
        /\ category' = category
  BY DEF FactorChanges
<1>2. factorMetrics' \in Evidence /\ \A g \in Watched : g # f => factorMetrics'[g] = factorMetrics[g]
  BY <1>1 DEF RiskInv, Evidence
<1>3. composite' = CompositeIn(category', factorMetrics') /\ penalty' = TotalIn(category', factorMetrics')
  BY <1>1, CalculatedIn
<1> QED
  BY <1>1, <1>2, <1>3 DEF RiskInv

LEMMA RiskStep ==
  ASSUME RiskInv, [RiskNext]_riskVars
  PROVE  RiskInv'
<1>1. CASE UNCHANGED riskVars
  BY <1>1 DEF RiskInv, riskVars
<1>2. ASSUME NEW f \in Watched, FactorChanges(f) PROVE RiskInv'
  BY <1>2, RiskMoves
<1> QED
  BY <1>1, <1>2 DEF RiskNext

LEMMA RiskTyped == RiskInv => RiskTypeOK
<1> SUFFICES ASSUME RiskInv PROVE RiskTypeOK
  OBVIOUS
<1> DEFINE score == SumFunctionOnSet(Scores(category, factorMetrics), FactorSet)
<1>1. /\ composite.score = score /\ composite.score \in 0 .. 100 * 100
      /\ composite.coverage \in 0 .. 100 * 100 /\ composite.unavailable \subseteq FactorSet
  BY CompositeFacts DEF RiskInv
<1>2. penalty \in Nat /\ penalty <= 100 * score
  BY TotalBounds DEF RiskInv
<1>3. penalty \in 0 .. 100 * (100 * 100)
  <2> HIDE DEF score
  <2> DEFINE full == 100 * 100
  <2>1. full \in Nat
    OBVIOUS
  <2>2. score \in 0 .. full
    BY <1>1
  <2> HIDE DEF full
  <2>3. penalty \in 0 .. 100 * full
    BY <1>2, <2>1, <2>2
  <2> QED
    BY <2>3 DEF full
<1>4. category \in Categories /\ factorMetrics \in [Watched -> FactorMetrics]
  BY DEF RiskInv, Evidence
<1> QED
  BY <1>1, <1>3, <1>4 DEF RiskTypeOK

LEMMA BoundsHold == RiskInv => PenaltiesAreBounded
<1> SUFFICES ASSUME RiskInv PROVE PenaltiesAreBounded
  OBVIOUS
<1> DEFINE sum == SumFunctionOnSet(Scores(category, factorMetrics), FactorSet)
<1>1. composite.score = sum
  BY CompositeFacts DEF RiskInv
<1>2. penalty <= 100 * sum /\ sum * sum <= 100 * (penalty + Cardinality(PenaltyGroups))
  BY TotalBounds DEF RiskInv
<1> HIDE DEF sum
<1> QED
  BY <1>1, <1>2 DEF PenaltiesAreBounded

LEMMA EvidenceHolds == RiskInv => VerifiedHasEvidence
<1> SUFFICES ASSUME RiskInv, composite.status = "VERIFIED"
             PROVE  /\ composite.coverage >= 100 * MethodologyV1.minimumCoverage
                    /\ \A f \in Watched : CategoryWeightsV1[category][f] > 0 =>
                         \A x \in factorMetrics[f] : x.required => x.score # -1
  BY DEF VerifiedHasEvidence
<1>1. /\ composite.coverage >= 100 * 70
      /\ \A f \in Watched : CategoryWeightsV1[category][f] > 0 =>
           \A x \in factorMetrics[f] : x.required => x.score # -1
  BY CompositeFacts DEF RiskInv
<1>2. MethodologyV1.minimumCoverage = 70
  BY RiskNumbers
<1> QED
  BY <1>1, <1>2

LEMMA EffectiveScores ==
  ASSUME NEW known \in Evidence
  PROVE  \A f \in FactorSet : EffectiveIn(known, f) = IF f \in Watched THEN EffectiveOf(known[f]) ELSE 60
BY FactorFacts

LEMMA WorseHolds ==
  ASSUME RiskInv, RiskInv', category' = category
  PROVE  WorseEvidenceScoresWorse
<1> SUFFICES ASSUME \A f \in Watched : EffectiveOf(factorMetrics[f]) <= EffectiveOf(factorMetrics'[f])
             PROVE  /\ composite.score <= composite'.score /\ penalty <= penalty'
                    /\ BandNumber(composite.band) <= BandNumber(composite'.band)
  BY DEF WorseEvidenceScoresWorse
<1> DEFINE low == SumFunctionOnSet(Scores(category, factorMetrics), FactorSet)
           high == SumFunctionOnSet(Scores(category, factorMetrics'), FactorSet)
<1>1. \A f \in FactorSet : EffectiveIn(factorMetrics, f) <= EffectiveIn(factorMetrics', f)
  <2> SUFFICES ASSUME NEW f \in FactorSet PROVE EffectiveIn(factorMetrics, f) <= EffectiveIn(factorMetrics', f)
    OBVIOUS
  <2>1. /\ EffectiveIn(factorMetrics, f) = IF f \in Watched THEN EffectiveOf(factorMetrics[f]) ELSE 60
        /\ EffectiveIn(factorMetrics', f) = IF f \in Watched THEN EffectiveOf(factorMetrics'[f]) ELSE 60
    BY EffectiveScores DEF RiskInv
  <2>2. CASE f \in Watched
    BY <2>1, <2>2
  <2>3. CASE f \notin Watched
    BY <2>1, <2>3
  <2> QED
    BY <2>2, <2>3
<1>2. low <= high /\ TotalIn(category, factorMetrics) <= TotalIn(category, factorMetrics')
  BY <1>1, PenaltyMonotone DEF RiskInv
<1>3. composite.score = low /\ low \in 0 .. 100 * 100
  BY CompositeFacts DEF RiskInv
<1>4. composite'.score = high /\ high \in 0 .. 100 * 100
  BY CompositeFacts DEF RiskInv
<1>5. composite.band = BandOf(composite.score) /\ composite'.band = BandOf(composite'.score)
  BY CompositeBand DEF RiskInv
<1>6. BandNumber(BandOf(low)) <= BandNumber(BandOf(high))
  <2> HIDE DEF low, high
  <2> QED
    BY <1>2, <1>3, <1>4, BandMonotone
<1>7. penalty <= penalty'
  BY <1>2 DEF RiskInv
<1>8. composite.score <= composite'.score
  BY <1>2, <1>3, <1>4
<1>9. BandNumber(composite.band) <= BandNumber(composite'.band)
  <2> HIDE DEF low, high
  <2>1. composite.band = BandOf(low) /\ composite'.band = BandOf(high)
    BY <1>3, <1>4, <1>5
  <2> QED
    BY <1>6, <2>1
<1> QED
  BY <1>7, <1>8, <1>9

LEMMA WeightsHold ==
  ASSUME RiskInv, NEW f \in Watched, FactorChanges(f)
  PROVE  WeightsStayPut
<1>1. /\ RiskInv' /\ category' = category
      /\ \A g \in Watched : g # f => factorMetrics'[g] = factorMetrics[g]
  BY RiskMoves
<1> DEFINE s == Scores(category, factorMetrics)
           t == Scores(category, factorMetrics')
           rest == FactorSet \ {f}
<1>2. IsFiniteSet(FactorSet) /\ f \in FactorSet /\ IsFiniteSet(rest)
  BY RiskNumbers, WatchedAreFactors, FS_Subset
<1>3. category \in Categories /\ factorMetrics \in Evidence /\ factorMetrics' \in Evidence
  BY <1>1 DEF RiskInv
<1>4. \A g \in FactorSet : s[g] \in Int /\ t[g] \in Int
  BY <1>3, ScoreTerms
<1>5. \A g \in rest : s[g] \in Int /\ s[g] = t[g]
  <2> SUFFICES ASSUME NEW g \in rest PROVE s[g] = t[g]
    BY <1>4
  <2>1. /\ EffectiveIn(factorMetrics, g) = IF g \in Watched THEN EffectiveOf(factorMetrics[g]) ELSE 60
        /\ EffectiveIn(factorMetrics', g) = IF g \in Watched THEN EffectiveOf(factorMetrics'[g]) ELSE 60
    BY <1>3, EffectiveScores
  <2>2. EffectiveIn(factorMetrics, g) = EffectiveIn(factorMetrics', g)
    BY <1>1, <2>1
  <2> QED
    BY <2>2 DEF Scores
<1>6. /\ s[f] = CategoryWeightsV1[category][f] * EffectiveOf(factorMetrics[f])
      /\ t[f] = CategoryWeightsV1[category][f] * EffectiveOf(factorMetrics'[f])
      /\ CategoryWeightsV1[category][f] \in Int
      /\ EffectiveOf(factorMetrics[f]) \in Int /\ EffectiveOf(factorMetrics'[f]) \in Int
  <2>1. /\ EffectiveIn(factorMetrics, f) = EffectiveOf(factorMetrics[f])
        /\ EffectiveIn(factorMetrics', f) = EffectiveOf(factorMetrics'[f])
    BY <1>2, <1>3, EffectiveScores
  <2>2. EffectiveIn(factorMetrics, f) \in 0 .. 100 /\ EffectiveIn(factorMetrics', f) \in 0 .. 100
    BY <1>2, <1>3, FactorFacts
  <2>3. /\ s[f] = CategoryWeightsV1[category][f] * EffectiveIn(factorMetrics, f)
        /\ t[f] = CategoryWeightsV1[category][f] * EffectiveIn(factorMetrics', f)
    BY <1>2 DEF Scores
  <2>4. CategoryWeightsV1[category][f] \in 0 .. 100
    BY <1>2, <1>3, RiskNumbers
  <2> HIDE DEF s, t
  <2> QED
    BY <2>1, <2>2, <2>3, <2>4
<1> HIDE DEF s, t
<1>7. /\ SumFunctionOnSet(s, FactorSet) = s[f] + SumFunctionOnSet(s, rest)
      /\ SumFunctionOnSet(t, FactorSet) = t[f] + SumFunctionOnSet(t, rest)
  <2>1. FactorSet \in SUBSET FactorSet
    OBVIOUS
  <2> QED
    BY <1>2, <1>4, <2>1, SumWithout
<1>8. SumFunctionOnSet(s, rest) = SumFunctionOnSet(t, rest) /\ SumFunctionOnSet(s, rest) \in Int
  <2>1. rest \in SUBSET FactorSet
    OBVIOUS
  <2> QED
    BY <1>2, <1>4, <1>5, <2>1, SumSame, SumInt
<1>9. composite.score = SumFunctionOnSet(s, FactorSet) /\ composite'.score = SumFunctionOnSet(t, FactorSet)
  BY <1>1, CompositeFacts DEF RiskInv, s, t
<1>10. composite'.score - composite.score =
         CategoryWeightsV1[category][f] * (EffectiveOf(factorMetrics'[f]) - EffectiveOf(factorMetrics[f]))
  <2>1. composite'.score - composite.score = t[f] - s[f]
    BY <1>2, <1>4, <1>7, <1>8, <1>9
  <2>2. ASSUME NEW w \in Int, NEW a \in Int, NEW b \in Int PROVE w * b - w * a = w * (b - a)
    OBVIOUS
  <2> QED
    BY <1>6, <2>1, <2>2
<1> QED
  BY <1>1, <1>10 DEF WeightsStayPut

(* What the property says of one step.                                     *)
LEMMA RiskStepSound ==
  RiskInv /\ RiskInv' /\ [RiskNext]_riskVars =>
    [/\ WorseEvidenceScoresWorse /\ WeightsStayPut
     /\ PenaltiesAreBounded' /\ VerifiedHasEvidence']_riskVars
<1> SUFFICES ASSUME RiskInv, RiskInv', NEW f \in Watched, FactorChanges(f)
             PROVE  /\ WorseEvidenceScoresWorse /\ WeightsStayPut
                    /\ PenaltiesAreBounded' /\ VerifiedHasEvidence'
  BY DEF RiskNext
<1>1. WorseEvidenceScoresWorse /\ WeightsStayPut
  BY RiskMoves, WorseHolds, WeightsHold
<1>2. PenaltiesAreBounded'
  BY BoundsHold, PTL
<1>3. VerifiedHasEvidence'
  BY EvidenceHolds, PTL
<1> QED
  BY <1>1, <1>2, <1>3

(* The published risk of a route follows from its evidence: evidence that  *)
(* makes no factor look better improves nothing, a factor moves the score  *)
(* by its weight, penalties stay within their bounds, and "verified" means *)
(* that all required evidence is there (risk-engine/src/index.ts).         *)
THEOREM RiskStaysEvidence == RiskSpec => RiskFollowsEvidence
<1>1. RiskInit => RiskInv
  BY RiskStarts
<1>2. RiskInv /\ [RiskNext]_riskVars => RiskInv'
  BY RiskStep
<1> QED
  BY <1>1, <1>2, RiskStepSound, PTL DEF RiskSpec, RiskFollowsEvidence

-----------------------------------------------------------------------------
(* The calendar.                                                           *)

Lengths == [y \in Nat |-> LengthOf(y)]

LEMMA LengthFacts ==
  ASSUME NEW y \in Nat
  PROVE  Lengths[y] = LengthOf(y) /\ LengthOf(y) \in {365, 366}
BY DEF Lengths, LengthOf

LEMMA YearStartIsSum ==
  ASSUME NEW n \in Nat, FirstYear <= n
  PROVE  YearStart(n) = SumFunctionOnSet(Lengths, FirstYear .. n - 1)
<1> DEFINE years == FirstYear .. n - 1
           f == [y \in years |-> LengthOf(y)]
<1>1. FirstYear \in Nat
  BY YieldAssumption
<1>2. IsFiniteSet(years)
  BY <1>1, FS_Interval
<1>3. \A y \in years : f[y] \in Int /\ f[y] = Lengths[y]
  <2> SUFFICES ASSUME NEW y \in years PROVE f[y] \in Int /\ f[y] = Lengths[y]
    OBVIOUS
  <2>1. y \in Nat
    BY <1>1
  <2> QED
    BY <2>1, LengthFacts
<1>4. YearStart(n) = SumFunctionOnSet(f, years)
  BY DEF YearStart, SumFunction
<1> HIDE DEF f, years
<1>5. SumFunctionOnSet(f, years) = SumFunctionOnSet(Lengths, years)
  BY <1>2, <1>3, SumSame
<1> QED
  BY <1>4, <1>5 DEF years

LEMMA YearsFollow ==
  /\ YearStart(FirstYear) = 0
  /\ \A n \in Nat : FirstYear <= n =>
       /\ YearStart(n) \in Nat /\ YearStart(n + 1) = YearStart(n) + LengthOf(n)
       /\ n - FirstYear <= YearStart(n)
<1>1. FirstYear \in Nat
  BY YieldAssumption
<1>2. YearStart(FirstYear) = 0
  <2>1. FirstYear .. FirstYear - 1 = {}
    BY <1>1
  <2> QED
    BY <1>1, <2>1, YearStartIsSum, SumEmpty
<1>3. ASSUME NEW n \in Nat, FirstYear <= n
      PROVE  /\ YearStart(n) \in Nat /\ YearStart(n + 1) = YearStart(n) + LengthOf(n)
             /\ n - FirstYear <= YearStart(n)
  <2> DEFINE years == FirstYear .. n - 1
             ones == [y \in years |-> 1]
  <2>1. IsFiniteSet(years) /\ Cardinality(years) = n - FirstYear
    <3>1. FirstYear \in Int /\ n - 1 \in Int
      BY <1>1
    <3>2. /\ IsFiniteSet(FirstYear .. n - 1)
          /\ Cardinality(FirstYear .. n - 1) = IF FirstYear > n - 1 THEN 0 ELSE (n - 1) - FirstYear + 1
      BY <3>1, FS_Interval
    <3> QED
      BY <1>1, <1>3, <3>2
  <2>2. \A y \in years : Lengths[y] \in Nat /\ Lengths[y] \in Int /\ ones[y] = 1 /\ ones[y] \in Int /\ ones[y] <= Lengths[y]
    <3> SUFFICES ASSUME NEW y \in years PROVE Lengths[y] \in Nat /\ 1 <= Lengths[y]
      OBVIOUS
    <3>1. y \in Nat
      BY <1>1
    <3> QED
      BY <3>1, LengthFacts
  <2>3. YearStart(n) = SumFunctionOnSet(Lengths, years)
    BY <1>3, YearStartIsSum
  <2>4. YearStart(n + 1) = SumFunctionOnSet(Lengths, years \cup {n})
    <3>1. n + 1 \in Nat /\ FirstYear <= n + 1 /\ FirstYear .. (n + 1) - 1 = years \cup {n}
      BY <1>1, <1>3
    <3> QED
      BY <3>1, YearStartIsSum
  <2>5. n \notin years /\ Lengths[n] = LengthOf(n) /\ Lengths[n] \in Int
    BY LengthFacts
  <2> HIDE DEF years, ones
  <2>6. SumFunctionOnSet(Lengths, years \cup {n}) = Lengths[n] + SumFunctionOnSet(Lengths, years)
    BY <2>1, <2>2, <2>5, SumWith
  <2>7. SumFunctionOnSet(ones, years) = n - FirstYear
    BY <2>1, <2>2, SumOnes
  <2>8. SumFunctionOnSet(ones, years) <= SumFunctionOnSet(Lengths, years)
    BY <2>1, <2>2, SumMonotone
  <2>9. SumFunctionOnSet(Lengths, years) \in Int
    <3>1. years \in SUBSET years /\ \A y \in years : Lengths[y] \in Int
      BY <2>2
    <3> QED
      BY <2>1, <3>1, SumInt
  <2>10. YearStart(n) \in Nat /\ n - FirstYear <= YearStart(n)
    BY <1>1, <1>3, <2>3, <2>7, <2>8, <2>9
  <2>11. YearStart(n + 1) = YearStart(n) + LengthOf(n)
    BY <2>3, <2>4, <2>5, <2>6, <2>9
  <2> QED
    BY <2>10, <2>11
<1> QED
  BY <1>2, <1>3

LEMMA YearsAscend ==
  ASSUME NEW a \in Nat, NEW b \in Nat, FirstYear <= a, a <= b
  PROVE  YearStart(a) <= YearStart(b)
<1> DEFINE early == FirstYear .. a - 1
           all == FirstYear .. b - 1
<1>1. FirstYear \in Nat
  BY YieldAssumption
<1>2. IsFiniteSet(all) /\ early \in SUBSET all
  BY <1>1, FS_Interval
<1>3. \A y \in all : Lengths[y] \in Nat
  <2> SUFFICES ASSUME NEW y \in all PROVE Lengths[y] \in Nat
    OBVIOUS
  <2>1. y \in Nat
    BY <1>1
  <2> QED
    BY <2>1, LengthFacts
<1>4. YearStart(a) = SumFunctionOnSet(Lengths, early) /\ YearStart(b) = SumFunctionOnSet(Lengths, all)
  <2>1. FirstYear <= b
    BY <1>1
  <2> QED
    BY <2>1, YearStartIsSum
<1> HIDE DEF early, all
<1>5. SumFunctionOnSet(Lengths, early) <= SumFunctionOnSet(Lengths, all)
  BY <1>2, <1>3, SumGrows
<1> QED
  BY <1>4, <1>5

(* A day is in a year.                                                     *)
LEMMA YearExists ==
  ASSUME NEW day \in Nat
  PROVE  /\ YearOf(day) \in FirstYear .. FirstYear + day
         /\ YearStart(YearOf(day)) <= day /\ day < YearStart(YearOf(day) + 1)
<1> DEFINE top == FirstYear + day + 1
           all == FirstYear .. top
           Later == {FirstYear .. y : y \in {z \in all : day < YearStart(z)}}
<1>1. FirstYear \in Nat /\ top \in Nat /\ top \in all /\ FirstYear <= top
  BY YieldAssumption
<1>2. IsFiniteSet(all)
  BY <1>1, FS_Interval
<1>3. day < YearStart(top)
  <2>1. top - FirstYear <= YearStart(top) /\ YearStart(top) \in Nat
    BY <1>1, YearsFollow
  <2> QED
    BY <1>1, <2>1
<1>4. Later \subseteq SUBSET all /\ Later # {}
  BY <1>1, <1>3
<1>5. PICK T \in Later : \A U \in Later : U \subseteq T => U = T
  <2> HIDE DEF Later, all
  <2> QED  BY <1>2, <1>4, Smallest
<1>6. PICK y \in all : T = FirstYear .. y /\ day < YearStart(y)
  OBVIOUS
<1>7. y \in Nat /\ FirstYear < y
  <2>1. y # FirstYear
    BY <1>1, <1>6, YearsFollow
  <2> QED
    BY <1>1, <2>1
<1>8. YearStart(y - 1) <= day
  <2> SUFFICES ASSUME day < YearStart(y - 1) PROVE FALSE
    <3>1. y - 1 \in Nat /\ FirstYear <= y - 1
      BY <1>1, <1>7
    <3>2. YearStart(y - 1) \in Nat
      BY <3>1, YearsFollow
    <3> QED
      BY <3>2
  <2>1. y - 1 \in all
    BY <1>1, <1>7
  <2>2. FirstYear .. y - 1 \in Later
    BY <2>1
  <2>3. FirstYear .. y - 1 \subseteq T
    BY <1>1, <1>6, <1>7
  <2>4. y \in T /\ y \notin FirstYear .. y - 1
    BY <1>1, <1>6, <1>7
  <2> QED
    BY <1>5, <2>2, <2>3, <2>4
<1>9. y - 1 \in FirstYear .. FirstYear + day /\ (y - 1) + 1 = y
  BY <1>1, <1>7
<1>10. \E x \in FirstYear .. FirstYear + day : YearStart(x) <= day /\ day < YearStart(x + 1)
  BY <1>6, <1>8, <1>9
<1> HIDE DEF all, Later, top
<1> QED
  BY <1>10 DEF YearOf

-----------------------------------------------------------------------------
(* A fraction of a year, as a sum over all years up to one after the       *)
(* horizon: each contributes the days it shares with the horizon.          *)

YearsTo(top) == FirstYear .. top

Rate(y) == (365 * 366) \div LengthOf(y)

Overlap(y, from, until) ==
  Greatest(0, Least(until, YearStart(y + 1)) - Greatest(from, YearStart(y)))

YearParts(top, from, until) == [y \in YearsTo(top) |-> Rate(y) * Overlap(y, from, until)]

LEMMA RateFacts ==
  ASSUME NEW y \in Nat
  PROVE  Rate(y) \in {365, 366}
<1>1. CASE LengthOf(y) = 365
  <2>1. (365 * 366) \div 365 = 366
    OBVIOUS
  <2> QED
    BY <1>1, <2>1 DEF Rate
<1>2. CASE LengthOf(y) = 366
  <2>1. (365 * 366) \div 366 = 365
    OBVIOUS
  <2> QED
    BY <1>2, <2>1 DEF Rate
<1> QED
  BY <1>1, <1>2, LengthFacts

LEMMA YearFacts ==
  ASSUME NEW top \in Nat, NEW y \in YearsTo(top)
  PROVE  /\ y \in Nat /\ FirstYear <= y /\ y <= top
         /\ YearStart(y) \in Nat /\ YearStart(y + 1) \in Nat /\ YearStart(y) < YearStart(y + 1)
<1>1. y \in Nat /\ FirstYear <= y /\ y <= top /\ y + 1 \in Nat /\ FirstYear <= y + 1
  BY YieldAssumption DEF YearsTo
<1>2. YearStart(y) \in Nat /\ YearStart(y + 1) \in Nat /\ YearStart(y + 1) = YearStart(y) + LengthOf(y)
  BY <1>1, YearsFollow
<1> QED
  BY <1>1, <1>2, LengthFacts

LEMMA PartFacts ==
  ASSUME NEW top \in Nat, NEW y \in YearsTo(top), NEW from \in Nat, NEW cut \in Nat, NEW until \in Nat,
         from <= cut, cut <= until
  PROVE  /\ YearParts(top, from, until)[y] \in Nat
         /\ YearParts(top, from, until)[y] = YearParts(top, from, cut)[y] + 1 * YearParts(top, cut, until)[y]
<1> DEFINE a == YearStart(y)
           b == YearStart(y + 1)
<1>1. y \in Nat /\ a \in Nat /\ b \in Nat /\ a < b
  BY YearFacts
<1>2. Rate(y) \in Nat
  BY <1>1, RateFacts
<1>3. /\ Overlap(y, from, until) \in Nat /\ Overlap(y, from, cut) \in Nat /\ Overlap(y, cut, until) \in Nat
      /\ Overlap(y, from, until) = Overlap(y, from, cut) + Overlap(y, cut, until)
  <2>1. /\ Overlap(y, from, until) = Greatest(0, Least(until, b) - Greatest(from, a))
        /\ Overlap(y, from, cut) = Greatest(0, Least(cut, b) - Greatest(from, a))
        /\ Overlap(y, cut, until) = Greatest(0, Least(until, b) - Greatest(cut, a))
    BY DEF Overlap
  <2> HIDE DEF a, b
  <2> QED
    BY <1>1, <2>1 DEF Greatest, Least
<1>4. /\ YearParts(top, from, until)[y] = Rate(y) * Overlap(y, from, until)
      /\ YearParts(top, from, cut)[y] = Rate(y) * Overlap(y, from, cut)
      /\ YearParts(top, cut, until)[y] = Rate(y) * Overlap(y, cut, until)
  BY DEF YearParts
<1>5. ASSUME NEW r \in Nat, NEW x \in Nat, NEW z \in Nat
      PROVE  r * (x + z) = r * x + 1 * (r * z) /\ r * (x + z) \in Nat
  OBVIOUS
<1> QED
  BY <1>2, <1>3, <1>4, <1>5

LEMMA FractionIsSum ==
  ASSUME NEW from \in Nat, NEW until \in Nat, from < until, NEW top \in Nat, FirstYear + until <= top,
         NEW conv, conv # "ACTUAL_365_FIXED"
  PROVE  /\ YearFraction(from, until, conv) = SumFunctionOnSet(YearParts(top, from, until), YearsTo(top))
         /\ \E y \in YearsTo(top) : YearParts(top, from, until)[y] > 0
<1> DEFINE first == YearOf(from)
           last == YearOf(until - 1)
           years == first .. last
           g == [y \in years |-> ((365 * 366) \div LengthOf(y))
                                   * (Least(until, YearStart(y + 1)) - Greatest(from, YearStart(y)))]
           f == YearParts(top, from, until)
           all == YearsTo(top)
<1>1. FirstYear \in Nat
  BY YieldAssumption
<1>2. /\ first \in FirstYear .. FirstYear + from /\ YearStart(first) <= from /\ from < YearStart(first + 1)
      /\ last \in FirstYear .. FirstYear + (until - 1) /\ YearStart(last) <= until - 1
      /\ until - 1 < YearStart(last + 1)
  <2>1. until - 1 \in Nat
    OBVIOUS
  <2> QED
    BY <2>1, YearExists
<1>3. first \in Nat /\ last \in Nat /\ first \in all /\ last \in all /\ years \in SUBSET all
  BY <1>1, <1>2 DEF YearsTo
<1>4. IsFiniteSet(all) /\ IsFiniteSet(years)
  <2>1. IsFiniteSet(all)
    BY <1>1, FS_Interval DEF YearsTo
  <2> QED
    BY <1>3, <2>1, FS_Subset
<1>5. YearFraction(from, until, conv) = SumFunctionOnSet(g, years)
  BY DEF YearFraction, SumFunction
<1> HIDE DEF first, last
<1>6. ASSUME NEW y \in years
      PROVE  g[y] = f[y] /\ 0 < Least(until, YearStart(y + 1)) - Greatest(from, YearStart(y))
  <2>1. y \in all /\ y \in Nat /\ first <= y /\ y <= last
    BY <1>3, <1>6
  <2> DEFINE a == YearStart(y)
             b == YearStart(y + 1)
  <2>2. a \in Nat /\ b \in Nat /\ a < b
    BY <2>1, YearFacts
  <2>3. a <= YearStart(last) /\ YearStart(first + 1) <= b
    <3>1. FirstYear <= y /\ first + 1 \in Nat /\ y + 1 \in Nat /\ FirstYear <= first + 1
      BY <1>1, <1>2, <1>3, <2>1
    <3> QED
      BY <1>3, <2>1, <3>1, YearsAscend
  <2>4. YearStart(last) \in Nat /\ YearStart(first + 1) \in Nat
    BY <1>3, YearFacts
  <2>5. from < b /\ a < until
    BY <1>2, <2>2, <2>3, <2>4
  <2>6. Overlap(y, from, until) = Greatest(0, Least(until, b) - Greatest(from, a))
    BY DEF Overlap
  <2>7. g[y] = Rate(y) * (Least(until, b) - Greatest(from, a)) /\ f[y] = Rate(y) * Overlap(y, from, until)
    BY <1>6, <2>1 DEF YearParts, Rate
  <2> HIDE DEF a, b, f, g
  <2>8. 0 < Least(until, b) - Greatest(from, a) /\ Overlap(y, from, until) = Least(until, b) - Greatest(from, a)
    BY <2>2, <2>5, <2>6 DEF Least, Greatest
  <2> QED
    BY <2>7, <2>8 DEF a, b
<1>7. ASSUME NEW y \in all \ years PROVE f[y] = 0
  <2>1. y \in all /\ y \in Nat /\ FirstYear <= y /\ (y < first \/ last < y)
    BY <1>3, <1>7, YearFacts
  <2> DEFINE a == YearStart(y)
             b == YearStart(y + 1)
  <2>2. a \in Nat /\ b \in Nat /\ a < b
    BY <2>1, YearFacts
  <2>3. b <= from \/ until <= a
    <3>1. CASE y < first
      <4>1. y + 1 \in Nat /\ FirstYear <= y + 1 /\ y + 1 <= first
        BY <1>1, <1>3, <2>1, <3>1
      <4>2. b <= YearStart(first) /\ YearStart(first) \in Nat
        BY <1>3, <4>1, YearsAscend, YearFacts
      <4> QED
        BY <1>2, <2>2, <4>2
    <3>2. CASE last < y
      <4>1. last + 1 \in Nat /\ FirstYear <= last + 1 /\ last + 1 <= y
        BY <1>1, <1>2, <1>3, <2>1, <3>2
      <4>2. YearStart(last + 1) <= a /\ YearStart(last + 1) \in Nat
        BY <1>3, <2>1, <4>1, YearsAscend, YearFacts
      <4> QED
        BY <1>2, <2>2, <4>2
    <3> QED
      BY <2>1, <3>1, <3>2
  <2>4. Overlap(y, from, until) = Greatest(0, Least(until, b) - Greatest(from, a))
    BY DEF Overlap
  <2>5. f[y] = Rate(y) * Overlap(y, from, until)
    BY <2>1 DEF YearParts
  <2> HIDE DEF a, b, f
  <2>6. Overlap(y, from, until) = 0
    BY <2>2, <2>3, <2>4 DEF Least, Greatest
  <2>7. Rate(y) \in Nat
    BY <2>1, RateFacts
  <2> QED
    BY <2>5, <2>6, <2>7
<1>8. \A y \in all : f[y] \in Nat /\ f[y] \in Int
  BY PartFacts
<1>9. SumFunctionOnSet(f, all) = SumFunctionOnSet(f, years)
  <2> HIDE DEF f, all, years
  <2> QED  BY <1>3, <1>4, <1>7, <1>8, SumZeros
<1>10. SumFunctionOnSet(g, years) = SumFunctionOnSet(f, years)
  <2>1. \A y \in years : g[y] \in Int /\ g[y] = f[y]
    BY <1>3, <1>6, <1>8
  <2> HIDE DEF f, g, all, years
  <2> QED  BY <1>4, <2>1, SumSame
<1>11. first \in years
  <2>1. first <= last
    <3> SUFFICES ASSUME last < first PROVE FALSE
      BY <1>3
    <3>1. last + 1 \in Nat /\ FirstYear <= last + 1 /\ last + 1 <= first
      BY <1>1, <1>2, <1>3
    <3>2. YearStart(last + 1) <= YearStart(first) /\ YearStart(last + 1) \in Nat /\ YearStart(first) \in Nat
      BY <1>3, <3>1, YearsAscend, YearFacts
    <3> QED
      BY <1>2, <3>2
  <2> QED
    BY <1>3, <2>1
<1>12. f[first] > 0
  <2>1. /\ g[first] = f[first]
        /\ 0 < Least(until, YearStart(first + 1)) - Greatest(from, YearStart(first))
    BY <1>6, <1>11
  <2>2. f[first] = Rate(first) * Overlap(first, from, until)
    BY <1>3 DEF YearParts
  <2> DEFINE d == Least(until, YearStart(first + 1)) - Greatest(from, YearStart(first))
  <2>3. Overlap(first, from, until) = Greatest(0, d)
    BY DEF Overlap
  <2>4. d \in Int
    <3>1. YearStart(first + 1) \in Nat /\ YearStart(first) \in Nat
      BY <1>3, YearFacts
    <3> QED
      BY <3>1 DEF Least, Greatest
  <2> HIDE DEF d, f, g
  <2>5. Overlap(first, from, until) = d /\ d > 0
    BY <2>1, <2>3, <2>4 DEF Greatest, d
  <2>6. Rate(first) \in {365, 366}
    BY <1>3, RateFacts
  <2> QED
    BY <2>2, <2>4, <2>5, <2>6
<1> HIDE DEF f, g, all, years
<1> QED
  BY <1>3, <1>5, <1>9, <1>10, <1>12 DEF f, all

-----------------------------------------------------------------------------
(* Horizons in two parts.                                                  *)

LEMMA FractionAdds ==
  ASSUME NEW from \in Nat, NEW cut \in Nat, NEW until \in Nat, from < cut, cut < until, NEW conv
  PROVE  /\ YearFraction(from, until, conv) = YearFraction(from, cut, conv) + YearFraction(cut, until, conv)
         /\ YearFraction(from, cut, conv) \in Nat \ {0}
         /\ YearFraction(cut, until, conv) \in Nat \ {0}
<1>1. CASE conv = "ACTUAL_365_FIXED"
  <2>1. /\ YearFraction(from, until, conv) = 366 * (until - from)
        /\ YearFraction(from, cut, conv) = 366 * (cut - from)
        /\ YearFraction(cut, until, conv) = 366 * (until - cut)
    BY <1>1 DEF YearFraction
  <2> QED
    BY <2>1
<1>2. CASE conv # "ACTUAL_365_FIXED"
  <2> DEFINE top == FirstYear + until
             all == YearsTo(top)
             f == YearParts(top, from, cut)
             g == YearParts(top, cut, until)
             h == YearParts(top, from, until)
  <2>1. FirstYear \in Nat /\ top \in Nat /\ FirstYear + cut <= top /\ FirstYear + until <= top
    BY YieldAssumption
  <2>2. IsFiniteSet(all)
    BY <2>1, FS_Interval DEF YearsTo
  <2>3. \A y \in all : f[y] \in Nat /\ g[y] \in Nat /\ h[y] = f[y] + 1 * g[y]
    <3> SUFFICES ASSUME NEW y \in all PROVE f[y] \in Nat /\ g[y] \in Nat /\ h[y] = f[y] + 1 * g[y]
      OBVIOUS
    <3>1. from <= cut /\ cut <= until /\ cut <= cut
      OBVIOUS
    <3>2. f[y] \in Nat
      BY <2>1, <3>1, PartFacts
    <3>3. g[y] \in Nat
      BY <2>1, <3>1, PartFacts
    <3>4. h[y] = f[y] + 1 * g[y]
      BY <2>1, <3>1, PartFacts
    <3> QED
      BY <3>2, <3>3, <3>4
  <2>4. /\ YearFraction(from, cut, conv) = SumFunctionOnSet(f, all)
        /\ \E y \in all : f[y] > 0
    BY <1>2, <2>1, FractionIsSum
  <2>5. /\ YearFraction(cut, until, conv) = SumFunctionOnSet(g, all)
        /\ \E y \in all : g[y] > 0
    BY <1>2, <2>1, FractionIsSum
  <2>6. YearFraction(from, until, conv) = SumFunctionOnSet(h, all)
    <3>1. from < until
      OBVIOUS
    <3> QED
      BY <1>2, <2>1, <3>1, FractionIsSum
  <2> HIDE DEF f, g, h, all
  <2>7. SumFunctionOnSet(h, all) = SumFunctionOnSet(f, all) + 1 * SumFunctionOnSet(g, all)
    <3>1. Linear(all, f, g, h, 1)
      BY <2>2, <2>3 DEF Linear
    <3> QED  BY <3>1, SumLinear
  <2>8. SumFunctionOnSet(f, all) \in Nat \ {0}
    BY <2>2, <2>3, <2>4, SumPositive
  <2>9. SumFunctionOnSet(g, all) \in Nat \ {0}
    BY <2>2, <2>3, <2>5, SumPositive
  <2> QED
    BY <2>4, <2>5, <2>6, <2>7, <2>8, <2>9
<1> QED
  BY <1>1, <1>2

LEMMA FractionPositive ==
  ASSUME NEW from \in Nat, NEW until \in Nat, from < until, NEW conv
  PROVE  YearFraction(from, until, conv) \in Nat \ {0}
<1>1. /\ from \in Nat /\ until \in Nat /\ until + 1 \in Nat /\ from < until /\ until < until + 1
  OBVIOUS
<1> QED
  BY <1>1, FractionAdds

(* What is known of the inputs.                                            *)
AnyMetric == UNION {MetricInputs(id) : id \in Ids}

MetricsTyped(m) == m \in [Ids -> AnyMetric] /\ \A id \in Ids : m[id] \in MetricInputs(id)

LEMMA MetricFacts ==
  ASSUME NEW m, MetricsTyped(m), NEW id \in Ids, HasValue(m[id])
  PROVE  m[id].value \in Int /\ Plausible(id, m[id].value)
<1>1. m[id] \in MetricInputs(id)
  BY DEF MetricsTyped
<1>2. CASE m[id] \in {[status |-> s, value |-> v] : s \in Statuses \cap Observed, v \in {f \in Figures : Plausible(id, f)}}
  <2>1. PICK s \in Statuses \cap Observed, v \in {f \in Figures : Plausible(id, f)} : m[id] = [status |-> s, value |-> v]
    BY <1>2
  <2>2. m[id].value = v
    BY <2>1
  <2> QED
    BY <2>2, YieldAssumption
<1>3. CASE m[id] \in {[status |-> s] : s \in Statuses \ Observed}
  BY <1>3 DEF HasValue
<1> QED
  BY <1>1, <1>2, <1>3 DEF MetricInputs

LEMMA ActiveFacts ==
  ASSUME NEW id \in DOMAIN Components, NEW from \in Nat, NEW cut \in Nat, NEW until \in Nat,
         from <= cut, cut <= until
  PROVE  /\ ActiveDays(Components[id], from, until) \in Nat
         /\ ActiveDays(Components[id], from, until) =
              ActiveDays(Components[id], from, cut) + ActiveDays(Components[id], cut, until)
<1> DEFINE c == Components[id]
<1>1. c.incentive \in BOOLEAN /\ c.from \in Nat \cup {-1} /\ c.until \in Nat \cup {-1}
  BY YieldAssumption DEF Always
<1> HIDE DEF c
<1>2. CASE ~c.incentive
  BY <1>2 DEF ActiveDays, c
<1>3. CASE c.incentive
  <2> DEFINE Days2(a, b, x, y) ==
               LET start == IF x = -1 THEN a ELSE IF a > x THEN a ELSE x
                   end   == IF y = -1 THEN b ELSE IF b < y THEN b ELSE y
               IN IF end <= start THEN 0 ELSE end - start
  <2>1. \A a, b \in Nat : ActiveDays(c, a, b) = Days2(a, b, c.from, c.until)
    BY <1>3 DEF ActiveDays, Always, Greatest, Least
  <2>2. ASSUME NEW x \in Nat \cup {-1}, NEW y \in Nat \cup {-1}
        PROVE  /\ Days2(from, until, x, y) \in Nat
               /\ Days2(from, until, x, y) = Days2(from, cut, x, y) + Days2(cut, until, x, y)
    OBVIOUS
  <2> HIDE DEF Days2
  <2> QED
    BY <1>1, <2>1, <2>2 DEF c
<1> QED
  BY <1>1, <1>2, <1>3

Earned(m, from, until) ==
  [id \in Known(m, DOMAIN Components) |-> m[id].value * ActiveDays(Components[id], from, until)]

LEMMA KnownFinite ==
  ASSUME NEW m, NEW S \in SUBSET Ids
  PROVE  IsFiniteSet(Known(m, S)) /\ Known(m, S) \subseteq S
<1>1. Known(m, S) \subseteq S
  BY DEF Known
<1> QED
  BY <1>1, YieldAssumption, FS_Subset

LEMMA ComponentsAreIds == DOMAIN Components \in SUBSET Ids /\ DOMAIN Fees \in SUBSET Ids /\ Costs \in SUBSET Ids
BY DEF Ids

LEMMA GrossAdds ==
  ASSUME NEW m, MetricsTyped(m), NEW h, NEW first, NEW second,
         h.from \in Nat, h.until \in Nat, first.from = h.from, first.until \in Nat,
         second.from = first.until, second.until = h.until,
         h.from <= first.until, first.until <= h.until
  PROVE  Gross(m, h) = Gross(m, first) + Gross(m, second)
<1> DEFINE ids == Known(m, DOMAIN Components)
           e == [id \in ids |-> Effective(m, id, h)]
           f == [id \in ids |-> Effective(m, id, first)]
           g == [id \in ids |-> Effective(m, id, second)]
<1>1. IsFiniteSet(ids) /\ ids \subseteq DOMAIN Components
  BY KnownFinite, ComponentsAreIds
<1>2. \A id \in ids : f[id] \in Int /\ g[id] \in Int /\ e[id] = f[id] + 1 * g[id]
  <2> SUFFICES ASSUME NEW id \in ids PROVE f[id] \in Int /\ g[id] \in Int /\ e[id] = f[id] + 1 * g[id]
    OBVIOUS
  <2>1. id \in DOMAIN Components /\ id \in Ids /\ HasValue(m[id])
    BY <1>1, ComponentsAreIds DEF Known
  <2>2. m[id].value \in Int
    BY <2>1, MetricFacts
  <2> DEFINE c == Components[id]
             x == ActiveDays(c, h.from, first.until)
             y == ActiveDays(c, first.until, h.until)
             v == m[id].value
  <2>3. ActiveDays(c, h.from, h.until) = x + y
    BY <2>1, ActiveFacts
  <2>4. x \in Nat
    <3>1. first.until <= first.until
      OBVIOUS
    <3> QED
      BY <2>1, <3>1, ActiveFacts
  <2>5. y \in Nat
    <3>1. first.until <= first.until
      OBVIOUS
    <3> QED
      BY <2>1, <3>1, ActiveFacts
  <2>6. e[id] = v * ActiveDays(c, h.from, h.until) /\ f[id] = v * x /\ g[id] = v * y
    BY DEF Effective
  <2> HIDE DEF x, y, v, c, e, f, g
  <2>7. ASSUME NEW p \in Int, NEW q \in Nat, NEW r \in Nat
        PROVE  p * q \in Int /\ p * r \in Int /\ p * (q + r) = p * q + 1 * (p * r)
    OBVIOUS
  <2>8. v \in Int
    BY <2>2 DEF v
  <2> QED
    BY <2>3, <2>4, <2>5, <2>6, <2>7, <2>8
<1>3. /\ Gross(m, h) = SumFunctionOnSet(e, ids) /\ Gross(m, first) = SumFunctionOnSet(f, ids)
      /\ Gross(m, second) = SumFunctionOnSet(g, ids)
  BY DEF Gross, SumFunction
<1> HIDE DEF e, f, g, ids
<1>4. SumFunctionOnSet(e, ids) = SumFunctionOnSet(f, ids) + 1 * SumFunctionOnSet(g, ids)
  <2>1. Linear(ids, f, g, e, 1)
    BY <1>1, <1>2 DEF Linear
  <2> QED  BY <2>1, SumLinear
<1>5. SumFunctionOnSet(g, ids) \in Int
  <2>1. ids \in SUBSET ids /\ \A id \in ids : g[id] \in Int
    BY <1>2
  <2> QED
    BY <1>1, <2>1, SumInt
<1> QED
  BY <1>3, <1>4, <1>5

-----------------------------------------------------------------------------
(* Fees and costs.                                                         *)

(* More is known of m1 than of m, and nothing that is less.                *)
Raised(m, m1, ids, ids1) ==
  /\ ids \in SUBSET (Ids \ DOMAIN Components) /\ ids1 \in SUBSET (Ids \ DOMAIN Components)
  /\ ids \subseteq ids1
  /\ \A id \in ids : HasValue(m[id]) /\ m[id].value <= m1[id].value
  /\ \A id \in ids1 : HasValue(m1[id])

LEMMA TotalIsSumOf ==
  ASSUME NEW m, MetricsTyped(m), NEW ids \in SUBSET (Ids \ DOMAIN Components), \A id \in ids : HasValue(m[id])
  PROVE  /\ IsFiniteSet(ids) /\ \A id \in ids : m[id].value \in Nat
         /\ TotalOf(m, ids) = SumFunctionOnSet([id \in ids |-> m[id].value], ids)
         /\ TotalOf(m, ids) \in Nat
<1> DEFINE f == [id \in ids |-> m[id].value]
<1>1. IsFiniteSet(ids)
  BY YieldAssumption, FS_Subset
<1>2. \A id \in ids : m[id].value \in Nat
  <2> SUFFICES ASSUME NEW id \in ids PROVE m[id].value \in Nat
    OBVIOUS
  <2>1. m[id].value \in Int /\ Plausible(id, m[id].value)
    BY MetricFacts
  <2> QED
    BY <2>1 DEF Plausible
<1>3. TotalOf(m, ids) = SumFunctionOnSet(f, ids)
  BY DEF TotalOf, SumFunction
<1>4. SumFunctionOnSet(f, ids) \in Nat
  <2>1. \A id \in ids : f[id] \in Nat /\ f[id] \in Int
    BY <1>2
  <2>2. ids \in SUBSET ids
    OBVIOUS
  <2> HIDE DEF f
  <2>3. SumFunctionOnSet(f, ids) \in Int /\ 0 <= SumFunctionOnSet(f, ids)
    BY <1>1, <2>1, <2>2, SumInt, SumGrows
  <2> QED
    BY <2>3
<1> QED
  BY <1>1, <1>2, <1>3, <1>4

LEMMA TotalRises ==
  ASSUME NEW m, MetricsTyped(m), NEW m1, MetricsTyped(m1), NEW ids, NEW ids1, Raised(m, m1, ids, ids1)
  PROVE  TotalOf(m, ids) \in Nat /\ TotalOf(m1, ids1) \in Nat /\ TotalOf(m, ids) <= TotalOf(m1, ids1)
<1> DEFINE f == [id \in ids |-> m[id].value]
           g == [id \in ids1 |-> m1[id].value]
<1>1. /\ ids \in SUBSET (Ids \ DOMAIN Components) /\ ids1 \in SUBSET (Ids \ DOMAIN Components)
      /\ ids \subseteq ids1
      /\ \A id \in ids : HasValue(m[id]) /\ m[id].value <= m1[id].value
      /\ \A id \in ids1 : HasValue(m1[id])
  BY DEF Raised
<1>2. /\ IsFiniteSet(ids) /\ \A id \in ids : m[id].value \in Nat
      /\ TotalOf(m, ids) = SumFunctionOnSet(f, ids) /\ TotalOf(m, ids) \in Nat
  BY <1>1, TotalIsSumOf
<1>3. /\ IsFiniteSet(ids1) /\ \A id \in ids1 : m1[id].value \in Nat
      /\ TotalOf(m1, ids1) = SumFunctionOnSet(g, ids1) /\ TotalOf(m1, ids1) \in Nat
  BY <1>1, TotalIsSumOf
<1>4. SumFunctionOnSet(f, ids) <= SumFunctionOnSet(g, ids)
  <2>1. \A id \in ids : f[id] \in Int /\ g[id] \in Int /\ f[id] <= g[id]
    BY <1>1, <1>2, <1>3
  <2> HIDE DEF f, g
  <2> QED  BY <1>2, <2>1, SumMonotone
<1>5. SumFunctionOnSet(g, ids) <= SumFunctionOnSet(g, ids1) /\ SumFunctionOnSet(g, ids) \in Int
  <2>1. (\A id \in ids1 : g[id] \in Nat /\ g[id] \in Int) /\ ids \in SUBSET ids1
    BY <1>1, <1>3
  <2> HIDE DEF g
  <2> QED  BY <1>3, <2>1, SumGrows, SumInt
<1> QED
  BY <1>2, <1>3, <1>4, <1>5

LEMMA HorizonFacts ==
  ASSUME NEW h \in Horizons
  PROVE  h.from \in Nat /\ h.until \in Nat /\ h.from < h.until /\ h.from <= h.until /\ h.until <= h.until
<1>1. h \in [from : Days, until : Days] /\ h.from < h.until
  BY DEF Horizons
<1>2. h.from \in Days /\ h.until \in Days /\ Days \subseteq Nat
  BY <1>1, YieldAssumption
<1>3. h.from \in Nat /\ h.until \in Nat
  BY <1>2
<1> QED
  BY <1>1, <1>3

LEMMA FeeBasePositive ==
  ASSUME NEW m, MetricsTyped(m), NEW h \in Horizons
  PROVE  FeeBase(m, h) \in Nat
<1> DEFINE ids == FeeEligible(m)
           f == [id \in ids |-> Greatest(0, Effective(m, id, h))]
<1>1. IsFiniteSet(ids) /\ ids \subseteq Known(m, DOMAIN Components)
  <2>1. IsFiniteSet(Known(m, DOMAIN Components))
    BY KnownFinite, ComponentsAreIds
  <2>2. ids \subseteq Known(m, DOMAIN Components)
    BY DEF FeeEligible
  <2> QED
    BY <2>1, <2>2, FS_Subset
<1>2. \A id \in ids : f[id] \in Nat
  <2> SUFFICES ASSUME NEW id \in ids PROVE f[id] \in Nat
    OBVIOUS
  <2>1. id \in DOMAIN Components /\ id \in Ids /\ HasValue(m[id])
    BY <1>1, ComponentsAreIds DEF Known
  <2>2. m[id].value \in Int
    BY <2>1, MetricFacts
  <2>3. ActiveDays(Components[id], h.from, h.until) \in Nat
    <3>1. h.from \in Nat /\ h.until \in Nat /\ h.from <= h.until /\ h.until <= h.until
      BY HorizonFacts
    <3> QED
      BY <2>1, <3>1, ActiveFacts
  <2>4. Effective(m, id, h) \in Int
    BY <2>2, <2>3 DEF Effective
  <2> QED
    BY <2>4 DEF Greatest
<1>3. FeeBase(m, h) = SumFunctionOnSet(f, ids)
  BY DEF FeeBase, SumFunction
<1> HIDE DEF f, ids
<1>4. SumFunctionOnSet(f, ids) \in Int /\ 0 <= SumFunctionOnSet(f, ids)
  <2>1. ids \in SUBSET ids /\ \A id \in ids : f[id] \in Int
    BY <1>2
  <2> QED
    BY <1>1, <1>2, <2>1, SumInt, SumGrows
<1> QED
  BY <1>3, <1>4

LEMMA GrossInt ==
  ASSUME NEW m, MetricsTyped(m), NEW h \in Horizons
  PROVE  Gross(m, h) \in Int
<1> DEFINE ids == Known(m, DOMAIN Components)
           f == [id \in ids |-> Effective(m, id, h)]
<1>1. IsFiniteSet(ids) /\ ids \subseteq DOMAIN Components
  BY KnownFinite, ComponentsAreIds
<1>2. \A id \in ids : f[id] \in Int
  <2> SUFFICES ASSUME NEW id \in ids PROVE f[id] \in Int
    OBVIOUS
  <2>1. id \in DOMAIN Components /\ id \in Ids /\ HasValue(m[id])
    BY <1>1, ComponentsAreIds DEF Known
  <2>2. m[id].value \in Int
    BY <2>1, MetricFacts
  <2>3. ActiveDays(Components[id], h.from, h.until) \in Nat
    <3>1. h.from \in Nat /\ h.until \in Nat /\ h.from <= h.until /\ h.until <= h.until
      BY HorizonFacts
    <3> QED
      BY <2>1, <3>1, ActiveFacts
  <2> QED
    BY <2>2, <2>3 DEF Effective
<1>3. Gross(m, h) = SumFunctionOnSet(f, ids)
  BY DEF Gross, SumFunction
<1> HIDE DEF f, ids
<1>4. SumFunctionOnSet(f, ids) \in Int
  <2>1. ids \in SUBSET ids
    OBVIOUS
  <2> QED
    BY <1>1, <1>2, <2>1, SumInt
<1> QED
  BY <1>3, <1>4

(* A cost spread over a year or more of them.                              *)
LEMMA AnnualizedFacts ==
  ASSUME NEW cost \in Nat, NEW fraction \in Nat \ {0}
  PROVE  /\ Annualized(cost, fraction) \in Int
         /\ \A more \in Nat : cost <= more => Annualized(cost, fraction) <= Annualized(more, fraction)
         /\ \A longer \in Nat : fraction <= longer => Annualized(cost, longer) <= Annualized(cost, fraction)
<1> DEFINE Scaled(x) == x * 100 * 365 * 366
           d == Capital * fraction
<1>1. Capital \in Nat \ {0}
  BY YieldAssumption
<1>2. ASSUME NEW x \in Nat, NEW y \in Nat, x <= y PROVE Scaled(x) \in Nat /\ Scaled(x) <= Scaled(y)
  BY <1>2
<1>3. d \in Nat \ {0}
  BY <1>1
<1>4. \A x : Annualized(x, fraction) = Scaled(x) \div d
  BY DEF Annualized
<1>5. \A longer : Annualized(cost, longer) = Scaled(cost) \div (Capital * longer)
  BY DEF Annualized
<1>6. Scaled(cost) \in Nat
  BY <1>2
<1> HIDE DEF Scaled, d
<1>7. Annualized(cost, fraction) \in Int
  BY <1>3, <1>4, <1>6, Quotient
<1>8. ASSUME NEW more \in Nat, cost <= more PROVE Annualized(cost, fraction) <= Annualized(more, fraction)
  <2>1. Scaled(cost) <= Scaled(more) /\ Scaled(cost) \in Int /\ Scaled(more) \in Int
    <3>1. Scaled(more) \in Nat
      BY <1>2
    <3> QED
      BY <1>2, <1>8, <3>1
  <2>2. Scaled(cost) \div d <= Scaled(more) \div d
    BY <1>3, <2>1, QuotientMonotone
  <2> QED
    BY <1>4, <2>2
<1>9. ASSUME NEW longer \in Nat, fraction <= longer PROVE Annualized(cost, longer) <= Annualized(cost, fraction)
  <2> DEFINE e == Capital * longer
             a == Scaled(cost)
             q == a \div d
  <2>1. e \in Nat \ {0} /\ d <= e
    <3>1. longer \in Nat \ {0}
      BY <1>9
    <3> QED
      BY <1>1, <1>9, <3>1 DEF d
  <2>2. q \in Int /\ a < d * q + d /\ 0 <= q
    <3>1. 0 * d <= a /\ 0 \in Int /\ a \in Int
      BY <1>3, <1>6
    <3> QED
      BY <1>3, <3>1, Quotient, QuotientBounds
  <2>3. a \div e \in Int /\ e * (a \div e) <= a
    BY <1>6, <2>1, Quotient
  <2> DEFINE p == a \div e
  <2> HIDE DEF a, e, q, p
  <2>4. p <= q
    <3> SUFFICES ASSUME q + 1 <= p PROVE FALSE
      BY <2>2, <2>3 DEF p
    <3>1. d * (q + 1) <= e * p
      BY <1>3, <2>1, <2>2, <2>3, ProductMonotone DEF p
    <3>2. d * (q + 1) = d * q + d /\ d * q \in Int
      BY <1>3, <2>2
    <3>3. a \in Int /\ e * p \in Int
      BY <1>6, <2>1, <2>3 DEF a, p
    <3> QED
      BY <1>3, <2>2, <2>3, <3>1, <3>2, <3>3 DEF p
  <2> QED
    BY <1>4, <1>5, <2>4 DEF p, q, a, e
<1> QED
  BY <1>7, <1>8, <1>9

-----------------------------------------------------------------------------
(* Inputs are what may be known of them, and the horizon is one.           *)

YieldInv ==
  /\ MetricsTyped(metric) /\ horizon \in Horizons
  /\ convention \in {"ACTUAL_365_FIXED", "ACTUAL_ACTUAL_ISDA"}

LEMMA YieldStarts == YieldInit => YieldInv
<1> SUFFICES ASSUME YieldInit PROVE YieldInv
  OBVIOUS
<1>1. \A id \in Ids : [status |-> "UNKNOWN"] \in MetricInputs(id)
  <2>1. "UNKNOWN" \in Statuses \ Observed
    BY YieldAssumption DEF Observed
  <2> QED
    BY <2>1 DEF MetricInputs
<1>2. MetricsTyped(metric)
  BY <1>1 DEF YieldInit, MetricsTyped, AnyMetric
<1> QED
  BY <1>2 DEF YieldInit, YieldInv

LEMMA YieldStep ==
  ASSUME YieldInv, [YieldNext]_yieldVars
  PROVE  YieldInv'
<1>1. CASE UNCHANGED yieldVars
  BY <1>1 DEF YieldInv, yieldVars, MetricsTyped
<1>2. CASE Reschedule
  BY <1>2 DEF YieldInv, Reschedule, MetricsTyped
<1>3. ASSUME NEW id \in Ids, Amend(id) PROVE YieldInv'
  <2>1. PICK m \in MetricInputs(id) : metric' = [metric EXCEPT ![id] = m]
    BY <1>3 DEF Amend
  <2>2. m \in AnyMetric
    BY DEF AnyMetric
  <2>3. MetricsTyped(metric')
    BY <2>1, <2>2 DEF YieldInv, MetricsTyped
  <2> QED
    BY <1>3, <2>3 DEF YieldInv, Amend
<1> QED
  BY <1>1, <1>2, <1>3 DEF YieldNext

LEMMA HorizonsHold == YieldInv => HorizonsAdd
<1> SUFFICES ASSUME YieldInv, NEW cut \in Days \cap (horizon.from + 1 .. horizon.until - 1)
             PROVE  LET first  == [horizon EXCEPT !.until = cut]
                        second == [horizon EXCEPT !.from = cut]
                    IN /\ YearFraction(horizon.from, horizon.until, convention)
                            = YearFraction(first.from, cut, convention) + YearFraction(cut, second.until, convention)
                       /\ Gross(metric, horizon) = Gross(metric, first) + Gross(metric, second)
  BY DEF HorizonsAdd
<1> DEFINE first  == [horizon EXCEPT !.until = cut]
           second == [horizon EXCEPT !.from = cut]
<1>1. /\ horizon \in [from : Days, until : Days] /\ horizon.from \in Nat /\ horizon.until \in Nat
      /\ horizon.from < horizon.until
  BY HorizonFacts DEF YieldInv, Horizons
<1>2. /\ first.from = horizon.from /\ first.until = cut
      /\ second.from = cut /\ second.until = horizon.until
  BY <1>1
<1>3. cut \in Nat /\ horizon.from < cut /\ cut < horizon.until
  BY <1>1, YieldAssumption
<1> HIDE DEF first, second
<1>4. YearFraction(horizon.from, horizon.until, convention)
        = YearFraction(first.from, cut, convention) + YearFraction(cut, second.until, convention)
  BY <1>1, <1>2, <1>3, FractionAdds
<1>5. Gross(metric, horizon) = Gross(metric, first) + Gross(metric, second)
  <2>1. horizon.from <= first.until /\ first.until <= horizon.until /\ first.until \in Nat
    BY <1>1, <1>2, <1>3
  <2> QED
    BY <1>1, <1>2, <2>1, GrossAdds DEF YieldInv
<1> QED
  BY <1>4, <1>5 DEF first, second

LEMMA HorizonsDilute ==
  ASSUME YieldInv, YieldInv', [YieldNext]_yieldVars
  PROVE  LongerHorizonsDilute
<1> SUFFICES ASSUME horizon.until < horizon'.until, horizon'.from = horizon.from, metric' = metric
             PROVE  CostRate(metric', horizon', convention') <= CostRate(metric, horizon, convention)
  BY DEF LongerHorizonsDilute
<1>1. convention' = convention
  BY DEF YieldNext, Reschedule, Amend, yieldVars
<1> DEFINE a == horizon.from
           b == horizon.until
           c == horizon'.until
           short == YearFraction(a, b, convention)
           long == YearFraction(a, c, convention)
<1>2. a \in Nat /\ b \in Nat /\ c \in Nat /\ a < b /\ b < c
  BY HorizonFacts DEF YieldInv
<1>3. short \in Nat \ {0} /\ long \in Nat /\ short <= long
  <2> HIDE DEF a, b, c
  <2>1. long = short + YearFraction(b, c, convention) /\ short \in Nat \ {0}
        /\ YearFraction(b, c, convention) \in Nat \ {0}
    BY <1>2, FractionAdds
  <2> HIDE DEF short, long
  <2> QED
    BY <2>1
<1>4. KnownCost(metric) \in Nat
  <2>1. Known(metric, Costs) \in SUBSET (Ids \ DOMAIN Components)
    BY YieldAssumption DEF Known, Ids
  <2>2. \A id \in Known(metric, Costs) : HasValue(metric[id])
    BY DEF Known
  <2> QED
    BY <2>1, <2>2, TotalIsSumOf DEF KnownCost, YieldInv
<1>5. /\ CostRate(metric, horizon, convention) = Annualized(KnownCost(metric), short)
      /\ CostRate(metric', horizon', convention') = Annualized(KnownCost(metric), long)
  BY <1>1 DEF CostRate
<1> HIDE DEF short, long
<1> QED
  BY <1>3, <1>4, <1>5, AnnualizedFacts

LEMMA FeesHold ==
  ASSUME YieldInv, YieldInv', [YieldNext]_yieldVars
  PROVE  FeesAndCostsOnlyLower
<1> SUFFICES ASSUME NEW id \in DOMAIN Fees \cup Costs,
                    metric'[id] # metric[id], HasValue(metric'[id]),
                    HasValue(metric[id]) => metric[id].value <= metric'[id].value,
                    \A other \in Ids \ {id} : metric'[other] = metric[other],
                    horizon' = horizon,
                    Result(metric, horizon, convention).status # "UNAVAILABLE"
             PROVE  /\ Result(metric', horizon', convention').known <= Result(metric, horizon, convention).known
                    /\ Result(metric', horizon', convention').missing =
                         Result(metric, horizon, convention).missing \ {id}
  BY DEF FeesAndCostsOnlyLower
<1> DEFINE m == metric
           m1 == metric'
           h == horizon
           fraction == YearFraction(h.from, h.until, convention)
           days == h.until - h.from
<1>1. convention' = convention
  BY DEF YieldNext, Reschedule, Amend, yieldVars
<1>2. id \in Ids /\ id \notin DOMAIN Components /\ MetricsTyped(m) /\ MetricsTyped(m1) /\ h \in Horizons
  BY YieldAssumption DEF Ids, YieldInv
<1>3. /\ \A S \in SUBSET Ids : id \notin S => Known(m1, S) = Known(m, S)
      /\ \A S \in SUBSET Ids : id \in S => Known(m1, S) = Known(m, S) \cup {id}
  BY DEF Known
<1>4. Known(m1, DOMAIN Components) = Known(m, DOMAIN Components)
  BY <1>2, <1>3, ComponentsAreIds
<1>5. \A c \in DOMAIN Components : m1[c] = m[c]
  BY <1>2, ComponentsAreIds
<1>6. Gross(m1, h) = Gross(m, h) /\ FeeBase(m1, h) = FeeBase(m, h)
  <2>1. [c \in Known(m1, DOMAIN Components) |-> Effective(m1, c, h)] =
          [c \in Known(m, DOMAIN Components) |-> Effective(m, c, h)]
    BY <1>4, <1>5 DEF Effective, Known
  <2>2. FeeEligible(m1) = FeeEligible(m)
    BY <1>4 DEF FeeEligible
  <2>3. [c \in FeeEligible(m1) |-> Greatest(0, Effective(m1, c, h))] =
          [c \in FeeEligible(m) |-> Greatest(0, Effective(m, c, h))]
    BY <1>5, <2>2 DEF Effective, FeeEligible, Known
  <2> QED
    BY <2>1, <2>3 DEF Gross, FeeBase
<1>7. /\ Raised(m, m1, KnownFees(m, "RECURRING"), KnownFees(m1, "RECURRING"))
      /\ Raised(m, m1, KnownFees(m, "PERFORMANCE"), KnownFees(m1, "PERFORMANCE"))
      /\ Raised(m, m1, Known(m, Costs), Known(m1, Costs))
  <2>1. \A other \in Ids : HasValue(m[other]) => HasValue(m1[other])
    <3> SUFFICES ASSUME NEW other \in Ids, HasValue(m[other]) PROVE HasValue(m1[other])
      OBVIOUS
    <3>1. CASE other = id
      BY <3>1
    <3>2. CASE other # id
      BY <3>2
    <3> QED
      BY <3>1, <3>2
  <2>2. \A other \in Ids \ DOMAIN Components : HasValue(m[other]) => m[other].value <= m1[other].value
    <3> SUFFICES ASSUME NEW other \in Ids \ DOMAIN Components, HasValue(m[other])
                 PROVE  m[other].value <= m1[other].value
      OBVIOUS
    <3>1. CASE other = id
      BY <3>1
    <3>2. CASE other # id
      <4>1. m1[other] = m[other] /\ m[other].value \in Int
        BY <1>2, <3>2, MetricFacts
      <4> QED
        BY <4>1
    <3> QED
      BY <3>1, <3>2
  <2>3. DOMAIN Fees \in SUBSET (Ids \ DOMAIN Components) /\ Costs \in SUBSET (Ids \ DOMAIN Components)
    BY YieldAssumption DEF Ids
  <2>4. ASSUME NEW S, NEW S1, S \in SUBSET (Ids \ DOMAIN Components), S1 \in SUBSET (Ids \ DOMAIN Components),
               S \subseteq S1, \A x \in S : HasValue(m[x]), \A x \in S1 : HasValue(m1[x])
        PROVE  Raised(m, m1, S, S1)
    <3> HIDE DEF m, m1
    <3> QED  BY <2>2, <2>4 DEF Raised
  <2>5. Raised(m, m1, Known(m, Costs), Known(m1, Costs))
    <3>1. /\ Known(m, Costs) \in SUBSET (Ids \ DOMAIN Components)
          /\ Known(m1, Costs) \in SUBSET (Ids \ DOMAIN Components)
          /\ Known(m, Costs) \subseteq Known(m1, Costs)
          /\ \A x \in Known(m, Costs) : HasValue(m[x])
          /\ \A x \in Known(m1, Costs) : HasValue(m1[x])
      <4> HIDE DEF m, m1
      <4> QED  BY <2>1, <2>3 DEF Known
    <3> HIDE DEF m, m1
    <3> QED  BY <2>4, <3>1
  <2>6. ASSUME NEW kind PROVE Raised(m, m1, KnownFees(m, kind), KnownFees(m1, kind))
    <3>1. /\ KnownFees(m, kind) \in SUBSET (Ids \ DOMAIN Components)
          /\ KnownFees(m1, kind) \in SUBSET (Ids \ DOMAIN Components)
          /\ KnownFees(m, kind) \subseteq KnownFees(m1, kind)
          /\ \A x \in KnownFees(m, kind) : HasValue(m[x])
          /\ \A x \in KnownFees(m1, kind) : HasValue(m1[x])
      <4> HIDE DEF m, m1
      <4> QED  BY <2>1, <2>3 DEF Known, KnownFees
    <3> HIDE DEF m, m1
    <3> QED  BY <2>4, <3>1
  <2> QED
    BY <2>5, <2>6
<1>8. /\ RecurringFees(m) \in Nat /\ RecurringFees(m1) \in Nat /\ RecurringFees(m) <= RecurringFees(m1)
      /\ PerformanceRate(m) \in Nat /\ PerformanceRate(m1) \in Nat /\ PerformanceRate(m) <= PerformanceRate(m1)
      /\ KnownCost(m) \in Nat /\ KnownCost(m1) \in Nat /\ KnownCost(m) <= KnownCost(m1)
  <2> HIDE DEF m, m1
  <2> QED  BY <1>2, <1>7, TotalRises DEF RecurringFees, PerformanceRate, KnownCost
<1>9. fraction \in Nat \ {0} /\ days \in Nat
  BY <1>2, HorizonFacts, FractionPositive
<1>10. /\ CostRate(m, h, convention) = Annualized(KnownCost(m), fraction)
       /\ CostRate(m1, h, convention) = Annualized(KnownCost(m1), fraction)
  BY DEF CostRate
<1>11. FeeBase(m, h) \in Nat /\ Gross(m, h) \in Int
  BY <1>2, FeeBasePositive, GrossInt
<1> HIDE DEF m, m1, h, fraction, days
<1>12. /\ CostRate(m, h, convention) \in Int /\ CostRate(m1, h, convention) \in Int
       /\ CostRate(m, h, convention) <= CostRate(m1, h, convention)
  BY <1>8, <1>9, <1>10, AnnualizedFacts
<1>13. KnownNet(m1, h, convention) <= KnownNet(m, h, convention)
  <2>1. /\ KnownNet(m, h, convention) =
             100 * Gross(m, h) - 100 * days * RecurringFees(m) - PerformanceRate(m) * FeeBase(m, h)
               - 100 * days * CostRate(m, h, convention)
        /\ KnownNet(m1, h, convention) =
             100 * Gross(m, h) - 100 * days * RecurringFees(m1) - PerformanceRate(m1) * FeeBase(m, h)
               - 100 * days * CostRate(m1, h, convention)
    BY <1>6 DEF KnownNet, days
  <2>2. 100 * days \in Nat
    BY <1>9
  <2>3. ASSUME NEW k \in Nat, NEW x \in Int, NEW y \in Int, x <= y
        PROVE  k * x <= k * y /\ k * x \in Int /\ k * y \in Int /\ x * k <= y * k /\ x * k \in Int /\ y * k \in Int
    BY <2>3
  <2>4. /\ 100 * days * RecurringFees(m) <= 100 * days * RecurringFees(m1)
        /\ 100 * days * RecurringFees(m) \in Int /\ 100 * days * RecurringFees(m1) \in Int
    BY <1>8, <2>2, <2>3
  <2>5. /\ 100 * days * CostRate(m, h, convention) <= 100 * days * CostRate(m1, h, convention)
        /\ 100 * days * CostRate(m, h, convention) \in Int /\ 100 * days * CostRate(m1, h, convention) \in Int
    BY <1>12, <2>2, <2>3
  <2>6. /\ PerformanceRate(m) * FeeBase(m, h) <= PerformanceRate(m1) * FeeBase(m, h)
        /\ PerformanceRate(m) * FeeBase(m, h) \in Int /\ PerformanceRate(m1) * FeeBase(m, h) \in Int
    BY <1>8, <1>11, <2>3
  <2>7. 100 * Gross(m, h) \in Int
    BY <1>11
  <2>8. ASSUME NEW g \in Int, NEW a \in Int, NEW a1 \in Int, NEW b \in Int, NEW b1 \in Int,
               NEW c \in Int, NEW c1 \in Int, a <= a1, b <= b1, c <= c1
        PROVE  g - a1 - b1 - c1 <= g - a - b - c
    BY <2>8
  <2> QED
    BY <2>1, <2>4, <2>5, <2>6, <2>7, <2>8
<1>14. Known(m, DOMAIN Components) # {}
  BY DEF Result, m, h
<1>15. /\ Result(m, h, convention).known = KnownNet(m, h, convention)
       /\ Result(m, h, convention).missing = {x \in Ids : ~HasValue(m[x])}
       /\ Result(m1, h, convention).known = KnownNet(m1, h, convention)
       /\ Result(m1, h, convention).missing = {x \in Ids : ~HasValue(m1[x])}
  BY <1>4, <1>14 DEF Result
<1>16. {x \in Ids : ~HasValue(m1[x])} = {x \in Ids : ~HasValue(m[x])} \ {id}
  BY DEF m, m1
<1> QED
  BY <1>1, <1>13, <1>15, <1>16 DEF m, m1, h

(* What the property says of one step.                                     *)
LEMMA YieldStepSound ==
  YieldInv /\ YieldInv' /\ [YieldNext]_yieldVars =>
    [HorizonsAdd' /\ FeesAndCostsOnlyLower /\ LongerHorizonsDilute]_yieldVars
<1> SUFFICES ASSUME YieldInv, YieldInv', [YieldNext]_yieldVars
             PROVE  HorizonsAdd' /\ FeesAndCostsOnlyLower /\ LongerHorizonsDilute
  OBVIOUS
<1>1. HorizonsAdd'
  BY HorizonsHold, PTL
<1> QED
  BY <1>1, FeesHold, HorizonsDilute

(* The net yield of a route moves the way a reader of it expects: a        *)
(* horizon is the sum of its parts, no fee or cost that is learned or      *)
(* raised improves the result, and longer horizons dilute one-time costs   *)
(* (yield-engine/src/index.ts).                                            *)
THEOREM YieldsStayMonotone == YieldSpec => YieldsAreMonotone
<1>1. YieldInit => YieldInv
  BY YieldStarts
<1>2. YieldInv /\ [YieldNext]_yieldVars => YieldInv'
  BY YieldStep
<1> QED
  BY <1>1, <1>2, YieldStepSound, PTL DEF YieldSpec, YieldsAreMonotone

-----------------------------------------------------------------------------
(* The routing engine.  Least and greatest members of sets, and best ones. *)

(* A set of natural numbers has a least one.                               *)
LEMMA LeastNumber ==
  ASSUME NEW S \in SUBSET Nat, S # {}
  PROVE  \E n \in S : \A m \in S : n <= m
<1>1. PICK top : top \in S
  OBVIOUS
<1> DEFINE all == 0 .. top
           Bad == {0 .. n : n \in {m \in S : m <= top}}
<1>2. IsFiniteSet(all) /\ top \in Nat
  BY <1>1, FS_Interval
<1>3. Bad \subseteq SUBSET all /\ Bad # {}
  <2>1. top \in {m \in S : m <= top}
    BY <1>1, <1>2
  <2>2. 0 .. top \in Bad
    BY <2>1
  <2>3. ASSUME NEW T \in Bad PROVE T \in SUBSET all
    <3>1. PICK n \in S : n <= top /\ T = 0 .. n
      OBVIOUS
    <3> QED
      BY <1>2, <3>1
  <2> HIDE DEF Bad
  <2> QED
    BY <2>2, <2>3
<1>4. PICK T \in Bad : \A U \in Bad : U \subseteq T => U = T
  <2> HIDE DEF Bad, all
  <2> QED  BY <1>2, <1>3, Smallest
<1>5. PICK n \in S : n <= top /\ T = 0 .. n
  BY <1>4
<1>6. ASSUME NEW m \in S, m < n PROVE FALSE
  <2>1. 0 .. m \in Bad /\ 0 .. m \subseteq T
    BY <1>2, <1>5, <1>6
  <2>2. n \in T /\ n \notin 0 .. m
    BY <1>5, <1>6
  <2> QED
    BY <1>4, <2>1, <2>2
<1>7. \A m \in S : n <= m
  BY <1>5, <1>6
<1> QED
  BY <1>5, <1>7

(* A set of integers with a bound has a greatest one.                      *)
LEMMA GreatestOf ==
  ASSUME NEW S \in SUBSET Int, S # {}, NEW b \in Int, \A y \in S : y <= b
  PROVE  Max(S) \in S /\ \A y \in S : y <= Max(S)
<1> DEFINE Gaps == {b - y : y \in S}
<1>1. Gaps \in SUBSET Nat /\ Gaps # {}
  <2>1. \A y \in S : b - y \in Nat
    OBVIOUS
  <2> QED
    BY <2>1
<1>2. PICK n \in Gaps : \A m \in Gaps : n <= m
  <2> HIDE DEF Gaps
  <2> QED  BY <1>1, LeastNumber
<1>3. PICK x \in S : n = b - x
  BY <1>2
<1>4. \A y \in S : x >= y
  <2> SUFFICES ASSUME NEW y \in S PROVE x >= y
    OBVIOUS
  <2>1. b - y \in Gaps /\ y \in Int /\ x \in Int
    BY <1>3
  <2>2. b - x <= b - y
    BY <1>2, <1>3, <2>1
  <2> QED
    BY <2>1, <2>2
<1>5. \A y \in S : Max(S) >= y
  BY <1>3, <1>4 DEF Max
<1>6. Max(S) \in S
  BY <1>3, <1>4 DEF Max
<1> QED
  BY <1>5, <1>6

(* What is best is one of the choices, and no choice is worth more.        *)
LEMMA BestAmong == \A value : Best(value) \subseteq DOMAIN value
BY DEF Best

LEMMA BestIsBest ==
  ASSUME NEW value, \A x \in DOMAIN value : value[x] \in Int,
         NEW b \in Int, \A x \in DOMAIN value : value[x] <= b, NEW x \in Best(value)
  PROVE  \A y \in DOMAIN value : value[y] <= value[x]
<1>1. x \in DOMAIN value /\ value[x] = Max(Range(value))
  BY DEF Best
<1>2. Range(value) \in SUBSET Int /\ Range(value) # {} /\ \A y \in Range(value) : y <= b
  BY <1>1 DEF Range
<1>3. \A y \in Range(value) : y <= Max(Range(value))
  BY <1>2, GreatestOf
<1> QED
  BY <1>1, <1>3 DEF Range

-----------------------------------------------------------------------------
(* Requests.                                                               *)

(* A policy gives percentages for all that it limits.                      *)
LEMMA PolicyIn ==
  ASSUME NEW r \in Requests, NEW k \in 1 .. 13
  PROVE  PolicyOf(r.input)[PolicyCodes[k]] \in 0 .. 100
<1>1. DOMAIN PolicyCodes = 1 .. 13
  BY DEF PolicyCodes
<1>2. \A p \in DOMAIN ProfileConstraints : \A l \in 1 .. 13 : ProfileConstraints[p][l] \in 0 .. 100
  BY DEF ProfileConstraints
<1> DEFINE code == PolicyCodes[k]
<1>3. /\ code \in {PolicyCodes[l] : l \in DOMAIN PolicyCodes}
      /\ (CHOOSE l \in DOMAIN PolicyCodes : PolicyCodes[l] = code) \in 1 .. 13
  BY <1>1
<1>4. /\ r.input.profile \in DOMAIN ProfileConstraints
      /\ code \in DOMAIN r.input.overrides => r.input.overrides[code] \in 0 .. 100
  BY OptimizerAssumption
<1> QED
  BY <1>2, <1>3, <1>4 DEF PolicyOf

(* The limits of a policy, whatever they bound.                            *)
LEMMA Limits ==
  ASSUME NEW r \in Requests
  PROVE  /\ \A kind \in DOMAIN GroupCap : PolicyOf(r.input)[GroupCap[kind]] \in 0 .. 100
         /\ \A f \in DOMAIN FlagCap : PolicyOf(r.input)[FlagCap[f]] \in 0 .. 100
         /\ \A w \in DOMAIN Windows : PolicyOf(r.input)[Windows[w]] \in 0 .. 100
         /\ PolicyOf(r.input)["WEIGHTED_RISK_MAXIMUM"] \in 0 .. 100
<1> DEFINE p == PolicyOf(r.input)
<1>1. \A k \in 1 .. 13 : p[PolicyCodes[k]] \in 0 .. 100
  BY PolicyIn
<1>2. /\ PolicyCodes[1] = "PRODUCT_CAP" /\ PolicyCodes[2] = "ISSUER_CAP" /\ PolicyCodes[3] = "PROTOCOL_CAP"
      /\ PolicyCodes[4] = "CHAIN_CAP" /\ PolicyCodes[5] = "CATEGORY_CAP" /\ PolicyCodes[6] = "STABLECOIN_CAP"
      /\ PolicyCodes[7] = "DEFI_CAP" /\ PolicyCodes[8] = "RWA_CAP" /\ PolicyCodes[9] = "GOLD_CAP"
      /\ PolicyCodes[10] = "IMMEDIATE_LIQUIDITY_MINIMUM"
      /\ PolicyCodes[11] = "TWENTY_FOUR_HOUR_LIQUIDITY_MINIMUM"
      /\ PolicyCodes[12] = "SEVEN_DAY_LIQUIDITY_MINIMUM" /\ PolicyCodes[13] = "WEIGHTED_RISK_MAXIMUM"
  BY DEF PolicyCodes
<1> HIDE DEF p
<1>3. /\ p["PRODUCT_CAP"] \in 0 .. 100 /\ p["ISSUER_CAP"] \in 0 .. 100 /\ p["PROTOCOL_CAP"] \in 0 .. 100
      /\ p["CHAIN_CAP"] \in 0 .. 100 /\ p["CATEGORY_CAP"] \in 0 .. 100 /\ p["STABLECOIN_CAP"] \in 0 .. 100
      /\ p["DEFI_CAP"] \in 0 .. 100 /\ p["RWA_CAP"] \in 0 .. 100 /\ p["GOLD_CAP"] \in 0 .. 100
      /\ p["IMMEDIATE_LIQUIDITY_MINIMUM"] \in 0 .. 100
      /\ p["TWENTY_FOUR_HOUR_LIQUIDITY_MINIMUM"] \in 0 .. 100
      /\ p["SEVEN_DAY_LIQUIDITY_MINIMUM"] \in 0 .. 100 /\ p["WEIGHTED_RISK_MAXIMUM"] \in 0 .. 100
  <2>1. /\ 1 \in 1 .. 13 /\ 2 \in 1 .. 13 /\ 3 \in 1 .. 13 /\ 4 \in 1 .. 13 /\ 5 \in 1 .. 13
        /\ 6 \in 1 .. 13 /\ 7 \in 1 .. 13 /\ 8 \in 1 .. 13 /\ 9 \in 1 .. 13 /\ 10 \in 1 .. 13
        /\ 11 \in 1 .. 13 /\ 12 \in 1 .. 13 /\ 13 \in 1 .. 13
    OBVIOUS
  <2> QED
    BY <1>1, <1>2, <2>1
<1>4. \A kind \in DOMAIN GroupCap : p[GroupCap[kind]] \in 0 .. 100
  BY <1>3 DEF GroupCap
<1>5. \A f \in DOMAIN FlagCap : p[FlagCap[f]] \in 0 .. 100
  BY <1>3 DEF FlagCap
<1>6. \A w \in DOMAIN Windows : p[Windows[w]] \in 0 .. 100
  BY <1>3 DEF Windows
<1> QED
  BY <1>3, <1>4, <1>5, <1>6 DEF p

(* What a candidate says of itself, as the schema of it has it.            *)
LEMMA CandidatesTyped ==
  ASSUME NEW r \in Requests
  PROVE  /\ IsFiniteSet(DOMAIN r.candidates) /\ DOMAIN r.candidates \subseteq Nat
         /\ r.input.capital \in Nat \ {0} /\ r.input.periodsAYear \in Nat
         /\ \A id \in DOMAIN r.candidates :
              /\ r.candidates[id].available \in Nat /\ r.candidates[id].comparativeYield \in Int
              /\ r.candidates[id].risk \in 0 .. 100
              /\ \A w \in DOMAIN Windows : r.candidates[id].liquid[w] \in 0 .. 100
              /\ r.candidates[id].defaultCost \in Nat /\ \A o \in r.candidates[id].costs : o.cost \in Nat
BY OptimizerAssumption

(* The routes that pass the gates are some of the candidates.              *)
LEMMA IncludedIn ==
  ASSUME NEW r \in Requests
  PROVE  /\ Included(r) \subseteq DOMAIN r.candidates /\ Included(r) \subseteq Nat
         /\ IsFiniteSet(Included(r)) /\ Cardinality(Included(r)) <= Cardinality(DOMAIN r.candidates)
         /\ Cardinality(Included(r)) \in Nat /\ Cardinality(DOMAIN r.candidates) \in Nat
<1>1. Included(r) \subseteq DOMAIN r.candidates
  BY DEF Included
<1> QED
  BY <1>1, CandidatesTyped, FS_Subset, FS_CardinalityType

(* The cost of a route is one of its costs.                                *)
LEMMA CostIn ==
  ASSUME NEW r \in Requests, NEW id \in DOMAIN r.candidates
  PROVE  AdjustedYield(r.candidates[id], r.input) \in Int
<1> DEFINE c == r.candidates[id]
           input == r.input
           fits == {o \in c.costs : o.asset \in {NoneOf, input.asset} /\ o.chain \in {NoneOf, input.chain}}
           Rank(o) == (IF o.asset # NoneOf THEN 1 ELSE 0) + (IF o.chain # NoneOf THEN 1 ELSE 0)
           best == {o \in fits : \A p \in fits : Rank(o) >= Rank(p)}
<1>1. c.comparativeYield \in Int /\ c.defaultCost \in Nat /\ (\A o \in c.costs : o.cost \in Nat) /\ input.periodsAYear \in Nat
  BY CandidatesTyped
<1>2. CASE fits = {}
  <2>1. CostOf(c, input) = c.defaultCost
    BY <1>2 DEF CostOf
  <2> QED
    BY <1>1, <2>1 DEF AdjustedYield, AnnualCost
<1>3. CASE fits # {}
  <2>1. \A o \in fits : Rank(o) \in 0 .. 2
    OBVIOUS
  <2>2. best # {}
    <3>1. CASE \E o \in fits : Rank(o) = 2
      <4>1. PICK o \in fits : Rank(o) = 2
        BY <3>1
      <4> HIDE DEF Rank, fits
      <4>2. \A p \in fits : Rank(o) >= Rank(p)
        BY <2>1, <4>1
      <4> QED
        BY <4>2
    <3>2. CASE (\A o \in fits : Rank(o) # 2) /\ \E o \in fits : Rank(o) = 1
      <4>1. PICK o \in fits : Rank(o) = 1
        BY <3>2
      <4> HIDE DEF Rank, fits
      <4>2. \A p \in fits : Rank(o) >= Rank(p)
        BY <2>1, <3>2, <4>1
      <4> QED
        BY <4>2
    <3>3. CASE \A o \in fits : Rank(o) # 2 /\ Rank(o) # 1
      <4>1. PICK o : o \in fits
        BY <1>3
      <4> HIDE DEF Rank, fits
      <4>2. \A p \in fits : Rank(o) >= Rank(p)
        BY <2>1, <3>3, <4>1
      <4> QED
        BY <4>1, <4>2
    <3> QED
      BY <3>1, <3>2, <3>3
  <2>3. \E o \in best : o.asset = NoneOf \/ \A p \in best : p.asset # NoneOf
    <3> HIDE DEF best
    <3> QED  BY <2>2
  <2>4. (CHOOSE o \in best : o.asset = NoneOf \/ \A p \in best : p.asset # NoneOf) \in best
    <3> HIDE DEF best
    <3> QED  BY <2>3
  <2>5. CostOf(c, input) = (CHOOSE o \in best : o.asset = NoneOf \/ \A p \in best : p.asset # NoneOf).cost
    BY <1>3 DEF CostOf
  <2>6. CostOf(c, input) \in Nat
    BY <1>1, <2>4, <2>5
  <2> QED
    BY <1>1, <2>6 DEF AdjustedYield, AnnualCost
<1> QED
  BY <1>2, <1>3

-----------------------------------------------------------------------------
(* Portfolios, and what constraints say of them.                           *)

(* What a group of routes is given, and the load on a constraint.          *)
LEMMA ShareInt ==
  ASSUME NEW S, IsFiniteSet(S), NEW x \in [S -> Int], NEW T \in SUBSET S
  PROVE  Share(x, T) \in Int
<1>1. \A y \in S : x[y] \in Int
  OBVIOUS
<1> QED
  BY <1>1, SumInt DEF Share

LEMMA LoadIsSum ==
  ASSUME NEW S, NEW x \in [S -> Int], NEW weight
  PROVE  Load(weight, x) = SumFunctionOnSet([id \in S |-> weight[id] * x[id]], S)
BY DEF Load, SumFunction

LEMMA LoadInt ==
  ASSUME NEW S, IsFiniteSet(S), NEW x \in [S -> Int], NEW weight, \A id \in S : weight[id] \in Int
  PROVE  Load(weight, x) \in Int
<1> DEFINE f == [id \in S |-> weight[id] * x[id]]
<1>1. \A id \in S : f[id] \in Int
  OBVIOUS
<1>2. S \in SUBSET S
  OBVIOUS
<1>3. Load(weight, x) = SumFunctionOnSet(f, S)
  BY LoadIsSum
<1> HIDE DEF f
<1> QED
  BY <1>1, <1>2, <1>3, SumInt

(* The load of a group is what it has of the capital.                      *)
LEMMA LoadAll ==
  ASSUME NEW S, IsFiniteSet(S), NEW x \in [S -> Int], NEW T \in SUBSET S
  PROVE  Load(All(T, S), x) = 100 * Share(x, T)
<1> DEFINE zero == [id \in S |-> 0]
           held == [id \in S |-> IF id \in T THEN x[id] ELSE 0]
           h == [id \in S |-> All(T, S)[id] * x[id]]
<1>1. Load(All(T, S), x) = SumFunctionOnSet(h, S)
  BY LoadIsSum
<1>2. Linear(S, zero, held, h, 100)
  BY DEF Linear, All
<1>3. SumFunctionOnSet(h, S) = SumFunctionOnSet(zero, S) + 100 * SumFunctionOnSet(held, S)
  <2> HIDE DEF zero, held, h
  <2> QED  BY <1>2, SumLinear
<1>4. SumFunctionOnSet(zero, S) = 0
  <2>1. (\A id \in S : zero[id] \in Int /\ zero[id] = 0) /\ {} \in SUBSET S /\ S \ {} = S
    OBVIOUS
  <2> HIDE DEF zero
  <2>2. SumFunctionOnSet(zero, S) = SumFunctionOnSet(zero, {})
    BY <2>1, SumZeros
  <2> QED
    BY <2>2, SumEmpty
<1>5. SumFunctionOnSet(held, S) = SumFunctionOnSet(held, T)
  <2>1. (\A id \in S : held[id] \in Int) /\ \A id \in S \ T : held[id] = 0
    OBVIOUS
  <2> HIDE DEF held
  <2> QED  BY <2>1, SumZeros
<1>6. SumFunctionOnSet(held, T) = Share(x, T)
  <2>1. \A id \in T : held[id] \in Int /\ held[id] = x[id]
    OBVIOUS
  <2>2. IsFiniteSet(T)
    BY FS_Subset
  <2> HIDE DEF held
  <2> QED  BY <2>1, <2>2, SumSame DEF Share
<1>7. Share(x, T) \in Int
  BY ShareInt
<1> HIDE DEF zero, held, h
<1> QED
  BY <1>1, <1>3, <1>4, <1>5, <1>6, <1>7

(* The load of one route is its share.                                     *)
LEMMA ShareOfOne ==
  ASSUME NEW S, NEW x \in [S -> Int], NEW id \in S
  PROVE  Share(x, {id}) = x[id]
<1>1. IsFiniteSet({}) /\ id \notin {} /\ {} \cup {id} = {id} /\ \A y \in {} \cup {id} : x[y] \in Int
  BY FS_EmptySet
<1>2. SumFunctionOnSet(x, {id}) = x[id] + SumFunctionOnSet(x, {})
  BY <1>1, SumWith
<1> QED
  BY <1>2, SumEmpty DEF Share

(* The five kinds of constraints.                                          *)
RouteLimit(r, id) ==
  Constraint("ROUTE_LIQUIDITY_CAPACITY", id, All({id}, Included(r)), "<=",
             Min({100, (100 * r.candidates[id].available) \div r.input.capital}))
Members(r, kind, name) == {id \in Included(r) : r.candidates[id][kind] = name}
FlagMembers(r, flag) == {id \in Included(r) : flag \in r.candidates[id].flags}
GroupLimit(r, kind, name) ==
  Constraint(GroupCap[kind], name, All(Members(r, kind, name), Included(r)), "<=", PolicyOf(r.input)[GroupCap[kind]])
FlagLimit(r, flag) ==
  Constraint(FlagCap[flag], flag, All(FlagMembers(r, flag), Included(r)), "<=", PolicyOf(r.input)[FlagCap[flag]])
WindowLimit(r, w) ==
  Constraint(Windows[w], w, [id \in Included(r) |-> r.candidates[id].liquid[w]], ">=", PolicyOf(r.input)[Windows[w]])
RiskLimit(r) ==
  Constraint("WEIGHTED_RISK_MAXIMUM", "risk", [id \in Included(r) |-> r.candidates[id].risk], "<=",
             PolicyOf(r.input)["WEIGHTED_RISK_MAXIMUM"])

(* Every constraint is of one of these kinds.                              *)
LEMMA KindsOfConstraints ==
  ASSUME NEW r, NEW k
  PROVE  k \in Constraints(r) <=>
           \/ \E id \in Included(r) : k = RouteLimit(r, id)
           \/ \E kind \in DOMAIN GroupCap : \E name \in GroupNames(r.candidates, Included(r), kind) :
                k = GroupLimit(r, kind, name)
           \/ \E f \in DOMAIN FlagCap : FlagMembers(r, f) # {} /\ k = FlagLimit(r, f)
           \/ \E w \in DOMAIN Windows : k = WindowLimit(r, w)
           \/ k = RiskLimit(r)
<1> DEFINE cs == r.candidates
           routes == Included(r)
           policy == PolicyOf(r.input)
           A == {Constraint("ROUTE_LIQUIDITY_CAPACITY", id, All({id}, routes), "<=",
                   Min({100, (100 * cs[id].available) \div r.input.capital})) : id \in routes}
           B == GroupConstraints(cs, routes, policy)
           C == {Constraint(FlagCap[flag], flag, All({id \in routes : flag \in cs[id].flags}, routes), "<=", policy[FlagCap[flag]])
                : flag \in {g \in DOMAIN FlagCap : {id \in routes : g \in cs[id].flags} # {}}}
           D == {Constraint(Windows[w], w, [id \in routes |-> cs[id].liquid[w]], ">=", policy[Windows[w]])
                : w \in DOMAIN Windows}
           E == {Constraint("WEIGHTED_RISK_MAXIMUM", "risk", [id \in routes |-> cs[id].risk], "<=",
                         policy["WEIGHTED_RISK_MAXIMUM"])}
<1>1. k \in A <=> \E id \in Included(r) : k = RouteLimit(r, id)
  BY DEF RouteLimit
<1>2. k \in B <=> \E kind \in DOMAIN GroupCap : \E name \in GroupNames(r.candidates, Included(r), kind) :
                k = GroupLimit(r, kind, name)
  <2> DEFINE Of(kind) == {Constraint(GroupCap[kind], name, All({id \in routes : cs[id][kind] = name}, routes),
                     "<=", policy[GroupCap[kind]]) : name \in GroupNames(cs, routes, kind)}
             Ofs == {Of(kind) : kind \in DOMAIN GroupCap}
  <2>1. B = UNION Ofs
    BY DEF GroupConstraints
  <2>2. \A kind : k \in Of(kind) <=> \E name \in GroupNames(cs, routes, kind) : k = GroupLimit(r, kind, name)
    BY DEF GroupLimit, Members
  <2> HIDE DEF Of
  <2>3. k \in UNION Ofs <=> \E kind \in DOMAIN GroupCap : k \in Of(kind)
    OBVIOUS
  <2> QED
    BY <2>1, <2>2, <2>3
<1>3. k \in C <=> \E f \in DOMAIN FlagCap : FlagMembers(r, f) # {} /\ k = FlagLimit(r, f)
  BY DEF FlagLimit, FlagMembers
<1>4. k \in D <=> \E w \in DOMAIN Windows : k = WindowLimit(r, w)
  BY DEF WindowLimit
<1>5. k \in E <=> k = RiskLimit(r)
  BY DEF RiskLimit
<1>6. Constraints(r) = A \cup B \cup C \cup D \cup E
  BY Zenon DEF Constraints
<1> HIDE DEF A, B, C, D, E
<1>7. k \in Constraints(r) <=> (k \in A \/ k \in B \/ k \in C \/ k \in D \/ k \in E)
  BY <1>6
<1> QED
  BY <1>1, <1>2, <1>3, <1>4, <1>5, <1>7

(* Percentages and their hundredths.                                       *)
LEMMA Hundredths ==
  ASSUME NEW a \in Nat, NEW c \in Nat \ {0}
  PROVE  /\ (100 * a) \div c \in Nat /\ 100 * ((100 * a) \div c) <= (10000 * a) \div c
         /\ (10000 * a) \div c \in Nat
<1> DEFINE A == 100 * a
           B == 10000 * a
           q == A \div c
           p == B \div c
<1>1. A \in Nat /\ B = 100 * A /\ B \in Nat
  OBVIOUS
<1> HIDE DEF A, B
<1>2. q \in Int /\ c * q <= A /\ A < c * q + c
  BY <1>1, Quotient
<1>3. p \in Int /\ c * p <= B /\ B < c * p + c
  BY <1>1, Quotient
<1>4. 0 <= q /\ 0 <= p
  <2>1. 0 * c <= A /\ 0 * c <= B
    BY <1>1
  <2> QED
    BY <1>1, <2>1, QuotientBounds
<1> HIDE DEF q, p
<1>5. 100 * q <= p
  <2>1. (100 * q) * c = 100 * (c * q)
    BY <1>2
  <2>2. (100 * q) * c <= B
    BY <1>1, <1>2, <2>1
  <2>3. 100 * q \in Int
    BY <1>2
  <2> HIDE DEF q
  <2> QED
    BY <1>1, <2>2, <2>3, QuotientBounds DEF p
<1> QED
  BY <1>2, <1>3, <1>4, <1>5 DEF A, B, q, p

Capacity(a, c) == (10000 * a) \div c

LEMMA HundredthsBound ==
  ASSUME NEW a \in Nat, NEW c \in Nat \ {0}, NEW y \in Int, 100 * y <= Capacity(a, c)
  PROVE  y <= (100 * a) \div c
<1> DEFINE A == 100 * a
           B == 10000 * a
           p == B \div c
<1>1. A \in Nat /\ B = 100 * A /\ B \in Nat /\ 100 * y <= p
  BY DEF Capacity
<1> HIDE DEF A, B
<1>2. p \in Int /\ c * p <= B
  BY <1>1, Quotient
<1> HIDE DEF p
<1>3. c * (100 * y) <= c * p
  BY <1>1, <1>2
<1>4. c * (100 * y) = 100 * (y * c)
  OBVIOUS
<1>5. y * c <= A
  BY <1>1, <1>2, <1>3, <1>4
<1>6. y <= A \div c
  BY <1>1, <1>5, QuotientBounds
<1> QED
  BY <1>6 DEF A

(* A limit is a percentage, and no more than was asked for.                *)
LEMMA LimitRequested ==
  ASSUME NEW r \in Requests, NEW k \in Constraints(r)
  PROVE  /\ k.limit \in 0 .. 100 /\ k.sense \in {"<=", ">="} /\ Requested(r, k.code, k.of) \in Nat
         /\ 100 * k.limit <= Requested(r, k.code, k.of)
         /\ k.sense = ">=" => 100 * k.limit = Requested(r, k.code, k.of)
<1>1. ASSUME NEW id \in Included(r), k = RouteLimit(r, id)
      PROVE  /\ k.limit \in 0 .. 100 /\ k.sense = "<=" /\ Requested(r, k.code, k.of) \in Nat
             /\ 100 * k.limit <= Requested(r, k.code, k.of)
  <2> DEFINE a == r.candidates[id].available
             c == r.input.capital
             q == (100 * a) \div c
  <2>1. a \in Nat /\ c \in Nat \ {0}
    BY CandidatesTyped, IncludedIn
  <2>2. q \in Nat /\ 100 * q <= (10000 * a) \div c /\ (10000 * a) \div c \in Nat
    <3> HIDE DEF a, c
    <3> QED  BY <2>1, Hundredths
  <2>3. /\ k.limit = Min({100, q}) /\ k.sense = "<=" /\ Requested(r, k.code, k.of) = (10000 * a) \div c
    BY <1>1 DEF RouteLimit, Constraint, Requested
  <2> HIDE DEF q
  <2>4. Min({100, q}) \in 0 .. 100 /\ Min({100, q}) <= q
    BY <2>2 DEF Min
  <2> QED
    BY <2>2, <2>3, <2>4
<1> DEFINE policy == PolicyOf(r.input)
<1>2. ASSUME NEW kind \in DOMAIN GroupCap, NEW name, k = GroupLimit(r, kind, name)
      PROVE  k.limit \in 0 .. 100 /\ k.sense = "<=" /\ Requested(r, k.code, k.of) = 100 * k.limit
  <2>1. k.code = GroupCap[kind] /\ k.limit = policy[GroupCap[kind]] /\ k.sense = "<="
    BY <1>2 DEF GroupLimit, Constraint
  <2>2. GroupCap[kind] # "ROUTE_LIQUIDITY_CAPACITY"
    BY DEF GroupCap
  <2> QED
    BY <2>1, <2>2, Limits DEF Requested
<1>3. ASSUME NEW f \in DOMAIN FlagCap, k = FlagLimit(r, f)
      PROVE  k.limit \in 0 .. 100 /\ k.sense = "<=" /\ Requested(r, k.code, k.of) = 100 * k.limit
  <2>1. k.code = FlagCap[f] /\ k.limit = policy[FlagCap[f]] /\ k.sense = "<="
    BY <1>3 DEF FlagLimit, Constraint
  <2>2. FlagCap[f] # "ROUTE_LIQUIDITY_CAPACITY"
    BY DEF FlagCap
  <2> QED
    BY <2>1, <2>2, Limits DEF Requested
<1>4. ASSUME NEW w \in DOMAIN Windows, k = WindowLimit(r, w)
      PROVE  k.limit \in 0 .. 100 /\ k.sense = ">=" /\ Requested(r, k.code, k.of) = 100 * k.limit
  <2>1. k.code = Windows[w] /\ k.limit = policy[Windows[w]] /\ k.sense = ">="
    BY <1>4 DEF WindowLimit, Constraint
  <2>2. Windows[w] # "ROUTE_LIQUIDITY_CAPACITY"
    BY DEF Windows
  <2> QED
    BY <2>1, <2>2, Limits DEF Requested
<1>5. ASSUME k = RiskLimit(r)
      PROVE  k.limit \in 0 .. 100 /\ k.sense = "<=" /\ Requested(r, k.code, k.of) = 100 * k.limit
  <2>1. k.code = "WEIGHTED_RISK_MAXIMUM" /\ k.limit = policy["WEIGHTED_RISK_MAXIMUM"] /\ k.sense = "<="
    BY <1>5 DEF RiskLimit, Constraint
  <2> QED
    BY <2>1, Limits DEF Requested
<1> DEFINE Same == k.limit \in 0 .. 100 /\ Requested(r, k.code, k.of) = 100 * k.limit
<1>6. CASE \E id \in Included(r) : k = RouteLimit(r, id)
  BY <1>1, <1>6
<1>7. CASE Same /\ k.sense \in {"<=", ">="}
  BY <1>7
<1> QED
  BY <1>2, <1>3, <1>4, <1>5, <1>6, <1>7, KindsOfConstraints

-----------------------------------------------------------------------------
(* A policy is met exactly when the constraints built from it are kept.    *)

(* What the constraints come to: the limits, each with its change.         *)
KeptUpTo(r, changes, slack, x) ==
  \A k \in Constraints(r) :
    LET limit == LimitOf(r, changes, k.code, k.of) IN
    IF k.sense = "<=" THEN Load(k.weight, x) <= limit + 100 * slack
    ELSE Load(k.weight, x) >= limit - 100 * slack

(* Nothing bounds a flag that no route has; its limit is met all the same. *)
UnusedFlags(r, changes, slack) ==
  \A f \in DOMAIN FlagCap : FlagMembers(r, f) = {} => 0 <= LimitOf(r, changes, FlagCap[f], f) + 100 * slack

(* One limit after the other is kept just when its constraint is met.      *)
LEMMA RouteMeets ==
  ASSUME NEW r \in Requests, NEW x \in [Included(r) -> Int], NEW id \in Included(r)
  PROVE  LET k == RouteLimit(r, id) IN
         k.code = "ROUTE_LIQUIDITY_CAPACITY" /\ k.of = id /\ k.sense = "<=" /\ Load(k.weight, x) = 100 * x[id]
<1>1. Load(All({id}, Included(r)), x) = 100 * Share(x, {id})
  BY IncludedIn, LoadAll
<1>2. Share(x, {id}) = x[id]
  BY ShareOfOne
<1> QED
  BY <1>1, <1>2 DEF RouteLimit, Constraint

LEMMA GroupMeets ==
  ASSUME NEW r \in Requests, NEW x \in [Included(r) -> Int], NEW kind, NEW name
  PROVE  LET k == GroupLimit(r, kind, name) IN
         /\ k.code = GroupCap[kind] /\ k.of = name /\ k.sense = "<="
         /\ Load(k.weight, x) = 100 * Share(x, {o \in DOMAIN x : r.candidates[o][kind] = name})
<1>1. Members(r, kind, name) \in SUBSET Included(r) /\ Members(r, kind, name) = {o \in DOMAIN x : r.candidates[o][kind] = name}
  BY DEF Members
<1>2. Load(All(Members(r, kind, name), Included(r)), x) = 100 * Share(x, Members(r, kind, name))
  BY <1>1, IncludedIn, LoadAll
<1> QED
  BY <1>1, <1>2 DEF GroupLimit, Constraint

LEMMA FlagMeets ==
  ASSUME NEW r \in Requests, NEW x \in [Included(r) -> Int], NEW f
  PROVE  LET k == FlagLimit(r, f) IN
         /\ k.code = FlagCap[f] /\ k.of = f /\ k.sense = "<="
         /\ Load(k.weight, x) = 100 * Share(x, {o \in DOMAIN x : f \in r.candidates[o].flags})
<1>1. FlagMembers(r, f) \in SUBSET Included(r) /\ FlagMembers(r, f) = {o \in DOMAIN x : f \in r.candidates[o].flags}
  BY DEF FlagMembers
<1>2. Load(All(FlagMembers(r, f), Included(r)), x) = 100 * Share(x, FlagMembers(r, f))
  BY <1>1, IncludedIn, LoadAll
<1> QED
  BY <1>1, <1>2 DEF FlagLimit, Constraint

LEMMA MeetsIsKept ==
  ASSUME NEW r \in Requests, NEW x \in [Included(r) -> Int], NEW changes, NEW slack \in Nat,
         UnusedFlags(r, changes, slack)
  PROVE  Meets(x, r, changes, slack) <=> KeptUpTo(r, changes, slack, x)
<1> DEFINE cs == r.candidates
           s == 100 * slack
           Limit(code, of) == LimitOf(r, changes, code, of)
           Holds(k) == IF k.sense = "<=" THEN Load(k.weight, x) <= Limit(k.code, k.of) + s
                       ELSE Load(k.weight, x) >= Limit(k.code, k.of) - s
           Together(set) == 100 * Share(x, set)
           A(id) == 100 * x[id] <= Limit("ROUTE_LIQUIDITY_CAPACITY", id) + s
           B(kind, name) == Together({o \in DOMAIN x : cs[o][kind] = name}) <= Limit(GroupCap[kind], name) + s
           C(f) == Together({o \in DOMAIN x : f \in cs[o].flags}) <= Limit(FlagCap[f], f) + s
           D(w) == Load([id \in DOMAIN x |-> cs[id].liquid[w]], x) >= Limit(Windows[w], w) - s
           E == Load([id \in DOMAIN x |-> cs[id].risk], x) <= Limit("WEIGHTED_RISK_MAXIMUM", "risk") + s
<1>0. DOMAIN x = Included(r)
  OBVIOUS
<1>1. Meets(x, r, changes, slack) <=>
        /\ \A id \in DOMAIN x : A(id) /\ \A kind \in DOMAIN GroupCap : cs[id][kind] # NoneOf => B(kind, cs[id][kind])
        /\ \A f \in DOMAIN FlagCap : C(f)
        /\ \A w \in DOMAIN Windows : D(w)
        /\ E
  BY DEF Meets
<1>2. \A id \in Included(r) : Holds(RouteLimit(r, id)) <=> A(id)
  BY RouteMeets
<1>3. \A kind, name : Holds(GroupLimit(r, kind, name)) <=> B(kind, name)
  BY GroupMeets
<1>4. \A f : Holds(FlagLimit(r, f)) <=> C(f)
  BY FlagMeets
<1>5. \A w \in DOMAIN Windows : Holds(WindowLimit(r, w)) <=> D(w)
  BY <1>0 DEF WindowLimit, Constraint
<1>6. Holds(RiskLimit(r)) <=> E
  BY <1>0 DEF RiskLimit, Constraint
<1>7. ASSUME NEW f \in DOMAIN FlagCap, FlagMembers(r, f) = {} PROVE C(f)
  <2>1. {o \in DOMAIN x : f \in cs[o].flags} = {}
    BY <1>0, <1>7 DEF FlagMembers
  <2>2. Share(x, {o \in DOMAIN x : f \in cs[o].flags}) = 0
    BY <2>1, SumEmpty DEF Share
  <2>3. 0 <= Limit(FlagCap[f], f) + s
    BY <1>7 DEF UnusedFlags
  <2> QED
    BY <2>2, <2>3
<1>8. KeptUpTo(r, changes, slack, x) <=> \A k \in Constraints(r) : Holds(k)
  BY DEF KeptUpTo
<1>9. \A kind, name : name \in GroupNames(cs, Included(r), kind) <=>
        name # NoneOf /\ \E id \in Included(r) : name = cs[id][kind]
  BY DEF GroupNames
<1> HIDE DEF A, B, C, D, E, Holds, s
<1>10. ASSUME Meets(x, r, changes, slack), NEW k \in Constraints(r) PROVE Holds(k)
  <2>1. CASE \E id \in Included(r) : k = RouteLimit(r, id)
    BY <1>0, <1>1, <1>2, <1>10, <2>1
  <2>2. CASE \E kind \in DOMAIN GroupCap : \E name \in GroupNames(r.candidates, Included(r), kind) :
                k = GroupLimit(r, kind, name)
    <3>1. PICK kind \in DOMAIN GroupCap : \E name \in GroupNames(cs, Included(r), kind) : k = GroupLimit(r, kind, name)
      BY <2>2
    <3>2. PICK name \in GroupNames(cs, Included(r), kind) : k = GroupLimit(r, kind, name)
      BY <3>1
    <3>3. PICK id \in Included(r) : name = cs[id][kind] /\ cs[id][kind] # NoneOf
      BY <1>9
    <3>4. B(kind, name)
      BY <1>0, <1>1, <1>10, <3>3
    <3> QED
      BY <1>3, <3>2, <3>4
  <2>3. CASE \E f \in DOMAIN FlagCap : FlagMembers(r, f) # {} /\ k = FlagLimit(r, f)
    BY <1>1, <1>4, <1>10, <2>3
  <2>4. CASE \E w \in DOMAIN Windows : k = WindowLimit(r, w)
    BY <1>1, <1>5, <1>10, <2>4
  <2>5. CASE k = RiskLimit(r)
    BY <1>1, <1>6, <1>10, <2>5
  <2> QED
    BY <2>1, <2>2, <2>3, <2>4, <2>5, KindsOfConstraints
<1>11. ASSUME \A k \in Constraints(r) : Holds(k) PROVE Meets(x, r, changes, slack)
  <2>1. ASSUME NEW id \in Included(r) PROVE A(id)
    <3>1. RouteLimit(r, id) \in Constraints(r)
      BY KindsOfConstraints
    <3> QED
      BY <1>2, <1>11, <3>1
  <2>2. ASSUME NEW id \in Included(r), NEW kind \in DOMAIN GroupCap, cs[id][kind] # NoneOf
        PROVE  B(kind, cs[id][kind])
    <3>1. cs[id][kind] \in GroupNames(cs, Included(r), kind)
      BY <1>9, <2>2
    <3>2. GroupLimit(r, kind, cs[id][kind]) \in Constraints(r)
      BY <3>1, KindsOfConstraints
    <3> QED
      BY <1>3, <1>11, <3>2
  <2>3. ASSUME NEW f \in DOMAIN FlagCap PROVE C(f)
    <3>1. CASE FlagMembers(r, f) # {}
      <4>1. FlagLimit(r, f) \in Constraints(r)
        BY <3>1, KindsOfConstraints
      <4> QED
        BY <1>4, <1>11, <4>1
    <3> QED
      BY <1>7, <3>1
  <2>4. ASSUME NEW w \in DOMAIN Windows PROVE D(w)
    <3>1. WindowLimit(r, w) \in Constraints(r)
      BY KindsOfConstraints
    <3> QED
      BY <1>5, <1>11, <3>1
  <2>5. RiskLimit(r) \in Constraints(r)
    BY KindsOfConstraints
  <2>6. E
    BY <1>6, <1>11, <2>5
  <2> QED
    BY <1>0, <1>1, <2>1, <2>2, <2>3, <2>4, <2>6
<1> QED
  BY <1>8, <1>10, <1>11

(* The weights of a constraint are percentages, and so its load is whole.  *)
LEMMA ConstraintLoad ==
  ASSUME NEW r \in Requests, NEW k \in Constraints(r), NEW x \in [Included(r) -> Int]
  PROVE  /\ Load(k.weight, x) \in Int
         /\ (\A id \in Included(r) : x[id] >= 0) => Load(k.weight, x) >= 0
<1> DEFINE S == Included(r)
           Fine(weight) == \A id \in S : weight[id] \in 0 .. 100
<1>0. IsFiniteSet(S)
  BY IncludedIn
<1>1. Fine(k.weight)
  <2>1. \A T : Fine(All(T, S))
    BY DEF All
  <2>2. CASE \E T : k.weight = All(T, S)
    BY <2>1, <2>2
  <2>3. ASSUME NEW w \in DOMAIN Windows, k = WindowLimit(r, w) PROVE Fine(k.weight)
    BY <2>3, CandidatesTyped, IncludedIn DEF WindowLimit, Constraint
  <2>4. CASE k = RiskLimit(r)
    BY <2>4, CandidatesTyped, IncludedIn DEF RiskLimit, Constraint
  <2>5. \A id : RouteLimit(r, id).weight = All({id}, S)
    BY DEF RouteLimit, Constraint
  <2>6. \A kind, name : GroupLimit(r, kind, name).weight = All(Members(r, kind, name), S)
    BY DEF GroupLimit, Constraint
  <2>7. \A f : FlagLimit(r, f).weight = All(FlagMembers(r, f), S)
    BY DEF FlagLimit, Constraint
  <2> HIDE DEF Fine
  <2>8. CASE \E id \in Included(r) : k = RouteLimit(r, id)
    BY <2>2, <2>5, <2>8
  <2>9. CASE \E kind \in DOMAIN GroupCap : \E name \in GroupNames(r.candidates, Included(r), kind) :
               k = GroupLimit(r, kind, name)
    BY <2>2, <2>6, <2>9
  <2>10. CASE \E f \in DOMAIN FlagCap : FlagMembers(r, f) # {} /\ k = FlagLimit(r, f)
    BY <2>2, <2>7, <2>10
  <2> QED
    BY <2>3, <2>4, <2>8, <2>9, <2>10, KindsOfConstraints
<1>2. Load(k.weight, x) \in Int
  BY <1>0, <1>1, LoadInt
<1>3. ASSUME \A id \in S : x[id] >= 0 PROVE Load(k.weight, x) >= 0
  <2> DEFINE f == [id \in S |-> k.weight[id] * x[id]]
  <2>1. \A id \in S : f[id] \in Nat
    <3> SUFFICES ASSUME NEW id \in S PROVE f[id] \in Nat
      OBVIOUS
    <3>1. k.weight[id] \in Nat /\ x[id] \in Nat
      BY <1>1, <1>3
    <3>2. \A a, b \in Nat : a * b \in Nat
      OBVIOUS
    <3> QED
      BY <3>1, <3>2
  <2>2. Load(k.weight, x) = SumFunctionOnSet(f, S)
    BY LoadIsSum
  <2>3. S \in SUBSET S
    OBVIOUS
  <2> HIDE DEF f, S
  <2> QED
    BY <1>0, <2>1, <2>2, <2>3, SumGrows
<1> QED
  BY <1>2, <1>3

(* With nothing changed, a limit is what was asked for.                    *)
LEMMA NothingChanged ==
  ASSUME NEW r, NEW code, NEW of PROVE LimitOf(r, {}, code, of) = Requested(r, code, of)
BY DEF LimitOf

LEMMA UnusedAsked ==
  ASSUME NEW r \in Requests, NEW slack \in Nat PROVE UnusedFlags(r, {}, slack)
<1> SUFFICES ASSUME NEW f \in DOMAIN FlagCap PROVE 0 <= Requested(r, FlagCap[f], f) + 100 * slack
  BY NothingChanged DEF UnusedFlags
<1>1. FlagCap[f] # "ROUTE_LIQUIDITY_CAPACITY"
  BY DEF FlagCap
<1>2. PolicyOf(r.input)[FlagCap[f]] \in 0 .. 100
  BY Limits
<1>3. Requested(r, FlagCap[f], f) = 100 * PolicyOf(r.input)[FlagCap[f]]
  BY <1>1 DEF Requested
<1> QED
  BY <1>2, <1>3

(* Constraints kept up to a slack are limits kept up to it.                *)
LEMMA ConstraintsSuffice ==
  ASSUME NEW r \in Requests, NEW x \in [Included(r) -> Int], NEW slack \in Nat,
         \A k \in Constraints(r) : Excess(k, x) <= 100 * slack
  PROVE  Meets(x, r, {}, slack)
<1>1. KeptUpTo(r, {}, slack, x)
  <2> SUFFICES ASSUME NEW k \in Constraints(r)
               PROVE  IF k.sense = "<=" THEN Load(k.weight, x) <= Requested(r, k.code, k.of) + 100 * slack
                      ELSE Load(k.weight, x) >= Requested(r, k.code, k.of) - 100 * slack
    BY NothingChanged DEF KeptUpTo
  <2>1. Excess(k, x) <= 100 * slack
    OBVIOUS
  <2>2. Load(k.weight, x) \in Int
    BY ConstraintLoad
  <2>3. /\ k.limit \in 0 .. 100 /\ k.sense \in {"<=", ">="} /\ Requested(r, k.code, k.of) \in Nat
        /\ 100 * k.limit <= Requested(r, k.code, k.of)
        /\ k.sense = ">=" => 100 * k.limit = Requested(r, k.code, k.of)
    BY LimitRequested
  <2>4. CASE k.sense = "<="
    BY <2>1, <2>2, <2>3, <2>4 DEF Excess
  <2>5. CASE k.sense = ">="
    BY <2>1, <2>2, <2>3, <2>5 DEF Excess
  <2> QED
    BY <2>3, <2>4, <2>5
<1> QED
  BY <1>1, MeetsIsKept, UnusedAsked

(* A portfolio has shares of 0 to 100, of the whole capital.               *)
LEMMA PortfolioIn ==
  ASSUME NEW S, IsFiniteSet(S), NEW x \in Portfolios(S)
  PROVE  /\ x \in [S -> Int] /\ Share(x, S) = 100 /\ \A id \in S : x[id] \in 0 .. 100
<1>1. x \in [S -> {GridStep * k : k \in 0 .. 100 \div GridStep}] /\ Share(x, S) = 100
  BY DEF Portfolios
<1>2. GridStep \in 1 .. 100
  BY OptimizerAssumption
<1>3. \A k \in 0 .. 100 \div GridStep : GridStep * k \in 0 .. 100
  <2> SUFFICES ASSUME NEW k \in 0 .. 100 \div GridStep PROVE GridStep * k \in 0 .. 100
    OBVIOUS
  <2> DEFINE q == 100 \div GridStep
  <2>1. q \in Int /\ GridStep * q <= 100
    BY <1>2, Quotient
  <2>2. k \in Nat /\ k <= q
    BY <2>1
  <2> HIDE DEF q
  <2> DEFINE v == GridStep * k
             u == GridStep * q
  <2>3. v <= u /\ v >= 0 /\ v \in Int /\ u \in Int
    BY <1>2, <2>1, <2>2
  <2>4. u <= 100
    BY <2>1
  <2> HIDE DEF v, u
  <2>5. v \in 0 .. 100
    BY <2>3, <2>4
  <2> QED
    BY <2>5 DEF v
<1>4. \A id \in S : x[id] \in 0 .. 100
  BY <1>1, <1>3
<1>5. x \in [S -> Int]
  BY <1>1, <1>4
<1> QED
  BY <1>1, <1>4, <1>5

(* A portfolio that meets the policy is one the solver would find.         *)
LEMMA ConstraintsNeeded ==
  ASSUME NEW r \in Requests, NEW x \in Portfolios(Included(r)), Meets(x, r, {}, 0)
  PROVE  x \in Feasible(r)
<1>1. x \in [Included(r) -> Int] /\ \A id \in Included(r) : x[id] \in 0 .. 100
  BY IncludedIn, PortfolioIn
<1>2. KeptUpTo(r, {}, 0, x)
  BY <1>1, MeetsIsKept, UnusedAsked
<1> SUFFICES ASSUME NEW k \in Constraints(r) PROVE Excess(k, x) <= 0
  BY DEF Feasible
<1>3. IF k.sense = "<=" THEN Load(k.weight, x) <= Requested(r, k.code, k.of) + 100 * 0
      ELSE Load(k.weight, x) >= Requested(r, k.code, k.of) - 100 * 0
  BY <1>2, NothingChanged DEF KeptUpTo
<1>4. Load(k.weight, x) \in Int /\ Requested(r, k.code, k.of) \in Nat /\ k.limit \in 0 .. 100
  BY <1>1, ConstraintLoad, LimitRequested
<1>5. CASE Requested(r, k.code, k.of) = 100 * k.limit
  BY <1>3, <1>4, <1>5 DEF Excess
<1>6. CASE \E id \in Included(r) : k = RouteLimit(r, id)
  <2>1. PICK id \in Included(r) : k = RouteLimit(r, id)
    BY <1>6
  <2> DEFINE a == r.candidates[id].available
             c == r.input.capital
             q == (100 * a) \div c
  <2>2. k.code = "ROUTE_LIQUIDITY_CAPACITY" /\ k.of = id /\ k.sense = "<=" /\ Load(k.weight, x) = 100 * x[id]
    BY <1>1, <2>1, RouteMeets
  <2>3. Requested(r, k.code, k.of) = (10000 * a) \div c /\ k.limit = Min({100, q})
    BY <2>1, <2>2 DEF Requested, RouteLimit, Constraint
  <2>4. a \in Nat /\ c \in Nat \ {0}
    BY CandidatesTyped, IncludedIn
  <2> DEFINE y == x[id]
  <2>5. y \in 0 .. 100
    BY <1>1
  <2>6. 100 * y <= Capacity(a, c)
    BY <1>3, <1>4, <2>2, <2>3, <2>5 DEF Capacity
  <2> HIDE DEF a, c, y
  <2>7. y <= q /\ q \in Nat
    <3>1. y \in Int
      BY <2>5
    <3>2. q \in Nat
      BY <2>4, Hundredths
    <3> QED
      BY <2>4, <2>6, <3>1, <3>2, HundredthsBound
  <2> HIDE DEF q
  <2>8. y <= Min({100, q}) /\ Min({100, q}) \in Int
    BY <2>5, <2>7 DEF Min
  <2> QED
    BY <2>2, <2>3, <2>5, <2>8 DEF Excess, y
<1>7. ASSUME k.sense = ">=" PROVE Requested(r, k.code, k.of) = 100 * k.limit
  BY <1>7, LimitRequested
<1>8. ASSUME NEW kind \in DOMAIN GroupCap, NEW name, k = GroupLimit(r, kind, name)
      PROVE  Requested(r, k.code, k.of) = 100 * k.limit
  <2>1. k.code = GroupCap[kind] /\ k.limit = PolicyOf(r.input)[GroupCap[kind]]
    BY <1>8 DEF GroupLimit, Constraint
  <2>2. GroupCap[kind] # "ROUTE_LIQUIDITY_CAPACITY"
    BY DEF GroupCap
  <2> QED
    BY <2>1, <2>2 DEF Requested
<1>9. ASSUME NEW f \in DOMAIN FlagCap, k = FlagLimit(r, f)
      PROVE  Requested(r, k.code, k.of) = 100 * k.limit
  <2>1. k.code = FlagCap[f] /\ k.limit = PolicyOf(r.input)[FlagCap[f]]
    BY <1>9 DEF FlagLimit, Constraint
  <2>2. FlagCap[f] # "ROUTE_LIQUIDITY_CAPACITY"
    BY DEF FlagCap
  <2> QED
    BY <2>1, <2>2 DEF Requested
<1>10. ASSUME NEW w, k = WindowLimit(r, w) PROVE k.sense = ">="
  BY <1>10 DEF WindowLimit, Constraint
<1>11. ASSUME k = RiskLimit(r) PROVE Requested(r, k.code, k.of) = 100 * k.limit
  BY <1>11 DEF RiskLimit, Constraint, Requested
<1> QED
  BY <1>5, <1>6, <1>7, <1>8, <1>9, <1>10, <1>11, KindsOfConstraints

-----------------------------------------------------------------------------
(* Quantisation.  The routes are ranked by what rounding down took from    *)
(* them, and the first of them are given one unit more.                    *)

Ahead(S, res, id) == {o \in S : res[o] > res[id] \/ (res[o] = res[id] /\ o < id)}

(* The ranks by residual, and by place where residuals are equal.          *)
LEMMA AheadFacts ==
  ASSUME NEW S \in SUBSET Nat, IsFiniteSet(S), NEW res \in [S -> Int], NEW id \in S
  PROVE  /\ IsFiniteSet(Ahead(S, res, id)) /\ Cardinality(Ahead(S, res, id)) \in Nat
         /\ Cardinality(Ahead(S, res, id)) <= Cardinality(S) - 1 /\ Cardinality(S) \in Nat
<1>1. res[id] \in Int /\ id \in Nat
  OBVIOUS
<1>2. id \notin Ahead(S, res, id)
  BY <1>1 DEF Ahead
<1>3. Ahead(S, res, id) \in SUBSET (S \ {id})
  BY <1>2 DEF Ahead
<1>4. IsFiniteSet(S \ {id}) /\ Cardinality(S \ {id}) = Cardinality(S) - 1 /\ Cardinality(S) \in Nat
  BY FS_RemoveElement, FS_CardinalityType
<1> DEFINE R == S \ {id}
<1> HIDE DEF R
<1>5. IsFiniteSet(Ahead(S, res, id)) /\ Cardinality(Ahead(S, res, id)) <= Cardinality(R)
  BY <1>3, <1>4, FS_Subset DEF R
<1>6. Cardinality(Ahead(S, res, id)) \in Nat
  BY <1>5, FS_CardinalityType
<1>7. Cardinality(R) = Cardinality(S) - 1
  BY <1>4 DEF R
<1>8. Cardinality(S) \in Nat
  BY FS_CardinalityType
<1> QED
  BY <1>5, <1>6, <1>7, <1>8

(* Of two routes one ranks before the other.                               *)
LEMMA RanksDiffer ==
  ASSUME NEW S \in SUBSET Nat, IsFiniteSet(S), NEW res \in [S -> Int], NEW a \in S, NEW b \in S, a # b
  PROVE  Cardinality(Ahead(S, res, a)) # Cardinality(Ahead(S, res, b))
<1>1. ASSUME NEW x \in S, NEW y \in S, x \in Ahead(S, res, y)
      PROVE  Cardinality(Ahead(S, res, x)) < Cardinality(Ahead(S, res, y))
  <2> DEFINE A == Ahead(S, res, x)
             B == Ahead(S, res, y)
  <2>1. res[x] \in Int /\ res[y] \in Int /\ x \in Nat /\ y \in Nat
    OBVIOUS
  <2>2. res[x] > res[y] \/ (res[x] = res[y] /\ x < y)
    BY <1>1 DEF Ahead
  <2>3. A \subseteq B
    <3> SUFFICES ASSUME NEW o \in A PROVE o \in B
      OBVIOUS
    <3>1. o \in S /\ (res[o] > res[x] \/ (res[o] = res[x] /\ o < x))
      BY DEF Ahead
    <3>2. res[o] \in Int /\ o \in Nat
      BY <3>1
    <3>3. res[o] > res[y] \/ (res[o] = res[y] /\ o < y)
      BY <2>1, <2>2, <3>1, <3>2
    <3> QED
      BY <3>1, <3>3 DEF Ahead
  <2>4. x \notin A /\ x \in B
    BY <1>1, <2>1 DEF Ahead
  <2>5. IsFiniteSet(B) /\ Cardinality(A) \in Nat /\ Cardinality(B) \in Nat
    BY AheadFacts
  <2> HIDE DEF A, B
  <2>6. Cardinality(A) <= Cardinality(B) /\ (Cardinality(A) = Cardinality(B) => B = A)
    BY <2>3, <2>5, FS_Subset
  <2> QED
    BY <2>4, <2>5, <2>6 DEF A, B
<1>2. res[a] \in Int /\ res[b] \in Int /\ a \in Nat /\ b \in Nat
  OBVIOUS
<1>3. a \in Ahead(S, res, b) \/ b \in Ahead(S, res, a)
  <2>1. \/ res[a] > res[b] \/ (res[a] = res[b] /\ a < b)
        \/ res[b] > res[a] \/ (res[b] = res[a] /\ b < a)
    <3> DEFINE u == res[a]
               v == res[b]
    <3>1. u \in Int /\ v \in Int /\ a \in Int /\ b \in Int /\ a # b
      BY <1>2
    <3> HIDE DEF u, v
    <3>2. u > v \/ v > u \/ (u = v /\ (a < b \/ b < a))
      BY <3>1
    <3> QED
      BY <3>2 DEF u, v
  <2>2. (res[a] > res[b] \/ (res[a] = res[b] /\ a < b)) => a \in Ahead(S, res, b)
    BY DEF Ahead
  <2>3. (res[b] > res[a] \/ (res[b] = res[a] /\ b < a)) => b \in Ahead(S, res, a)
    BY DEF Ahead
  <2> QED
    BY <2>1, <2>2, <2>3
<1>4. Cardinality(Ahead(S, res, a)) \in Nat /\ Cardinality(Ahead(S, res, b)) \in Nat
  BY AheadFacts
<1> QED
  BY <1>1, <1>3, <1>4

(* Every number of routes comes first.                                     *)
LEMMA FirstOnes ==
  ASSUME NEW S \in SUBSET Nat, IsFiniteSet(S), NEW res \in [S -> Int],
         NEW left \in Nat, left <= Cardinality(S)
  PROVE  LET first == {id \in S : Cardinality(Ahead(S, res, id)) < left} IN
         IsFiniteSet(first) /\ Cardinality(first) = left
<1> DEFINE n == Cardinality(S)
           rank == [id \in S |-> Cardinality(Ahead(S, res, id))]
           T == 0 .. n - 1
           first == {id \in S : rank[id] < left}
           L == 0 .. left - 1
<1>0. n \in Nat
  BY FS_CardinalityType
<1>1. \A id \in S : rank[id] \in T
  BY AheadFacts
<1>2. \A a, b \in S : rank[a] = rank[b] => a = b
  BY RanksDiffer
<1>3. IsFiniteSet(T) /\ Cardinality(T) = n
  <2>1. n - 1 \in Int /\ 0 \in Int
    BY <1>0
  <2> DEFINE m == n - 1
  <2> HIDE DEF m
  <2>2. IsFiniteSet(0 .. m) /\ Cardinality(0 .. m) = IF 0 > m THEN 0 ELSE m - 0 + 1
    BY <2>1, FS_Interval DEF m
  <2> QED
    BY <1>0, <2>2 DEF m
<1>4. IsFiniteSet(L) /\ Cardinality(L) = left
  <2>1. left - 1 \in Int /\ 0 \in Int
    OBVIOUS
  <2> DEFINE m == left - 1
  <2> HIDE DEF m
  <2>2. IsFiniteSet(0 .. m) /\ Cardinality(0 .. m) = IF 0 > m THEN 0 ELSE m - 0 + 1
    BY <2>1, FS_Interval DEF m
  <2> QED
    BY <2>2 DEF m
<1>5. rank \in Injection(S, T)
  BY <1>1, <1>2 DEF Injection, IsInjective
<1>6. rank \in Surjection(S, T)
  <2> HIDE DEF rank, T
  <2> QED  BY <1>3, <1>5, FS_Injection
<1>7. \A t \in T : \E id \in S : rank[id] = t
  BY <1>6 DEF Surjection
<1> DEFINE g == [id \in first |-> rank[id]]
<1>8. first \in SUBSET S /\ IsFiniteSet(first)
  BY FS_Subset
<1>9. g \in Bijection(first, L)
  <2>1. g \in [first -> L]
    <3>1. \A id \in first : rank[id] \in L
      BY <1>0, <1>1
    <3> QED
      BY <3>1
  <2>2. IsInjective(g)
    BY <1>2 DEF IsInjective
  <2>3. \A t \in L : \E id \in first : g[id] = t
    <3> SUFFICES ASSUME NEW t \in L PROVE \E id \in first : g[id] = t
      OBVIOUS
    <3>1. t \in T /\ t < left
      BY <1>0
    <3>2. PICK id \in S : rank[id] = t
      BY <1>7, <3>1
    <3> QED
      BY <3>1, <3>2
  <2> QED
    BY <2>1, <2>2, <2>3 DEF Bijection, Injection, Surjection
<1>10. ExistsBijection(first, L)
  BY <1>9 DEF ExistsBijection
<1>11. Cardinality(L) = Cardinality(first)
  <2> HIDE DEF first, L
  <2> QED  BY <1>8, <1>10, FS_Bijection
<1> QED
  BY <1>4, <1>8, <1>11

KeptShares(raw) == [id \in DOMAIN raw |-> IF raw[id] < 0 /\ -raw[id] <= Tolerance THEN 0 ELSE raw[id]]
TotalKept(raw) == Share(KeptShares(raw), DOMAIN raw)
FloorsOf(raw) == [id \in DOMAIN raw |-> (100 * KeptShares(raw)[id]) \div TotalKept(raw)]
ResidualsOf(raw) == [id \in DOMAIN raw |-> (100 * KeptShares(raw)[id]) % TotalKept(raw)]
LeftOf(raw) == 100 - Share(FloorsOf(raw), DOMAIN raw)
BeforeOf(raw, id) ==
  {o \in DOMAIN raw :
     \/ (100 * KeptShares(raw)[o]) % TotalKept(raw) > (100 * KeptShares(raw)[id]) % TotalKept(raw)
     \/ ((100 * KeptShares(raw)[o]) % TotalKept(raw) = (100 * KeptShares(raw)[id]) % TotalKept(raw) /\ o < id)}

(* The quantized shares by these names.                                    *)
LEMMA QuantizedIs ==
  ASSUME NEW raw
  PROVE  Quantized(raw) =
           IF TotalKept(raw) <= 0 THEN KeptShares(raw)
           ELSE [id \in DOMAIN raw |->
                   FloorsOf(raw)[id] + (IF Cardinality(BeforeOf(raw, id)) < LeftOf(raw) THEN 1 ELSE 0)]
BY Zenon DEF Quantized, KeptShares, TotalKept, FloorsOf, LeftOf, BeforeOf

LEMMA BeforeIs ==
  ASSUME NEW raw, NEW id \in DOMAIN raw
  PROVE  BeforeOf(raw, id) = Ahead(DOMAIN raw, ResidualsOf(raw), id)
<1> DEFINE res == ResidualsOf(raw)
<1>1. \A o \in DOMAIN raw : res[o] = (100 * KeptShares(raw)[o]) % TotalKept(raw)
  BY DEF ResidualsOf
<1>2. \A o \in DOMAIN raw : o \in BeforeOf(raw, id) <=> (res[o] > res[id] \/ (res[o] = res[id] /\ o < id))
  <2> HIDE DEF res
  <2> SUFFICES ASSUME NEW o \in DOMAIN raw
               PROVE  o \in BeforeOf(raw, id) <=> (res[o] > res[id] \/ (res[o] = res[id] /\ o < id))
    OBVIOUS
  <2>1. res[id] = (100 * KeptShares(raw)[id]) % TotalKept(raw) /\ res[o] = (100 * KeptShares(raw)[o]) % TotalKept(raw)
    BY <1>1
  <2>2. o \in BeforeOf(raw, id) <=>
          \/ (100 * KeptShares(raw)[o]) % TotalKept(raw) > (100 * KeptShares(raw)[id]) % TotalKept(raw)
          \/ ((100 * KeptShares(raw)[o]) % TotalKept(raw) = (100 * KeptShares(raw)[id]) % TotalKept(raw) /\ o < id)
    BY Zenon DEF BeforeOf
  <2> QED
    BY <2>1, <2>2, Zenon
<1>3. \A o \in DOMAIN raw : o \in Ahead(DOMAIN raw, res, id) <=> (res[o] > res[id] \/ (res[o] = res[id] /\ o < id))
  <2> HIDE DEF res
  <2> QED  BY DEF Ahead
<1>4. BeforeOf(raw, id) \subseteq DOMAIN raw /\ Ahead(DOMAIN raw, res, id) \subseteq DOMAIN raw
  BY DEF BeforeOf, Ahead
<1> HIDE DEF res
<1> QED
  BY <1>2, <1>3, <1>4 DEF res

LEMMA Remainder ==
  ASSUME NEW a \in Int, NEW d \in Nat \ {0}
  PROVE  a \div d \in Int /\ a % d \in 0 .. d - 1 /\ a = (a % d) + d * (a \div d)
OBVIOUS

(* The least a route is given is its part of the total, less than a unit   *)
(* down.                                                                   *)
LEMMA QuantizedWhole ==
  ASSUME NEW S \in SUBSET Nat, IsFiniteSet(S), NEW raw \in [S -> Int], TotalKept(raw) > 0
  PROVE  /\ Quantized(raw) \in [S -> Int] /\ Share(Quantized(raw), S) = 100
         /\ \A id \in S : TotalKept(raw) * Quantized(raw)[id] >= 100 * KeptShares(raw)[id] - TotalKept(raw)
         /\ \A id \in S : KeptShares(raw)[id] >= 0 => Quantized(raw)[id] >= 0
<1> DEFINE kept == KeptShares(raw)
           T == TotalKept(raw)
           F == FloorsOf(raw)
           R == ResidualsOf(raw)
           left == LeftOf(raw)
           n == Cardinality(S)
           H == [id \in S |-> 100 * kept[id]]
<1>0. n \in Nat /\ DOMAIN raw = S
  BY FS_CardinalityType
<1>1. kept \in [S -> Int]
  BY DEF KeptShares
<1>2. T \in Nat \ {0} /\ T = SumFunctionOnSet(kept, S)
  <2>1. T = Share(kept, S)
    BY <1>0 DEF TotalKept
  <2>2. T \in Int
    <3>1. S \in SUBSET S
      OBVIOUS
    <3> HIDE DEF kept, T
    <3> QED  BY <1>1, <2>1, <3>1, ShareInt
  <2> QED
    BY <2>1, <2>2 DEF Share
<1>3. /\ F = [id \in S |-> (100 * kept[id]) \div T]
      /\ R = [id \in S |-> (100 * kept[id]) % T]
      /\ left = 100 - SumFunctionOnSet(F, S)
  BY <1>0 DEF FloorsOf, ResidualsOf, LeftOf, Share
<1> HIDE DEF kept, T, F, R, left, n
<1>4. ASSUME NEW id \in S
      PROVE  F[id] \in Int /\ R[id] \in 0 .. T - 1 /\ H[id] = R[id] + T * F[id]
  <2> DEFINE a == 100 * kept[id]
  <2>1. a \in Int /\ F[id] = a \div T /\ R[id] = a % T /\ H[id] = a
    BY <1>1, <1>3
  <2> HIDE DEF a, H
  <2> QED
    BY <1>2, <2>1, Remainder
<1>5. SumFunctionOnSet(H, S) = 100 * T
  <2> DEFINE zero == [id \in S |-> 0]
  <2>1. Linear(S, zero, kept, H, 100)
    BY <1>1 DEF Linear
  <2>2. SumFunctionOnSet(zero, S) = 0
    <3>1. (\A id \in S : zero[id] \in Int /\ zero[id] = 0) /\ {} \in SUBSET S /\ S \ {} = S
      OBVIOUS
    <3> HIDE DEF zero
    <3>2. SumFunctionOnSet(zero, S) = SumFunctionOnSet(zero, {})
      BY <3>1, SumZeros
    <3> QED
      BY <3>2, SumEmpty
  <2> HIDE DEF zero, H
  <2>3. SumFunctionOnSet(H, S) = SumFunctionOnSet(zero, S) + 100 * SumFunctionOnSet(kept, S)
    BY <2>1, SumLinear
  <2> QED
    BY <1>2, <2>2, <2>3
<1>6. SumFunctionOnSet(H, S) = SumFunctionOnSet(R, S) + T * SumFunctionOnSet(F, S)
  <2>1. Linear(S, R, F, H, T)
    BY <1>2, <1>4 DEF Linear
  <2> HIDE DEF H
  <2> QED
    BY <2>1, SumLinear
<1>7. SumFunctionOnSet(R, S) \in Nat /\ SumFunctionOnSet(R, S) <= T * n
  <2>1. \A id \in S : R[id] \in Nat
    BY <1>4
  <2> DEFINE one == [id \in S |-> 1]
             zero == [id \in S |-> 0]
             most == [id \in S |-> T]
  <2>2. Linear(S, zero, one, most, T) /\ \A id \in S : one[id] = 1
    BY <1>2 DEF Linear
  <2>3. \A id \in S : R[id] \in Int /\ most[id] \in Int /\ R[id] <= most[id]
    BY <1>2, <1>4
  <2>4. SumFunctionOnSet(zero, S) = 0
    <3>1. (\A id \in S : zero[id] \in Int /\ zero[id] = 0) /\ {} \in SUBSET S /\ S \ {} = S
      OBVIOUS
    <3> HIDE DEF zero
    <3>2. SumFunctionOnSet(zero, S) = SumFunctionOnSet(zero, {})
      BY <3>1, SumZeros
    <3> QED
      BY <3>2, SumEmpty
  <2> HIDE DEF one, zero, most
  <2>5. SumFunctionOnSet(most, S) = SumFunctionOnSet(zero, S) + T * SumFunctionOnSet(one, S)
    BY <2>2, SumLinear
  <2>6. SumFunctionOnSet(one, S) = n
    BY <2>2, SumOnes DEF n
  <2>7. SumFunctionOnSet(R, S) <= SumFunctionOnSet(most, S)
    BY <2>3, SumMonotone
  <2>8. S \in SUBSET S
    OBVIOUS
  <2>9. 0 <= SumFunctionOnSet(R, S) /\ SumFunctionOnSet(R, S) \in Int
    BY <2>1, <2>3, <2>8, SumGrows, SumInt
  <2>10. T * n \in Int
    BY <1>0, <1>2
  <2> QED
    BY <1>0, <1>2, <2>4, <2>5, <2>6, <2>7, <2>9, <2>10
<1>8. SumFunctionOnSet(F, S) \in Int
  <2>1. S \in SUBSET S /\ \A id \in S : F[id] \in Int
    BY <1>4
  <2> QED
    BY <2>1, SumInt
<1>9. left \in Nat /\ left <= n
  <2> DEFINE f == SumFunctionOnSet(F, S)
             s == SumFunctionOnSet(R, S)
  <2>1. f \in Int /\ s \in Nat /\ s <= T * n /\ 100 * T = s + T * f /\ left = 100 - f
    BY <1>3, <1>5, <1>6, <1>7, <1>8
  <2> HIDE DEF f, s
  <2>2. left \in Int /\ T * left = s
    BY <1>2, <2>1
  <2>3. left >= 0
    <3> SUFFICES ASSUME left <= -1 PROVE FALSE
      BY <2>2
    <3>1. T * left <= T * (-1) /\ T * (-1) = -T
      BY <1>2, <2>2
    <3> QED
      BY <1>2, <2>1, <2>2, <3>1
  <2>4. left <= n
    <3> SUFFICES ASSUME n + 1 <= left PROVE FALSE
      BY <1>0, <2>2
    <3>1. T * (n + 1) <= T * left /\ T * (n + 1) = T * n + T
      BY <1>0, <1>2, <2>2
    <3>2. T * n \in Int
      BY <1>0, <1>2
    <3> QED
      BY <1>2, <2>1, <2>2, <3>1, <3>2
  <2> QED
    BY <2>2, <2>3, <2>4
<1> DEFINE first == {id \in S : Cardinality(Ahead(S, R, id)) < left}
           bump == [id \in S |-> IF id \in first THEN 1 ELSE 0]
           Q == Quantized(raw)
<1>10. Q = [id \in S |-> F[id] + bump[id]]
  <2>1. ~(T <= 0)
    BY <1>2
  <2>2. Q = [id \in S |-> F[id] + (IF Cardinality(BeforeOf(raw, id)) < left THEN 1 ELSE 0)]
    BY <1>0, <2>1, QuantizedIs DEF T, F, left
  <2>3. \A id \in S : BeforeOf(raw, id) = Ahead(S, R, id)
    BY <1>0, BeforeIs DEF R
  <2> QED
    BY <2>2, <2>3
<1>11. Cardinality(first) = left /\ IsFiniteSet(first)
  <2>1. R \in [S -> Int]
    BY <1>3, <1>4
  <2> QED
    BY <1>9, <2>1, FirstOnes DEF n
<1> HIDE DEF Q, first
<1>12. \A id \in S : bump[id] \in {0, 1}
  OBVIOUS
<1>13. SumFunctionOnSet(bump, S) = left
  <2>1. (\A id \in S : bump[id] \in Int) /\ (\A id \in S \ first : bump[id] = 0) /\ (\A id \in first : bump[id] = 1)
        /\ first \in SUBSET S
    BY DEF first
  <2> HIDE DEF bump
  <2>2. SumFunctionOnSet(bump, S) = SumFunctionOnSet(bump, first)
    BY <2>1, SumZeros
  <2>3. SumFunctionOnSet(bump, first) = Cardinality(first)
    BY <1>11, <2>1, SumOnes
  <2> QED
    BY <1>11, <2>2, <2>3
<1>14. SumFunctionOnSet(Q, S) = 100
  <2>1. Linear(S, F, bump, Q, 1)
    BY <1>4, <1>10, <1>12 DEF Linear
  <2> HIDE DEF bump
  <2>2. SumFunctionOnSet(Q, S) = SumFunctionOnSet(F, S) + 1 * SumFunctionOnSet(bump, S)
    BY <2>1, SumLinear
  <2> QED
    BY <1>3, <1>8, <1>9, <1>13, <2>2
<1>15. ASSUME NEW id \in S
       PROVE  Q[id] \in Int /\ T * Q[id] >= 100 * kept[id] - T /\ (kept[id] >= 0 => Q[id] >= 0)
  <2> DEFINE f == F[id]
             e == R[id]
             k == kept[id]
             q == Q[id]
             b == bump[id]
  <2>1. /\ f \in Int /\ e \in 0 .. T - 1 /\ k \in Int /\ 100 * k = e + T * f
        /\ b \in {0, 1} /\ q = f + b
    BY <1>1, <1>4, <1>10, <1>12
  <2> HIDE DEF f, e, k, q, b
  <2>2. q \in Int /\ T * q = T * f + T * b
    BY <1>2, <2>1
  <2>3. T * b >= 0 /\ T * b \in Int /\ T * f \in Int
    BY <1>2, <2>1
  <2>4. T * q >= 100 * k - T
    BY <1>2, <2>1, <2>2, <2>3
  <2>5. ASSUME k >= 0 PROVE q >= 0
    <3> SUFFICES ASSUME f <= -1 PROVE FALSE
      BY <2>1
    <3>1. T * f <= T * (-1) /\ T * (-1) = -T
      BY <1>2, <2>1
    <3> QED
      BY <1>2, <2>1, <2>3, <2>5, <3>1
  <2> QED
    BY <2>2, <2>4, <2>5 DEF q, k
<1>16. Q \in [S -> Int]
  BY <1>10, <1>15
<1> QED
  BY <1>14, <1>15, <1>16 DEF Share, Q, T, kept

(* What passes the second check.                                           *)
LEMMA Revalidated ==
  ASSUME NEW r \in Requests, NEW raw \in [Included(r) -> Int],
         Violations(Quantized(raw), Constraints(r)) = {}
  PROVE  /\ TotalKept(raw) > 0 /\ Quantized(raw) \in [Included(r) -> Int]
         /\ Share(Quantized(raw), Included(r)) = 100
         /\ Meets(Quantized(raw), r, {}, Tolerance)
         /\ \A k \in Constraints(r) : Excess(k, Quantized(raw)) <= 100 * Tolerance
<1> DEFINE S == Included(r)
           x == Quantized(raw)
           total == TotalKept(raw)
           kept == KeptShares(raw)
<1>1. IsFiniteSet(S) /\ S \in SUBSET Nat /\ DOMAIN raw = S
  BY IncludedIn
<1>2. kept \in [S -> Int]
  BY <1>1 DEF KeptShares
<1>3. total \in Int /\ total = Share(kept, S)
  <2>1. total = Share(kept, S)
    BY <1>1 DEF TotalKept
  <2>2. S \in SUBSET S
    OBVIOUS
  <2> HIDE DEF kept, total, S
  <2> QED  BY <1>1, <1>2, <2>1, <2>2, ShareInt
<1>4. Tolerance \in 0 .. 99
  BY OptimizerAssumption
<1>5. x \in [S -> Int]
  <2>1. CASE total > 0
    BY <1>1, <2>1, QuantizedWhole
  <2>2. CASE total <= 0
    <3>1. x = kept
      BY <2>2, QuantizedIs
    <3> QED
      BY <1>2, <3>1
  <2> QED
    BY <1>3, <2>1, <2>2
<1>6. /\ {k \in Constraints(r) : Excess(k, x) > 100 * Tolerance} = {}
      /\ {Share(x, DOMAIN x)} \ ((100 - Tolerance) .. (100 + Tolerance)) = {}
  <2> DEFINE allowed == (100 - Tolerance) .. (100 + Tolerance)
             shares == {Share(x, DOMAIN x)} \ allowed
             A == {k \in Constraints(r) : Excess(k, x) > 100 * Tolerance}
             B == {Constraint("ALLOCATION_TOTAL", "total", All({}, DOMAIN x), "<=", 100) : t \in shares}
             C == {Constraint("NEGATIVE_ALLOCATION", id, All({id}, DOMAIN x), ">=", 0) :
                     id \in {o \in DOMAIN x : x[o] < -Tolerance}}
  <2>1. Violations(x, Constraints(r)) = A \cup B \cup C
    BY Zenon DEF Violations
  <2> HIDE DEF A, C, allowed
  <2>2. A = {} /\ B = {}
    BY <2>1
  <2>3. shares = {}
    BY <2>2
  <2> QED
    BY <2>2, <2>3 DEF A, allowed
<1>7. Share(x, S) \in (100 - Tolerance) .. (100 + Tolerance)
  BY <1>5, <1>6
<1>8. total > 0
  <2> SUFFICES ASSUME total <= 0 PROVE FALSE
    BY <1>3
  <2>1. x = kept
    BY QuantizedIs
  <2> HIDE DEF x, kept, total
  <2>2. Share(x, S) <= 0
    BY <1>3, <2>1
  <2> QED
    BY <1>3, <1>4, <1>7, <2>1
<1>9. \A k \in Constraints(r) : Excess(k, x) <= 100 * Tolerance
  <2> SUFFICES ASSUME NEW k \in Constraints(r) PROVE Excess(k, x) <= 100 * Tolerance
    OBVIOUS
  <2>1. ~(Excess(k, x) > 100 * Tolerance)
    BY <1>6
  <2> HIDE DEF x
  <2>2. Load(k.weight, x) \in Int /\ k.limit \in 0 .. 100
    BY <1>5, ConstraintLoad, LimitRequested
  <2>3. Excess(k, x) \in Int
    BY <2>2 DEF Excess
  <2> QED
    BY <1>4, <2>1, <2>3
<1>10. Meets(x, r, {}, Tolerance)
  <2> HIDE DEF x
  <2> QED  BY <1>4, <1>5, <1>9, ConstraintsSuffice
<1>11. Share(x, S) = 100
  BY <1>1, <1>8, QuantizedWhole
<1> QED
  BY <1>5, <1>8, <1>9, <1>10, <1>11

-----------------------------------------------------------------------------
(* What is reported of a portfolio.                                        *)

(* The reported figures by the shares they are calculated from.            *)
LEMMA RiskReported ==
  ASSUME NEW r, NEW x
  PROVE  Metrics(r, x).risk = SumFunction([id \in DOMAIN x |-> r.candidates[id].risk * x[id]])
BY DEF Metrics

LEMMA FlagReported ==
  ASSUME NEW r, NEW x, NEW f \in DOMAIN FlagCap
  PROVE  Metrics(r, x).flagged[f] = Share(x, {id \in DOMAIN x : f \in r.candidates[id].flags})
<1>1. Metrics(r, x).flagged = [g \in DOMAIN FlagCap |-> Share(x, {id \in DOMAIN x : g \in r.candidates[id].flags})]
  BY DEF Metrics
<1> QED
  BY <1>1

LEMMA LiquidityReported ==
  ASSUME NEW r, NEW x, NEW w \in DOMAIN Windows
  PROVE  Metrics(r, x).liquid[w] = SumFunction([id \in DOMAIN x |-> r.candidates[id].liquid[w] * x[id]])
<1>1. Metrics(r, x).liquid = [v \in DOMAIN Windows |-> SumFunction([id \in DOMAIN x |-> r.candidates[id].liquid[v] * x[id]])]
  BY DEF Metrics
<1> QED
  BY <1>1

Exposed(r, x, kind, name) == {id \in DOMAIN x : x[id] > 0 /\ r.candidates[id][kind] = name}

LEMMA ExposuresReported ==
  ASSUME NEW r, NEW x, NEW kind \in Reported, NEW name \in DOMAIN Metrics(r, x).by[kind]
  PROVE  /\ name \in {r.candidates[id][kind] : id \in {o \in DOMAIN x : x[o] > 0}} \ {NoneOf}
         /\ Metrics(r, x).by[kind][name] = Share(x, Exposed(r, x, kind, name))
<1> DEFINE Names(k) == {r.candidates[id][k] : id \in {o \in DOMAIN x : x[o] > 0}} \ {NoneOf}
           Part(k, n) == Share(x, {id \in DOMAIN x : x[id] > 0 /\ r.candidates[id][k] = n})
<1>1. Metrics(r, x).by = [k \in Reported |-> [n \in Names(k) |-> Part(k, n)]]
  BY DEF Metrics
<1> HIDE DEF Names, Part
<1>2. Metrics(r, x).by[kind] = [n \in Names(kind) |-> Part(kind, n)]
  BY <1>1
<1>3. name \in Names(kind) /\ Metrics(r, x).by[kind][name] = Part(kind, name)
  BY <1>2
<1> QED
  BY <1>3 DEF Names, Part, Exposed

(* The report of a portfolio that meets the policy keeps to it.            *)
LEMMA MetricsKeepLimits ==
  ASSUME NEW r \in Requests, NEW x \in [Included(r) -> Int], Meets(x, r, {}, Tolerance)
  PROVE  /\ \A f \in DOMAIN FlagCap : Metrics(r, x).flagged[f] <= PolicyOf(r.input)[FlagCap[f]] + Tolerance
         /\ \A w \in DOMAIN Windows : Metrics(r, x).liquid[w] >= 100 * (PolicyOf(r.input)[Windows[w]] - Tolerance)
         /\ Metrics(r, x).risk <= 100 * (PolicyOf(r.input)["WEIGHTED_RISK_MAXIMUM"] + Tolerance)
         /\ (\A id \in Included(r) : x[id] >= 0) =>
              \A kind \in Reported : \A name \in DOMAIN Metrics(r, x).by[kind] :
                Metrics(r, x).by[kind][name] <= PolicyOf(r.input)[GroupCap[kind]] + Tolerance
<1> DEFINE S == Included(r)
           cs == r.candidates
           p == PolicyOf(r.input)
           t == Tolerance
<1>0. DOMAIN x = S /\ IsFiniteSet(S) /\ S \subseteq DOMAIN cs
  BY IncludedIn
<1>1. t \in Nat
  BY OptimizerAssumption
<1>2. /\ \A code, of : code # "ROUTE_LIQUIDITY_CAPACITY" => LimitOf(r, {}, code, of) = 100 * p[code]
  BY NothingChanged DEF Requested
<1>3. ASSUME NEW f \in DOMAIN FlagCap PROVE Metrics(r, x).flagged[f] <= p[FlagCap[f]] + t
  <2> DEFINE set == {id \in DOMAIN x : f \in cs[id].flags}
             s == Share(x, set)
             l == p[FlagCap[f]]
  <2>1. FlagCap[f] # "ROUTE_LIQUIDITY_CAPACITY"
    BY DEF FlagCap
  <2>2. 100 * s <= LimitOf(r, {}, FlagCap[f], f) + 100 * t
    BY DEF Meets
  <2>3. Metrics(r, x).flagged[f] = s
    BY FlagReported
  <2>4. s \in Int
    <3>1. set \in SUBSET S
      BY <1>0
    <3> HIDE DEF set, S
    <3> QED  BY <1>0, <3>1, ShareInt DEF S
  <2>5. l \in 0 .. 100
    BY Limits
  <2>6. 100 * s <= 100 * l + 100 * t
    BY <1>2, <2>1, <2>2
  <2> HIDE DEF s, l, t
  <2> QED
    BY <1>1, <2>3, <2>4, <2>5, <2>6 DEF l
<1>4. ASSUME NEW w \in DOMAIN Windows PROVE Metrics(r, x).liquid[w] >= 100 * (p[Windows[w]] - t)
  <2> DEFINE weight == [id \in DOMAIN x |-> cs[id].liquid[w]]
             s == Load(weight, x)
             l == p[Windows[w]]
  <2>1. Windows[w] # "ROUTE_LIQUIDITY_CAPACITY"
    BY DEF Windows
  <2>2. s >= LimitOf(r, {}, Windows[w], w) - 100 * t
    BY DEF Meets
  <2>3. Metrics(r, x).liquid[w] = s
    <3>1. [id \in DOMAIN x |-> cs[id].liquid[w] * x[id]] = [id \in DOMAIN x |-> weight[id] * x[id]]
      OBVIOUS
    <3>2. Metrics(r, x).liquid[w] = SumFunction([id \in DOMAIN x |-> cs[id].liquid[w] * x[id]])
      BY LiquidityReported
    <3> HIDE DEF weight
    <3> QED
      BY <3>1, <3>2 DEF Load
  <2>4. s \in Int
    <3>1. \A id \in S : weight[id] \in Int
      <4> SUFFICES ASSUME NEW id \in S PROVE cs[id].liquid[w] \in Int
        BY <1>0
      <4>1. cs[id].liquid[w] \in 0 .. 100
        BY <1>0, CandidatesTyped
      <4> QED
        BY <4>1
    <3> HIDE DEF weight, S
    <3> QED  BY <1>0, <3>1, LoadInt DEF S
  <2>5. l \in 0 .. 100
    BY Limits
  <2>6. s >= 100 * l - 100 * t
    BY <1>2, <2>1, <2>2
  <2> HIDE DEF s, l, t
  <2> QED
    BY <1>1, <2>3, <2>4, <2>5, <2>6 DEF l
<1>5. Metrics(r, x).risk <= 100 * (p["WEIGHTED_RISK_MAXIMUM"] + t)
  <2> DEFINE weight == [id \in DOMAIN x |-> cs[id].risk]
             s == Load(weight, x)
             l == p["WEIGHTED_RISK_MAXIMUM"]
  <2>1. s <= LimitOf(r, {}, "WEIGHTED_RISK_MAXIMUM", "risk") + 100 * t
    BY DEF Meets
  <2>2. Metrics(r, x).risk = s
    <3>1. [id \in DOMAIN x |-> cs[id].risk * x[id]] = [id \in DOMAIN x |-> weight[id] * x[id]]
      OBVIOUS
    <3>2. Metrics(r, x).risk = SumFunction([id \in DOMAIN x |-> cs[id].risk * x[id]])
      BY RiskReported
    <3> HIDE DEF weight
    <3> QED
      BY <3>1, <3>2 DEF Load
  <2>3. s \in Int
    <3>1. \A id \in S : weight[id] \in Int
      BY <1>0, CandidatesTyped
    <3> HIDE DEF weight, S
    <3> QED  BY <1>0, <3>1, LoadInt DEF S
  <2>4. l \in 0 .. 100
    BY Limits
  <2>5. s <= 100 * l + 100 * t
    BY <1>2, <2>1
  <2> HIDE DEF s, l, t
  <2> QED
    BY <1>1, <2>2, <2>3, <2>4, <2>5 DEF l
<1>6. ASSUME \A id \in S : x[id] >= 0, NEW kind \in Reported, NEW name \in DOMAIN Metrics(r, x).by[kind]
      PROVE  Metrics(r, x).by[kind][name] <= p[GroupCap[kind]] + t
  <2> DEFINE part == Exposed(r, x, kind, name)
             whole == {o \in DOMAIN x : cs[o][kind] = name}
             s == Share(x, whole)
             l == p[GroupCap[kind]]
  <2>1. kind \in DOMAIN GroupCap
    BY DEF Reported
  <2>2. GroupCap[kind] # "ROUTE_LIQUIDITY_CAPACITY"
    BY <2>1 DEF GroupCap
  <2>3. /\ name \in {cs[id][kind] : id \in {o \in DOMAIN x : x[o] > 0}} \ {NoneOf}
        /\ Metrics(r, x).by[kind][name] = Share(x, part)
    <3>1. name \in {cs[id][kind] : id \in {o \in DOMAIN x : x[o] > 0}} \ {NoneOf}
      BY ExposuresReported, Zenon
    <3>2. Metrics(r, x).by[kind][name] = Share(x, part)
      BY ExposuresReported
    <3> QED
      BY <3>1, <3>2
  <2>4. PICK id \in S : name = cs[id][kind] /\ name # NoneOf
    BY <1>0, <2>3
  <2>5. 100 * s <= LimitOf(r, {}, GroupCap[kind], name) + 100 * t
    BY <1>0, <2>1, <2>4 DEF Meets
  <2>6. Share(x, part) = s
    <3>1. /\ whole \in SUBSET S /\ part \in SUBSET whole /\ IsFiniteSet(whole)
          /\ (\A o \in whole : x[o] \in Int) /\ \A o \in whole \ part : x[o] = 0
      <4>1. whole \in SUBSET S /\ part \in SUBSET whole
        BY <1>0 DEF Exposed
      <4>2. \A o \in whole \ part : x[o] = 0
        BY <1>0, <1>6 DEF Exposed
      <4>3. IsFiniteSet(whole)
        BY <1>0, <4>1, FS_Subset
      <4> QED
        BY <4>1, <4>2, <4>3
    <3> HIDE DEF whole, part
    <3> QED
      BY <3>1, SumZeros DEF Share
  <2>7. s \in Int
    <3>1. whole \in SUBSET S
      BY <1>0
    <3> HIDE DEF whole, S
    <3> QED  BY <1>0, <3>1, ShareInt DEF S
  <2>8. l \in 0 .. 100
    BY <2>1, Limits
  <2>9. 100 * s <= 100 * l + 100 * t
    BY <1>2, <2>2, <2>5
  <2> HIDE DEF s, l, t, part
  <2> QED
    BY <1>1, <2>3, <2>6, <2>7, <2>8, <2>9 DEF l
<1> QED
  BY <1>3, <1>4, <1>5, <1>6

-----------------------------------------------------------------------------
(* Suggestions.  A code and what it is about name one constraint.          *)

(* A constraint is told by its code and by what it is of.                  *)
LEMMA CodesDiffer ==
  /\ \A a, b \in DOMAIN GroupCap : GroupCap[a] = GroupCap[b] => a = b
  /\ \A a, b \in DOMAIN FlagCap : FlagCap[a] = FlagCap[b] => a = b
  /\ \A a, b \in DOMAIN Windows : Windows[a] = Windows[b] => a = b
  /\ \A a \in DOMAIN GroupCap : \A b \in DOMAIN FlagCap : GroupCap[a] # FlagCap[b]
  /\ \A a \in DOMAIN GroupCap : \A b \in DOMAIN Windows : GroupCap[a] # Windows[b]
  /\ \A a \in DOMAIN FlagCap : \A b \in DOMAIN Windows : FlagCap[a] # Windows[b]
  /\ \A a \in DOMAIN GroupCap : GroupCap[a] \notin {"ROUTE_LIQUIDITY_CAPACITY", "WEIGHTED_RISK_MAXIMUM"}
  /\ \A a \in DOMAIN FlagCap : FlagCap[a] \notin {"ROUTE_LIQUIDITY_CAPACITY", "WEIGHTED_RISK_MAXIMUM"}
  /\ \A a \in DOMAIN Windows : Windows[a] \notin {"ROUTE_LIQUIDITY_CAPACITY", "WEIGHTED_RISK_MAXIMUM"}
<1>1. DOMAIN GroupCap = {"product", "issuer", "protocol", "chain", "category"}
  BY DEF GroupCap
<1>2. DOMAIN FlagCap = {"stablecoin", "defi", "rwa", "gold"}
  BY DEF FlagCap
<1>3. DOMAIN Windows = {"immediate", "day", "week"}
  BY DEF Windows
<1>4. \A a, b \in DOMAIN GroupCap : GroupCap[a] = GroupCap[b] => a = b
  BY <1>1 DEF GroupCap
<1>5. \A a, b \in DOMAIN FlagCap : FlagCap[a] = FlagCap[b] => a = b
  BY <1>2 DEF FlagCap
<1>6. \A a, b \in DOMAIN Windows : Windows[a] = Windows[b] => a = b
  BY <1>3 DEF Windows
<1>7. \A a \in DOMAIN GroupCap :
        GroupCap[a] \in {"PRODUCT_CAP", "ISSUER_CAP", "PROTOCOL_CAP", "CHAIN_CAP", "CATEGORY_CAP"}
  BY <1>1 DEF GroupCap
<1>8. \A a \in DOMAIN FlagCap : FlagCap[a] \in {"STABLECOIN_CAP", "DEFI_CAP", "RWA_CAP", "GOLD_CAP"}
  BY <1>2 DEF FlagCap
<1>9. \A a \in DOMAIN Windows :
        Windows[a] \in {"IMMEDIATE_LIQUIDITY_MINIMUM", "TWENTY_FOUR_HOUR_LIQUIDITY_MINIMUM",
                        "SEVEN_DAY_LIQUIDITY_MINIMUM"}
  BY <1>3 DEF Windows
<1>10. \A a \in DOMAIN GroupCap : \A b \in DOMAIN FlagCap : GroupCap[a] # FlagCap[b]
  BY <1>7, <1>8
<1>11. \A a \in DOMAIN GroupCap : \A b \in DOMAIN Windows : GroupCap[a] # Windows[b]
  BY <1>7, <1>9
<1>12. \A a \in DOMAIN FlagCap : \A b \in DOMAIN Windows : FlagCap[a] # Windows[b]
  BY <1>8, <1>9
<1> QED
  BY <1>4, <1>5, <1>6, <1>7, <1>8, <1>9, <1>10, <1>11, <1>12

LEMMA OneConstraint ==
  ASSUME NEW r, NEW k \in Constraints(r), NEW j \in Constraints(r), k.code = j.code, k.of = j.of
  PROVE  k = j
<1> DEFINE R(x) == \E id \in Included(r) : x = RouteLimit(r, id)
           G(x) == \E kind \in DOMAIN GroupCap : \E name : x = GroupLimit(r, kind, name)
           F(x) == \E f \in DOMAIN FlagCap : x = FlagLimit(r, f)
           W(x) == \E w \in DOMAIN Windows : x = WindowLimit(r, w)
           GC == {GroupCap[a] : a \in DOMAIN GroupCap}
           FC == {FlagCap[a] : a \in DOMAIN FlagCap}
           WC == {Windows[a] : a \in DOMAIN Windows}
<1>1. \A x \in Constraints(r) : R(x) \/ G(x) \/ F(x) \/ W(x) \/ x = RiskLimit(r)
  <2> SUFFICES ASSUME NEW x \in Constraints(r) PROVE R(x) \/ G(x) \/ F(x) \/ W(x) \/ x = RiskLimit(r)
    OBVIOUS
  <2> QED
    BY KindsOfConstraints
<1>2. /\ \A id : RouteLimit(r, id).code = "ROUTE_LIQUIDITY_CAPACITY" /\ RouteLimit(r, id).of = id
      /\ \A kind, name : GroupLimit(r, kind, name).code = GroupCap[kind] /\ GroupLimit(r, kind, name).of = name
      /\ \A f : FlagLimit(r, f).code = FlagCap[f]
      /\ \A w : WindowLimit(r, w).code = Windows[w]
      /\ RiskLimit(r).code = "WEIGHTED_RISK_MAXIMUM"
  BY DEF RouteLimit, GroupLimit, FlagLimit, WindowLimit, RiskLimit, Constraint
<1>3. /\ \A x : R(x) => x.code = "ROUTE_LIQUIDITY_CAPACITY"
      /\ \A x : G(x) => x.code \in GC
      /\ \A x : F(x) => x.code \in FC
      /\ \A x : W(x) => x.code \in WC
  BY <1>2
<1>4. /\ GC \cap FC = {} /\ GC \cap WC = {} /\ FC \cap WC = {}
      /\ "ROUTE_LIQUIDITY_CAPACITY" \notin GC \cup FC \cup WC /\ "WEIGHTED_RISK_MAXIMUM" \notin GC \cup FC \cup WC
  BY CodesDiffer
<1>5. R(j) \/ G(j) \/ F(j) \/ W(j) \/ j = RiskLimit(r)
  BY <1>1
<1> DEFINE Tells ==
      /\ j.code = "ROUTE_LIQUIDITY_CAPACITY" => R(j)
      /\ j.code \in GC => G(j)
      /\ j.code \in FC => F(j)
      /\ j.code \in WC => W(j)
      /\ j.code = "WEIGHTED_RISK_MAXIMUM" => j = RiskLimit(r)
<1>6. Tells
  <2>1. /\ R(j) => j.code = "ROUTE_LIQUIDITY_CAPACITY"
        /\ G(j) => j.code \in GC
        /\ F(j) => j.code \in FC
        /\ W(j) => j.code \in WC
        /\ j = RiskLimit(r) => j.code = "WEIGHTED_RISK_MAXIMUM"
    BY <1>2, <1>3
  <2> HIDE DEF R, G, F, W, GC, FC, WC
  <2> QED
    BY <1>4, <1>5, <2>1
<1>7. CASE R(k)
  <2>1. k.code = "ROUTE_LIQUIDITY_CAPACITY"
    BY <1>2, <1>7
  <2>2. R(j)
    BY <1>6, <2>1
  <2> QED
    BY <1>2, <1>7, <2>2
<1>8. CASE G(k)
  <2>1. PICK kind \in DOMAIN GroupCap : \E name : k = GroupLimit(r, kind, name)
    BY <1>8
  <2>2. k = GroupLimit(r, kind, k.of) /\ k.code = GroupCap[kind]
    BY <1>2, <2>1
  <2>3. G(j)
    BY <1>6, <2>2
  <2>4. PICK other \in DOMAIN GroupCap : \E name : j = GroupLimit(r, other, name)
    BY <2>3
  <2>5. j = GroupLimit(r, other, j.of) /\ j.code = GroupCap[other]
    BY <1>2, <2>4
  <2>6. kind = other
    BY <2>2, <2>5, CodesDiffer
  <2> QED
    BY <2>2, <2>5, <2>6
<1>9. CASE F(k)
  <2>1. PICK f \in DOMAIN FlagCap : k = FlagLimit(r, f)
    BY <1>9
  <2>2. k.code = FlagCap[f]
    BY <1>2, <2>1
  <2>3. F(j)
    BY <1>6, <2>2
  <2>4. PICK g \in DOMAIN FlagCap : j = FlagLimit(r, g)
    BY <2>3
  <2>5. f = g
    BY <1>2, <2>2, <2>4, CodesDiffer
  <2> QED
    BY <2>1, <2>4, <2>5
<1>10. CASE W(k)
  <2>1. PICK w \in DOMAIN Windows : k = WindowLimit(r, w)
    BY <1>10
  <2>2. k.code = Windows[w]
    BY <1>2, <2>1
  <2>3. W(j)
    BY <1>6, <2>2
  <2>4. PICK v \in DOMAIN Windows : j = WindowLimit(r, v)
    BY <2>3
  <2>5. w = v
    BY <1>2, <2>2, <2>4, CodesDiffer
  <2> QED
    BY <2>1, <2>4, <2>5
<1>11. CASE k = RiskLimit(r)
  <2>1. k.code = "WEIGHTED_RISK_MAXIMUM"
    BY <1>2, <1>11
  <2> QED
    BY <1>11, <1>6, <2>1
<1> QED
  BY <1>1, <1>7, <1>8, <1>9, <1>10, <1>11

(* The changes read off a portfolio admit it.                              *)
LEMMA SuggestionsMeet ==
  ASSUME NEW r \in Requests, NEW x \in Portfolios(Included(r))
  PROVE  Meets(x, r, Suggestions(Constraints(r), x), Tolerance)
<1> DEFINE C == Constraints(r)
           S == Included(r)
           t == Tolerance
           changes == Suggestions(C, x)
           Limit(k) == IF k.sense = "<=" THEN 100 * k.limit + Slack(C, x)[k]
                       ELSE Max({0, 100 * k.limit - Slack(C, x)[k]})
<1>1. x \in [S -> Int] /\ \A id \in S : x[id] >= 0
  BY IncludedIn, PortfolioIn
<1>2. t \in Nat
  BY OptimizerAssumption
<1>3. ASSUME NEW k \in C
      PROVE  /\ Load(k.weight, x) \in Int /\ Load(k.weight, x) >= 0 /\ Excess(k, x) \in Int
             /\ k.sense = "<=" => Excess(k, x) = Load(k.weight, x) - 100 * k.limit
             /\ k.sense = ">=" => Excess(k, x) = 100 * k.limit - Load(k.weight, x)
             /\ Slack(C, x)[k] = IF Excess(k, x) > 0 THEN Excess(k, x) ELSE 0
             /\ k.limit \in 0 .. 100 /\ k.sense \in {"<=", ">="}
             /\ Requested(r, k.code, k.of) \in Nat /\ 100 * k.limit <= Requested(r, k.code, k.of)
             /\ k.sense = ">=" => 100 * k.limit = Requested(r, k.code, k.of)
  <2>1. Load(k.weight, x) \in Int /\ Load(k.weight, x) >= 0
    BY <1>1, <1>3, ConstraintLoad
  <2>2. /\ k.limit \in 0 .. 100 /\ k.sense \in {"<=", ">="}
        /\ Requested(r, k.code, k.of) \in Nat /\ 100 * k.limit <= Requested(r, k.code, k.of)
        /\ k.sense = ">=" => 100 * k.limit = Requested(r, k.code, k.of)
    BY <1>3, LimitRequested
  <2>3. Slack(C, x)[k] = IF Excess(k, x) > 0 THEN Excess(k, x) ELSE 0
    BY <1>3 DEF Slack
  <2>4. /\ k.sense = "<=" => Excess(k, x) = Load(k.weight, x) - 100 * k.limit
        /\ k.sense = ">=" => Excess(k, x) = 100 * k.limit - Load(k.weight, x)
    BY DEF Excess
  <2> QED
    BY <2>1, <2>2, <2>3, <2>4
<1>4. ASSUME NEW k \in C, Slack(C, x)[k] > 100 * t
      PROVE  Limit(k) = Load(k.weight, x)
  <2> DEFINE l == k.limit
             s == Slack(C, x)[k]
             e == Excess(k, x)
             w == Load(k.weight, x)
  <2>1. /\ w \in Int /\ w >= 0 /\ e \in Int /\ l \in 0 .. 100 /\ s = IF e > 0 THEN e ELSE 0
        /\ k.sense = "<=" => e = w - 100 * l
        /\ k.sense = ">=" => e = 100 * l - w
        /\ k.sense \in {"<=", ">="} /\ s > 100 * t
    BY <1>3, <1>4
  <2>2. Limit(k) = IF k.sense = "<=" THEN 100 * l + s ELSE Max({0, 100 * l - s})
    OBVIOUS
  <2> HIDE DEF l, s, e, w, t, Limit
  <2>3. s = e
    BY <1>2, <2>1
  <2>4. CASE k.sense = "<="
    BY <2>1, <2>2, <2>3, <2>4 DEF w
  <2>5. CASE k.sense = ">="
    <3>1. 100 * l - s = w
      BY <2>1, <2>3, <2>5
    <3>2. Max({0, w}) = w
      BY <2>1 DEF Max
    <3> QED
      BY <2>2, <2>5, <3>1, <3>2 DEF w
  <2> QED
    BY <2>1, <2>4, <2>5
<1>5. \A s : s \in changes <=> \E k \in C : Slack(C, x)[k] > 100 * t /\ s = [code |-> k.code, of |-> k.of, limit |-> Limit(k)]
  BY DEF Suggestions
<1> HIDE DEF Limit, changes, t, C
<1>6. ASSUME NEW s \in changes
      PROVE  \E k \in C : s.code = k.code /\ s.of = k.of /\ s.limit = Load(k.weight, x)
  <2>1. PICK k \in C : Slack(C, x)[k] > 100 * t /\ s = [code |-> k.code, of |-> k.of, limit |-> Limit(k)]
    BY <1>5
  <2>2. Limit(k) = Load(k.weight, x)
    BY <1>4, <2>1
  <2> QED
    BY <2>1, <2>2
<1>7. UnusedFlags(r, changes, t)
  <2> SUFFICES ASSUME NEW f \in DOMAIN FlagCap PROVE 0 <= LimitOf(r, changes, FlagCap[f], f) + 100 * t
    BY DEF UnusedFlags
  <2> DEFINE changed == {s \in changes : s.code = FlagCap[f] /\ s.of = f}
  <2>1. CASE changed = {}
    <3>1. LimitOf(r, changes, FlagCap[f], f) = Requested(r, FlagCap[f], f)
      BY <2>1 DEF LimitOf
    <3>2. Requested(r, FlagCap[f], f) = 100 * PolicyOf(r.input)[FlagCap[f]]
      BY CodesDiffer DEF Requested
    <3>3. PolicyOf(r.input)[FlagCap[f]] \in 0 .. 100
      BY Limits
    <3> QED
      BY <1>2, <3>1, <3>2, <3>3
  <2>2. CASE changed # {}
    <3>1. PICK s : s \in changed /\ LimitOf(r, changes, FlagCap[f], f) = s.limit
      BY <2>2 DEF LimitOf
    <3>2. \E k \in C : s.limit = Load(k.weight, x)
      BY <1>6, <3>1
    <3>3. s.limit \in Int /\ s.limit >= 0
      BY <1>3, <3>2
    <3> QED
      BY <1>2, <3>1, <3>3
  <2> QED
    BY <2>1, <2>2
<1>8. ASSUME NEW k \in C
      PROVE  LET limit == LimitOf(r, changes, k.code, k.of) IN
             IF k.sense = "<=" THEN Load(k.weight, x) <= limit + 100 * t
             ELSE Load(k.weight, x) >= limit - 100 * t
  <2> DEFINE changed == {s \in changes : s.code = k.code /\ s.of = k.of}
             w == Load(k.weight, x)
             limit == LimitOf(r, changes, k.code, k.of)
  <2>1. CASE changed = {}
    <3>1. limit = Requested(r, k.code, k.of)
      BY <2>1 DEF LimitOf
    <3>2. ~(Slack(C, x)[k] > 100 * t)
      <4> SUFFICES ASSUME Slack(C, x)[k] > 100 * t PROVE FALSE
        OBVIOUS
      <4> DEFINE s == [code |-> k.code, of |-> k.of, limit |-> Limit(k)]
      <4>1. s \in changes
        BY <1>5, <1>8
      <4>2. s \in changed
        BY <4>1
      <4> QED
        BY <2>1, <4>2
    <3> DEFINE l == k.limit
               s == Slack(C, x)[k]
               e == Excess(k, x)
               q == Requested(r, k.code, k.of)
    <3>3. /\ w \in Int /\ e \in Int /\ l \in 0 .. 100 /\ s = IF e > 0 THEN e ELSE 0
          /\ k.sense = "<=" => e = w - 100 * l
          /\ k.sense = ">=" => e = 100 * l - w
          /\ k.sense \in {"<=", ">="} /\ q \in Nat /\ 100 * l <= q
          /\ k.sense = ">=" => 100 * l = q
      BY <1>3, <1>8
    <3> HIDE DEF w, limit, l, s, e, q
    <3>4. e <= 100 * t
      BY <1>2, <3>2, <3>3 DEF s
    <3>5. limit = q
      BY <3>1 DEF q
    <3>6. IF k.sense = "<=" THEN w <= limit + 100 * t ELSE w >= limit - 100 * t
      BY <1>2, <3>3, <3>4, <3>5
    <3> QED
      BY <3>6 DEF w, limit
  <2>2. CASE changed # {}
    <3>1. PICK s : s \in changed /\ limit = s.limit
      BY <2>2 DEF LimitOf
    <3>2. PICK j \in C : s.code = j.code /\ s.of = j.of /\ s.limit = Load(j.weight, x)
      BY <1>6, <3>1
    <3>3. j = k
      BY <1>8, <3>1, <3>2, OneConstraint DEF C
    <3>4. limit = w
      BY <3>1, <3>2, <3>3
    <3>5. w \in Int
      BY <1>3, <1>8
    <3> HIDE DEF w, limit
    <3>6. IF k.sense = "<=" THEN w <= limit + 100 * t ELSE w >= limit - 100 * t
      BY <1>2, <3>4, <3>5
    <3> QED
      BY <3>6 DEF w, limit
  <2> QED
    BY <2>1, <2>2
<1>9. KeptUpTo(r, changes, t, x)
  BY <1>8 DEF KeptUpTo, C
<1>10. Meets(x, r, changes, t)
  BY <1>1, <1>2, <1>7, <1>9, MeetsIsKept
<1> QED
  BY <1>10 DEF changes, t, C

-----------------------------------------------------------------------------
(* Yields, and what an error moves.                                        *)

(* Sums of multiples, of bounded terms, and a bound on finitely many.      *)
LEMMA SumTimes ==
  ASSUME NEW S, IsFiniteSet(S), NEW f, \A id \in S : f[id] \in Int, NEW c \in Int
  PROVE  SumFunctionOnSet([id \in S |-> c * f[id]], S) = c * SumFunctionOnSet(f, S)
<1> DEFINE zero == [id \in S |-> 0]
           h == [id \in S |-> c * f[id]]
<1>1. Linear(S, zero, f, h, c)
  BY DEF Linear
<1>2. (\A id \in S : zero[id] \in Int /\ zero[id] = 0) /\ {} \in SUBSET S /\ S \ {} = S
  OBVIOUS
<1>3. SumFunctionOnSet(f, S) \in Int
  <2>1. S \in SUBSET S
    OBVIOUS
  <2> QED
    BY <2>1, SumInt
<1> HIDE DEF zero, h
<1>4. SumFunctionOnSet(zero, S) = SumFunctionOnSet(zero, {})
  BY <1>2, SumZeros
<1>5. SumFunctionOnSet(h, S) = SumFunctionOnSet(zero, S) + c * SumFunctionOnSet(f, S)
  BY <1>1, SumLinear
<1> QED
  BY <1>3, <1>4, <1>5, SumEmpty DEF h

LEMMA SumBounded ==
  ASSUME NEW S, IsFiniteSet(S), NEW c \in Int, NEW f, \A id \in S : f[id] \in Int /\ f[id] <= c
  PROVE  SumFunctionOnSet(f, S) <= c * Cardinality(S)
<1> DEFINE one == [id \in S |-> 1]
           most == [id \in S |-> c * one[id]]
<1>1. (\A id \in S : one[id] \in Int /\ one[id] = 1) /\ \A id \in S : f[id] \in Int /\ most[id] \in Int /\ f[id] <= most[id]
  OBVIOUS
<1> HIDE DEF one
<1>2. SumFunctionOnSet(most, S) = c * SumFunctionOnSet(one, S)
  BY <1>1, SumTimes
<1>3. SumFunctionOnSet(one, S) = Cardinality(S)
  BY <1>1, SumOnes
<1> HIDE DEF most
<1>4. SumFunctionOnSet(f, S) <= SumFunctionOnSet(most, S)
  BY <1>1, SumMonotone
<1> QED
  BY <1>2, <1>3, <1>4

LEMMA Between ==
  ASSUME NEW S, IsFiniteSet(S), NEW f, \A id \in S : f[id] \in Int
  PROVE  \E low, high \in Int : \A id \in S : low <= f[id] /\ f[id] <= high
<1> DEFINE G == {T \in SUBSET S : \E low, high \in Int : \A id \in T : low <= f[id] /\ f[id] <= high}
<1>1. {} \in G
  <2>1. 0 \in Int
    OBVIOUS
  <2> QED
    BY <2>1
<1>2. ASSUME NEW T \in SUBSET S, NEW x \in S \ T, T \in G PROVE T \cup {x} \in G
  <2>1. PICK low, high \in Int : \A id \in T : low <= f[id] /\ f[id] <= high
    BY <1>2
  <2> DEFINE y == f[x]
             bottom == IF y < low THEN y ELSE low
             top == IF y > high THEN y ELSE high
  <2>2. y \in Int
    OBVIOUS
  <2> HIDE DEF y
  <2>3. bottom \in Int /\ top \in Int /\ bottom <= low /\ bottom <= y /\ high <= top /\ y <= top
    BY <2>1, <2>2
  <2> HIDE DEF bottom, top
  <2>4. \A id \in T \cup {x} : bottom <= f[id] /\ f[id] <= top
    <3> SUFFICES ASSUME NEW id \in T \cup {x} PROVE bottom <= f[id] /\ f[id] <= top
      OBVIOUS
    <3>1. CASE id = x
      BY <2>3, <3>1 DEF y
    <3>2. CASE id \in T
      <4>1. low <= f[id] /\ f[id] <= high /\ f[id] \in Int
        BY <2>1, <3>2
      <4> QED
        BY <2>1, <2>3, <4>1
    <3> QED
      BY <3>1, <3>2
  <2> QED
    BY <2>3, <2>4
<1> HIDE DEF G
<1>3. S \in G
  BY <1>1, <1>2, SetInduction
<1> QED
  BY <1>3 DEF G

LEMMA LeastOf ==
  ASSUME NEW S \in SUBSET Int, S # {}, NEW b \in Int, \A y \in S : b <= y
  PROVE  Min(S) \in S /\ \A y \in S : Min(S) <= y
<1> DEFINE Gaps == {y - b : y \in S}
<1>1. Gaps \in SUBSET Nat /\ Gaps # {}
  <2>1. \A y \in S : y - b \in Nat
    OBVIOUS
  <2> QED
    BY <2>1
<1>2. PICK n \in Gaps : \A m \in Gaps : n <= m
  <2> HIDE DEF Gaps
  <2> QED  BY <1>1, LeastNumber
<1>3. PICK x \in S : n = x - b
  BY <1>2
<1>4. \A y \in S : x <= y
  <2> SUFFICES ASSUME NEW y \in S PROVE x <= y
    OBVIOUS
  <2>1. y - b \in Gaps /\ y \in Int /\ x \in Int
    BY <1>3
  <2>2. x - b <= y - b
    BY <1>2, <1>3, <2>1
  <2> QED
    BY <2>1, <2>2
<1>5. Min(S) \in S /\ \A y \in S : Min(S) <= y
  BY <1>3, <1>4 DEF Min
<1> QED
  BY <1>5

YieldsOf(r) == [id \in DOMAIN r.candidates |-> AdjustedYield(r.candidates[id], r.input)]

(* The objective is a sum over the routes.                                 *)
LEMMA ObjectiveIs ==
  ASSUME NEW r \in Requests, NEW x \in [Included(r) -> Int]
  PROVE  /\ Objective(r, x) = SumFunctionOnSet([id \in Included(r) |-> YieldsOf(r)[id] * x[id]], Included(r))
         /\ Objective(r, x) \in Int /\ \A id \in Included(r) : YieldsOf(r)[id] \in Int
<1> DEFINE S == Included(r)
           f == [id \in S |-> YieldsOf(r)[id] * x[id]]
<1>1. S \subseteq DOMAIN r.candidates /\ IsFiniteSet(S)
  BY IncludedIn
<1>2. \A id \in S : YieldsOf(r)[id] = AdjustedYield(r.candidates[id], r.input)
  BY <1>1 DEF YieldsOf
<1>3. \A id \in S : YieldsOf(r)[id] \in Int
  BY <1>1, <1>2, CostIn
<1>4. f = [id \in S |-> AdjustedYield(r.candidates[id], r.input) * x[id]]
  BY <1>2
<1>5. Objective(r, x) = SumFunctionOnSet(f, S)
  <2>1. DOMAIN x = S /\ DOMAIN f = S
    OBVIOUS
  <2> HIDE DEF f, S
  <2> QED  BY <1>4, <2>1 DEF Objective, SumFunction
<1>6. \A id \in S : f[id] \in Int
  BY <1>3
<1>7. SumFunctionOnSet(f, S) \in Int
  <2>1. S \in SUBSET S
    OBVIOUS
  <2> HIDE DEF f, S
  <2> QED  BY <1>1, <1>6, <2>1, SumInt
<1> QED
  BY <1>3, <1>5, <1>7

(* The arithmetic of the error: what it moves in the objective is within   *)
(* the tolerance.                                                          *)
LEMMA ErrorCost ==
  ASSUME NEW E \in Nat, NEW tol \in Nat, 2 * E < tol, NEW T \in Nat, T >= 50,
         NEW P \in Nat, NEW B \in Nat, NEW K \in Nat, B <= K, NEW Y \in Int,
         T > 100 => (T - 100) * P <= 100 * (E * K),
         T * Y >= 100 * P - (100 * E + T) * B
  PROVE  Y >= P - tol * K
<1> DEFINE te == T * E
           W == T * tol
           c == 100 * E + T
           TP == T * P
           TY == T * Y
           cB == c * B
           cK == c * K
           EK == E * K
           WK == W * K
           teK == te * K
           TK == T * K
           tK == tol * K
<1>1. /\ te \in Nat /\ W \in Nat /\ c \in Nat /\ TP \in Nat /\ TY \in Int /\ cB \in Nat /\ cK \in Nat /\ EK \in Nat
      /\ WK \in Nat /\ teK \in Nat /\ TK \in Nat /\ tK \in Nat
  <2>1. \A a, b \in Nat : a * b \in Nat
    OBVIOUS
  <2>2. te \in Nat /\ W \in Nat /\ c \in Nat /\ TP \in Nat /\ EK \in Nat /\ TK \in Nat /\ tK \in Nat
    BY <2>1
  <2>3. TY \in Int
    OBVIOUS
  <2> HIDE DEF te, W, c
  <2> QED
    BY <2>1, <2>2, <2>3
<1>2. W >= 2 * te + T
  <2>1. T * (2 * E + 1) <= T * tol
    OBVIOUS
  <2>2. T * (2 * E + 1) = 2 * (T * E) + T
    OBVIOUS
  <2> QED
    BY <2>1, <2>2
<1>3. cB <= cK
  <2> HIDE DEF c
  <2> QED  BY <1>1
<1>4. cK = 100 * EK + TK
  OBVIOUS
<1>5. WK >= 2 * teK + TK
  <2>1. W * K >= (2 * te + T) * K
    <3> HIDE DEF W, te
    <3> QED  BY <1>1, <1>2
  <2>2. (2 * te + T) * K = 2 * (te * K) + T * K
    <3> HIDE DEF te
    <3> QED  BY <1>1
  <2> QED
    BY <2>1, <2>2
<1>6. teK = T * EK
  OBVIOUS
<1>7. TY >= 100 * P - cB
  OBVIOUS
<1>8. T * (Y - P + tK) = TY - TP + WK
  <2>1. T * tK = WK
    OBVIOUS
  <2>2. T * (Y - P + tK) = T * Y - T * P + T * tK
    <3> HIDE DEF tK
    <3> QED  BY <1>1
  <2> QED
    BY <2>1, <2>2
<1>9. TY - TP + WK >= 0
  <2>1. CASE T <= 100
    <3>1. TP <= 100 * P
      BY <2>1
    <3>2. teK >= 50 * EK
      <4> HIDE DEF EK, teK
      <4> QED  BY <1>1, <1>6
    <3> HIDE DEF te, W, c, TP, TY, cB, cK, EK, WK, teK, TK, tK
    <3> QED
      BY <1>1, <1>3, <1>4, <1>5, <1>7, <3>1, <3>2
  <2>2. CASE T > 100
    <3>1. TP - 100 * P <= 100 * EK
      <4>1. (T - 100) * P = T * P - 100 * P
        OBVIOUS
      <4> QED
        BY <2>2, <4>1
    <3>2. teK >= 100 * EK
      <4> HIDE DEF EK, teK
      <4> QED  BY <1>1, <1>6, <2>2
    <3> HIDE DEF te, W, c, TP, TY, cB, cK, EK, WK, teK, TK, tK
    <3> QED
      BY <1>1, <1>3, <1>4, <1>5, <1>7, <3>1, <3>2
  <2> QED
    BY <2>1, <2>2
<1>10. Y - P + tK >= 0
  <2> DEFINE gap == Y - P + tK
  <2>1. gap \in Int /\ T * gap >= 0
    BY <1>1, <1>8, <1>9
  <2> HIDE DEF gap
  <2>2. SUFFICES ASSUME gap <= -1 PROVE FALSE
    BY <2>1 DEF gap
  <2>3. T * gap <= T * (-1) /\ T * (-1) = -T
    BY <2>1, <2>2
  <2> QED
    BY <2>1, <2>3
<1> QED
  BY <1>1, <1>10

(* An accurate solver is read with no negative share, and with about the   *)
(* shares it found.                                                        *)
LEMMA AccurateShares ==
  ASSUME SolverIsAccurate, NEW r \in Requests, NEW o \in Portfolios(Included(r)),
         NEW err \in [Included(r) -> SolverErrors]
  PROVE  LET raw == [id \in Included(r) |-> o[id] + err[id]] IN
         /\ raw \in [Included(r) -> Int]
         /\ \A id \in Included(r) : KeptShares(raw)[id] \in Nat
         /\ \E E \in Nat : /\ 2 * E < Tolerance /\ 2 * E * Cardinality(Included(r)) <= 100
                           /\ \A id \in Included(r) : KeptShares(raw)[id] - o[id] \in -E .. E
<1> DEFINE S == Included(r)
           raw == [id \in S |-> o[id] + err[id]]
           kept == KeptShares(raw)
           n == Cardinality(S)
           all == Cardinality(DOMAIN r.candidates)
<1>1. PICK E \in Nat : /\ SolverErrors \subseteq -E .. E /\ 2 * E < Tolerance
                       /\ 2 * E * all <= 100
  BY DEF SolverIsAccurate
<1>2. n \in Nat /\ all \in Nat /\ n <= all /\ IsFiniteSet(S)
  BY IncludedIn
<1>3. 2 * E * n <= 100
  <2> HIDE DEF n, all
  <2>1. 2 * E * n <= 2 * E * all
    BY <1>2
  <2> QED
    BY <1>1, <1>2, <2>1
<1>4. \A id \in S : o[id] \in 0 .. 100
  BY <1>2, PortfolioIn
<1>5. Tolerance \in 0 .. 99
  BY OptimizerAssumption
<1>6. ASSUME NEW id \in S
      PROVE  raw[id] \in Int /\ kept[id] \in Nat /\ kept[id] - o[id] \in -E .. E
  <2>1. raw[id] = o[id] + err[id] /\ err[id] \in -E .. E /\ o[id] \in 0 .. 100
    BY <1>1, <1>4
  <2>2. kept[id] = IF raw[id] < 0 /\ -raw[id] <= Tolerance THEN 0 ELSE raw[id]
    BY DEF KeptShares
  <2> DEFINE a == raw[id]
             p == o[id]
             e == err[id]
             k == kept[id]
  <2>3. a = p + e /\ e \in -E .. E /\ p \in 0 .. 100 /\ k = IF a < 0 /\ -a <= Tolerance THEN 0 ELSE a
    BY <2>1, <2>2
  <2> HIDE DEF a, p, e, k
  <2>4. a \in Int /\ k \in Nat /\ k - p \in -E .. E
    BY <1>1, <1>5, <2>3
  <2> QED
    BY <2>4 DEF a, p, k
<1> QED
  BY <1>1, <1>3, <1>6

(* What the error of an accurate solver may cost: the spread of the yields *)
(* on the tolerance of every share.                                        *)
Allowance(r) ==
  LET yields == {AdjustedYield(r.candidates[id], r.input) : id \in Included(r)}
      spread == Max(yields) - Min(yields)
  IN  spread * Tolerance * Cardinality(Included(r))

(* What is given out earns as much as the solution, up to the tolerance.   *)
LEMMA EarnsAsMuch ==
  ASSUME SolverIsAccurate, NEW r \in Requests, Included(r) # {}, NEW o \in Portfolios(Included(r)),
         NEW err \in [Included(r) -> SolverErrors], NEW raw, raw = [id \in Included(r) |-> o[id] + err[id]],
         TotalKept(raw) > 0
  PROVE  Allowance(r) \in Int /\ Objective(r, Quantized(raw)) >= Objective(r, o) - Allowance(r)
<1> DEFINE S == Included(r)
           n == Cardinality(S)
           tol == Tolerance
           a == YieldsOf(r)
           yields == {AdjustedYield(r.candidates[id], r.input) : id \in S}
           m == Min(yields)
           spread == Max(yields) - m
           kept == KeptShares(raw)
           T == TotalKept(raw)
           y == Quantized(raw)
           b == [id \in S |-> a[id] - m]
<1>1. IsFiniteSet(S) /\ S \in SUBSET Nat /\ n \in Nat /\ S \subseteq DOMAIN r.candidates /\ S \in SUBSET S
  BY IncludedIn
<1>2. raw \in [S -> Int] /\ \A id \in S : kept[id] \in Nat
  BY AccurateShares
<1>3. PICK E \in Nat : 2 * E < tol /\ 2 * E * n <= 100 /\ \A id \in S : kept[id] - o[id] \in -E .. E
  BY AccurateShares
<1>4. o \in [S -> Int] /\ Share(o, S) = 100 /\ \A id \in S : o[id] \in 0 .. 100
  BY <1>1, PortfolioIn
<1>5. /\ y \in [S -> Int] /\ Share(y, S) = 100
      /\ \A id \in S : T * y[id] >= 100 * kept[id] - T
  BY <1>1, <1>2, QuantizedWhole
<1>6. tol \in Nat
  BY OptimizerAssumption
<1>7. /\ Objective(r, y) = SumFunctionOnSet([id \in S |-> a[id] * y[id]], S)
      /\ Objective(r, o) = SumFunctionOnSet([id \in S |-> a[id] * o[id]], S)
      /\ \A id \in S : a[id] \in Int
  <2> HIDE DEF y
  <2> QED  BY <1>4, <1>5, ObjectiveIs
<1>8. T \in Int /\ T = SumFunctionOnSet(kept, S)
  <2>1. DOMAIN raw = S /\ \A id \in S : kept[id] \in Int
    BY <1>2
  <2>2. T = Share(kept, S)
    BY <2>1 DEF TotalKept
  <2>3. kept \in [S -> Int]
    BY <1>2, <2>1 DEF KeptShares
  <2> HIDE DEF kept, T, S
  <2> QED  BY <1>1, <2>1, <2>2, <2>3, ShareInt DEF Share
<1>9. m \in Int /\ spread \in Nat /\ \A id \in S : b[id] \in Int /\ 0 <= b[id] /\ b[id] <= spread
  <2>1. \A id \in S : a[id] = AdjustedYield(r.candidates[id], r.input)
    BY <1>1 DEF YieldsOf
  <2>2. yields = {a[id] : id \in S}
    BY <2>1
  <2> HIDE DEF yields, a, S
  <2>3. PICK low, high \in Int : \A id \in S : low <= a[id] /\ a[id] <= high
    BY <1>1, <1>7, Between
  <2>4. yields \in SUBSET Int /\ yields # {} /\ (\A v \in yields : low <= v) /\ (\A v \in yields : v <= high)
    BY <1>7, <2>2, <2>3 DEF S
  <2>5. Min(yields) \in yields /\ \A v \in yields : Min(yields) <= v
    BY <2>4, LeastOf
  <2>6. Max(yields) \in yields /\ \A v \in yields : v <= Max(yields)
    BY <2>4, GreatestOf
  <2>7. Min(yields) \in Int /\ Max(yields) \in Int /\ Min(yields) <= Max(yields)
    BY <2>4, <2>5, <2>6
  <2> DEFINE M == Max(yields)
  <2>8. \A id \in S : a[id] \in Int /\ m <= a[id] /\ a[id] <= M
    BY <1>7, <2>2, <2>5, <2>6
  <2> HIDE DEF m, M
  <2>9. m \in Int /\ M \in Int /\ m <= M
    BY <2>7 DEF m, M
  <2>10. spread = M - m
    BY DEF M
  <2> HIDE DEF spread
  <2> QED
    BY <2>8, <2>9, <2>10
<1> HIDE DEF kept, T, y, S, n, tol, a, m, spread, yields
<1> DEFINE by == [id \in S |-> b[id] * y[id]]
           bo == [id \in S |-> b[id] * o[id]]
           P == SumFunctionOnSet(bo, S)
           Y == SumFunctionOnSet(by, S)
           B == SumFunctionOnSet(b, S)
           K == spread * n
<1>10. \A id \in S : b[id] \in Nat /\ by[id] \in Int /\ bo[id] \in Nat
  <2>1. \A id \in S : b[id] \in Nat /\ y[id] \in Int /\ o[id] \in Nat
    BY <1>4, <1>5, <1>9
  <2>2. \A u, v \in Nat : u * v \in Nat
    OBVIOUS
  <2>3. \A u \in Nat, v \in Int : u * v \in Int
    OBVIOUS
  <2> HIDE DEF b
  <2> QED
    BY <2>1, <2>2, <2>3
<1>11. P \in Nat /\ Y \in Int /\ B \in Nat
  <2> HIDE DEF by, bo, b
  <2>1. (\A id \in S : bo[id] \in Int) /\ (\A id \in S : b[id] \in Int)
    BY <1>10
  <2>2. P \in Int /\ Y \in Int /\ B \in Int
    BY <1>1, <1>10, <2>1, SumInt
  <2>3. 0 <= P /\ 0 <= B
    BY <1>1, <1>10, SumGrows
  <2> QED
    BY <2>2, <2>3
<1>12. ASSUME NEW x \in [S -> Int], Share(x, S) = 100
       PROVE  SumFunctionOnSet([id \in S |-> a[id] * x[id]], S) = SumFunctionOnSet([id \in S |-> b[id] * x[id]], S) + m * 100
  <2> DEFINE ax == [id \in S |-> a[id] * x[id]]
             bx == [id \in S |-> b[id] * x[id]]
  <2>1. \A id \in S : bx[id] \in Int /\ x[id] \in Int /\ ax[id] = bx[id] + m * x[id]
    <3> SUFFICES ASSUME NEW id \in S PROVE bx[id] \in Int /\ x[id] \in Int /\ ax[id] = bx[id] + m * x[id]
      OBVIOUS
    <3> DEFINE p == a[id]
               q == x[id]
    <3>1. p \in Int /\ q \in Int /\ m \in Int /\ ax[id] = p * q /\ bx[id] = (p - m) * q
      BY <1>7, <1>9
    <3> HIDE DEF p, q, ax, bx
    <3> QED
      BY <3>1 DEF q
  <2>2. Linear(S, bx, x, ax, m)
    BY <1>1, <1>9, <2>1 DEF Linear
  <2> HIDE DEF ax, bx
  <2>3. SumFunctionOnSet(ax, S) = SumFunctionOnSet(bx, S) + m * SumFunctionOnSet(x, S)
    BY <2>2, SumLinear
  <2> QED
    BY <1>12, <2>3 DEF Share, ax, bx
<1>13. Objective(r, y) = Y + m * 100 /\ Objective(r, o) = P + m * 100
  BY <1>4, <1>5, <1>7, <1>12
<1>14. B <= K /\ K \in Nat
  <2>1. K \in Nat
    <3>1. \A u, v \in Nat : u * v \in Nat
      OBVIOUS
    <3> QED
      BY <1>1, <1>9, <3>1
  <2> HIDE DEF b
  <2>2. spread \in Int /\ \A id \in S : b[id] \in Int /\ b[id] <= spread
    BY <1>9
  <2>3. B <= spread * Cardinality(S)
    BY <1>1, <2>2, SumBounded
  <2>4. B <= K
    BY <2>3 DEF n
  <2> QED
    BY <2>1, <2>4
<1>15. P <= spread * 100
  <2> DEFINE most == [id \in S |-> spread * o[id]]
  <2>1. \A id \in S : most[id] \in Int /\ bo[id] <= most[id]
    <3> SUFFICES ASSUME NEW id \in S PROVE most[id] \in Int /\ bo[id] <= most[id]
      OBVIOUS
    <3> DEFINE p == b[id]
               q == o[id]
    <3>1. p \in Int /\ p <= spread /\ q \in Nat /\ spread \in Nat /\ most[id] = spread * q /\ bo[id] = p * q
      BY <1>4, <1>9
    <3> HIDE DEF p, q, most, bo
    <3> QED
      BY <3>1
  <2>2. spread \in Int /\ (\A id \in S : o[id] \in Int) /\ \A id \in S : bo[id] \in Int
    BY <1>4, <1>9, <1>10
  <2>3. SumFunctionOnSet(most, S) = spread * SumFunctionOnSet(o, S)
    BY <1>1, <2>2, SumTimes
  <2> HIDE DEF most, bo
  <2>4. SumFunctionOnSet(bo, S) <= SumFunctionOnSet(most, S)
    BY <1>1, <2>1, <2>2, SumMonotone
  <2> QED
    BY <1>4, <2>3, <2>4 DEF Share
<1>16. 100 - E * n <= T /\ T <= 100 + E * n
  <2> DEFINE one == [id \in S |-> 1]
             up == [id \in S |-> o[id] + E * one[id]]
             down == [id \in S |-> o[id] + (-E) * one[id]]
  <2>1. \A id \in S : one[id] \in Int /\ one[id] = 1 /\ o[id] \in Int /\ kept[id] \in Int
    BY <1>2, <1>4
  <2>2. \A id \in S : /\ up[id] = o[id] + E * one[id] /\ down[id] = o[id] + (-E) * one[id]
                      /\ up[id] \in Int /\ down[id] \in Int /\ down[id] <= kept[id] /\ kept[id] <= up[id]
    <3> SUFFICES ASSUME NEW id \in S
                 PROVE  up[id] \in Int /\ down[id] \in Int /\ down[id] <= kept[id] /\ kept[id] <= up[id]
      OBVIOUS
    <3> DEFINE k == kept[id]
               q == o[id]
    <3>1. k \in Int /\ q \in Int /\ k - q \in -E .. E /\ up[id] = q + E * 1 /\ down[id] = q + (-E) * 1
      BY <1>3, <2>1
    <3> HIDE DEF k, q, up, down
    <3>2. up[id] \in Int /\ down[id] \in Int /\ down[id] <= k /\ k <= up[id]
      BY <3>1
    <3> QED
      BY <3>2 DEF k
  <2> HIDE DEF one, up, down
  <2>3. Linear(S, o, one, up, E) /\ Linear(S, o, one, down, -E)
    BY <1>1, <2>1, <2>2 DEF Linear
  <2>4. SumFunctionOnSet(up, S) = SumFunctionOnSet(o, S) + E * SumFunctionOnSet(one, S)
    BY <2>3, SumLinear
  <2>5. SumFunctionOnSet(down, S) = SumFunctionOnSet(o, S) + (-E) * SumFunctionOnSet(one, S)
    BY <2>3, SumLinear
  <2>6. SumFunctionOnSet(one, S) = n
    BY <1>1, <2>1, SumOnes DEF n
  <2>7. SumFunctionOnSet(kept, S) <= SumFunctionOnSet(up, S)
    BY <1>1, <2>1, <2>2, SumMonotone
  <2>8. SumFunctionOnSet(down, S) <= SumFunctionOnSet(kept, S)
    BY <1>1, <2>1, <2>2, SumMonotone
  <2>9. SumFunctionOnSet(o, S) = 100
    BY <1>4 DEF Share
  <2> QED
    BY <1>1, <1>8, <2>4, <2>5, <2>6, <2>7, <2>8, <2>9
<1>17. T * Y >= 100 * P - (100 * E + T) * B
  <2> DEFINE c == 100 * E + T
             hundred == 100
             high == [id \in S |-> T * by[id]]
             cent == [id \in S |-> hundred * bo[id]]
             low == [id \in S |-> cent[id] + (-c) * b[id]]
  <2>1. c \in Int
    BY <1>8
  <2>2. ASSUME NEW id \in S PROVE high[id] \in Int /\ low[id] \in Int /\ cent[id] \in Int /\ low[id] <= high[id]
    <3> DEFINE p == b[id]
               q == o[id]
               k == kept[id]
               z == y[id]
    <3>1. /\ p \in Nat /\ q \in Int /\ k \in Int /\ z \in Int /\ T \in Int
          /\ T * z >= 100 * k - T /\ k - q \in -E .. E
      BY <1>2, <1>3, <1>4, <1>5, <1>8, <1>10
    <3>2. high[id] = T * (p * z) /\ low[id] = 100 * (p * q) + (-c) * p /\ cent[id] = 100 * (p * q)
      OBVIOUS
    <3> HIDE DEF p, q, k, z, high, low, cent
    <3>3. high[id] \in Int /\ low[id] \in Int /\ cent[id] \in Int
      <4>1. p * z \in Int /\ p * q \in Int
        BY <3>1
      <4> DEFINE u == p * z
                 v == p * q
      <4>2. (-c) * p \in Int
        BY <2>1, <3>1
      <4>3. T * u \in Int
        <5> HIDE DEF u
        <5> QED  BY <3>1, <4>1 DEF u
      <4> HIDE DEF c, u, v
      <4> QED
        BY <3>1, <3>2, <4>1, <4>2, <4>3 DEF u, v
    <3>4. T * z >= 100 * q - c
      <4> DEFINE u == T * z
      <4>1. u \in Int
        BY <3>1
      <4> HIDE DEF u
      <4>2. u >= 100 * k - T
        BY <3>1 DEF u
      <4>3. u >= 100 * q - c
        BY <3>1, <4>1, <4>2
      <4> QED
        BY <4>3 DEF u
    <3> DEFINE w == T * z
               l == 100 * q - c
    <3>5. w \in Int /\ l \in Int /\ w >= l
      BY <2>1, <3>1, <3>4
    <3>6. p * l <= p * w
      <4> HIDE DEF w, l
      <4> QED  BY <3>1, <3>5
    <3>7. p * w = high[id] /\ p * l = low[id]
      <4> HIDE DEF c
      <4> QED  BY <2>1, <3>1, <3>2
    <3> QED
      BY <3>3, <3>6, <3>7
  <2>3. \A id \in S : by[id] \in Int /\ bo[id] \in Int /\ b[id] \in Int
    BY <1>10
  <2>4. \A id \in S : low[id] = cent[id] + (-c) * b[id]
    OBVIOUS
  <2> HIDE DEF b, by, bo
  <2>5. SumFunctionOnSet(high, S) = T * Y
    BY <1>1, <1>8, <2>3, SumTimes
  <2>6. SumFunctionOnSet(cent, S) = 100 * P
    <3>1. hundred \in Int
      OBVIOUS
    <3> HIDE DEF hundred
    <3>2. SumFunctionOnSet(cent, S) = hundred * P
      BY <1>1, <2>3, <3>1, SumTimes
    <3> QED
      BY <3>2 DEF hundred
  <2> HIDE DEF high, cent, low
  <2>7. Linear(S, cent, b, low, -c)
    BY <1>1, <2>1, <2>2, <2>3, <2>4 DEF Linear
  <2>8. SumFunctionOnSet(low, S) = SumFunctionOnSet(cent, S) + (-c) * SumFunctionOnSet(b, S)
    BY <2>7, SumLinear
  <2>9. SumFunctionOnSet(low, S) <= SumFunctionOnSet(high, S)
    BY <1>1, <2>2, SumMonotone
  <2> HIDE DEF P, Y, B
  <2>10. 100 * P + (-c) * B <= T * Y
    BY <2>5, <2>6, <2>8, <2>9 DEF B
  <2>11. (-c) * B = -(c * B) /\ c * B \in Int
    <3> HIDE DEF c
    <3> QED  BY <1>11, <2>1
  <2>12. T * Y \in Int
    BY <1>8, <1>11
  <2> QED
    BY <1>11, <2>10, <2>11, <2>12
<1> HIDE DEF P, Y, B
<1>18. T \in Nat /\ T >= 50
  <2> DEFINE en == E * n
  <2>1. en \in Nat
    BY <1>1
  <2>2. 2 * en <= 100
    BY <1>1, <1>3
  <2> HIDE DEF en
  <2> QED
    BY <1>8, <1>16, <2>1, <2>2 DEF en
<1>19. T > 100 => (T - 100) * P <= 100 * (E * K)
  <2> SUFFICES ASSUME T > 100 PROVE (T - 100) * P <= 100 * (E * K)
    OBVIOUS
  <2> DEFINE d == T - 100
             en == E * n
             s == spread * 100
  <2>1. d \in Nat /\ en \in Nat /\ d <= en /\ s \in Nat /\ P <= s
    BY <1>1, <1>9, <1>15, <1>16, <1>18
  <2>2. en * s = 100 * (E * K)
    BY <1>1, <1>9
  <2> HIDE DEF d, en, s, K
  <2>3. d * P <= en * P /\ en * P <= en * s
    BY <1>11, <2>1
  <2>4. d * P \in Int /\ en * P \in Int /\ en * s \in Int
    BY <1>11, <2>1
  <2> QED
    BY <2>2, <2>3, <2>4 DEF d
<1>20. Y >= P - tol * K
  <2> HIDE DEF K
  <2> QED  BY <1>3, <1>6, <1>11, <1>14, <1>17, <1>18, <1>19, ErrorCost
<1>21. tol * K = spread * tol * n
  BY <1>1, <1>6, <1>9
<1>22. spread * tol * n \in Int /\ Objective(r, y) >= Objective(r, o) - spread * tol * n
  <2> DEFINE cost == spread * tol * n
  <2>1. cost \in Int /\ m * 100 \in Int
    BY <1>1, <1>6, <1>9
  <2>2. Y >= P - cost
    BY <1>20, <1>21
  <2> HIDE DEF cost
  <2>3. Objective(r, y) >= Objective(r, o) - cost
    BY <1>9, <1>11, <1>13, <2>1, <2>2
  <2> QED
    BY <2>1, <2>3 DEF cost
<1>23. Allowance(r) = spread * tol * n
  BY DEF Allowance, S, n, tol, m, spread, yields
<1> QED
  BY <1>22, <1>23 DEF y

-----------------------------------------------------------------------------
(* The inductive invariant: what a stage may rely on, and what an answer   *)
(* promises; some of it only of an accurate solver.                        *)

IsBestFor(r, o) ==
  Included(r) # {} /\ o \in Feasible(r) /\ \A x \in Feasible(r) : Objective(r, x) <= Objective(r, o)

Promises ==
  /\ WholeCapitalIsAllocated /\ LimitsAreKept /\ InfeasibleMeansNone /\ SuggestionsSuffice
  /\ SolverIsAccurate => NoShareIsNegative /\ ExposuresAreWithinLimits /\ PreferenceCostsNothing

OptimizerInv ==
  /\ request \in Requests
  /\ stage \in {"prepared", "infeasible", "solved", "chosen", "done", "rejected"}
  /\ stage = "infeasible" => Feasible(request) = {}
  /\ stage \in {"solved", "chosen"} => IsBestFor(request, optimum)
  /\ stage # "done" => portfolio = NoResult
  /\ stage = "done" => portfolio.status \in {"FEASIBLE", "INFEASIBLE", "UNAVAILABLE"}
  /\ Promises

(* An answer that is neither feasible nor infeasible promises nothing.     *)
LEMMA NothingPromised ==
  ASSUME portfolio.status \notin {"FEASIBLE", "INFEASIBLE"}
  PROVE  Promises
BY DEF Promises, WholeCapitalIsAllocated, LimitsAreKept, InfeasibleMeansNone, SuggestionsSuffice,
       NoShareIsNegative, ExposuresAreWithinLimits, PreferenceCostsNothing

LEMMA OptimizerStarts == OptimizerInit => OptimizerInv
<1> SUFFICES ASSUME OptimizerInit PROVE OptimizerInv
  OBVIOUS
<1>1. request \in Requests /\ stage = "prepared" /\ portfolio = NoResult
  BY DEF OptimizerInit
<1>2. Promises
  BY <1>1, NothingPromised DEF NoResult
<1> QED
  BY <1>1, <1>2 DEF OptimizerInv, Promises

(* Without a route there is nothing to share out among.                    *)
LEMMA NoRouteNoPortfolio == Portfolios({}) = {}
<1> SUFFICES ASSUME NEW x \in Portfolios({}) PROVE FALSE
  OBVIOUS
<1>1. Share(x, {}) = 100
  BY DEF Portfolios
<1> QED
  BY <1>1, SumEmpty DEF Share

(* The objective is bounded, and so some portfolio is best.                *)
LEMMA ObjectiveBounded ==
  ASSUME NEW r \in Requests
  PROVE  \E b \in Int : \A x \in Feasible(r) : Objective(r, x) \in Int /\ Objective(r, x) <= b
<1> DEFINE S == Included(r)
           a == YieldsOf(r)
<1>1. IsFiniteSet(S) /\ S \subseteq DOMAIN r.candidates
  BY IncludedIn
<1>2. \A id \in S : a[id] \in Int
  BY <1>1, CostIn DEF YieldsOf
<1>3. PICK low, high \in Int : \A id \in S : low <= a[id] /\ a[id] <= high
  <2> HIDE DEF a, S
  <2> QED  BY <1>1, <1>2, Between
<1> DEFINE h == IF high > 0 THEN high ELSE 0
<1>4. h \in Nat /\ \A id \in S : a[id] <= h
  <2>1. h \in Nat /\ high <= h
    OBVIOUS
  <2> HIDE DEF h, a
  <2> QED
    BY <1>2, <1>3, <2>1
<1> HIDE DEF h
<1>5. ASSUME NEW x \in Feasible(r) PROVE Objective(r, x) \in Int /\ Objective(r, x) <= h * 100
  <2>1. x \in Portfolios(S)
    BY DEF Feasible
  <2>2. x \in [S -> Int] /\ Share(x, S) = 100 /\ \A id \in S : x[id] \in 0 .. 100
    BY <1>1, <2>1, PortfolioIn
  <2> DEFINE f == [id \in S |-> a[id] * x[id]]
             g == [id \in S |-> h * x[id]]
  <2>3. Objective(r, x) = SumFunctionOnSet(f, S) /\ Objective(r, x) \in Int
    BY <2>2, ObjectiveIs
  <2>4. \A id \in S : f[id] \in Int /\ g[id] \in Int /\ f[id] <= g[id]
    <3> SUFFICES ASSUME NEW id \in S PROVE f[id] \in Int /\ g[id] \in Int /\ f[id] <= g[id]
      OBVIOUS
    <3> DEFINE p == a[id]
               q == x[id]
    <3>1. p \in Int /\ p <= h /\ q \in Nat /\ h \in Nat /\ f[id] = p * q /\ g[id] = h * q
      BY <1>2, <1>4, <2>2
    <3> HIDE DEF p, q, f, g
    <3> QED
      BY <3>1
  <2>5. \A id \in S : x[id] \in Int
    BY <2>2
  <2>6. SumFunctionOnSet(g, S) = h * SumFunctionOnSet(x, S)
    BY <1>1, <1>4, <2>5, SumTimes
  <2> HIDE DEF f, g
  <2>7. SumFunctionOnSet(f, S) <= SumFunctionOnSet(g, S)
    BY <1>1, <2>4, SumMonotone
  <2> QED
    BY <2>2, <2>3, <2>6, <2>7 DEF Share
<1>6. h * 100 \in Int
  BY <1>4
<1> QED
  BY <1>5, <1>6

(* What the primary solve finds is the best of what is feasible.           *)
LEMMA BestOfFeasible ==
  ASSUME NEW r \in Requests, Included(r) # {}, NEW o \in Best([x \in Feasible(r) |-> Objective(r, x)])
  PROVE  IsBestFor(r, o)
<1> DEFINE value == [x \in Feasible(r) |-> Objective(r, x)]
<1>1. PICK b \in Int : \A x \in Feasible(r) : Objective(r, x) \in Int /\ Objective(r, x) <= b
  BY ObjectiveBounded
<1>2. \A x \in DOMAIN value : value[x] \in Int /\ value[x] <= b
  BY <1>1
<1>3. o \in Best(value) /\ DOMAIN value = Feasible(r) /\ \A x \in Feasible(r) : value[x] = Objective(r, x)
  OBVIOUS
<1> HIDE DEF value
<1>4. o \in Feasible(r)
  BY <1>3, BestAmong
<1>5. \A x \in DOMAIN value : value[x] <= value[o]
  BY <1>2, <1>3, BestIsBest
<1> QED
  BY <1>3, <1>4, <1>5 DEF IsBestFor

(* A step that gives an answer need only show what it promises.            *)
LEMMA GiveKeeps ==
  ASSUME OptimizerInv, NEW result, Give(result),
         result.status \in {"FEASIBLE", "INFEASIBLE", "UNAVAILABLE"}, Promises'
  PROVE  OptimizerInv'
<1>1. request' = request /\ stage' = "done" /\ portfolio' = result
  BY DEF Give
<1> QED
  BY <1>1 DEF OptimizerInv, Promises

(* The answers one by one.                                                 *)
LEMMA UnavailableKeeps ==
  ASSUME OptimizerInv, NEW result, Give(result), result.status = "UNAVAILABLE"
  PROVE  OptimizerInv'
<1>1. portfolio' = result
  BY DEF Give
<1>2. Promises'
  BY <1>1 DEF Promises, WholeCapitalIsAllocated, LimitsAreKept, InfeasibleMeansNone, SuggestionsSuffice,
              NoShareIsNegative, ExposuresAreWithinLimits, PreferenceCostsNothing
<1> QED
  BY <1>2, GiveKeeps

LEMMA InfeasibleKeeps ==
  ASSUME OptimizerInv, NEW result, Give(result), result.status = "INFEASIBLE",
         Feasible(request) = {},
         result.conflicts = {} \/ \E x \in Portfolios(Included(request)) : Meets(x, request, result.conflicts, Tolerance)
  PROVE  OptimizerInv'
<1>1. portfolio' = result /\ request' = request /\ request \in Requests
  BY DEF Give, OptimizerInv
<1>2. InfeasibleMeansNone'
  <2> SUFFICES ASSUME NEW x \in Portfolios(Included(request)), Meets(x, request, {}, 0) PROVE FALSE
    BY <1>1 DEF InfeasibleMeansNone
  <2> QED
    BY <1>1, ConstraintsNeeded
<1>3. SuggestionsSuffice'
  BY <1>1 DEF SuggestionsSuffice
<1>4. /\ WholeCapitalIsAllocated' /\ LimitsAreKept' /\ NoShareIsNegative' /\ ExposuresAreWithinLimits'
      /\ PreferenceCostsNothing'
  BY <1>1 DEF WholeCapitalIsAllocated, LimitsAreKept, NoShareIsNegative, ExposuresAreWithinLimits,
              PreferenceCostsNothing
<1> QED
  BY <1>2, <1>3, <1>4, GiveKeeps DEF Promises

LEMMA NoRouteInfeasible ==
  ASSUME OptimizerInv, ReportExclusions PROVE OptimizerInv'
<1>1. Included(request) = {}
  BY DEF ReportExclusions
<1>2. Feasible(request) = {}
  BY <1>1, NoRouteNoPortfolio DEF Feasible
<1>3. PICK result : Give(result) /\ result.status = "INFEASIBLE" /\ result.conflicts = {}
  BY DEF ReportExclusions
<1> QED
  BY <1>2, <1>3, InfeasibleKeeps

LEMMA DiagnosisKeeps ==
  ASSUME OptimizerInv, Diagnose PROVE OptimizerInv'
<1> DEFINE C == Constraints(request)
           value == [y \in Portfolios(Included(request)) |-> -SlackTotal(C, y)]
<1>1. request \in Requests /\ Feasible(request) = {}
  BY DEF OptimizerInv, Diagnose
<1>2. PICK x \in Best(value) : Give([status |-> "INFEASIBLE", reasons |-> {}, conflicts |-> Suggestions(C, x)])
  BY DEF Diagnose
<1>3. x \in Portfolios(Included(request))
  <2>1. DOMAIN value = Portfolios(Included(request))
    OBVIOUS
  <2> HIDE DEF value
  <2> QED  BY <1>2, <2>1, BestAmong
<1>4. Meets(x, request, Suggestions(C, x), Tolerance)
  BY <1>1, <1>3, SuggestionsMeet
<1> DEFINE result == [status |-> "INFEASIBLE", reasons |-> {}, conflicts |-> Suggestions(C, x)]
<1>5. Give(result) /\ result.status = "INFEASIBLE" /\ result.conflicts = Suggestions(C, x)
  BY <1>2
<1> HIDE DEF result, C
<1> QED
  BY <1>1, <1>3, <1>4, <1>5, InfeasibleKeeps

LEMMA PublishKeeps ==
  ASSUME OptimizerInv, Publish PROVE OptimizerInv'
<1> DEFINE r == request
           S == Included(r)
           o == optimum
<1>1. r \in Requests /\ IsBestFor(r, o)
  BY DEF OptimizerInv, Publish
<1>2. o \in Portfolios(S) /\ S # {} /\ IsFiniteSet(S)
  BY <1>1, IncludedIn DEF IsBestFor, Feasible
<1>3. o \in [S -> Int] /\ DOMAIN o = S
  BY <1>2, PortfolioIn
<1>4. PICK err \in [S -> SolverErrors] :
        LET x == Quantized([id \in S |-> o[id] + err[id]]) IN
        IF Violations(x, Constraints(r)) = {}
        THEN Give([status |-> "FEASIBLE", shares |-> x, metrics |-> Metrics(r, x)])
        ELSE Give([status |-> "UNAVAILABLE", reason |-> "SOLVER_OUTPUT_INVALID"])
  BY <1>3 DEF Publish
<1> DEFINE raw == [id \in S |-> o[id] + err[id]]
           x == Quantized(raw)
           result == [status |-> "FEASIBLE", shares |-> x, metrics |-> Metrics(r, x)]
<1>5. CASE Violations(x, Constraints(r)) # {}
  <2>1. Give([status |-> "UNAVAILABLE", reason |-> "SOLVER_OUTPUT_INVALID"])
    BY <1>4, <1>5
  <2> QED
    BY <2>1, UnavailableKeeps
<1>6. CASE Violations(x, Constraints(r)) = {}
  <2>1. Give(result)
    BY <1>4, <1>6
  <2>2. raw \in [S -> Int]
    <3>1. \A id \in S : err[id] \in Int /\ o[id] \in Int
      BY <1>3, OptimizerAssumption
    <3> QED
      BY <3>1
  <2> HIDE DEF raw
  <2>3. /\ TotalKept(raw) > 0 /\ x \in [S -> Int] /\ Share(x, S) = 100 /\ Meets(x, r, {}, Tolerance)
    BY <1>1, <1>6, <2>2, Revalidated
  <2> HIDE DEF x
  <2>4. portfolio' = result /\ request' = r /\ stage' = "done"
    BY <2>1 DEF Give
  <2>5. /\ portfolio'.status = "FEASIBLE" /\ portfolio'.shares = x /\ portfolio'.metrics = Metrics(r, x)
        /\ DOMAIN x = S
    BY <2>3, <2>4
  <2> HIDE DEF result
  <2>6. WholeCapitalIsAllocated'
    BY <2>3, <2>5 DEF WholeCapitalIsAllocated
  <2>7. LimitsAreKept'
    <3>1. /\ \A f \in DOMAIN FlagCap : Metrics(r, x).flagged[f] <= PolicyOf(r.input)[FlagCap[f]] + Tolerance
          /\ \A w \in DOMAIN Windows : Metrics(r, x).liquid[w] >= 100 * (PolicyOf(r.input)[Windows[w]] - Tolerance)
          /\ Metrics(r, x).risk <= 100 * (PolicyOf(r.input)["WEIGHTED_RISK_MAXIMUM"] + Tolerance)
      BY <1>1, <2>3, MetricsKeepLimits
    <3> QED
      BY <2>3, <2>4, <2>5, <3>1 DEF LimitsAreKept
  <2>8. InfeasibleMeansNone' /\ SuggestionsSuffice'
    BY <2>5 DEF InfeasibleMeansNone, SuggestionsSuffice
  <2>9. ASSUME SolverIsAccurate PROVE NoShareIsNegative' /\ ExposuresAreWithinLimits' /\ PreferenceCostsNothing'
    <3>1. \A id \in S : KeptShares(raw)[id] \in Nat
      BY <1>1, <1>2, <2>9, AccurateShares DEF raw
    <3>2. \A id \in S : x[id] >= 0
      <4>1. S \in SUBSET Nat
        BY <1>1, IncludedIn
      <4> QED
        BY <1>2, <2>2, <2>3, <3>1, <4>1, QuantizedWhole DEF x
    <3>3. NoShareIsNegative'
      BY <2>5, <3>2 DEF NoShareIsNegative
    <3>4. ExposuresAreWithinLimits'
      <4>1. \A kind \in Reported : \A name \in DOMAIN Metrics(r, x).by[kind] :
              Metrics(r, x).by[kind][name] <= PolicyOf(r.input)[GroupCap[kind]] + Tolerance
        BY <1>1, <2>3, <3>2, MetricsKeepLimits
      <4> QED
        BY <2>4, <2>5, <4>1 DEF ExposuresAreWithinLimits
    <3>5. PreferenceCostsNothing'
      <4>1. raw = [id \in S |-> o[id] + err[id]]
        BY DEF raw
      <4>2. Allowance(r) \in Int /\ Objective(r, x) >= Objective(r, o) - Allowance(r)
        BY <1>1, <1>2, <1>4, <2>3, <2>9, <4>1, EarnsAsMuch DEF x
      <4>3. ASSUME NEW z \in Feasible(r) PROVE Objective(r, x) >= Objective(r, z) - Allowance(r)
        <5>1. Objective(r, z) <= Objective(r, o)
          BY <1>1, <4>3 DEF IsBestFor
        <5>2. Objective(r, z) \in Int /\ Objective(r, o) \in Int /\ Objective(r, x) \in Int
          <6>1. z \in [S -> Int]
            BY <1>2, <4>3, PortfolioIn DEF Feasible
          <6> QED
            BY <1>1, <1>3, <2>3, <6>1, ObjectiveIs
        <5> QED
          BY <4>2, <5>1, <5>2
      <4> QED
        BY <2>4, <2>5, <4>3 DEF PreferenceCostsNothing, Allowance
    <3> QED
      BY <3>3, <3>4, <3>5
  <2>10. Promises'
    BY <2>6, <2>7, <2>8, <2>9 DEF Promises
  <2>11. result.status = "FEASIBLE"
    BY DEF result
  <2> QED
    BY <2>1, <2>10, <2>11, GiveKeeps
<1> QED
  BY <1>5, <1>6

LEMMA OptimizerStep == OptimizerInv /\ [OptimizerNext]_optimizerVars => OptimizerInv'
<1> SUFFICES ASSUME OptimizerInv, [OptimizerNext]_optimizerVars PROVE OptimizerInv'
  OBVIOUS
<1>1. CASE ReportExclusions
  BY <1>1, NoRouteInfeasible
<1>2. ASSUME stage # "done", stage' # "done", UNCHANGED <<request, portfolio>>,
             stage' \in {"infeasible", "solved", "chosen", "rejected"},
             stage' = "infeasible" => Feasible(request) = {},
             stage' \in {"solved", "chosen"} => IsBestFor(request, optimum')
      PROVE  OptimizerInv'
  <2>1. request' = request /\ portfolio' = portfolio /\ portfolio = NoResult
    BY <1>2 DEF OptimizerInv
  <2>2. Promises'
    BY <2>1 DEF Promises, NoResult, WholeCapitalIsAllocated, LimitsAreKept, InfeasibleMeansNone, SuggestionsSuffice,
                NoShareIsNegative, ExposuresAreWithinLimits, PreferenceCostsNothing
  <2> QED
    BY <1>2, <2>1, <2>2 DEF OptimizerInv, Promises
<1>3. CASE SolvePrimary
  <2>1. request \in Requests /\ Included(request) # {} /\ stage = "prepared" /\ UNCHANGED <<request, portfolio>>
    BY <1>3 DEF SolvePrimary, OptimizerInv
  <2>2. CASE Feasible(request) = {}
    <3>1. stage' = "infeasible"
      BY <1>3, <2>2 DEF SolvePrimary
    <3> QED
      BY <1>2, <2>1, <2>2, <3>1
  <2>3. CASE Feasible(request) # {}
    <3>1. optimum' \in Best([x \in Feasible(request) |-> Objective(request, x)]) /\ stage' = "solved"
      BY <1>3, <2>3 DEF SolvePrimary
    <3>2. IsBestFor(request, optimum')
      BY <2>1, <3>1, BestOfFeasible
    <3> QED
      BY <1>2, <2>1, <3>1, <3>2
  <2> QED
    BY <2>2, <2>3
<1>4. CASE SolverUnavailable
  <2>1. PICK result : Give(result) /\ result.status = "UNAVAILABLE"
    BY <1>4 DEF SolverUnavailable
  <2> QED
    BY <2>1, UnavailableKeeps
<1>5. CASE Diagnose
  BY <1>5, DiagnosisKeeps
<1>6. CASE DiagnoseNothing
  <2>1. PICK result : Give(result) /\ result.status = "INFEASIBLE" /\ result.conflicts = {}
    BY <1>6 DEF DiagnoseNothing
  <2>2. Feasible(request) = {}
    BY <1>6 DEF DiagnoseNothing, OptimizerInv
  <2> QED
    BY <2>1, <2>2, InfeasibleKeeps
<1>7. CASE DiagnosisFails
  BY <1>2, <1>7 DEF DiagnosisFails
<1>8. CASE BreakTie
  <2>1. stage = "solved" /\ stage' = "chosen" /\ UNCHANGED <<request, portfolio>>
    BY <1>8 DEF BreakTie
  <2>2. request \in Requests /\ IsBestFor(request, optimum)
    BY <2>1 DEF OptimizerInv
  <2>3. CASE UNCHANGED optimum
    BY <1>2, <2>1, <2>2, <2>3
  <2>4. CASE optimum' \in Best([x \in Ties(request, optimum) |-> Preference(request, x)])
    <3> DEFINE value == [x \in Ties(request, optimum) |-> Preference(request, x)]
    <3>1. optimum' \in Ties(request, optimum)
      <4>1. optimum' \in Best(value) /\ DOMAIN value = Ties(request, optimum)
        BY <2>4
      <4> HIDE DEF value
      <4> QED  BY <4>1, BestAmong
    <3>2. optimum' \in Feasible(request) /\ Objective(request, optimum') >= Objective(request, optimum)
      BY <3>1 DEF Ties
    <3>3. \A x \in Feasible(request) : Objective(request, x) \in Int
      BY <2>2, ObjectiveBounded
    <3>4. IsBestFor(request, optimum')
      BY <2>2, <3>2, <3>3 DEF IsBestFor
    <3> QED
      BY <1>2, <2>1, <3>4
  <2> QED
    BY <1>8, <2>3, <2>4 DEF BreakTie
<1>9. CASE Publish
  BY <1>9, PublishKeeps
<1>10. CASE UNCHANGED optimizerVars
  BY <1>10 DEF optimizerVars, OptimizerInv, Promises, WholeCapitalIsAllocated, LimitsAreKept, InfeasibleMeansNone,
     SuggestionsSuffice, NoShareIsNegative, ExposuresAreWithinLimits, PreferenceCostsNothing
<1>11. CASE OptimizerDone
  BY <1>10, <1>11 DEF OptimizerDone
<1> QED
  BY <1>1, <1>3, <1>4, <1>5, <1>6, <1>7, <1>8, <1>9, <1>10, <1>11 DEF OptimizerNext

LEMMA OptimizerTyped == OptimizerInv => OptimizerTypeOK
<1> SUFFICES ASSUME OptimizerInv PROVE OptimizerTypeOK
  OBVIOUS
<1>1. stage \in {"solved", "chosen"} => optimum \in Portfolios(Included(request))
  BY DEF OptimizerInv, IsBestFor, Feasible
<1>2. CASE stage = "done"
  BY <1>1, <1>2 DEF OptimizerInv, OptimizerTypeOK
<1>3. CASE stage # "done"
  <2>1. portfolio.status = "NONE"
    BY <1>3 DEF OptimizerInv, NoResult
  <2> QED
    BY <1>1, <1>3, <2>1 DEF OptimizerInv, OptimizerTypeOK
<1> QED
  BY <1>2, <1>3

LEMMA OptimizerInvariant == OptimizerSpec => []OptimizerInv
BY OptimizerStarts, OptimizerStep, PTL DEF OptimizerSpec

(* Whatever error the solver makes, a feasible answer shares out exactly   *)
(* the whole capital and keeps within the limits of the request, up to the *)
(* tolerance, an infeasible one is given only where no portfolio meets     *)
(* them, and the changes it suggests admit one (quantizeAllocations,       *)
(* revalidateAllocation and diagnoseInfeasibility).                        *)
THEOREM AnswersHoldForTheRequest ==
  OptimizerSpec => [](/\ OptimizerTypeOK /\ WholeCapitalIsAllocated /\ LimitsAreKept
                      /\ InfeasibleMeansNone /\ SuggestionsSuffice)
<1>1. OptimizerInv => /\ OptimizerTypeOK /\ WholeCapitalIsAllocated /\ LimitsAreKept
                      /\ InfeasibleMeansNone /\ SuggestionsSuffice
  BY OptimizerTyped DEF OptimizerInv, Promises
<1> QED
  BY <1>1, OptimizerInvariant, PTL

(* With a solver as accurate as it is asked to be, no share is negative,   *)
(* the reported exposures are within their limits too, and preferring      *)
(* chains and assets costs no yield.                                       *)
THEOREM PortfolioStaysSound ==
  ASSUME SolverIsAccurate
  PROVE  OptimizerSpec => []PortfolioIsSound
<1>1. OptimizerInv => PortfolioIsSound
  BY DEF OptimizerInv, Promises, PortfolioIsSound
<1> QED
  BY <1>1, OptimizerInvariant, PTL
=============================================================================
