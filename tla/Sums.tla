-------------------------------- MODULE Sums --------------------------------
(***************************************************************************)
(* Facts about SumFunctionOnSet, the sum of a function over a finite set,  *)
(* in which the properties about money are written.  The sum is defined by *)
(* a fold that picks the elements one by one; its facts are shown by       *)
(* looking at a smallest subset that would violate them.                   *)
(***************************************************************************)
EXTENDS Functions, FiniteSetTheorems, TLAPS

(* A set of subsets of a finite set has a smallest one, if it has any. *)
LEMMA SmallestSubset ==
  ASSUME NEW S, IsFiniteSet(S), NEW T, T \subseteq SUBSET S, T # {}
  PROVE  \E s \in T : \A t \in T : t \subseteq s => t = s
<1> DEFINE R == StrictSubsetOrdering(S)
<1>1. IsWellFoundedOn(R, SUBSET S)
  BY FS_StrictSubsetOrderingWellFounded, FS_FiniteSubsetsOfFinite
<1> HIDE DEF R
<1>2. \E s \in T : \A t \in T : <<t, s>> \notin R
  BY <1>1, WFMin
<1> QED
  BY <1>2 DEF R, StrictSubsetOrdering

Chosen(s) == CHOOSE x \in s : TRUE

LEMMA ChosenIn == \A s : s # {} => Chosen(s) \in s
BY DEF Chosen

(* What the fold picks from s, and what it leaves. *)
Rest(s) == s \ {Chosen(s)}

LEMMA RestSmaller ==
  ASSUME NEW s, s # {}
  PROVE  Chosen(s) \in s /\ Rest(s) \subseteq s /\ Rest(s) # s
BY ChosenIn DEF Rest

(* The equation of the fold on the subsets of S. *)
Solves(g, f, S) ==
  g = [s \in SUBSET S |-> IF s = {} THEN 0 ELSE f[Chosen(s)] + g[Rest(s)]]

LEMMA SumIsFold ==
  ASSUME NEW f, NEW S
  PROVE  SumFunctionOnSet(f, S) = (CHOOSE g : Solves(g, f, S))[S]
BY DEF SumFunctionOnSet, FoldFunctionOnSet, MapThenFoldSet, Solves, Chosen, Rest

LEMMA SolutionAt ==
  ASSUME NEW f, NEW S, NEW g, Solves(g, f, S), NEW s \in SUBSET S
  PROVE  g[s] = IF s = {} THEN 0 ELSE f[Chosen(s)] + g[Rest(s)]
<1> DEFINE G == [t \in SUBSET S |-> IF t = {} THEN 0 ELSE f[Chosen(t)] + g[Rest(t)]]
<1>1. g = G
  BY DEF Solves
<1>2. G[s] = IF s = {} THEN 0 ELSE f[Chosen(s)] + g[Rest(s)]
  OBVIOUS
<1> QED
  BY <1>1, <1>2

(* Two solutions agree where both are defined. *)
LEMMA SolutionsAgree ==
  ASSUME NEW f, NEW S, IsFiniteSet(S), NEW g, NEW A, Solves(g, f, A), S \subseteq A,
         NEW h, NEW B, Solves(h, f, B), S \subseteq B
  PROVE  \A s \in SUBSET S : g[s] = h[s]
<1> DEFINE T == {s \in SUBSET S : g[s] # h[s]}
<1> SUFFICES ASSUME T # {} PROVE FALSE
  OBVIOUS
<1>1. PICK s \in T : \A t \in T : t \subseteq s => t = s
  <2> HIDE DEF T
  <2>1. T \subseteq SUBSET S
    BY DEF T
  <2> QED
    BY <2>1, SmallestSubset
<1>2. s # {}
  BY SolutionAt
<1>3. Rest(s) \in SUBSET S /\ Rest(s) \notin T
  BY <1>1, <1>2, RestSmaller
<1>4. g[s] = f[Chosen(s)] + g[Rest(s)] /\ h[s] = f[Chosen(s)] + h[Rest(s)]
  BY <1>2, SolutionAt
<1> QED
  BY <1>1, <1>3, <1>4

(* There is a solution on the subsets of every finite set. *)
LEMMA SolutionExists ==
  ASSUME NEW f, NEW S, IsFiniteSet(S)
  PROVE  \E g : Solves(g, f, S)
<1> DEFINE T == {s \in SUBSET S : ~ \E g : Solves(g, f, s)}
<1> SUFFICES ASSUME T # {} PROVE FALSE
  OBVIOUS
<1>1. PICK s \in T : \A t \in T : t \subseteq s => t = s
  <2> HIDE DEF T
  <2>1. T \subseteq SUBSET S
    BY DEF T
  <2> QED
    BY <2>1, SmallestSubset
<1> DEFINE sol(t) == CHOOSE g : Solves(g, f, t)
           below(t) == IF t = {} THEN 0 ELSE f[Chosen(t)] + sol(Rest(t))[Rest(t)]
           h == [t \in SUBSET s |-> below(t)]
<1>2. \A t \in SUBSET s : t # s => Solves(sol(t), f, t)
  BY <1>1
<1>3. ASSUME NEW t \in SUBSET s, t # s PROVE sol(t)[t] = below(t)
  <2>1. CASE t = {}
    BY <1>2, <1>3, <2>1, SolutionAt
  <2>2. CASE t # {}
    <3> DEFINE r == Rest(t)
    <3>1. r \in SUBSET t /\ r \in SUBSET s /\ r # s
      BY <1>3, <2>2, RestSmaller
    <3>2. Solves(sol(t), f, t) /\ Solves(sol(r), f, r)
      BY <1>2, <1>3, <3>1
    <3>3. IsFiniteSet(r)
      BY <3>1, FS_Subset
    <3>4. sol(t)[r] = sol(r)[r]
      <4> HIDE DEF r, sol
      <4> QED
        BY <3>1, <3>2, <3>3, SolutionsAgree
    <3>5. sol(t)[t] = f[Chosen(t)] + sol(t)[r]
      <4> HIDE DEF sol
      <4> QED
        BY <2>2, <3>2, SolutionAt
    <3> QED
      BY <2>2, <3>4, <3>5
  <2> QED
    BY <2>1, <2>2
<1>4. \A t \in SUBSET s : h[t] = IF t = {} THEN 0 ELSE f[Chosen(t)] + h[Rest(t)]
  <2>1. \A t \in SUBSET s : h[t] = below(t)
    <3> HIDE DEF below
    <3> QED
      OBVIOUS
  <2> HIDE DEF h
  <2> TAKE t \in SUBSET s
  <2>2. CASE t = {}
    BY <2>1, <2>2
  <2>3. CASE t # {}
    <3>1. Rest(t) \in SUBSET s /\ Rest(t) # s
      BY <2>3, RestSmaller
    <3>2. h[Rest(t)] = below(Rest(t)) /\ sol(Rest(t))[Rest(t)] = below(Rest(t))
      <4> HIDE DEF below, sol
      <4> QED
        BY <1>3, <2>1, <3>1
    <3>3. h[t] = f[Chosen(t)] + sol(Rest(t))[Rest(t)]
      BY <2>1, <2>3
    <3> QED
      BY <2>3, <3>2, <3>3
  <2> QED
    BY <2>2, <2>3
<1>5. Solves(h, f, s)
  <2> HIDE DEF below
  <2>1. h = [t \in SUBSET s |-> h[t]]
    OBVIOUS
  <2> HIDE DEF h
  <2> QED
    BY <2>1, <1>4 DEF Solves
<1> QED
  BY <1>1, <1>5

(* The sum of nothing, and one step of the fold. *)
LEMMA SumStep ==
  ASSUME NEW f, NEW S, IsFiniteSet(S)
  PROVE  /\ SumFunctionOnSet(f, {}) = 0
         /\ S # {} => SumFunctionOnSet(f, S) =
              f[Chosen(S)] + SumFunctionOnSet(f, Rest(S))
<1> DEFINE sol(t) == CHOOSE g : Solves(g, f, t)
<1>1. \A t \in SUBSET S : Solves(sol(t), f, t) /\ SumFunctionOnSet(f, t) = sol(t)[t]
  <2> TAKE t \in SUBSET S
  <2>1. IsFiniteSet(t)
    BY FS_Subset
  <2>2. \E g : Solves(g, f, t)
    BY <2>1, SolutionExists
  <2> QED
    BY <2>2, SumIsFold
<1> HIDE DEF sol
<1>2. SumFunctionOnSet(f, {}) = 0
  BY <1>1, SolutionAt
<1>3. ASSUME S # {} 
      PROVE  SumFunctionOnSet(f, S) = f[Chosen(S)] + SumFunctionOnSet(f, Rest(S))
  <2> DEFINE r == Rest(S)
  <2>1. r \in SUBSET S /\ IsFiniteSet(r)
    BY <1>3, RestSmaller, FS_Subset
  <2>2. Solves(sol(S), f, S) /\ Solves(sol(r), f, r)
    BY <1>1, <2>1
  <2>3. sol(S)[S] = f[Chosen(S)] + sol(S)[r]
    BY <1>3, <2>2, SolutionAt
  <2>4. sol(S)[r] = sol(r)[r]
    <3> DEFINE g == sol(S)
               h == sol(r)
    <3>1. Solves(g, f, S) /\ Solves(h, f, r) /\ r \subseteq S /\ r \subseteq r
      BY <2>1, <2>2
    <3> HIDE DEF r, g, h
    <3>2. \A t \in SUBSET r : g[t] = h[t]
      BY <2>1, <3>1, SolutionsAgree
    <3>3. g[r] = h[r]
      BY <3>2
    <3> QED
      BY <3>3 DEF g, h
  <2> QED
    BY <1>1, <2>1, <2>3, <2>4
<1> QED
  BY <1>2, <1>3

(* A sum of integers is an integer. *)
LEMMA SumType ==
  ASSUME NEW f, NEW S, IsFiniteSet(S), \A x \in S : f[x] \in Int
  PROVE  SumFunctionOnSet(f, S) \in Int
<1> DEFINE T == {s \in SUBSET S : SumFunctionOnSet(f, s) \notin Int}
<1> SUFFICES ASSUME T # {} PROVE FALSE
  OBVIOUS
<1>1. PICK s \in T : \A t \in T : t \subseteq s => t = s
  <2> HIDE DEF T
  <2>1. T \subseteq SUBSET S
    BY DEF T
  <2> QED
    BY <2>1, SmallestSubset
<1>2. IsFiniteSet(s)
  BY FS_Subset
<1>3. s # {}
  <2>1. SumFunctionOnSet(f, {}) = 0 /\ 0 \in Int
    BY <1>2, SumStep
  <2>2. SumFunctionOnSet(f, s) \notin Int
    BY <1>1
  <2> QED
    BY <2>1, <2>2
<1>4. Chosen(s) \in S /\ Rest(s) \in SUBSET S /\ Rest(s) \notin T
  BY <1>1, <1>3, RestSmaller
<1>5. SumFunctionOnSet(f, s) = f[Chosen(s)] + SumFunctionOnSet(f, Rest(s))
  BY <1>2, <1>3, SumStep
<1> QED
  BY <1>4, <1>5

(* Any element can be taken out of the sum first. *)
LEMMA SumTakes ==
  ASSUME NEW f, NEW S, IsFiniteSet(S), \A x \in S : f[x] \in Int, NEW e \in S
  PROVE  SumFunctionOnSet(f, S) = f[e] + SumFunctionOnSet(f, S \ {e})
<1> DEFINE Sum(s) == SumFunctionOnSet(f, s)
           Bad(s) == \E x \in s : Sum(s) # f[x] + Sum(s \ {x})
           T == {s \in SUBSET S : Bad(s)}
<1> SUFFICES ASSUME T # {} PROVE FALSE
  OBVIOUS
<1>1. PICK s \in T : \A t \in T : t \subseteq s => t = s
  <2> HIDE DEF T
  <2>1. T \subseteq SUBSET S
    BY DEF T
  <2> QED
    BY <2>1, SmallestSubset
<1>2. PICK x \in s : Sum(s) # f[x] + Sum(s \ {x})
  BY <1>1
<1> DEFINE c == Chosen(s)
           both == s \ {x, c}
<1>3. \A t \in SUBSET S : IsFiniteSet(t) /\ Sum(t) \in Int
  <2> TAKE t \in SUBSET S
  <2>1. IsFiniteSet(t)
    BY FS_Subset
  <2>2. \A y \in t : f[y] \in Int
    OBVIOUS
  <2> QED
    BY <2>1, <2>2, SumType
<1>4. c \in s /\ Sum(s) = f[c] + Sum(s \ {c})
  BY <1>2, <1>3, SumStep, ChosenIn DEF Rest
<1>5. x # c
  BY <1>2, <1>4
<1> HIDE DEF c, Sum
<1>6. Sum(s \ {c}) = f[x] + Sum(both)
  <2>1. s \ {c} \in SUBSET S /\ s \ {c} \notin T /\ x \in s \ {c}
    BY <1>1, <1>2, <1>4, <1>5
  <2>2. ~ Bad(s \ {c})
    BY <2>1
  <2>3. (s \ {c}) \ {x} = both
    OBVIOUS
  <2> QED
    BY <2>1, <2>2, <2>3
<1>7. Sum(s \ {x}) = f[c] + Sum(both)
  <2>1. s \ {x} \in SUBSET S /\ s \ {x} \notin T /\ c \in s \ {x}
    BY <1>1, <1>2, <1>4, <1>5
  <2>2. ~ Bad(s \ {x})
    BY <2>1
  <2>3. (s \ {x}) \ {c} = both
    OBVIOUS
  <2> QED
    BY <2>1, <2>2, <2>3
<1>8. f[x] \in Int /\ f[c] \in Int /\ both \in SUBSET S
  BY <1>4
<1> QED
  BY <1>2, <1>3, <1>4, <1>6, <1>7, <1>8

(* The sum when an element joins the set. *)
LEMMA SumAdds ==
  ASSUME NEW f, NEW S, IsFiniteSet(S), \A x \in S : f[x] \in Int,
         NEW e, e \notin S, f[e] \in Int
  PROVE  SumFunctionOnSet(f, S \cup {e}) = f[e] + SumFunctionOnSet(f, S)
<1>1. IsFiniteSet(S \cup {e})
  BY FS_AddElement
<1>2. (S \cup {e}) \ {e} = S
  OBVIOUS
<1>3. \A x \in S \cup {e} : f[x] \in Int
  OBVIOUS
<1> QED
  BY <1>1, <1>2, <1>3, SumTakes

LEMMA SumOne ==
  ASSUME NEW f, NEW e, f[e] \in Int
  PROVE  SumFunctionOnSet(f, {e}) = f[e]
<1>1. IsFiniteSet({e}) /\ {e} \ {e} = {} /\ e \in {e}
  BY FS_Singleton
<1>2. \A x \in {e} : f[x] \in Int
  OBVIOUS
<1>3. SumFunctionOnSet(f, {e}) = f[e] + SumFunctionOnSet(f, {e} \ {e})
  BY <1>1, <1>2, SumTakes
<1>4. SumFunctionOnSet(f, {}) = 0
  BY <1>1, SumStep
<1> QED
  BY <1>1, <1>3, <1>4

(* Only the values on the set count. *)
LEMMA SumSame ==
  ASSUME NEW f, NEW g, NEW S, IsFiniteSet(S), \A x \in S : f[x] = g[x]
  PROVE  SumFunctionOnSet(f, S) = SumFunctionOnSet(g, S)
<1> DEFINE T == {s \in SUBSET S : SumFunctionOnSet(f, s) # SumFunctionOnSet(g, s)}
<1> SUFFICES ASSUME T # {} PROVE FALSE
  OBVIOUS
<1>1. PICK s \in T : \A t \in T : t \subseteq s => t = s
  <2> HIDE DEF T
  <2>1. T \subseteq SUBSET S
    BY DEF T
  <2> QED
    BY <2>1, SmallestSubset
<1>2. IsFiniteSet(s)
  BY FS_Subset
<1>3. s # {}
  BY <1>2, SumStep
<1>4. Chosen(s) \in S /\ Rest(s) \in SUBSET S /\ Rest(s) \notin T
  BY <1>1, <1>3, RestSmaller
<1>5. /\ SumFunctionOnSet(f, s) = f[Chosen(s)] + SumFunctionOnSet(f, Rest(s))
      /\ SumFunctionOnSet(g, s) = g[Chosen(s)] + SumFunctionOnSet(g, Rest(s))
  BY <1>2, <1>3, SumStep
<1> QED
  BY <1>4, <1>5

(* The sum when the value of one element changes. *)
LEMMA SumChanges ==
  ASSUME NEW f, NEW g, NEW S, IsFiniteSet(S), NEW e \in S,
         \A x \in S : f[x] \in Int, g[e] \in Int,
         \A x \in S \ {e} : g[x] = f[x]
  PROVE  SumFunctionOnSet(g, S) = SumFunctionOnSet(f, S) + g[e] - f[e]
<1>1. IsFiniteSet(S \ {e})
  BY FS_Subset
<1>2. SumFunctionOnSet(g, S \ {e}) = SumFunctionOnSet(f, S \ {e})
  BY <1>1, SumSame
<1>3. SumFunctionOnSet(f, S) = f[e] + SumFunctionOnSet(f, S \ {e})
  BY SumTakes
<1>4. SumFunctionOnSet(g, S) = g[e] + SumFunctionOnSet(g, S \ {e})
  <2>1. \A x \in S : g[x] \in Int
    OBVIOUS
  <2> QED
    BY <2>1, SumTakes
<1>5. SumFunctionOnSet(f, S \ {e}) \in Int
  BY <1>1, SumType
<1> QED
  BY <1>2, <1>3, <1>4, <1>5

(* A sum of zeros. *)
LEMMA SumZero ==
  ASSUME NEW f, NEW S, IsFiniteSet(S), \A x \in S : f[x] = 0
  PROVE  SumFunctionOnSet(f, S) = 0
<1> DEFINE T == {s \in SUBSET S : SumFunctionOnSet(f, s) # 0}
<1> SUFFICES ASSUME T # {} PROVE FALSE
  OBVIOUS
<1>1. PICK s \in T : \A t \in T : t \subseteq s => t = s
  <2> HIDE DEF T
  <2>1. T \subseteq SUBSET S
    BY DEF T
  <2> QED
    BY <2>1, SmallestSubset
<1>2. IsFiniteSet(s)
  BY FS_Subset
<1>3. s # {}
  BY <1>2, SumStep
<1>4. Chosen(s) \in S /\ Rest(s) \in SUBSET S /\ Rest(s) \notin T
  BY <1>1, <1>3, RestSmaller
<1>5. SumFunctionOnSet(f, s) = f[Chosen(s)] + SumFunctionOnSet(f, Rest(s))
  BY <1>2, <1>3, SumStep
<1> QED
  BY <1>4, <1>5

(* The sum when the function is extended by one element. *)
LEMMA SumGrows ==
  ASSUME NEW f, NEW g, NEW S, IsFiniteSet(S), \A x \in S : f[x] \in Int /\ g[x] = f[x],
         NEW e, e \notin S, g[e] \in Int
  PROVE  SumFunctionOnSet(g, S \cup {e}) = SumFunctionOnSet(f, S) + g[e]
<1>1. SumFunctionOnSet(g, S) = SumFunctionOnSet(f, S)
  BY SumSame
<1>2. \A x \in S : g[x] \in Int
  OBVIOUS
<1>3. SumFunctionOnSet(g, S \cup {e}) = g[e] + SumFunctionOnSet(g, S)
  BY <1>2, SumAdds
<1>4. SumFunctionOnSet(f, S) \in Int
  BY SumType
<1> QED
  BY <1>1, <1>3, <1>4

-----------------------------------------------------------------------------
(* The sum of the amounts of a set of rows, and how a row adds to it. *)
AmountSum(rows) == SumFunction([r \in rows |-> r.amount])

LEMMA AmountSumFacts ==
  /\ AmountSum({}) = 0
  /\ \A e : e.amount \in Int => AmountSum({e}) = e.amount
  /\ \A S : IsFiniteSet(S) /\ (\A x \in S : x.amount \in Int) => AmountSum(S) \in Int
<1> DEFINE F(S) == [x \in S |-> x.amount]
<1>1. \A S : DOMAIN F(S) = S /\ \A x \in S : F(S)[x] = x.amount
  OBVIOUS
<1>2. \A S : AmountSum(S) = SumFunctionOnSet(F(S), S)
  BY <1>1 DEF AmountSum, SumFunction
<1> HIDE DEF F
<1>3. AmountSum({}) = 0
  BY <1>2, FS_EmptySet, SumStep
<1>4. ASSUME NEW e, e.amount \in Int PROVE AmountSum({e}) = e.amount
  <2> DEFINE f == F({e})
  <2>1. f[e] = e.amount /\ AmountSum({e}) = SumFunctionOnSet(f, {e})
    BY <1>1, <1>2
  <2> HIDE DEF f
  <2> QED
    BY <1>4, <2>1, SumOne
<1>5. ASSUME NEW S, IsFiniteSet(S), \A x \in S : x.amount \in Int
      PROVE  AmountSum(S) \in Int
  BY <1>1, <1>2, <1>5, SumType
<1> QED
  BY <1>3, <1>4, <1>5

LEMMA AmountSumGrows ==
  ASSUME NEW S, IsFiniteSet(S), \A x \in S : x.amount \in Int,
         NEW e, e.amount \in Int, e \notin S
  PROVE  AmountSum(S \cup {e}) = AmountSum(S) + e.amount
<1> DEFINE f == [x \in S |-> x.amount]
           g == [x \in S \cup {e} |-> x.amount]
<1>1. /\ DOMAIN f = S /\ DOMAIN g = S \cup {e} /\ g[e] = e.amount
      /\ \A x \in S : f[x] = x.amount /\ g[x] = f[x]
  OBVIOUS
<1>2. AmountSum(S) = SumFunction(f) /\ AmountSum(S \cup {e}) = SumFunction(g)
  BY DEF AmountSum
<1> HIDE DEF f, g
<1>3. SumFunctionOnSet(g, S \cup {e}) = SumFunctionOnSet(f, S) + g[e]
  BY <1>1, SumGrows
<1> QED
  BY <1>1, <1>2, <1>3 DEF SumFunction

(* What one row gains or loses, the sum of all gains or loses. *)
LEMMA SumMoves ==
  ASSUME NEW S, IsFiniteSet(S), NEW f \in [S -> Int], NEW g \in [S -> Int],
         NEW e \in S, \A x \in S \ {e} : g[x] = f[x]
  PROVE  SumFunction(f) \in Int /\ SumFunction(g) = SumFunction(f) + g[e] - f[e]
<1>1. /\ \A x \in S : f[x] \in Int
      /\ SumFunction(f) = SumFunctionOnSet(f, S) /\ SumFunction(g) = SumFunctionOnSet(g, S)
  BY DEF SumFunction
<1>2. SumFunctionOnSet(f, S) \in Int
  BY <1>1, SumType
<1>3. SumFunctionOnSet(g, S) = SumFunctionOnSet(f, S) + g[e] - f[e]
  BY <1>1, SumChanges
<1> QED
  BY <1>1, <1>2, <1>3

-----------------------------------------------------------------------------
(* An integer reduced to a width: what exceeds the range by less than half the
   width turns negative. *)
LEMMA Wrapping ==
  ASSUME NEW max \in Nat, NEW x \in Int
  PROVE  LET wrapped == ((x + max + 1) % (2 * (max + 1))) - (max + 1)
         IN  /\ wrapped \in -(max + 1) .. max
             /\ x \in max + 1 .. 2 * max + 1 => wrapped < 0
<1> DEFINE a == x + max + 1
           b == 2 * (max + 1)
<1>1. a \in Int /\ b \in Nat \ {0}
  OBVIOUS
<1>2. x \in max + 1 .. 2 * max + 1 => a >= b /\ a < 2 * b
  OBVIOUS
<1> HIDE DEF a, b
<1>3. a % b \in 0 .. b - 1
  BY <1>1
<1>4. a >= b /\ a < 2 * b => a % b = a - b
  BY <1>1
<1> QED
  BY <1>1, <1>2, <1>3, <1>4 DEF a, b
=============================================================================
