-------------------------- MODULE TradingEngineProofs --------------------------
(***************************************************************************)
(* Proofs about TradingEngine, for every value of its constants.           *)
(***************************************************************************)
EXTENDS TradingEngineInvariant, DataLemmas

-----------------------------------------------------------------------------
(***************************************************************************)
(* Sums.  SumFunctionOnSet is a fold; these are the facts about it.        *)
(***************************************************************************)
\* The member a sum takes first, and a function that solves the recursion
\* behind a sum.
Some(s) == CHOOSE x \in s : TRUE
SolvesSum(h, f, S) ==
  \A s \in SUBSET S : h[s] = IF s = {} THEN 0 ELSE f[Some(s)] + h[s \ {Some(s)}]

\* The recursion behind a sum has a solution: one that is right for the sets
\* of up to k members extends to those of k + 1.
LEMMA SumHasFunction ==
  ASSUME NEW f, NEW S, IsFiniteSet(S)
  PROVE  \E h : SolvesSum(h, f, S) /\ SumFunctionOnSet(f, S) = h[S]
<1> DEFINE Right(h, s) == h[s] = IF s = {} THEN 0 ELSE f[Some(s)] + h[s \ {Some(s)}]
           n == Cardinality(S)
           Solved == {k \in 0 .. n : \E h : /\ h = [s \in SUBSET S |-> h[s]]
                                            /\ \A s \in SUBSET S : Cardinality(s) <= k => Right(h, s)}
<1>1. /\ n \in Nat
      /\ \A s \in SUBSET S : IsFiniteSet(s) /\ Cardinality(s) \in Nat /\ Cardinality(s) <= n
  BY FS_CardinalityType, FS_Subset
<1>2. 0 \in Solved
  <2> DEFINE h == [s \in SUBSET S |-> 0]
  <2>1. \A s \in SUBSET S : Cardinality(s) <= 0 => Right(h, s)
    <3> SUFFICES ASSUME NEW s \in SUBSET S, Cardinality(s) <= 0 PROVE s = {}
      OBVIOUS
    <3>1. Cardinality(s) = 0
      BY <1>1
    <3> QED BY <3>1, <1>1, FS_EmptySet
  <2>2. h = [s \in SUBSET S |-> h[s]]
    OBVIOUS
  <2>3. 0 \in 0 .. n
    BY <1>1
  <2> HIDE DEF h, Right, n
  <2> QED BY <2>1, <2>2, <2>3
<1>3. ASSUME NEW k \in 0 .. n, k \in Solved, k < n PROVE k + 1 \in Solved
  <2>1. PICK h : /\ h = [s \in SUBSET S |-> h[s]]
                 /\ \A s \in SUBSET S : Cardinality(s) <= k => Right(h, s)
    BY <1>3
  <2> DEFINE next == [s \in SUBSET S |-> IF s = {} THEN 0
                                         ELSE f[Some(s)] + h[s \ {Some(s)}]]
  <2>2. \A s \in SUBSET S : Cardinality(s) <= k => next[s] = h[s]
    BY <2>1
  <2>3. ASSUME NEW s \in SUBSET S, s # {}
        PROVE  /\ s \ {Some(s)} \in SUBSET S
               /\ Cardinality(s) <= k + 1 => Cardinality(s \ {Some(s)}) <= k
    <3>1. Some(s) \in s /\ IsFiniteSet(s) /\ Cardinality(s) \in Nat
      BY <1>1, <2>3 DEF Some
    <3>2. Cardinality(s \ {Some(s)}) = Cardinality(s) - 1
      BY <3>1, FS_RemoveElement
    <3> QED BY <3>1, <3>2
  <2>4. \A s \in SUBSET S : Cardinality(s) <= k + 1 => Right(next, s)
    <3> SUFFICES ASSUME NEW s \in SUBSET S, Cardinality(s) <= k + 1, s # {}
                 PROVE  next[s] = f[Some(s)] + next[s \ {Some(s)}]
      OBVIOUS
    <3>1. next[s \ {Some(s)}] = h[s \ {Some(s)}]
      <4> HIDE DEF next
      <4> QED BY <2>2, <2>3
    <3>2. next[s] = f[Some(s)] + h[s \ {Some(s)}]
      OBVIOUS
    <3> HIDE DEF next
    <3> QED BY <3>1, <3>2
  <2>5. next = [s \in SUBSET S |-> next[s]]
    OBVIOUS
  <2>6. k + 1 \in 0 .. n
    BY <1>1, <1>3
  <2> HIDE DEF next, Right, n
  <2> QED BY <2>4, <2>5, <2>6
<1>4. n \in Solved
  <2> HIDE DEF Solved, n
  <2>1. n \in 0 .. n
    BY <1>1
  <2> QED BY <1>1, <1>2, <1>3, <2>1, Climbing
<1>5. PICK h : /\ h = [s \in SUBSET S |-> h[s]]
               /\ \A s \in SUBSET S : Cardinality(s) <= n => Right(h, s)
  BY <1>4
<1>6. \E w : w = [s \in SUBSET S |-> IF s = {} THEN 0 ELSE f[Some(s)] + w[s \ {Some(s)}]]
  <2>1. h = [s \in SUBSET S |-> IF s = {} THEN 0 ELSE f[Some(s)] + h[s \ {Some(s)}]]
    <3>1. \A s \in SUBSET S : Right(h, s)
      BY <1>1, <1>5
    <3>2. [s \in SUBSET S |-> h[s]]
            = [s \in SUBSET S |-> IF s = {} THEN 0 ELSE f[Some(s)] + h[s \ {Some(s)}]]
      BY <3>1
    <3> QED BY <1>5, <3>2
  <2> QED BY <2>1
<1> DEFINE g == CHOOSE w : w = [s \in SUBSET S |->
                                  IF s = {} THEN 0 ELSE f[Some(s)] + w[s \ {Some(s)}]]
<1>7. g = [s \in SUBSET S |-> IF s = {} THEN 0 ELSE f[Some(s)] + g[s \ {Some(s)}]]
  BY <1>6
<1>8. SumFunctionOnSet(f, S) = g[S]
  BY DEF SumFunctionOnSet, FoldFunctionOnSet, MapThenFoldSet, Some
<1> HIDE DEF g
<1>9. SolvesSum(g, f, S)
  BY <1>7 DEF SolvesSum
<1> QED BY <1>8, <1>9

\* A sum over nothing is zero, any other is a member and the sum over the rest:
\* the function of the lemma above and the one behind the smaller sum agree on
\* every set they share.
LEMMA SumUnfolds ==
  ASSUME NEW f, NEW S, IsFiniteSet(S)
  PROVE  SumFunctionOnSet(f, S) =
           IF S = {} THEN 0
           ELSE f[Some(S)] + SumFunctionOnSet(f, S \ {Some(S)})
<1> DEFINE R == S \ {Some(S)}
<1>1. PICK h : SolvesSum(h, f, S) /\ SumFunctionOnSet(f, S) = h[S]
  <2> HIDE DEF R
  <2> QED BY SumHasFunction
<1>2. CASE S = {}
  BY <1>1, <1>2 DEF SolvesSum
<1>3. CASE S # {}
  <2>1. Some(S) \in S /\ R \in SUBSET S /\ IsFiniteSet(R)
    BY <1>3, FS_RemoveElement DEF Some
  <2>2. \A s \in SUBSET R : s # {} => Some(s) \in s
    BY DEF Some
  <2>3. PICK g : SolvesSum(g, f, R) /\ SumFunctionOnSet(f, R) = g[R]
    <3> HIDE DEF R
    <3> QED BY <2>1, <2>2, SumHasFunction
  <2> DEFINE Same == {s \in SUBSET R : h[s] = g[s]}
  <2>4. ASSUME NEW s \in SUBSET R, s # {},
               \A r \in SUBSET R : Cardinality(r) < Cardinality(s) => r \in Same
        PROVE  s \in Same
    <3>1. Some(s) \in s /\ s \in SUBSET S /\ s \ {Some(s)} \in SUBSET R
      BY <2>1, <2>2, <2>4
    <3>2. Cardinality(s \ {Some(s)}) < Cardinality(s)
      <4>1. IsFiniteSet(s)
        BY <2>1, FS_Subset
      <4>2. Cardinality(s) \in Nat /\ Cardinality(s \ {Some(s)}) = Cardinality(s) - 1
        BY <4>1, <3>1, FS_RemoveElement, FS_CardinalityType
      <4> QED BY <4>2
    <3>3. h[s \ {Some(s)}] = g[s \ {Some(s)}]
      <4> HIDE DEF R
      <4> QED BY <2>4, <3>1, <3>2
    <3>4. h[s] = f[Some(s)] + h[s \ {Some(s)}]
      <4> HIDE DEF R
      <4> QED BY <1>1, <2>4, <3>1 DEF SolvesSum
    <3>5. g[s] = f[Some(s)] + g[s \ {Some(s)}]
      <4> HIDE DEF R
      <4> QED BY <2>3, <2>4 DEF SolvesSum
    <3> HIDE DEF R
    <3> QED BY <3>3, <3>4, <3>5
  <2>5. {} \in Same
    <3>1. h[{}] = 0 /\ g[{}] = 0
      <4> HIDE DEF R
      <4> QED BY <1>1, <2>3 DEF SolvesSum
    <3> QED BY <3>1
  <2>6. R \in Same
    <3>1. Same \in SUBSET SUBSET R
      OBVIOUS
    <3> HIDE DEF Same, R
    <3> QED BY <2>1, <2>4, <2>5, <3>1, Growing
  <2>7. h[S] = f[Some(S)] + h[R]
    <3>1. S \in SUBSET S
      OBVIOUS
    <3>2. h[S] = IF S = {} THEN 0 ELSE f[Some(S)] + h[S \ {Some(S)}]
      <4> HIDE DEF R
      <4> QED BY <1>1, <3>1 DEF SolvesSum
    <3> QED BY <1>3, <3>2
  <2>8. h[R] = g[R]
    BY <2>6
  <2>9. SumFunctionOnSet(f, S) = f[Some(S)] + SumFunctionOnSet(f, R)
    <3> HIDE DEF R
    <3> QED BY <1>1, <2>3, <2>7, <2>8
  <2> QED BY <1>3, <2>9
<1> QED BY <1>2, <1>3

\* The numbers summed up are numbers' sum, whichever is taken out first.
LEMMA SumTakes ==
  ASSUME NEW f, NEW S, IsFiniteSet(S), \A i \in S : f[i] \in Int
  PROVE  /\ SumFunctionOnSet(f, S) \in Int
         /\ \A q \in S : SumFunctionOnSet(f, S) = f[q] + SumFunctionOnSet(f, S \ {q})
<1> DEFINE Sum(s) == SumFunctionOnSet(f, s)
           G == {s \in SUBSET S : Sum(s) \in Int /\ \A q \in s : Sum(s) = f[q] + Sum(s \ {q})}
<1>1. {} \in G
  <2>1. Sum({}) = 0
    BY FS_EmptySet, SumUnfolds
  <2> HIDE DEF Sum
  <2> QED BY <2>1
<1>2. ASSUME NEW s \in SUBSET S, s # {},
             \A r \in SUBSET S : Cardinality(r) < Cardinality(s) => r \in G
      PROVE  s \in G
  <2> DEFINE x == Some(s)
  <2>1. x \in s /\ Sum(s) = f[x] + Sum(s \ {x}) /\ IsFiniteSet(s)
    <3>1. IsFiniteSet(s)
      BY FS_Subset
    <3> QED BY <1>2, <3>1, SumUnfolds DEF Some
  <2>2. ASSUME NEW q \in s PROVE s \ {q} \in G
    <3>1. Cardinality(s \ {q}) = Cardinality(s) - 1 /\ Cardinality(s) \in Nat
      BY <2>1, FS_RemoveElement, FS_CardinalityType
    <3>2. Cardinality(s \ {q}) < Cardinality(s) /\ s \ {q} \in SUBSET S
      BY <3>1
    <3> HIDE DEF G
    <3> QED BY <3>2, <1>2
  <2> HIDE DEF x, Sum
  <2>3. Sum(s \ {x}) \in Int /\ f[x] \in Int /\ Sum(s) \in Int
    BY <2>1, <2>2
  <2>4. ASSUME NEW q \in s, q # x PROVE Sum(s) = f[q] + Sum(s \ {q})
    <3>1. Sum(s \ {x}) = f[q] + Sum((s \ {x}) \ {q}) /\ q \in s \ {x}
      BY <2>1, <2>2, <2>4
    <3>2. Sum(s \ {q}) = f[x] + Sum((s \ {q}) \ {x}) /\ x \in s \ {q}
      BY <2>1, <2>2, <2>4
    <3>3. (s \ {x}) \ {q} = (s \ {q}) \ {x}
      OBVIOUS
    <3>4. Sum((s \ {q}) \ {x}) \in Int
      <4>1. (s \ {q}) \ {x} \in G
        <5> DEFINE r == (s \ {q}) \ {x}
        <5>1. IsFiniteSet(s \ {q}) /\ Cardinality(s \ {q}) = Cardinality(s) - 1
              /\ Cardinality(r) = Cardinality(s \ {q}) - 1 /\ Cardinality(s) \in Nat
          BY <2>1, <3>2, FS_RemoveElement, FS_CardinalityType
        <5>2. Cardinality(r) < Cardinality(s) /\ r \in SUBSET S
          BY <5>1
        <5> HIDE DEF r, G
        <5>3. r \in G
          BY <5>2, <1>2
        <5> QED BY <5>3 DEF r
      <4> QED BY <4>1
    <3>5. f[q] \in Int
      OBVIOUS
    <3>6. PICK rest \in Int : /\ Sum((s \ {q}) \ {x}) = rest
                             /\ Sum((s \ {x}) \ {q}) = rest
      BY <3>3, <3>4
    <3>7. Sum(s \ {x}) = f[q] + rest /\ Sum(s \ {q}) = f[x] + rest
      BY <3>1, <3>2, <3>6
    <3> QED BY <2>1, <2>3, <3>5, <3>6, <3>7
  <2> QED BY <2>1, <2>3, <2>4
<1>3. S \in G
  <2>1. G \in SUBSET SUBSET S
    OBVIOUS
  <2> HIDE DEF G
  <2> QED BY <1>1, <1>2, <2>1, Growing
<1> QED BY <1>3

\* Functions that agree on a set have one sum over it.
LEMMA SumSame ==
  ASSUME NEW f, NEW g, NEW S, IsFiniteSet(S), \A i \in S : f[i] = g[i]
  PROVE  SumFunctionOnSet(f, S) = SumFunctionOnSet(g, S)
<1> DEFINE G == {s \in SUBSET S : SumFunctionOnSet(f, s) = SumFunctionOnSet(g, s)}
<1>1. {} \in G
  BY FS_EmptySet, SumUnfolds
<1>2. ASSUME NEW s \in SUBSET S, s # {},
             \A r \in SUBSET S : Cardinality(r) < Cardinality(s) => r \in G
      PROVE  s \in G
  <2> DEFINE x == Some(s)
  <2>1. /\ x \in s /\ IsFiniteSet(s)
        /\ SumFunctionOnSet(f, s) = f[x] + SumFunctionOnSet(f, s \ {x})
        /\ SumFunctionOnSet(g, s) = g[x] + SumFunctionOnSet(g, s \ {x})
    <3>1. IsFiniteSet(s)
      BY FS_Subset
    <3> QED BY <1>2, <3>1, SumUnfolds DEF Some
  <2>2. s \ {x} \in G
    <3>1. Cardinality(s \ {x}) = Cardinality(s) - 1 /\ Cardinality(s) \in Nat
      BY <2>1, FS_RemoveElement, FS_CardinalityType
    <3>2. Cardinality(s \ {x}) < Cardinality(s) /\ s \ {x} \in SUBSET S
      BY <3>1
    <3> HIDE DEF G, x
    <3> QED BY <3>2, <1>2
  <2> HIDE DEF x
  <2> QED BY <2>1, <2>2
<1>3. S \in G
  <2>1. G \in SUBSET SUBSET S
    OBVIOUS
  <2> HIDE DEF G
  <2> QED BY <1>1, <1>2, <2>1, Growing
<1> QED BY <1>3

\* Of functions into the numbers, one that is nowhere above the other sums up
\* to no more.
LEMMA SumAtMost ==
  ASSUME NEW f, NEW g, NEW S, IsFiniteSet(S),
         \A i \in S : f[i] \in Int /\ g[i] \in Int /\ f[i] <= g[i]
  PROVE  SumFunctionOnSet(f, S) <= SumFunctionOnSet(g, S)
<1> DEFINE G == {s \in SUBSET S : SumFunctionOnSet(f, s) <= SumFunctionOnSet(g, s)}
<1>1. {} \in G
  <2>1. SumFunctionOnSet(f, {}) = 0 /\ SumFunctionOnSet(g, {}) = 0
    BY FS_EmptySet, SumUnfolds
  <2> QED BY <2>1
<1>2. ASSUME NEW s \in SUBSET S, s # {},
             \A r \in SUBSET S : Cardinality(r) < Cardinality(s) => r \in G
      PROVE  s \in G
  <2> DEFINE x == Some(s)
  <2>1. /\ x \in s /\ IsFiniteSet(s) /\ IsFiniteSet(s \ {x})
        /\ SumFunctionOnSet(f, s) = f[x] + SumFunctionOnSet(f, s \ {x})
        /\ SumFunctionOnSet(g, s) = g[x] + SumFunctionOnSet(g, s \ {x})
    <3>1. IsFiniteSet(s) /\ IsFiniteSet(s \ {x})
      BY FS_Subset
    <3> QED BY <1>2, <3>1, SumUnfolds DEF Some
  <2>2. s \ {x} \in G
    <3>1. Cardinality(s \ {x}) = Cardinality(s) - 1 /\ Cardinality(s) \in Nat
      BY <2>1, FS_RemoveElement, FS_CardinalityType
    <3>2. Cardinality(s \ {x}) < Cardinality(s) /\ s \ {x} \in SUBSET S
      BY <3>1
    <3> HIDE DEF G, x
    <3> QED BY <3>2, <1>2
  <2>3. SumFunctionOnSet(f, s \ {x}) \in Int /\ SumFunctionOnSet(g, s \ {x}) \in Int
    <3> HIDE DEF x
    <3> QED BY <2>1, SumTakes
  <2> HIDE DEF x
  <2>4. f[x] \in Int /\ g[x] \in Int /\ f[x] <= g[x]
    BY <2>1
  <2> QED BY <2>1, <2>2, <2>3, <2>4
<1>3. S \in G
  <2>1. G \in SUBSET SUBSET S
    OBVIOUS
  <2> HIDE DEF G
  <2> QED BY <1>1, <1>2, <2>1, Growing
<1> QED BY <1>3

\* A function that differs at one place.
LEMMA SumMoves ==
  ASSUME NEW f, NEW g, NEW S, IsFiniteSet(S), \A i \in S : f[i] \in Int /\ g[i] \in Int,
         NEW q \in S, \A i \in S : i # q => g[i] = f[i]
  PROVE  SumFunctionOnSet(g, S) = SumFunctionOnSet(f, S) + g[q] - f[q]
<1>1. SumFunctionOnSet(f, S \ {q}) = SumFunctionOnSet(g, S \ {q})
      /\ SumFunctionOnSet(f, S \ {q}) \in Int
  <2>1. IsFiniteSet(S \ {q})
    BY FS_Subset
  <2> QED BY <2>1, SumSame, SumTakes
<1> QED BY <1>1, SumTakes

\* A member more.
LEMMA SumJoins ==
  ASSUME NEW f, NEW S, IsFiniteSet(S), NEW q, q \notin S, \A i \in S \cup {q} : f[i] \in Int
  PROVE  SumFunctionOnSet(f, S \cup {q}) = SumFunctionOnSet(f, S) + f[q]
<1>1. IsFiniteSet(S \cup {q}) /\ (S \cup {q}) \ {q} = S
  BY FS_AddElement
<1>2. SumFunctionOnSet(f, S \cup {q}) = f[q] + SumFunctionOnSet(f, S)
  BY <1>1, SumTakes
<1>3. SumFunctionOnSet(f, S) \in Int
  BY SumTakes
<1> QED BY <1>2, <1>3

\* A sum of zeros.
LEMMA SumOfZeros ==
  ASSUME NEW f, NEW S, IsFiniteSet(S), \A i \in S : f[i] = 0
  PROVE  SumFunctionOnSet(f, S) = 0
<1> DEFINE G == {s \in SUBSET S : SumFunctionOnSet(f, s) = 0}
<1>1. {} \in G
  BY FS_EmptySet, SumUnfolds
<1>2. ASSUME NEW s \in SUBSET S, s # {},
             \A r \in SUBSET S : Cardinality(r) < Cardinality(s) => r \in G
      PROVE  s \in G
  <2> DEFINE x == Some(s)
  <2>1. /\ x \in s /\ IsFiniteSet(s)
        /\ SumFunctionOnSet(f, s) = f[x] + SumFunctionOnSet(f, s \ {x})
    <3>1. IsFiniteSet(s)
      BY FS_Subset
    <3> QED BY <1>2, <3>1, SumUnfolds DEF Some
  <2>2. s \ {x} \in G
    <3>1. Cardinality(s \ {x}) = Cardinality(s) - 1 /\ Cardinality(s) \in Nat
      BY <2>1, FS_RemoveElement, FS_CardinalityType
    <3>2. Cardinality(s \ {x}) < Cardinality(s) /\ s \ {x} \in SUBSET S
      BY <3>1
    <3> HIDE DEF G, x
    <3> QED BY <3>2, <1>2
  <2> HIDE DEF x
  <2> QED BY <2>1, <2>2
<1>3. S \in G
  <2>1. G \in SUBSET SUBSET S
    OBVIOUS
  <2> HIDE DEF G
  <2> QED BY <1>1, <1>2, <2>1, Growing
<1> QED BY <1>3

\* A sum with one number more at its end.
LEMMA SumAppended ==
  ASSUME NEW n \in Nat, NEW f \in [1 .. n -> Int], NEW g \in [1 .. n + 1 -> Int],
         \A i \in 1 .. n : g[i] = f[i]
  PROVE  SumFunction(g) = SumFunction(f) + g[n + 1] /\ SumFunction(f) \in Int
<1>1. IsFiniteSet(1 .. n) /\ n + 1 \notin 1 .. n /\ 1 .. n + 1 = (1 .. n) \cup {n + 1}
  <2>1. IsFiniteSet(1 .. n)
    BY FS_Interval
  <2>2. \A i \in Int : i \in 1 .. n + 1 <=> i \in 1 .. n \/ i = n + 1
    OBVIOUS
  <2>3. 1 .. n + 1 = (1 .. n) \cup {n + 1}
    BY <2>2
  <2> QED BY <2>1, <2>3
<1>2. \A i \in (1 .. n) \cup {n + 1} : g[i] \in Int
  BY <1>1
<1>3. SumFunctionOnSet(g, (1 .. n) \cup {n + 1}) = SumFunctionOnSet(g, 1 .. n) + g[n + 1]
  BY <1>1, <1>2, SumJoins
<1>4. SumFunctionOnSet(g, 1 .. n) = SumFunctionOnSet(f, 1 .. n)
  BY <1>1, SumSame
<1>5. SumFunctionOnSet(f, 1 .. n) \in Int
  BY <1>1, SumTakes
<1> QED BY <1>1, <1>3, <1>4, <1>5 DEF SumFunction

-----------------------------------------------------------------------------
(***************************************************************************)
(* Folds over a sequence: what each element keeps, the whole fold keeps.   *)
(***************************************************************************)
\* The operators that are folded.
MarketOp(c, order, s) == TryMarket(s, order, c)
LimitOp(c, order, s)  == TryLimit(s, order, c.candle, c.step)
FireOp(c, order, s)   == Fire(s, order, c)
WithoutOp(c, order, s) == IF order.id = c THEN s ELSE Append(s, order)
BookOp(c, fill, s)    == BookFill(s, fill)
PairOp(c, pair, s)    == IF pair \in DOMAIN c THEN StepPair(s, pair, c[pair]) ELSE s
WindOp(c, pair, s)    == WindDown(s, pair)
AssessOp(c, intent, s) == AssessOne(ledger, risk, closes, instrument, s, intent)
PlaceOp(c, order, s)  == [s EXCEPT ![order.pair] = Submitted(@, order)]
RowOp(c, row, s)      == IF row.step = c.at /\ row.side = c.side THEN ReplayFill(s, row) ELSE s
ReplayOp(c, at, s)    == ReplaySide(ReplaySide(s, c, at, "buy"), c, at, "sell")

\* One instance of the facts about folds stands for all of them: what a fold
\* captures comes with its name.
Named(fold, c) == [fold |-> fold, with |-> c]
FoldOp(c, e, s) ==
  IF c.fold = "markets" THEN MarketOp(c.with, e, s)
  ELSE IF c.fold = "limits" THEN LimitOp(c.with, e, s)
  ELSE IF c.fold = "fires" THEN FireOp(c.with, e, s)
  ELSE IF c.fold = "without" THEN WithoutOp(c.with, e, s)
  ELSE IF c.fold = "fills" THEN BookOp(c.with, e, s)
  ELSE IF c.fold = "pairs" THEN PairOp(c.with, e, s)
  ELSE IF c.fold = "wind" THEN WindOp(c.with, e, s)
  ELSE IF c.fold = "intents" THEN AssessOp(c.with, e, s)
  ELSE IF c.fold = "orders" THEN PlaceOp(c.with, e, s)
  ELSE IF c.fold = "rows" THEN RowOp(c.with, e, s)
  ELSE ReplayOp(c.with, e, s)

Foldings == INSTANCE DataLemmas WITH Op <- FoldOp

\* The instance means the same maximum.
LEMMA SameMax ==
  ASSUME NEW s
  PROVE  Foldings!Max(s) = Max(s)
BY DEF Foldings!Max, Max

\* The name finds the operator.
LEMMA NameFinds ==
  ASSUME NEW c, NEW e, NEW s
  PROVE  /\ FoldOp(Named("markets", c), e, s) = MarketOp(c, e, s)
         /\ FoldOp(Named("limits", c), e, s) = LimitOp(c, e, s)
         /\ FoldOp(Named("fires", c), e, s) = FireOp(c, e, s)
         /\ FoldOp(Named("without", c), e, s) = WithoutOp(c, e, s)
         /\ FoldOp(Named("fills", c), e, s) = BookOp(c, e, s)
         /\ FoldOp(Named("pairs", c), e, s) = PairOp(c, e, s)
         /\ FoldOp(Named("wind", c), e, s) = WindOp(c, e, s)
         /\ FoldOp(Named("intents", c), e, s) = AssessOp(c, e, s)
         /\ FoldOp(Named("orders", c), e, s) = PlaceOp(c, e, s)
         /\ FoldOp(Named("rows", c), e, s) = RowOp(c, e, s)
         /\ FoldOp(Named("steps", c), e, s) = ReplayOp(c, e, s)
BY DEF Named, FoldOp

\* What each step of FillMarkets keeps, the whole of it keeps.
LEMMA MarketsKeep ==
  ASSUME NEW c, NEW base, NEW S, NEW seq \in Seq(S), base.venue.orders = seq,
         NEW J, base \in J[0],
         \A k \in 1 .. Len(seq) : \A x \in J[k - 1] : TryMarket(x, seq[k], c) \in J[k]
  PROVE  FillMarkets(base, c) \in J[Len(seq)]
<1>1. DOMAIN seq = 1 .. Len(seq) /\ Len(seq) \in Nat
  OBVIOUS
<1> DEFINE c_ == c
           body(f) == [s_ \in SUBSET (DOMAIN seq) |->
                         IF s_ = {} THEN base ELSE MarketOp(c_, seq[Max(s_)], f[s_ \ {Max(s_)}])]
           g == CHOOSE f : f = body(f)
<1>2. FillMarkets(base, c) = g[DOMAIN seq]
  BY DEF FillMarkets, FoldLeft, MapThenFoldSet, MarketOp
<1> HIDE DEF c_
<1>3. \A f : Foldings!FoldStep(Named("markets", c_), base, seq, Len(seq), f) = body(f)
  <2>1. \A e, s_ : FoldOp(Named("markets", c_), e, s_) = MarketOp(c_, e, s_)
    BY NameFinds
  <2> QED BY <1>1, <2>1, SameMax DEF Foldings!FoldStep
<1>4. \E f : f = Foldings!FoldStep(Named("markets", c_), base, seq, Len(seq), f)
  BY ONLY <1>1, Foldings!FoldExists
<1> HIDE DEF body
<1>5. \E f : f = body(f)
  BY <1>3, <1>4
<1>6. g = body(g)
  BY <1>5
<1> HIDE DEF g
<1>7. g = Foldings!FoldStep(Named("markets", c_), base, seq, Len(seq), g)
  BY <1>3, <1>6
<1>8. \A k \in 1 .. Len(seq) : \A x \in J[k - 1] : FoldOp(Named("markets", c_), seq[k], x) \in J[k]
  BY NameFinds DEF c_, MarketOp
<1> DEFINE name == Named("markets", c_)
           n == Len(seq)
<1> HIDE DEF name, n
<1>9. g[1 .. n] \in J[n]
  <2>1. n \in Nat /\ g = Foldings!FoldStep(name, base, seq, n, g)
    BY <1>1, <1>7 DEF name, n
  <2>2. base \in J[0] /\ \A k \in 1 .. n : \A x \in J[k - 1] : FoldOp(name, seq[k], x) \in J[k]
    BY <1>8 DEF name, n
  <2> QED BY <2>1, <2>2, Foldings!FoldKeeps
<1> QED BY <1>1, <1>2, <1>9 DEF n

\* What each step of FillLimits keeps, the whole of it keeps.
LEMMA LimitsKeep ==
  ASSUME NEW candle, NEW now, NEW base, NEW S, NEW seq \in Seq(S), base.venue.orders = seq,
         NEW J, base \in J[0],
         \A k \in 1 .. Len(seq) : \A x \in J[k - 1] : TryLimit(x, seq[k], candle, now) \in J[k]
  PROVE  FillLimits(base, candle, now) \in J[Len(seq)]
<1>1. DOMAIN seq = 1 .. Len(seq) /\ Len(seq) \in Nat
  OBVIOUS
<1> DEFINE c_ == [candle |-> candle, step |-> now]
           body(f) == [s_ \in SUBSET (DOMAIN seq) |->
                         IF s_ = {} THEN base ELSE LimitOp(c_, seq[Max(s_)], f[s_ \ {Max(s_)}])]
           g == CHOOSE f : f = body(f)
<1>2. FillLimits(base, candle, now) = g[DOMAIN seq]
  BY DEF FillLimits, FoldLeft, MapThenFoldSet, LimitOp
<1> HIDE DEF c_
<1>3. \A f : Foldings!FoldStep(Named("limits", c_), base, seq, Len(seq), f) = body(f)
  <2>1. \A e, s_ : FoldOp(Named("limits", c_), e, s_) = LimitOp(c_, e, s_)
    BY NameFinds
  <2> QED BY <1>1, <2>1, SameMax DEF Foldings!FoldStep
<1>4. \E f : f = Foldings!FoldStep(Named("limits", c_), base, seq, Len(seq), f)
  BY ONLY <1>1, Foldings!FoldExists
<1> HIDE DEF body
<1>5. \E f : f = body(f)
  BY <1>3, <1>4
<1>6. g = body(g)
  BY <1>5
<1> HIDE DEF g
<1>7. g = Foldings!FoldStep(Named("limits", c_), base, seq, Len(seq), g)
  BY <1>3, <1>6
<1>8. \A k \in 1 .. Len(seq) : \A x \in J[k - 1] : FoldOp(Named("limits", c_), seq[k], x) \in J[k]
  BY NameFinds DEF c_, LimitOp
<1> DEFINE name == Named("limits", c_)
           n == Len(seq)
<1> HIDE DEF name, n
<1>9. g[1 .. n] \in J[n]
  <2>1. n \in Nat /\ g = Foldings!FoldStep(name, base, seq, n, g)
    BY <1>1, <1>7 DEF name, n
  <2>2. base \in J[0] /\ \A k \in 1 .. n : \A x \in J[k - 1] : FoldOp(name, seq[k], x) \in J[k]
    BY <1>8 DEF name, n
  <2> QED BY <2>1, <2>2, Foldings!FoldKeeps
<1> QED BY <1>1, <1>2, <1>9 DEF n

\* What each step of FireAll keeps, the whole of it keeps.
LEMMA FiresKeep ==
  ASSUME NEW c, NEW s, NEW base, NEW S, NEW seq \in Seq(S), s.venue.protections = seq,
         base = [venue |-> s.venue, fills |-> s.fills, kept |-> <<>>],
         NEW J, base \in J[0],
         \A k \in 1 .. Len(seq) : \A x \in J[k - 1] : Fire(x, seq[k], c) \in J[k]
  PROVE  FireAll(s, c) \in J[Len(seq)]
<1>1. DOMAIN seq = 1 .. Len(seq) /\ Len(seq) \in Nat
  OBVIOUS
<1> DEFINE c_ == c
           body(f) == [s_ \in SUBSET (DOMAIN seq) |->
                         IF s_ = {} THEN base ELSE FireOp(c_, seq[Max(s_)], f[s_ \ {Max(s_)}])]
           g == CHOOSE f : f = body(f)
<1>2. FireAll(s, c) = g[DOMAIN seq]
  BY DEF FireAll, FoldLeft, MapThenFoldSet, FireOp
<1> HIDE DEF c_
<1>3. \A f : Foldings!FoldStep(Named("fires", c_), base, seq, Len(seq), f) = body(f)
  <2>1. \A e, s_ : FoldOp(Named("fires", c_), e, s_) = FireOp(c_, e, s_)
    BY NameFinds
  <2> QED BY <1>1, <2>1, SameMax DEF Foldings!FoldStep
<1>4. \E f : f = Foldings!FoldStep(Named("fires", c_), base, seq, Len(seq), f)
  BY ONLY <1>1, Foldings!FoldExists
<1> HIDE DEF body
<1>5. \E f : f = body(f)
  BY <1>3, <1>4
<1>6. g = body(g)
  BY <1>5
<1> HIDE DEF g
<1>7. g = Foldings!FoldStep(Named("fires", c_), base, seq, Len(seq), g)
  BY <1>3, <1>6
<1>8. \A k \in 1 .. Len(seq) : \A x \in J[k - 1] : FoldOp(Named("fires", c_), seq[k], x) \in J[k]
  BY NameFinds DEF c_, FireOp
<1> DEFINE name == Named("fires", c_)
           n == Len(seq)
<1> HIDE DEF name, n
<1>9. g[1 .. n] \in J[n]
  <2>1. n \in Nat /\ g = Foldings!FoldStep(name, base, seq, n, g)
    BY <1>1, <1>7 DEF name, n
  <2>2. base \in J[0] /\ \A k \in 1 .. n : \A x \in J[k - 1] : FoldOp(name, seq[k], x) \in J[k]
    BY <1>8 DEF name, n
  <2> QED BY <2>1, <2>2, Foldings!FoldKeeps
<1> QED BY <1>1, <1>2, <1>9 DEF n

\* What each step of Without keeps, the whole of it keeps.
LEMMA WithoutsKeep ==
  ASSUME NEW id, NEW base, NEW S, NEW seq \in Seq(S), base = <<>>,
         NEW J, base \in J[0],
         \A k \in 1 .. Len(seq) : \A x \in J[k - 1] : WithoutOp(id, seq[k], x) \in J[k]
  PROVE  Without(seq, id) \in J[Len(seq)]
<1>1. DOMAIN seq = 1 .. Len(seq) /\ Len(seq) \in Nat
  OBVIOUS
<1> DEFINE c_ == id
           body(f) == [s_ \in SUBSET (DOMAIN seq) |->
                         IF s_ = {} THEN base ELSE WithoutOp(c_, seq[Max(s_)], f[s_ \ {Max(s_)}])]
           g == CHOOSE f : f = body(f)
<1>2. Without(seq, id) = g[DOMAIN seq]
  BY DEF Without, FoldLeft, MapThenFoldSet, WithoutOp
<1> HIDE DEF c_
<1>3. \A f : Foldings!FoldStep(Named("without", c_), base, seq, Len(seq), f) = body(f)
  <2>1. \A e, s_ : FoldOp(Named("without", c_), e, s_) = WithoutOp(c_, e, s_)
    BY NameFinds
  <2> QED BY <1>1, <2>1, SameMax DEF Foldings!FoldStep
<1>4. \E f : f = Foldings!FoldStep(Named("without", c_), base, seq, Len(seq), f)
  BY ONLY <1>1, Foldings!FoldExists
<1> HIDE DEF body
<1>5. \E f : f = body(f)
  BY <1>3, <1>4
<1>6. g = body(g)
  BY <1>5
<1> HIDE DEF g
<1>7. g = Foldings!FoldStep(Named("without", c_), base, seq, Len(seq), g)
  BY <1>3, <1>6
<1>8. \A k \in 1 .. Len(seq) : \A x \in J[k - 1] : FoldOp(Named("without", c_), seq[k], x) \in J[k]
  BY NameFinds DEF c_
<1> DEFINE name == Named("without", c_)
           n == Len(seq)
<1> HIDE DEF name, n
<1>9. g[1 .. n] \in J[n]
  <2>1. n \in Nat /\ g = Foldings!FoldStep(name, base, seq, n, g)
    BY <1>1, <1>7 DEF name, n
  <2>2. base \in J[0] /\ \A k \in 1 .. n : \A x \in J[k - 1] : FoldOp(name, seq[k], x) \in J[k]
    BY <1>8 DEF name, n
  <2> QED BY <2>1, <2>2, Foldings!FoldKeeps
<1> QED BY <1>1, <1>2, <1>9 DEF n

\* What each step of BookFills keeps, the whole of it keeps.
LEMMA BookingsKeep ==
  ASSUME NEW base, NEW S, NEW seq \in Seq(S),
         NEW J, base \in J[0],
         \A k \in 1 .. Len(seq) : \A x \in J[k - 1] : BookFill(x, seq[k]) \in J[k]
  PROVE  BookFills(base, seq) \in J[Len(seq)]
<1>1. DOMAIN seq = 1 .. Len(seq) /\ Len(seq) \in Nat
  OBVIOUS
<1> DEFINE c_ == 0
           body(f) == [s_ \in SUBSET (DOMAIN seq) |->
                         IF s_ = {} THEN base ELSE BookOp(c_, seq[Max(s_)], f[s_ \ {Max(s_)}])]
           g == CHOOSE f : f = body(f)
<1>2. BookFills(base, seq) = g[DOMAIN seq]
  BY DEF BookFills, FoldLeft, MapThenFoldSet, BookOp
<1> HIDE DEF c_
<1>3. \A f : Foldings!FoldStep(Named("fills", c_), base, seq, Len(seq), f) = body(f)
  <2>1. \A e, s_ : FoldOp(Named("fills", c_), e, s_) = BookOp(c_, e, s_)
    BY NameFinds
  <2> QED BY <1>1, <2>1, SameMax DEF Foldings!FoldStep
<1>4. \E f : f = Foldings!FoldStep(Named("fills", c_), base, seq, Len(seq), f)
  BY ONLY <1>1, Foldings!FoldExists
<1> HIDE DEF body
<1>5. \E f : f = body(f)
  BY <1>3, <1>4
<1>6. g = body(g)
  BY <1>5
<1> HIDE DEF g
<1>7. g = Foldings!FoldStep(Named("fills", c_), base, seq, Len(seq), g)
  BY <1>3, <1>6
<1>8. \A k \in 1 .. Len(seq) : \A x \in J[k - 1] : FoldOp(Named("fills", c_), seq[k], x) \in J[k]
  BY NameFinds DEF c_, BookOp
<1> DEFINE name == Named("fills", c_)
           n == Len(seq)
<1> HIDE DEF name, n
<1>9. g[1 .. n] \in J[n]
  <2>1. n \in Nat /\ g = Foldings!FoldStep(name, base, seq, n, g)
    BY <1>1, <1>7 DEF name, n
  <2>2. base \in J[0] /\ \A k \in 1 .. n : \A x \in J[k - 1] : FoldOp(name, seq[k], x) \in J[k]
    BY <1>8 DEF name, n
  <2> QED BY <2>1, <2>2, Foldings!FoldKeeps
<1> QED BY <1>1, <1>2, <1>9 DEF n

\* What each step of StepBooks keeps, the whole of it keeps.
LEMMA WalksKeep ==
  ASSUME NEW candles, NEW base, NEW S, NEW seq \in Seq(S), base = Books, seq = Walk,
         NEW J, base \in J[0],
         \A k \in 1 .. Len(seq) : \A x \in J[k - 1] : PairOp(candles, seq[k], x) \in J[k]
  PROVE  StepBooks(candles) \in J[Len(seq)]
<1>1. DOMAIN seq = 1 .. Len(seq) /\ Len(seq) \in Nat
  OBVIOUS
<1> DEFINE c_ == candles
           body(f) == [s_ \in SUBSET (DOMAIN seq) |->
                         IF s_ = {} THEN base ELSE PairOp(c_, seq[Max(s_)], f[s_ \ {Max(s_)}])]
           g == CHOOSE f : f = body(f)
<1>2. StepBooks(candles) = g[DOMAIN seq]
  BY DEF StepBooks, FoldLeft, MapThenFoldSet, PairOp
<1> HIDE DEF c_
<1>3. \A f : Foldings!FoldStep(Named("pairs", c_), base, seq, Len(seq), f) = body(f)
  <2>1. \A e, s_ : FoldOp(Named("pairs", c_), e, s_) = PairOp(c_, e, s_)
    BY NameFinds
  <2> QED BY <1>1, <2>1, SameMax DEF Foldings!FoldStep
<1>4. \E f : f = Foldings!FoldStep(Named("pairs", c_), base, seq, Len(seq), f)
  BY ONLY <1>1, Foldings!FoldExists
<1> HIDE DEF body
<1>5. \E f : f = body(f)
  BY <1>3, <1>4
<1>6. g = body(g)
  BY <1>5
<1> HIDE DEF g
<1>7. g = Foldings!FoldStep(Named("pairs", c_), base, seq, Len(seq), g)
  BY <1>3, <1>6
<1>8. \A k \in 1 .. Len(seq) : \A x \in J[k - 1] : FoldOp(Named("pairs", c_), seq[k], x) \in J[k]
  BY NameFinds DEF c_
<1> DEFINE name == Named("pairs", c_)
           n == Len(seq)
<1> HIDE DEF name, n
<1>9. g[1 .. n] \in J[n]
  <2>1. n \in Nat /\ g = Foldings!FoldStep(name, base, seq, n, g)
    BY <1>1, <1>7 DEF name, n
  <2>2. base \in J[0] /\ \A k \in 1 .. n : \A x \in J[k - 1] : FoldOp(name, seq[k], x) \in J[k]
    BY <1>8 DEF name, n
  <2> QED BY <2>1, <2>2, Foldings!FoldKeeps
<1> QED BY <1>1, <1>2, <1>9 DEF n

\* What each step of WoundDown keeps, the whole of it keeps.
LEMMA WindDownsKeep ==
  ASSUME NEW base, NEW S, NEW seq \in Seq(S), seq = Walk,
         base = [failed |-> FALSE, ledger |-> ledger, risk |-> risk, venues |-> venues,
                 recorded |-> recorded],
         NEW J, base \in J[0],
         \A k \in 1 .. Len(seq) : \A x \in J[k - 1] : WindDown(x, seq[k]) \in J[k]
  PROVE  WoundDown \in J[Len(seq)]
<1>1. DOMAIN seq = 1 .. Len(seq) /\ Len(seq) \in Nat
  OBVIOUS
<1> DEFINE c_ == 0
           body(f) == [s_ \in SUBSET (DOMAIN seq) |->
                         IF s_ = {} THEN base ELSE WindOp(c_, seq[Max(s_)], f[s_ \ {Max(s_)}])]
           g == CHOOSE f : f = body(f)
<1>2. WoundDown = g[DOMAIN seq]
  BY DEF WoundDown, FoldLeft, MapThenFoldSet, WindOp
<1> HIDE DEF c_
<1>3. \A f : Foldings!FoldStep(Named("wind", c_), base, seq, Len(seq), f) = body(f)
  <2>1. \A e, s_ : FoldOp(Named("wind", c_), e, s_) = WindOp(c_, e, s_)
    BY NameFinds
  <2> QED BY <1>1, <2>1, SameMax DEF Foldings!FoldStep
<1>4. \E f : f = Foldings!FoldStep(Named("wind", c_), base, seq, Len(seq), f)
  BY ONLY <1>1, Foldings!FoldExists
<1> HIDE DEF body
<1>5. \E f : f = body(f)
  BY <1>3, <1>4
<1>6. g = body(g)
  BY <1>5
<1> HIDE DEF g
<1>7. g = Foldings!FoldStep(Named("wind", c_), base, seq, Len(seq), g)
  BY <1>3, <1>6
<1>8. \A k \in 1 .. Len(seq) : \A x \in J[k - 1] : FoldOp(Named("wind", c_), seq[k], x) \in J[k]
  BY NameFinds DEF c_, WindOp
<1> DEFINE name == Named("wind", c_)
           n == Len(seq)
<1> HIDE DEF name, n
<1>9. g[1 .. n] \in J[n]
  <2>1. n \in Nat /\ g = Foldings!FoldStep(name, base, seq, n, g)
    BY <1>1, <1>7 DEF name, n
  <2>2. base \in J[0] /\ \A k \in 1 .. n : \A x \in J[k - 1] : FoldOp(name, seq[k], x) \in J[k]
    BY <1>8 DEF name, n
  <2> QED BY <2>1, <2>2, Foldings!FoldKeeps
<1> QED BY <1>1, <1>2, <1>9 DEF n

\* What each step of AssessAll keeps, the whole of it keeps.
LEMMA BatchingKeep ==
  ASSUME NEW base, NEW S, NEW seq \in Seq(S), base = NewBatch(ledger),
         NEW J, base \in J[0],
         \A k \in 1 .. Len(seq) : \A x \in J[k - 1] : AssessOne(ledger, risk, closes, instrument, x, seq[k]) \in J[k]
  PROVE  AssessAll(ledger, risk, closes, instrument, seq) \in J[Len(seq)]
<1>1. DOMAIN seq = 1 .. Len(seq) /\ Len(seq) \in Nat
  OBVIOUS
<1> DEFINE c_ == 0
           body(f) == [s_ \in SUBSET (DOMAIN seq) |->
                         IF s_ = {} THEN base ELSE AssessOp(c_, seq[Max(s_)], f[s_ \ {Max(s_)}])]
           g == CHOOSE f : f = body(f)
<1>2. AssessAll(ledger, risk, closes, instrument, seq) = g[DOMAIN seq]
  BY DEF AssessAll, FoldLeft, MapThenFoldSet, AssessOp
<1> HIDE DEF c_
<1>3. \A f : Foldings!FoldStep(Named("intents", c_), base, seq, Len(seq), f) = body(f)
  <2>1. \A e, s_ : FoldOp(Named("intents", c_), e, s_) = AssessOp(c_, e, s_)
    BY NameFinds
  <2> QED BY <1>1, <2>1, SameMax DEF Foldings!FoldStep
<1>4. \E f : f = Foldings!FoldStep(Named("intents", c_), base, seq, Len(seq), f)
  BY ONLY <1>1, Foldings!FoldExists
<1> HIDE DEF body
<1>5. \E f : f = body(f)
  BY <1>3, <1>4
<1>6. g = body(g)
  BY <1>5
<1> HIDE DEF g
<1>7. g = Foldings!FoldStep(Named("intents", c_), base, seq, Len(seq), g)
  BY <1>3, <1>6
<1>8. \A k \in 1 .. Len(seq) : \A x \in J[k - 1] : FoldOp(Named("intents", c_), seq[k], x) \in J[k]
  BY NameFinds DEF c_, AssessOp
<1> DEFINE name == Named("intents", c_)
           n == Len(seq)
<1> HIDE DEF name, n
<1>9. g[1 .. n] \in J[n]
  <2>1. n \in Nat /\ g = Foldings!FoldStep(name, base, seq, n, g)
    BY <1>1, <1>7 DEF name, n
  <2>2. base \in J[0] /\ \A k \in 1 .. n : \A x \in J[k - 1] : FoldOp(name, seq[k], x) \in J[k]
    BY <1>8 DEF name, n
  <2> QED BY <2>1, <2>2, Foldings!FoldKeeps
<1> QED BY <1>1, <1>2, <1>9 DEF n

\* What each step of Placed keeps, the whole of it keeps.
LEMMA PlacingsKeep ==
  ASSUME NEW base, NEW S, NEW seq \in Seq(S), base = venues,
         NEW J, base \in J[0],
         \A k \in 1 .. Len(seq) : \A x \in J[k - 1] : PlaceOp(0, seq[k], x) \in J[k]
  PROVE  Placed(seq) \in J[Len(seq)]
<1>1. DOMAIN seq = 1 .. Len(seq) /\ Len(seq) \in Nat
  OBVIOUS
<1> DEFINE c_ == 0
           body(f) == [s_ \in SUBSET (DOMAIN seq) |->
                         IF s_ = {} THEN base ELSE PlaceOp(c_, seq[Max(s_)], f[s_ \ {Max(s_)}])]
           g == CHOOSE f : f = body(f)
<1>2. Placed(seq) = g[DOMAIN seq]
  BY DEF Placed, FoldLeft, MapThenFoldSet, PlaceOp
<1> HIDE DEF c_
<1>3. \A f : Foldings!FoldStep(Named("orders", c_), base, seq, Len(seq), f) = body(f)
  <2>1. \A e, s_ : FoldOp(Named("orders", c_), e, s_) = PlaceOp(c_, e, s_)
    BY NameFinds
  <2> QED BY <1>1, <2>1, SameMax DEF Foldings!FoldStep
<1>4. \E f : f = Foldings!FoldStep(Named("orders", c_), base, seq, Len(seq), f)
  BY ONLY <1>1, Foldings!FoldExists
<1> HIDE DEF body
<1>5. \E f : f = body(f)
  BY <1>3, <1>4
<1>6. g = body(g)
  BY <1>5
<1> HIDE DEF g
<1>7. g = Foldings!FoldStep(Named("orders", c_), base, seq, Len(seq), g)
  BY <1>3, <1>6
<1>8. \A k \in 1 .. Len(seq) : \A x \in J[k - 1] : FoldOp(Named("orders", c_), seq[k], x) \in J[k]
  BY NameFinds DEF c_
<1> DEFINE name == Named("orders", c_)
           n == Len(seq)
<1> HIDE DEF name, n
<1>9. g[1 .. n] \in J[n]
  <2>1. n \in Nat /\ g = Foldings!FoldStep(name, base, seq, n, g)
    BY <1>1, <1>7 DEF name, n
  <2>2. base \in J[0] /\ \A k \in 1 .. n : \A x \in J[k - 1] : FoldOp(name, seq[k], x) \in J[k]
    BY <1>8 DEF name, n
  <2> QED BY <2>1, <2>2, Foldings!FoldKeeps
<1> QED BY <1>1, <1>2, <1>9 DEF n

\* What each step of ReplaySide keeps, the whole of it keeps.
LEMMA ReplaysKeep ==
  ASSUME NEW at, NEW side, NEW base, NEW S, NEW seq \in Seq(S),
         NEW J, base \in J[0],
         \A k \in 1 .. Len(seq) : \A x \in J[k - 1] : RowOp([at |-> at, side |-> side], seq[k], x) \in J[k]
  PROVE  ReplaySide(base, seq, at, side) \in J[Len(seq)]
<1>1. DOMAIN seq = 1 .. Len(seq) /\ Len(seq) \in Nat
  OBVIOUS
<1> DEFINE c_ == [at |-> at, side |-> side]
           body(f) == [s_ \in SUBSET (DOMAIN seq) |->
                         IF s_ = {} THEN base ELSE RowOp(c_, seq[Max(s_)], f[s_ \ {Max(s_)}])]
           g == CHOOSE f : f = body(f)
<1>2. ReplaySide(base, seq, at, side) = g[DOMAIN seq]
  BY DEF ReplaySide, FoldLeft, MapThenFoldSet, RowOp
<1> HIDE DEF c_
<1>3. \A f : Foldings!FoldStep(Named("rows", c_), base, seq, Len(seq), f) = body(f)
  <2>1. \A e, s_ : FoldOp(Named("rows", c_), e, s_) = RowOp(c_, e, s_)
    BY NameFinds
  <2> QED BY <1>1, <2>1, SameMax DEF Foldings!FoldStep
<1>4. \E f : f = Foldings!FoldStep(Named("rows", c_), base, seq, Len(seq), f)
  BY ONLY <1>1, Foldings!FoldExists
<1> HIDE DEF body
<1>5. \E f : f = body(f)
  BY <1>3, <1>4
<1>6. g = body(g)
  BY <1>5
<1> HIDE DEF g
<1>7. g = Foldings!FoldStep(Named("rows", c_), base, seq, Len(seq), g)
  BY <1>3, <1>6
<1>8. \A k \in 1 .. Len(seq) : \A x \in J[k - 1] : FoldOp(Named("rows", c_), seq[k], x) \in J[k]
  BY NameFinds DEF c_
<1> DEFINE name == Named("rows", c_)
           n == Len(seq)
<1> HIDE DEF name, n
<1>9. g[1 .. n] \in J[n]
  <2>1. n \in Nat /\ g = Foldings!FoldStep(name, base, seq, n, g)
    BY <1>1, <1>7 DEF name, n
  <2>2. base \in J[0] /\ \A k \in 1 .. n : \A x \in J[k - 1] : FoldOp(name, seq[k], x) \in J[k]
    BY <1>8 DEF name, n
  <2> QED BY <2>1, <2>2, Foldings!FoldKeeps
<1> QED BY <1>1, <1>2, <1>9 DEF n

\* The recursion behind Replay.
ReplayStep(c, base, seq, S, f) ==
  [s_ \in SUBSET S |-> IF s_ = {} THEN base ELSE ReplayOp(c, seq[Max(s_)], f[s_ \ {Max(s_)}])]

\* A step of the fold over candles is ReplayStep.
LEMMA ReplayStepIs ==
  ASSUME NEW c, NEW base, NEW seq, NEW n, NEW f
  PROVE  Foldings!FoldStep(Named("steps", c), base, seq, n, f) = ReplayStep(c, base, seq, 1 .. n, f)
BY NameFinds, SameMax DEF Foldings!FoldStep, ReplayStep

\* What each step of Replay keeps, the whole of it keeps.
LEMMA StepsKeep ==
  ASSUME NEW rows, NEW base, NEW S, NEW seq \in Seq(S),
         base = [ok |-> TRUE, ledger |-> NewLedger(StartingCash, FlatAccount)],
         seq = [i \in 1 .. step |-> i],
         NEW J, base \in J[0],
         \A k \in 1 .. Len(seq) : \A x \in J[k - 1] : ReplayOp(rows, seq[k], x) \in J[k]
  PROVE  Replay(rows) \in J[Len(seq)]
<1>1. DOMAIN seq = 1 .. Len(seq) /\ Len(seq) \in Nat
  <2>1. \A q \in Seq(S) : DOMAIN q = 1 .. Len(q) /\ Len(q) \in Nat
    OBVIOUS
  <2> QED BY <2>1
<1> DEFINE c_ == rows
           body(f) == [s_ \in SUBSET (DOMAIN seq) |->
                         IF s_ = {} THEN base ELSE ReplayOp(c_, seq[Max(s_)], f[s_ \ {Max(s_)}])]
           g == CHOOSE f : f = body(f)
<1>2. Replay(rows) = g[DOMAIN seq]
  BY DEF Replay, FoldLeft, MapThenFoldSet, ReplayOp
<1> HIDE DEF c_
<1>3. \A f : Foldings!FoldStep(Named("steps", c_), base, seq, Len(seq), f) = body(f)
  <2> SUFFICES ASSUME NEW f
               PROVE  Foldings!FoldStep(Named("steps", c_), base, seq, Len(seq), f) = body(f)
    OBVIOUS
  <2>1. Foldings!FoldStep(Named("steps", c_), base, seq, Len(seq), f)
          = ReplayStep(c_, base, seq, 1 .. Len(seq), f)
    BY ReplayStepIs
  <2>2. body(f) = ReplayStep(c_, base, seq, DOMAIN seq, f)
    BY DEF ReplayStep
  <2> QED BY <1>1, <2>1, <2>2
<1>4. \E f : f = Foldings!FoldStep(Named("steps", c_), base, seq, Len(seq), f)
  BY ONLY <1>1, Foldings!FoldExists
<1> HIDE DEF body
<1>5. \E f : f = body(f)
  BY <1>3, <1>4
<1>6. g = body(g)
  BY <1>5
<1> HIDE DEF g
<1>7. g = Foldings!FoldStep(Named("steps", c_), base, seq, Len(seq), g)
  BY <1>3, <1>6
<1>8. \A k \in 1 .. Len(seq) : \A x \in J[k - 1] : FoldOp(Named("steps", c_), seq[k], x) \in J[k]
  <2>1. \A e, s_ : FoldOp(Named("steps", c_), e, s_) = ReplayOp(c_, e, s_)
    BY ONLY NameFinds
  <2> QED BY <2>1 DEF c_
<1> DEFINE name == Named("steps", c_)
           n == Len(seq)
<1> HIDE DEF name, n
<1>9. g[1 .. n] \in J[n]
  <2>1. n \in Nat /\ g = Foldings!FoldStep(name, base, seq, n, g)
    BY <1>1, <1>7 DEF name, n
  <2>2. base \in J[0] /\ \A k \in 1 .. n : \A x \in J[k - 1] : FoldOp(name, seq[k], x) \in J[k]
    BY <1>8 DEF name, n
  <2> QED BY <2>1, <2>2, Foldings!FoldKeeps
<1> QED BY <1>1, <1>2, <1>9 DEF n

-----------------------------------------------------------------------------
(***************************************************************************)
(* The ledger.                                                             *)
(***************************************************************************)
\* What every fill the engine books has, whoever made it.
Trade(f) ==
  f.pair \in Pairs /\ f.side \in Sides /\ f.size \in Nat /\ f.price \in Nat /\ f.fee \in Nat

\* A share of at most the whole.
LEMMA Share ==
  ASSUME NEW a \in Nat, NEW rate \in 0 .. 10
  PROVE  (a * rate) \div 10 \in 0 .. a
<1>1. rate \in {0, 1, 2, 3, 4, 5, 6, 7, 8, 9, 10}
  OBVIOUS
<1> QED BY <1>1

\* There are finitely many pairs.
LEMMA PairsFinite == IsFiniteSet(Pairs)
BY PairsAssumption

\* A product of numbers is one.
LEMMA Product ==
  ASSUME NEW a \in Int, NEW b \in Int
  PROVE  a * b \in Int /\ (a \in Nat /\ b \in Nat => a * b \in Nat)
OBVIOUS

\* The part of a fill that closes, and what it closes at.
LEMMA ClosingIs ==
  ASSUME NEW pos \in Position, NEW f, Trade(f)
  PROVE  /\ Closing(pos, f) \in 0 .. f.size
         /\ Closing(pos, f) <= Abs(pos.size)
         /\ Basis(pos, Closing(pos, f)) \in Int
         /\ FeeOf(f, Closing(pos, f)) \in Int
<1>1. pos.size \in Int /\ pos.cost \in Int /\ Direction(f) \in {1, -1}
  BY DEF Position, Direction
<1>2. Abs(pos.size) \in Nat /\ (pos.size # 0 => Abs(pos.size) \in Nat \ {0})
  BY <1>1 DEF Abs
<1>3. Closing(pos, f) \in 0 .. f.size /\ Closing(pos, f) <= Abs(pos.size)
  BY <1>1, <1>2 DEF Closing, Least, Trade
<1>4. Basis(pos, Closing(pos, f)) \in Int
  <2>1. CASE Closing(pos, f) = Abs(pos.size)
    BY <1>1, <2>1 DEF Basis
  <2>2. CASE Closing(pos, f) # Abs(pos.size)
    <3>1. Abs(pos.size) \in Nat \ {0}
      BY <1>2, <1>3, <2>2
    <3>2. pos.cost * Closing(pos, f) \in Int
      BY <1>1, <1>3, Product
    <3>3. (pos.cost * Closing(pos, f)) \div Abs(pos.size) \in Int
      BY <3>1, <3>2
    <3> QED BY <2>2, <3>3 DEF Basis
  <2> QED BY <2>1, <2>2
<1>5. FeeOf(f, Closing(pos, f)) \in Int
  <2>1. CASE Closing(pos, f) = f.size
    BY <2>1 DEF FeeOf, Trade
  <2>2. CASE Closing(pos, f) # f.size
    <3>1. f.size \in Nat \ {0} /\ f.fee \in Int
      BY <1>3, <2>2 DEF Trade
    <3>2. f.fee * Closing(pos, f) \in Int
      BY <1>3, <3>1, Product
    <3>3. (f.fee * Closing(pos, f)) \div f.size \in Int
      BY <3>1, <3>2
    <3> QED BY <2>2, <3>3 DEF FeeOf
  <2> QED BY <2>1, <2>2
<1> QED BY <1>3, <1>4, <1>5

\* A fill moves its pair and the cash; what it realizes is what cash and cost
\* change by.
LEMMA FillApplied ==
  ASSUME NEW l \in Account, NEW f, Trade(f)
  PROVE  LET new == ApplyFill(l, f)
             pnl == Realized(l, f)
             p   == f.pair
         IN  /\ new \in Account /\ pnl \in Int /\ Amount(f) \in Nat
             /\ new.cash = l.cash - Direction(f) * Amount(f) - f.fee
             /\ new.opening = l.opening /\ new.funded = l.funded
             /\ new.realized = l.realized + pnl
             /\ new.pos[p].size = l.pos[p].size + Direction(f) * f.size
             /\ new.cash + new.pos[p].cost = l.cash + l.pos[p].cost + pnl
             /\ \A q \in Pairs : q # p => new.pos[q] = l.pos[q]
             /\ (l.pos[p].size = 0 => l.pos[p].cost = 0) /\ new.pos[p].size = 0 =>
                  new.pos[p].cost = 0
<1> DEFINE new == ApplyFill(l, f)
           pnl == Realized(l, f)
           p   == f.pair
           pos == l.pos[p]
           closing == Closing(pos, f)
           basis == Basis(pos, closing)
           part == FeeOf(f, closing)
           dir == Direction(f)
<1>1. /\ pos \in Position /\ p \in Pairs
      /\ f.size \in Nat /\ f.price \in Nat /\ f.fee \in Nat /\ dir \in {1, -1}
  BY DEF Account, Trade, Direction
<1>2. closing \in 0 .. f.size /\ closing <= Abs(pos.size) /\ basis \in Int /\ part \in Int
  BY <1>1, ClosingIs
<1>3. pnl = -dir * closing * f.price - basis - part
  BY DEF Realized
<1>4. /\ new = [l EXCEPT !.cash = l.cash - dir * Amount(f) - f.fee,
                       !.realized = l.realized + pnl,
                       !.pos[p] = [size |-> pos.size + dir * f.size,
                                   cost |-> pos.cost - basis + dir * (f.size - closing) * f.price
                                              + f.fee - part]]
  BY DEF ApplyFill
<1>5. closing * f.price \in Nat /\ f.size * f.price \in Nat /\ Amount(f) = f.size * f.price
      /\ (f.size - closing) * f.price = f.size * f.price - closing * f.price
  BY <1>1, <1>2, Product DEF Amount
<1>6. pos.size \in Int /\ pos.cost \in Int
  BY <1>1 DEF Position
<1>7. pnl = -dir * (closing * f.price) - basis - part
  BY <1>1, <1>2, <1>3, <1>5
<1>8. dir * (f.size - closing) * f.price = dir * (f.size * f.price) - dir * (closing * f.price)
  BY <1>1, <1>2, <1>5
<1> DEFINE cost == pos.cost - basis + dir * (f.size - closing) * f.price + f.fee - part
           cash == l.cash - dir * Amount(f) - f.fee
<1>9. l.cash \in Int /\ l.realized \in Int /\ pnl \in Int /\ cost \in Int /\ cash \in Int
      /\ pos.size + dir * f.size \in Int
  <2>1. l.cash \in Int /\ l.realized \in Int
    BY DEF Account
  <2> HIDE DEF pnl, basis, part, closing, pos, dir
  <2> QED BY <2>1, <1>1, <1>2, <1>5, <1>6, <1>7, <1>8
<1>10. cash + cost = l.cash + pos.cost + pnl
  <2> HIDE DEF pnl, basis, part, closing, pos, dir
  <2> QED BY <1>9, <1>1, <1>2, <1>5, <1>6, <1>7, <1>8
<1> HIDE DEF pnl, basis, part, closing, dir
<1>11. /\ new \in Account
       /\ new.cash = cash /\ new.realized = l.realized + pnl
       /\ new.opening = l.opening /\ new.funded = l.funded
       /\ new.pos[p] = [size |-> pos.size + dir * f.size, cost |-> cost]
       /\ \A q \in Pairs : q # p => new.pos[q] = l.pos[q]
  <2> DEFINE held == [size |-> pos.size + dir * f.size, cost |-> cost]
             all  == [l.pos EXCEPT ![p] = held]
  <2>1. held \in Position
    <3> HIDE DEF pos, cost
    <3> QED BY <1>9 DEF Position
  <2>2. l.pos \in [Pairs -> Position] /\ l = [l EXCEPT !.cash = l.cash]
    BY DEF Account
  <2>3. all \in [Pairs -> Position] /\ all[p] = held /\ \A q \in Pairs : q # p => all[q] = l.pos[q]
    <3> HIDE DEF held, p
    <3> QED BY <1>1, <2>1, <2>2
  <2>4. new = [l EXCEPT !.cash = cash, !.realized = l.realized + pnl, !.pos = all]
    BY <1>4
  <2> HIDE DEF all, cash, held, p, new
  <2>5. new \in Account /\ new.cash = cash /\ new.realized = l.realized + pnl
        /\ new.opening = l.opening /\ new.funded = l.funded /\ new.pos = all
    <3> DEFINE realized == l.realized + pnl
    <3>1. realized \in Int /\ cash \in Int
      <4>1. l.realized \in Int /\ pnl \in Int /\ cash \in Int
        BY <1>9
      <4> QED BY <4>1
    <3>2. new = [l EXCEPT !.cash = cash, !.realized = realized, !.pos = all]
      BY <2>4
    <3>3. all \in [Pairs -> Position]
      BY <2>3
    <3> HIDE DEF realized
    <3>4. /\ new \in Account /\ new.cash = cash /\ new.realized = realized
          /\ new.opening = l.opening /\ new.funded = l.funded /\ new.pos = all
      BY <3>1, <3>2, <3>3 DEF Account
    <3> QED BY <3>4 DEF realized
  <2> QED BY <2>3, <2>5 DEF held
<1>12. (pos.size = 0 => pos.cost = 0) /\ pos.size + dir * f.size = 0 => cost = 0
  <2> SUFFICES ASSUME pos.size = 0 => pos.cost = 0, pos.size + dir * f.size = 0
               PROVE  cost = 0
    OBVIOUS
  <2>1. f.size = Abs(pos.size) /\ closing = f.size
    <3>1. Direction(f) = dir
      BY DEF dir
    <3>2. f.size = Abs(pos.size)
      BY <1>1, <1>6 DEF Abs
    <3>3. pos.size = -(dir * f.size)
      BY <1>1, <1>6
    <3>4. closing = IF pos.size * dir < 0 THEN Least(f.size, Abs(pos.size)) ELSE 0
      BY <3>1 DEF closing, Closing
    <3>5. f.size # 0 => pos.size * dir < 0
      <4> HIDE DEF pos
      <4>1. CASE dir = 1
        BY <1>1, <1>6, <3>3, <4>1
      <4>2. CASE dir = -1
        BY <1>1, <1>6, <3>3, <4>2
      <4> QED BY <1>1, <4>1, <4>2
    <3> HIDE DEF pos
    <3> QED BY <1>1, <1>6, <1>2, <3>2, <3>4, <3>5 DEF Least
  <2>2. basis = pos.cost /\ part = f.fee
    BY <2>1 DEF basis, part, Basis, FeeOf
  <2>3. (f.size - closing) * f.price = 0
    BY <1>1, <2>1
  <2> HIDE DEF pos
  <2> QED BY <1>1, <1>6, <1>8, <2>1, <2>2, <2>3, <1>5
<1> QED BY <1>5, <1>9, <1>10, <1>11, <1>12 DEF pnl, dir

\* The cost of what is held is a number.
LEMMA CostsAre ==
  ASSUME NEW l \in Account
  PROVE  Costs(l) = SumFunctionOnSet([p \in Pairs |-> l.pos[p].cost], Pairs) /\ Costs(l) \in Int
<1>1. \A p \in Pairs : [q \in Pairs |-> l.pos[q].cost][p] \in Int
  BY DEF Account, Position
<1> QED BY <1>1, PairsFinite, SumTakes DEF Costs, SumFunction

\* Costs move with the one pair, so the identity of the accounts is kept.
LEMMA BalanceKept ==
  ASSUME NEW l \in Account, NEW f, Trade(f), Balanced(l)
  PROVE  Balanced(ApplyFill(l, f))
<1> DEFINE new == ApplyFill(l, f)
           a == [p \in Pairs |-> l.pos[p].cost]
           b == [p \in Pairs |-> new.pos[p].cost]
           p == f.pair
<1>1. /\ new \in Account /\ Realized(l, f) \in Int /\ p \in Pairs
      /\ new.opening = l.opening /\ new.funded = l.funded
      /\ new.realized = l.realized + Realized(l, f)
      /\ new.cash + new.pos[p].cost = l.cash + l.pos[p].cost + Realized(l, f)
      /\ \A q \in Pairs : q # p => new.pos[q] = l.pos[q]
  BY FillApplied DEF Trade
<1> HIDE DEF new
<1>2. Costs(new) = Costs(l) + new.pos[p].cost - l.pos[p].cost
  <2>1. \A q \in Pairs : a[q] \in Int /\ b[q] \in Int
    BY <1>1 DEF Account, Position
  <2>2. \A q \in Pairs : q # p => b[q] = a[q]
    BY <1>1
  <2>3. SumFunctionOnSet(b, Pairs) = SumFunctionOnSet(a, Pairs) + b[p] - a[p]
    <3> HIDE DEF a, b, p
    <3> QED BY <1>1, <2>1, <2>2, PairsFinite, SumMoves
  <2> QED BY <1>1, <2>3, CostsAre
<1>3. /\ new.cash \in Int /\ new.pos[p].cost \in Int /\ l.cash \in Int /\ l.pos[p].cost \in Int
      /\ Costs(l) \in Int /\ l.opening \in Int /\ l.realized \in Int /\ l.funded \in Int
  BY <1>1, CostsAre DEF Account, Position
<1> HIDE DEF p
<1>4. new.cash + Costs(new) = new.opening + new.realized + new.funded
  <2>1. l.cash + Costs(l) = l.opening + l.realized + l.funded
    BY DEF Balanced
  <2>2. /\ Realized(l, f) \in Int /\ new.opening = l.opening /\ new.funded = l.funded
        /\ new.realized = l.realized + Realized(l, f)
        /\ new.cash + new.pos[p].cost = l.cash + l.pos[p].cost + Realized(l, f)
    BY <1>1
  <2> QED BY <1>2, <1>3, <2>1, <2>2
<1> QED BY <1>4 DEF Balanced, new

\* A spot fill that is accepted keeps the account solvent; a buy realizes
\* nothing.
LEMMA SpotFill ==
  ASSUME NEW l \in Account, NEW f, Trade(f), f.fee <= Amount(f),
         l.cash >= 0, \A p \in Pairs : l.pos[p].size >= 0, Accepts(l, f, "spot")
  PROVE  /\ ApplyFill(l, f).cash >= 0
         /\ \A p \in Pairs : ApplyFill(l, f).pos[p].size >= 0
         /\ f.side = "buy" /\ (l.pos[f.pair].size = 0 => l.pos[f.pair].cost = 0) =>
              Realized(l, f) = 0
<1> DEFINE new == ApplyFill(l, f)
           pos == l.pos[f.pair]
<1>1. /\ new \in Account /\ Amount(f) \in Nat /\ f.pair \in Pairs
      /\ new.cash = l.cash - Direction(f) * Amount(f) - f.fee
      /\ new.pos[f.pair].size = l.pos[f.pair].size + Direction(f) * f.size
      /\ \A q \in Pairs : q # f.pair => new.pos[q] = l.pos[q]
  BY FillApplied DEF Trade
<1>2. /\ l.cash \in Int /\ pos \in Position /\ pos.size \in Int /\ pos.cost \in Int
      /\ f.size \in Nat /\ f.fee \in Nat /\ f.price \in Nat /\ pos.size >= 0
  BY <1>1 DEF Account, Position, Trade
<1> HIDE DEF new
<1>3. CASE f.side = "buy"
  <2>1. Direction(f) = 1 /\ Amount(f) + f.fee <= l.cash
    BY <1>3 DEF Direction, Accepts
  <2>2. Closing(pos, f) = 0
    BY <1>2, <2>1 DEF Closing
  <2>3. pos.size = 0 => Basis(pos, 0) = pos.cost
    BY DEF Basis, Abs
  <2>4. pos.size # 0 => Basis(pos, 0) = 0
    <3> SUFFICES ASSUME pos.size # 0 PROVE Basis(pos, 0) = 0
      OBVIOUS
    <3>1. Abs(pos.size) \in Nat \ {0} /\ pos.cost * 0 = 0
      BY <1>2 DEF Abs
    <3> QED BY <3>1 DEF Basis
  <2>5. FeeOf(f, 0) = IF f.size = 0 THEN f.fee ELSE 0
    <3>1. f.fee * 0 = 0
      BY <1>2
    <3> QED BY <1>2, <3>1 DEF FeeOf
  <2>6. f.size = 0 => f.fee = 0
    BY <1>2 DEF Amount
  <2>7. (pos.size = 0 => pos.cost = 0) => Realized(l, f) = 0
    <3>1. Realized(l, f) = -Direction(f) * 0 * f.price - Basis(pos, 0) - FeeOf(f, 0)
      BY <2>2 DEF Realized
    <3>2. -Direction(f) * 0 * f.price = 0
      BY <1>2, <2>1
    <3>3. Basis(pos, 0) = IF pos.size = 0 THEN pos.cost ELSE 0
      BY <2>3, <2>4
    <3>4. FeeOf(f, 0) = 0
      BY <2>5, <2>6
    <3> HIDE DEF pos
    <3> QED BY <1>2, <3>1, <3>2, <3>3, <3>4
  <2>8. new.cash >= 0 /\ \A p \in Pairs : new.pos[p].size >= 0
    BY <1>1, <1>2, <2>1
  <2> QED BY <2>7, <2>8 DEF new
<1>4. CASE f.side = "sell"
  <2>1. Direction(f) = -1 /\ f.size <= pos.size
    BY <1>4 DEF Direction, Accepts
  <2>2. new.cash >= 0 /\ \A p \in Pairs : new.pos[p].size >= 0
    BY <1>1, <1>2, <2>1
  <2> QED BY <1>4, <2>2 DEF new
<1> QED BY <1>3, <1>4 DEF Trade, Sides

\* A fill keeps the accounts in order, a spot fill if the ledger accepts it.
LEMMA SoundKept ==
  ASSUME NEW l, Sound(l), NEW f, Trade(f), f.fee <= Amount(f),
         instrument = "spot" => Accepts(l, f, "spot")
  PROVE  /\ Sound(ApplyFill(l, f)) /\ Realized(l, f) \in Int
         /\ instrument = "spot" /\ f.side = "buy" => Realized(l, f) = 0
<1> DEFINE new == ApplyFill(l, f)
           p == f.pair
<1>1. l \in Account /\ Solvent(l) /\ Balanced(l)
  BY DEF Sound
<1>2. Balanced(new)
  BY <1>1, BalanceKept
<1>3. /\ new \in Account /\ Realized(l, f) \in Int /\ p \in Pairs
      /\ \A q \in Pairs : q # p => new.pos[q] = l.pos[q]
      /\ (l.pos[p].size = 0 => l.pos[p].cost = 0) /\ new.pos[p].size = 0 => new.pos[p].cost = 0
  BY <1>1, FillApplied DEF Trade
<1>4. instrument = "spot" =>
        /\ new.cash >= 0 /\ \A q \in Pairs : new.pos[q].size >= 0
        /\ f.side = "buy" => Realized(l, f) = 0
  <2> SUFFICES ASSUME instrument = "spot"
               PROVE  /\ new.cash >= 0 /\ \A q \in Pairs : new.pos[q].size >= 0
                      /\ f.side = "buy" => Realized(l, f) = 0
    OBVIOUS
  <2>1. l.cash >= 0 /\ \A q \in Pairs : l.pos[q].size >= 0
    BY <1>1 DEF Solvent
  <2>2. l.pos[f.pair].size = 0 => l.pos[f.pair].cost = 0
    BY <1>1, <1>3 DEF Solvent
  <2> QED BY <1>1, <2>1, <2>2, SpotFill
<1> HIDE DEF new
<1>5. \A q \in Pairs : new.pos[q].size = 0 => new.pos[q].cost = 0
  BY <1>1, <1>3 DEF Solvent
<1> QED BY <1>2, <1>3, <1>4, <1>5 DEF Sound, Solvent, new

\* The flows of a row and of all rows are numbers.
LEMMA FlowsAre ==
  ASSUME NEW rows \in Seq(FillRow), NEW p \in Pairs
  PROVE  /\ CashFlows(rows) \in [1 .. Len(rows) -> Int]
         /\ UnitFlows(rows, p) \in [1 .. Len(rows) -> Int]
         /\ SumFunction(CashFlows(rows)) \in Int /\ SumFunction(UnitFlows(rows, p)) \in Int
<1>1. \A r \in FillRow : CashFlow(r) \in Int /\ UnitFlow(r, p) \in Int
  <2> SUFFICES ASSUME NEW r \in FillRow PROVE CashFlow(r) \in Int /\ UnitFlow(r, p) \in Int
    OBVIOUS
  <2>1. r.size \in Nat /\ r.price \in Nat /\ r.fee \in Nat /\ Direction(r) \in {1, -1}
    BY DEF FillRow, Direction
  <2>2. Amount(r) \in Nat
    BY <2>1, Product DEF Amount
  <2> QED BY <2>1, <2>2 DEF CashFlow, UnitFlow
<1>2. DOMAIN rows = 1 .. Len(rows) /\ Len(rows) \in Nat /\ \A i \in 1 .. Len(rows) : rows[i] \in FillRow
  OBVIOUS
<1>3. CashFlows(rows) \in [1 .. Len(rows) -> Int] /\ UnitFlows(rows, p) \in [1 .. Len(rows) -> Int]
  BY <1>1, <1>2 DEF CashFlows, UnitFlows
<1>4. IsFiniteSet(1 .. Len(rows))
  BY <1>2, FS_Interval
<1>5. SumFunction(CashFlows(rows)) \in Int
  BY <1>3, <1>4, SumTakes DEF SumFunction
<1>6. SumFunction(UnitFlows(rows, p)) \in Int
  BY <1>3, <1>4, SumTakes DEF SumFunction
<1> QED BY <1>3, <1>5, <1>6

\* A row more is a flow more.
LEMMA FlowsGrow ==
  ASSUME NEW rows \in Seq(FillRow), NEW row \in FillRow, NEW p \in Pairs
  PROVE  /\ SumFunction(CashFlows(Append(rows, row))) = SumFunction(CashFlows(rows)) + CashFlow(row)
         /\ SumFunction(UnitFlows(Append(rows, row), p))
              = SumFunction(UnitFlows(rows, p)) + UnitFlow(row, p)
<1> DEFINE more == Append(rows, row)
           n == Len(rows)
<1>1. /\ more \in Seq(FillRow) /\ Len(more) = n + 1 /\ n \in Nat /\ DOMAIN more = 1 .. n + 1
      /\ more[n + 1] = row /\ \A i \in 1 .. n : more[i] = rows[i]
      /\ DOMAIN rows = 1 .. n
  OBVIOUS
<1> HIDE DEF more, n
<1>2. /\ CashFlows(rows) \in [1 .. n -> Int] /\ UnitFlows(rows, p) \in [1 .. n -> Int]
      /\ CashFlows(more) \in [1 .. n + 1 -> Int] /\ UnitFlows(more, p) \in [1 .. n + 1 -> Int]
  BY <1>1, FlowsAre DEF n
<1>3. \A i \in 1 .. n : i \in 1 .. n + 1
  BY <1>1
<1>4. /\ \A i \in 1 .. n : CashFlows(more)[i] = CashFlows(rows)[i]
      /\ \A i \in 1 .. n : UnitFlows(more, p)[i] = UnitFlows(rows, p)[i]
      /\ CashFlows(more)[n + 1] = CashFlow(row) /\ UnitFlows(more, p)[n + 1] = UnitFlow(row, p)
  BY <1>1, <1>3 DEF CashFlows, UnitFlows
<1>5. SumFunction(CashFlows(more)) = SumFunction(CashFlows(rows)) + CashFlow(row)
  BY <1>1, <1>2, <1>4, SumAppended
<1>6. SumFunction(UnitFlows(more, p)) = SumFunction(UnitFlows(rows, p)) + UnitFlow(row, p)
  BY <1>1, <1>2, <1>4, SumAppended
<1> QED BY <1>5, <1>6 DEF more

\* The row of a fill.
LEMMA RowIs ==
  ASSUME NEW f, Trade(f), f.fee <= Amount(f), NEW at \in Nat, NEW pnl \in Int
  PROVE  LET row == Row(f, at, pnl)
         IN  /\ row \in FillRow /\ row.step = at /\ row.pnl = pnl /\ row.pair = f.pair
             /\ row.size = f.size /\ row.side = f.side
             /\ CashFlow(row) = -Direction(f) * Amount(f) - f.fee
             /\ Direction(row) = Direction(f)
<1> DEFINE row == Row(f, at, pnl)
<1>1. /\ row.step = at /\ row.pnl = pnl /\ row.pair = f.pair /\ row.size = f.size
      /\ row.side = f.side /\ row.price = f.price /\ row.fee = f.fee
      /\ row \in [pair : Pairs, side : Sides, size : Nat, price : Nat, fee : Nat, step : Nat, pnl : Int]
  BY DEF Row, Trade
<1> HIDE DEF row
<1>2. Amount(row) = Amount(f) /\ Direction(row) = Direction(f)
  BY <1>1 DEF Amount, Direction
<1>3. row \in FillRow
  BY <1>1, <1>2 DEF FillRow
<1> QED BY <1>1, <1>2, <1>3 DEF CashFlow, row

\* A booked fill adds its row.
LEMMA RowsKept ==
  ASSUME NEW rows \in Seq(FillRow), NEW l \in Account, NEW now \in Nat, AddUp(rows, l, now),
         NEW f, Trade(f), f.fee <= Amount(f), now # 0, NEW pnl \in Int
  PROVE  LET more == Append(rows, Row(f, now, pnl))
         IN  more \in Seq(FillRow) /\ AddUp(more, ApplyFill(l, f), now)
<1> DEFINE row == Row(f, now, pnl)
           more == Append(rows, row)
           new == ApplyFill(l, f)
<1>1. /\ row \in FillRow /\ row.step = now /\ row.pair = f.pair /\ row.size = f.size
      /\ CashFlow(row) = -Direction(f) * Amount(f) - f.fee
      /\ Direction(row) = Direction(f)
  BY RowIs
<1>2. /\ new.cash = l.cash - Direction(f) * Amount(f) - f.fee
      /\ new.pos[f.pair].size = l.pos[f.pair].size + Direction(f) * f.size
      /\ \A q \in Pairs : q # f.pair => new.pos[q] = l.pos[q]
      /\ Amount(f) \in Nat
  BY FillApplied
<1>3. f.fee \in Nat /\ f.size \in Nat /\ Direction(f) \in {1, -1} /\ f.pair \in Pairs
  BY DEF Trade, Direction
<1> HIDE DEF row, new
<1>4. more \in Seq(FillRow)
  BY <1>1
<1>5. \A i \in DOMAIN more : more[i].step \in 1 .. now
  <2>1. \A i \in DOMAIN more : (i \in DOMAIN rows /\ more[i] = rows[i]) \/ more[i] = row
    BY <1>1
  <2>2. \A i \in DOMAIN rows : rows[i].step \in 1 .. now
    BY DEF AddUp
  <2> HIDE DEF more
  <2> QED BY <1>1, <2>1, <2>2
<1> HIDE DEF more
<1>6. instrument = "spot" => new.cash = StartingCash + SumFunction(CashFlows(more))
  <2> SUFFICES ASSUME instrument = "spot"
               PROVE  new.cash = StartingCash + SumFunction(CashFlows(more))
    OBVIOUS
  <2>1. SumFunction(CashFlows(more)) = SumFunction(CashFlows(rows)) + CashFlow(row)
    BY <1>1, <1>3, FlowsGrow DEF more
  <2>2. l.cash = StartingCash + SumFunction(CashFlows(rows))
    BY DEF AddUp
  <2>3. SumFunction(CashFlows(rows)) \in Int /\ StartingCash \in Int
    BY <1>3, FlowsAre, EngineAssumption
  <2>4. CashFlow(row) = -Direction(f) * Amount(f) - f.fee
    BY <1>1
  <2>5. new.cash = l.cash - Direction(f) * Amount(f) - f.fee /\ Amount(f) \in Nat
    BY <1>2
  <2> QED BY <1>3, <2>1, <2>2, <2>3, <2>4, <2>5
<1>7. instrument = "spot" => \A p \in Pairs : new.pos[p].size = SumFunction(UnitFlows(more, p))
  <2> SUFFICES ASSUME instrument = "spot", NEW p \in Pairs
               PROVE  new.pos[p].size = SumFunction(UnitFlows(more, p))
    OBVIOUS
  <2>1. SumFunction(UnitFlows(more, p)) = SumFunction(UnitFlows(rows, p)) + UnitFlow(row, p)
    BY <1>1, FlowsGrow DEF more
  <2>2. l.pos[p].size = SumFunction(UnitFlows(rows, p))
    BY DEF AddUp
  <2>3. SumFunction(UnitFlows(rows, p)) \in Int
    BY FlowsAre
  <2>4. UnitFlow(row, p) = IF f.pair = p THEN Direction(f) * f.size ELSE 0
    BY <1>1 DEF UnitFlow
  <2>5. new.pos[p].size = IF f.pair = p THEN l.pos[p].size + Direction(f) * f.size ELSE l.pos[p].size
    BY <1>2
  <2> QED BY <1>3, <2>1, <2>2, <2>3, <2>4, <2>5
<1> QED BY <1>4, <1>5, <1>6, <1>7 DEF AddUp, more, new, row

\* Telling the risk manager of a trade changes the streak and the cooldown.
LEMMA Notified ==
  ASSUME NEW r \in RiskState, NEW pnl \in Int
  PROVE  LET new == NotifyTrade(r, pnl)
         IN  /\ new \in RiskState
             /\ new.halted = r.halted /\ new.day = r.day /\ new.dayFloor = r.dayFloor
             /\ new.floor = r.floor
             /\ pnl = 0 => new = r
             /\ pnl > 0 => new.losses = 0 /\ new.cooldown = r.cooldown
             /\ pnl < 0 /\ r.losses + 1 < MaxLosses =>
                  new.losses = r.losses + 1 /\ new.cooldown = r.cooldown
             /\ pnl < 0 /\ r.losses + 1 >= MaxLosses =>
                  r.losses + 1 = MaxLosses /\ new.losses = 0 /\ new.cooldown = CooldownCandles
<1>1. MaxLosses \in Nat \ {0} /\ CooldownCandles \in Nat /\ r.losses \in 0 .. MaxLosses - 1
  BY RiskAssumption DEF RiskState
<1>2. CASE pnl = 0
  BY <1>2 DEF NotifyTrade
<1>3. CASE pnl > 0
  <2>1. NotifyTrade(r, pnl) = [r EXCEPT !.losses = 0]
    BY <1>3 DEF NotifyTrade
  <2> QED BY <1>1, <1>3, <2>1 DEF RiskState
<1>4. CASE pnl < 0 /\ r.losses + 1 < MaxLosses
  <2>1. NotifyTrade(r, pnl) = [r EXCEPT !.losses = r.losses + 1]
    BY <1>4 DEF NotifyTrade
  <2> QED BY <1>1, <1>4, <2>1 DEF RiskState
<1>5. CASE pnl < 0 /\ r.losses + 1 >= MaxLosses
  <2>1. NotifyTrade(r, pnl) = [r EXCEPT !.losses = 0, !.cooldown = CooldownCandles]
    BY <1>1, <1>5 DEF NotifyTrade
  <2> DEFINE new == NotifyTrade(r, pnl)
  <2>2. r = [r EXCEPT !.losses = r.losses] /\ 0 \in 0 .. MaxLosses - 1
        /\ CooldownCandles \in 0 .. CooldownCandles
    BY <1>1 DEF RiskState
  <2>3. new = [r EXCEPT !.losses = 0, !.cooldown = CooldownCandles]
    BY <2>1
  <2> HIDE DEF new
  <2>4. /\ new \in RiskState /\ new.losses = 0 /\ new.cooldown = CooldownCandles
        /\ new.halted = r.halted /\ new.day = r.day /\ new.dayFloor = r.dayFloor
        /\ new.floor = r.floor
    BY <2>2, <2>3 DEF RiskState
  <2> QED BY <1>1, <1>5, <2>4 DEF new
<1> QED BY <1>1, <1>2, <1>3, <1>4, <1>5

\* The exits with a row more.
LEMMA ExitsGrow ==
  ASSUME NEW rows \in Seq(FillRow), NEW row \in FillRow
  PROVE  LET more == Append(rows, row)
             n    == Len(rows)
         IN  /\ n \in Nat /\ Len(more) = n + 1 /\ more[n + 1] = row
             /\ Exits(rows) \in SUBSET (1 .. n) /\ Exits(more) \in SUBSET (1 .. n + 1)
             /\ \A i \in 1 .. n : more[i] = rows[i] /\ (i \in Exits(more) <=> i \in Exits(rows))
             /\ n + 1 \in Exits(more) <=> row.pnl # 0
             /\ \A i \in 1 .. n + 1 : more[i].pnl \in Int
<1> DEFINE more == Append(rows, row)
           n == Len(rows)
<1>1. /\ Len(more) = n + 1 /\ n \in Nat /\ DOMAIN more = 1 .. n + 1
      /\ more[n + 1] = row /\ \A i \in 1 .. n : more[i] = rows[i]
      /\ DOMAIN rows = 1 .. n /\ more \in Seq(FillRow)
  OBVIOUS
<1> HIDE DEF more, n
<1>2. \A i \in 1 .. n : i \in 1 .. n + 1
  BY <1>1
<1>3. n + 1 \in 1 .. n + 1
  BY <1>1
<1>4. \A i \in 1 .. n + 1 : more[i].pnl \in Int
  BY <1>1 DEF FillRow
<1> QED BY <1>1, <1>2, <1>3, <1>4 DEF Exits, more, n

\* Of the earlier rows a row more changes nothing.
LEMMA RunsStay ==
  ASSUME NEW rows \in Seq(FillRow), NEW row \in FillRow, NEW i \in 0 .. Len(rows), NEW j \in 0 .. i
  PROVE  LET more == Append(rows, row)
         IN  /\ LosingRun(more, j, i) <=> LosingRun(rows, j, i)
             /\ {k \in Exits(more) : j < k /\ k <= i} = {k \in Exits(rows) : j < k /\ k <= i}
             /\ StreakEndsAt(more, i) <=> StreakEndsAt(rows, i)
<1> DEFINE more == Append(rows, row)
           n == Len(rows)
<1>1. /\ n \in Nat /\ Exits(rows) \in SUBSET (1 .. n) /\ Exits(more) \in SUBSET (1 .. n + 1)
      /\ \A k \in 1 .. n : more[k] = rows[k] /\ (k \in Exits(more) <=> k \in Exits(rows))
  BY ExitsGrow
<1>2. i \in 0 .. n
  OBVIOUS
<1> HIDE DEF more, n
<1>3. \A k \in Exits(more) : k <= i => k \in Exits(rows) /\ more[k] = rows[k]
  <2> SUFFICES ASSUME NEW k \in Exits(more), k <= i PROVE k \in Exits(rows) /\ more[k] = rows[k]
    OBVIOUS
  <2>1. k \in 1 .. n
    BY <1>1, <1>2
  <2> QED BY <1>1, <2>1
<1>4. \A k \in Exits(rows) : k \in Exits(more) /\ more[k] = rows[k]
  BY <1>1
<1>5. ASSUME NEW q \in 0 .. i
      PROVE  /\ LosingRun(more, q, i) <=> LosingRun(rows, q, i)
             /\ {k \in Exits(more) : q < k /\ k <= i} = {k \in Exits(rows) : q < k /\ k <= i}
  <2>1. {k \in Exits(more) : q < k /\ k <= i} = {k \in Exits(rows) : q < k /\ k <= i}
    BY <1>3, <1>4
  <2>2. q \in Exits(more) <=> q \in Exits(rows)
    BY <1>2, <1>3, <1>4
  <2>3. q \in Exits(rows) => more[q] = rows[q]
    BY <1>4
  <2>4. (\A k \in Exits(more) : q < k /\ k <= i => more[k].pnl < 0)
          <=> (\A k \in Exits(rows) : q < k /\ k <= i => rows[k].pnl < 0)
    BY <1>3, <1>4
  <2> QED BY <2>1, <2>2, <2>3, <2>4 DEF LosingRun
<1>6. \A q \in 0 .. i - 1 : q \in 0 .. i
  BY <1>2
<1>7. StreakEndsAt(more, i) <=> StreakEndsAt(rows, i)
  <2>1. \A q \in 0 .. i - 1 : FullStreak(more, q, i) <=> FullStreak(rows, q, i)
    BY <1>5, <1>6 DEF FullStreak
  <2> QED BY <2>1 DEF StreakEndsAt
<1> QED BY <1>5, <1>7 DEF more

\* From one multiple to the next.
LEMMA NextMultiple ==
  ASSUME NEW a \in Int, NEW b \in Int, NEW m \in Int, b + 1 = m
  PROVE  a + b + 1 = a + m /\ a + m \in Int
OBVIOUS

\* The losing streak is counted on through a row more, if the risk manager is
\* told of every row with a profit or a loss.
LEMMA CountedKept ==
  ASSUME NEW rows \in Seq(FillRow), NEW r \in RiskState, NEW now \in Nat, Counted(rows, r, now),
         NEW row \in FillRow, row.step <= now + 1
  PROVE  Counted(Append(rows, row), NotifyTrade(r, row.pnl), now)
<1> DEFINE more == Append(rows, row)
           n == Len(rows)
           new == NotifyTrade(r, row.pnl)
           After(q) == {k \in Exits(rows) : q < k}
<1>1. /\ n \in Nat /\ Len(more) = n + 1 /\ more[n + 1] = row
      /\ Exits(rows) \in SUBSET (1 .. n) /\ Exits(more) \in SUBSET (1 .. n + 1)
      /\ \A i \in 1 .. n : more[i] = rows[i] /\ (i \in Exits(more) <=> i \in Exits(rows))
      /\ n + 1 \in Exits(more) <=> row.pnl # 0
  BY ExitsGrow
<1>2. PICK j \in 0 .. n, full \in 0 .. n :
        LosingRun(rows, j, n) /\ Cardinality(After(j)) = full * MaxLosses + r.losses
  BY DEF Counted
<1>3. \A i \in Exits(rows) : StreakEndsAt(rows, i) =>
        r.cooldown >= CooldownCandles - 1 - (now - rows[i].step)
  BY DEF Counted
<1>4. /\ MaxLosses \in Nat \ {0} /\ CooldownCandles \in Nat /\ r.losses \in 0 .. MaxLosses - 1
      /\ row.pnl \in Int /\ row.step \in Nat /\ r.cooldown \in 0 .. CooldownCandles
  BY RiskAssumption DEF RiskState, FillRow
<1>5. \A i \in 0 .. n, q \in 0 .. n : q <= i =>
        /\ LosingRun(more, q, i) <=> LosingRun(rows, q, i)
        /\ StreakEndsAt(more, i) <=> StreakEndsAt(rows, i)
  <2> SUFFICES ASSUME NEW i \in 0 .. n, NEW q \in 0 .. n, q <= i
               PROVE  /\ LosingRun(more, q, i) <=> LosingRun(rows, q, i)
                      /\ StreakEndsAt(more, i) <=> StreakEndsAt(rows, i)
    OBVIOUS
  <2>1. i \in 0 .. Len(rows) /\ q \in 0 .. i
    BY <1>1
  <2> QED BY <2>1, RunsStay
<1>6. /\ row.pnl = 0 => new = r
      /\ row.pnl > 0 => new.losses = 0 /\ new.cooldown = r.cooldown
      /\ row.pnl < 0 /\ r.losses + 1 < MaxLosses =>
           new.losses = r.losses + 1 /\ new.cooldown = r.cooldown
      /\ row.pnl < 0 /\ r.losses + 1 >= MaxLosses =>
           r.losses + 1 = MaxLosses /\ new.losses = 0 /\ new.cooldown = CooldownCandles
  BY <1>4, Notified
<1> HIDE DEF more, n, new
\* The old streaks: the cooldown never got shorter.
<1>7. \A i \in Exits(more) : i # n + 1 /\ StreakEndsAt(more, i) =>
        new.cooldown >= CooldownCandles - 1 - (now - more[i].step)
  <2> SUFFICES ASSUME NEW i \in Exits(more), i # n + 1, StreakEndsAt(more, i)
               PROVE  new.cooldown >= CooldownCandles - 1 - (now - more[i].step)
    OBVIOUS
  <2>1. i \in 1 .. n /\ i \in Exits(rows) /\ more[i] = rows[i] /\ i \in 0 .. n /\ i <= i
    BY <1>1
  <2>2. StreakEndsAt(rows, i)
    BY <1>5, <2>1
  <2>3. r.cooldown >= CooldownCandles - 1 - (now - rows[i].step)
    BY <1>3, <2>1, <2>2
  <2>4. new.cooldown \in Int /\ new.cooldown >= r.cooldown
    <3>1. r.cooldown \in Int /\ CooldownCandles \in Int /\ r.cooldown <= CooldownCandles
      BY <1>4
    <3>2. row.pnl < 0 \/ row.pnl = 0 \/ row.pnl > 0
      BY <1>4
    <3>3. r.losses + 1 < MaxLosses \/ r.losses + 1 >= MaxLosses
      BY <1>4
    <3>4. new.cooldown \in {r.cooldown, CooldownCandles}
      BY <1>6, <3>2, <3>3
    <3> QED BY <3>1, <3>4
  <2>5. rows[i].step \in Nat
    <3>1. rows[i] \in FillRow
      BY <2>1 DEF n
    <3> QED BY <3>1 DEF FillRow
  <2>6. more[i].step = rows[i].step /\ r.cooldown \in Int /\ CooldownCandles \in Int
    BY <1>4, <2>1
  <2> QED BY <2>3, <2>4, <2>5, <2>6
<1>8. After(j) = {k \in Exits(rows) : j < k} /\ IsFiniteSet(After(j)) /\ Cardinality(After(j)) \in Nat
  <2>1. After(j) \in SUBSET (1 .. n)
    BY <1>1
  <2> QED BY <1>1, <2>1, IdsAreFinite
<1>9. CASE row.pnl = 0
  <2>1. {k \in Exits(more) : j < k} = After(j)
    BY <1>1, <1>9
  <2>2. LosingRun(more, j, n + 1)
    <3>1. LosingRun(more, j, n)
      BY <1>1, <1>2, <1>5
    <3>2. \A k \in Exits(more) : k <= n + 1 => k <= n
      BY <1>1, <1>9
    <3> QED BY <3>1, <3>2 DEF LosingRun
  <2>3. n + 1 \notin Exits(more)
    BY <1>1, <1>9
  <2>4. j \in 0 .. Len(more) /\ full \in 0 .. Len(more)
    BY <1>1
  <2>5. Cardinality({k \in Exits(more) : j < k}) = full * MaxLosses + new.losses
    BY <1>2, <1>6, <1>9, <2>1
  <2> HIDE DEF After
  <2> QED BY <1>1, <1>7, <2>2, <2>3, <2>4, <2>5 DEF Counted, more, new
<1>10. CASE row.pnl > 0
  <2>1. {k \in Exits(more) : n + 1 < k} = {}
    BY <1>1
  <2>2. LosingRun(more, n + 1, n + 1)
    BY <1>1, <1>4, <1>10 DEF LosingRun
  <2>3. ~StreakEndsAt(more, n + 1)
    <3>1. ASSUME NEW q \in 0 .. (n + 1) - 1, LosingRun(more, q, n + 1) PROVE FALSE
      <4>1. n + 1 \in Exits(more) /\ q < n + 1 /\ n + 1 <= n + 1
        BY <1>1, <1>4, <1>10
      <4>2. more[n + 1].pnl < 0
        BY <3>1, <4>1 DEF LosingRun
      <4> QED BY <1>1, <1>4, <1>10, <4>2
    <3> QED BY <3>1 DEF StreakEndsAt, FullStreak
  <2>4. Cardinality({k \in Exits(more) : n + 1 < k}) = 0 * MaxLosses + new.losses
    <3>1. Cardinality({k \in Exits(more) : n + 1 < k}) = 0
      BY <2>1, FS_EmptySet
    <3>2. 0 * MaxLosses = 0 /\ new.losses = 0
      BY <1>4, <1>6, <1>10
    <3> QED BY <3>1, <3>2
  <2>5. n + 1 \in 0 .. Len(more) /\ 0 \in 0 .. Len(more)
    BY <1>1
  <2> HIDE DEF After
  <2> QED BY <1>1, <1>7, <2>2, <2>3, <2>4, <2>5 DEF Counted, more, new
<1>11. CASE row.pnl < 0
  <2>1. n + 1 \in Exits(more) /\ n + 1 \notin After(j)
    BY <1>1, <1>4, <1>11
  <2>2. {k \in Exits(more) : j < k} = After(j) \cup {n + 1}
    <3>1. \A k \in Exits(more) : k = n + 1 \/ k \in Exits(rows)
      BY <1>1
    <3>2. \A k \in Exits(rows) : k \in Exits(more)
      BY <1>1
    <3>3. j < n + 1
      BY <1>1
    <3> QED BY <2>1, <3>1, <3>2, <3>3
  <2>3. Cardinality({k \in Exits(more) : j < k}) = full * MaxLosses + r.losses + 1
    <3>1. Cardinality(After(j) \cup {n + 1}) = Cardinality(After(j)) + 1
      BY <1>8, <2>1, FS_AddElement
    <3> HIDE DEF After
    <3> QED BY <1>2, <2>2, <3>1
  <2>4. LosingRun(more, j, n + 1)
    <3>1. LosingRun(more, j, n)
      BY <1>1, <1>2, <1>5
    <3>2. \A k \in Exits(more) : k <= n \/ k = n + 1
      BY <1>1
    <3>3. more[n + 1].pnl < 0
      BY <1>1, <1>11
    <3> QED BY <3>1, <3>2, <3>3 DEF LosingRun
  <2>5. \A q \in 0 .. n : LosingRun(more, q, n + 1) => q = j
    <3> SUFFICES ASSUME NEW q \in 0 .. n, LosingRun(more, q, n + 1), q # j PROVE FALSE
      OBVIOUS
    <3>1. CASE q < j
      <4>1. j # 0 /\ j <= n + 1
        BY <3>1, <1>1
      <4>2. j \in Exits(more) /\ more[j].pnl > 0
        BY <2>4, <4>1 DEF LosingRun
      <4>3. more[j].pnl < 0
        BY <3>1, <4>1, <4>2 DEF LosingRun
      <4>4. more[j].pnl \in Int
        BY <4>2, <1>1, ExitsGrow DEF more
      <4> QED BY <4>2, <4>3, <4>4
    <3>2. CASE j < q
      <4>1. q # 0 /\ q <= n + 1
        BY <3>2, <1>1
      <4>2. q \in Exits(more) /\ more[q].pnl > 0
        BY <4>1 DEF LosingRun
      <4>3. more[q].pnl < 0
        BY <2>4, <3>2, <4>1, <4>2 DEF LosingRun
      <4>4. more[q].pnl \in Int
        BY <4>2, <1>1, ExitsGrow DEF more
      <4> QED BY <4>2, <4>3, <4>4
    <3>3. j \in Int /\ q \in Int
      OBVIOUS
    <3> QED BY <3>1, <3>2, <3>3
  <2>6. j \in 0 .. Len(more) /\ full \in 0 .. Len(more) /\ full + 1 \in 0 .. Len(more)
        /\ full \in Nat
    BY <1>1
  <2>7. CASE r.losses + 1 >= MaxLosses
    <3>1. r.losses + 1 = MaxLosses /\ new.losses = 0 /\ new.cooldown = CooldownCandles
      BY <1>6, <1>11, <2>7
    <3>2. Cardinality({k \in Exits(more) : j < k}) = (full + 1) * MaxLosses + new.losses
      <4> DEFINE size == Cardinality({k \in Exits(more) : j < k})
                 before == full * MaxLosses
                 after == (full + 1) * MaxLosses
      <4>1. before \in Int /\ after = before + MaxLosses
        BY <1>4, <2>6
      <4>2. size = before + r.losses + 1
        BY <2>3
      <4>3. r.losses \in Int /\ MaxLosses \in Int
        BY <1>4
      <4> HIDE DEF size, before, after, After, more, new
      <4>4. size = after /\ after \in Int
        BY <3>1, <4>1, <4>2, <4>3, NextMultiple
      <4>5. size = after + new.losses
        BY <3>1, <4>4
      <4> QED BY <4>5 DEF size, after
    <3>3. \A i \in Exits(more) : i = n + 1 =>
            new.cooldown >= CooldownCandles - 1 - (now - more[i].step)
      BY <1>1, <1>4, <3>1
    <3> HIDE DEF After
    <3> QED BY <1>1, <1>7, <2>4, <2>6, <3>2, <3>3 DEF Counted, more, new
  <2>8. CASE r.losses + 1 < MaxLosses
    <3>1. new.losses = r.losses + 1
      BY <1>6, <1>11, <2>8
    <3>2. Cardinality({k \in Exits(more) : j < k}) = full * MaxLosses + new.losses
      <4> DEFINE size == Cardinality({k \in Exits(more) : j < k})
                 before == full * MaxLosses
      <4>1. before \in Int
        BY <1>4, <2>6
      <4>2. size = before + r.losses + 1
        BY <2>3
      <4>3. r.losses \in Int
        BY <1>4
      <4> HIDE DEF size, before, After, more, new
      <4>4. size = before + new.losses
        BY <3>1, <4>1, <4>2, <4>3
      <4> QED BY <4>4 DEF size, before
    <3>3. ~StreakEndsAt(more, n + 1)
      <4> SUFFICES ASSUME StreakEndsAt(more, n + 1) PROVE FALSE
        OBVIOUS
      <4>1. PICK q \in 0 .. (n + 1) - 1 : FullStreak(more, q, n + 1)
        BY DEF StreakEndsAt, FullStreak
      <4>2. q \in 0 .. n
        BY <1>1
      <4>3. q = j
        BY <2>5, <4>1, <4>2 DEF FullStreak
      <4>4. {k \in Exits(more) : q < k /\ k <= n + 1} = {k \in Exits(more) : j < k}
        BY <1>1, <4>3
      <4>5. MaxLosses = full * MaxLosses + (r.losses + 1)
        <5>1. Cardinality({k \in Exits(more) : q < k /\ k <= n + 1}) = MaxLosses
          BY <4>1 DEF FullStreak
        <5> QED BY <1>4, <3>1, <3>2, <4>4, <5>1
      <4>6. full = 0 \/ full * MaxLosses >= MaxLosses
        BY <1>4, <2>6
      <4>7. full * MaxLosses \in Int /\ (full = 0 => full * MaxLosses = 0)
        BY <1>4, <2>6
      <4> QED BY <1>4, <2>8, <4>5, <4>6, <4>7
    <3> HIDE DEF After
    <3> QED BY <1>1, <1>7, <2>4, <2>6, <3>2, <3>3 DEF Counted, more, new
  <2> QED BY <1>4, <2>7, <2>8
<1> QED BY <1>4, <1>9, <1>10, <1>11

-----------------------------------------------------------------------------
(***************************************************************************)
(* The venue.                                                              *)
(***************************************************************************)
\* Inside a candle protections may be armed, and the position is where it
\* began plus the net of the fills so far.
OpenVenue(p) == [orders : Seq(Order(p)), protections : Seq(Order(p)), armed : Seq(Order(p)),
                 position : Int]
Units(fills) == [i \in DOMAIN fills |-> Direction(fills[i]) * fills[i].size]
Net(fills) == SumFunction(Units(fills))
Session(p, start) ==
  {s \in [venue : OpenVenue(p), fills : Seq(Fill(p))] : s.venue.position = start + Net(s.fills)}
FireSession(p, start) ==
  {s \in [venue : OpenVenue(p), fills : Seq(Fill(p)), kept : Seq(Order(p))] :
     s.venue.position = start + Net(s.fills)}

\* A fill of a venue is a trade.
LEMMA FillIs ==
  ASSUME NEW p \in Pairs, NEW f \in Fill(p)
  PROVE  /\ Trade(f) /\ f.pair = p /\ f.fee <= Amount(f) /\ f.of \in Order(p) /\ f.order \in OrderId
         /\ Direction(f) \in {1, -1} /\ f.size \in Nat
BY DEF Fill, Trade, Direction

\* The net of the fills so far, and with one fill more.
LEMMA NetGrows ==
  ASSUME NEW p \in Pairs, NEW fills \in Seq(Fill(p)), NEW f \in Fill(p)
  PROVE  /\ Net(fills) \in Int
         /\ Net(Append(fills, f)) = Net(fills) + Direction(f) * f.size
<1> DEFINE more == Append(fills, f)
           n == Len(fills)
<1>1. /\ more \in Seq(Fill(p)) /\ Len(more) = n + 1 /\ n \in Nat /\ DOMAIN more = 1 .. n + 1
      /\ more[n + 1] = f /\ \A i \in 1 .. n : more[i] = fills[i]
      /\ DOMAIN fills = 1 .. n /\ \A i \in 1 .. n : fills[i] \in Fill(p)
  OBVIOUS
<1> HIDE DEF more, n
<1>2. \A g \in Fill(p) : Direction(g) * g.size \in Int
  <2> SUFFICES ASSUME NEW g \in Fill(p) PROVE Direction(g) * g.size \in Int
    OBVIOUS
  <2>1. Direction(g) \in {1, -1} /\ g.size \in Nat
    BY FillIs
  <2> QED BY <2>1
<1>3. \A i \in 1 .. n + 1 : more[i] \in Fill(p)
  BY <1>1
<1>4. Units(fills) \in [1 .. n -> Int] /\ Units(more) \in [1 .. n + 1 -> Int]
  BY <1>1, <1>2, <1>3 DEF Units
<1>5. /\ \A i \in 1 .. n : Units(more)[i] = Units(fills)[i]
      /\ Units(more)[n + 1] = Direction(f) * f.size
  <2>1. \A i \in 1 .. n : i \in 1 .. n + 1
    BY <1>1
  <2>2. n + 1 \in 1 .. n + 1
    BY <1>1
  <2> QED BY <1>1, <2>1, <2>2 DEF Units
<1> QED BY <1>1, <1>4, <1>5, SumAppended DEF Net, more

\* Nothing filled is nothing held.
LEMMA NetOfNone == Net(<<>>) = 0
<1>1. IsFiniteSet({}) /\ DOMAIN Units(<<>>) = {}
  BY FS_EmptySet DEF Units
<1> QED BY <1>1, SumOfZeros DEF Net, SumFunction

\* Slippage is a share of the price.
LEMMA SlippedIs ==
  ASSUME NEW price \in Nat, NEW side \in Sides
  PROVE  Slipped(price, side) \in Nat
<1>1. (price * Slippage) \div 10 \in 0 .. price
  BY Share, VenueAssumption
<1> QED BY <1>1 DEF Slipped

\* What a fill is made of.
LEMMA FillMade ==
  ASSUME NEW p \in Pairs, NEW side \in Sides, NEW id \in OrderId, NEW size \in Nat,
         NEW price \in Nat, NEW rate \in 0 .. 10, NEW exit \in BOOLEAN, NEW of \in Order(p)
  PROVE  [pair |-> p, side |-> side, size |-> size, price |-> price,
          fee |-> (price * size * rate) \div 10, order |-> id, exit |-> exit, of |-> of] \in Fill(p)
<1> DEFINE fee == (price * size * rate) \div 10
           f == [pair |-> p, side |-> side, size |-> size, price |-> price, fee |-> fee,
                 order |-> id, exit |-> exit, of |-> of]
<1>1. fee \in Nat /\ fee <= price * size
  <2>1. price * size \in Nat
    BY Product
  <2>2. fee \in 0 .. price * size
    BY <2>1, Share
  <2> HIDE DEF fee
  <2> QED BY <2>1, <2>2
<1> HIDE DEF fee
<1>2. f \in [pair : {p}, side : Sides, size : Nat, price : Nat, fee : Nat, order : OrderId,
             exit : BOOLEAN, of : Order(p)]
  BY <1>1
<1>3. f.fee <= Amount(f)
  BY <1>1 DEF Amount
<1>4. f \in Fill(p)
  BY <1>2, <1>3 DEF Fill
<1> QED BY <1>4 DEF fee

\* An order's own fill, and the exit of an order.
LEMMA OwnFill ==
  ASSUME NEW p \in Pairs, NEW order \in Order(p), NEW size \in Nat, NEW price \in Nat,
         NEW rate \in 0 .. 10
  PROVE  /\ MakeFill(order, size, price, rate) \in Fill(p)
         /\ \A exit : exit.pair = p /\ exit.side \in Sides /\ exit.id \in OrderId =>
              [MakeFill(exit, size, price, rate) EXCEPT !.exit = TRUE, !.of = order] \in Fill(p)
<1> DEFINE fee == (price * size * rate) \div 10
<1>1. order.pair = p /\ order.side \in Sides /\ order.id \in OrderId
  BY DEF Order, OrderId
<1>2. MakeFill(order, size, price, rate) \in Fill(p)
  BY <1>1, FillMade DEF MakeFill
<1>3. ASSUME NEW exit, exit.pair = p, exit.side \in Sides, exit.id \in OrderId
      PROVE  [MakeFill(exit, size, price, rate) EXCEPT !.exit = TRUE, !.of = order] \in Fill(p)
  <2> DEFINE r == MakeFill(exit, size, price, rate)
             f == [r EXCEPT !.exit = TRUE, !.of = order]
  <2>1. r = [pair |-> p, side |-> exit.side, size |-> size, price |-> price, fee |-> fee,
             order |-> exit.id, exit |-> FALSE, of |-> exit]
    BY <1>3 DEF MakeFill
  <2>2. fee \in Nat /\ fee <= price * size
    <3>1. price * size \in Nat
      BY Product
    <3>2. fee \in 0 .. price * size
      BY <3>1, Share
    <3> HIDE DEF fee
    <3> QED BY <3>1, <3>2
  <2> HIDE DEF fee, r
  <2>3. /\ r \in [pair : {p}, side : Sides, size : Nat, price : Nat, fee : Nat, order : OrderId,
                  exit : BOOLEAN, of : {exit}]
        /\ r.fee = fee /\ r.price = price /\ r.size = size
    BY <1>3, <2>1, <2>2
  <2>4. /\ f \in [pair : {p}, side : Sides, size : Nat, price : Nat, fee : Nat, order : OrderId,
                  exit : BOOLEAN, of : Order(p)]
        /\ f.fee = fee /\ f.price = price /\ f.size = size
    BY <2>3
  <2> HIDE DEF f
  <2>5. f \in Fill(p)
    BY <2>2, <2>4 DEF Fill, Amount
  <2> QED BY <2>5 DEF f, r
<1> QED BY <1>2, <1>3

\* Tracking a fill moves the position by it.
LEMMA Tracked ==
  ASSUME NEW p \in Pairs, NEW v \in OpenVenue(p), NEW f, Direction(f) * f.size \in Int
  PROVE  /\ Track(v, f) \in OpenVenue(p) /\ Track(v, f).orders = v.orders
         /\ Track(v, f).position = v.position + Direction(f) * f.size
<1> DEFINE position == v.position + Direction(f) * f.size
<1>1. position \in Int /\ <<>> \in Seq(Order(p))
  BY DEF OpenVenue
<1>2. Track(v, f) = IF position <= 0
                    THEN [v EXCEPT !.position = position, !.protections = <<>>, !.armed = <<>>]
                    ELSE [v EXCEPT !.position = position]
  BY DEF Track
<1> HIDE DEF position
<1>3. Track(v, f) \in OpenVenue(p) /\ Track(v, f).orders = v.orders /\ Track(v, f).position = position
  <2>1. CASE position <= 0
    BY <1>1, <1>2, <2>1 DEF OpenVenue
  <2>2. CASE ~(position <= 0)
    BY <1>1, <1>2, <2>2 DEF OpenVenue
  <2> QED BY <2>1, <2>2
<1> QED BY <1>3 DEF position

\* A fill moves the venue's position and the net of the fills alike.
LEMMA FilledKeeps ==
  ASSUME NEW p \in Pairs, NEW start \in Int, NEW s \in Session(p, start), NEW f \in Fill(p)
  PROVE  Filled(s, f) \in Session(p, start)
<1> DEFINE v == Track(s.venue, f)
           w == Arm(v, f.of)
           fills == Append(s.fills, f)
<1>1. /\ s.venue \in OpenVenue(p) /\ s.fills \in Seq(Fill(p))
      /\ s.venue.position = start + Net(s.fills)
  BY DEF Session
<1>2. Direction(f) * f.size \in Int /\ f.of \in Order(p)
  <2>1. Direction(f) \in {1, -1} /\ f.size \in Nat /\ f.of \in Order(p)
    BY FillIs
  <2> QED BY <2>1
<1>3. v \in OpenVenue(p) /\ v.position = s.venue.position + Direction(f) * f.size
  BY <1>1, <1>2, Tracked
<1> HIDE DEF v
<1>4. w \in OpenVenue(p) /\ w.position = v.position
  <2>1. w = v \/ w = [v EXCEPT !.armed = Append(v.armed, f.of)]
    BY DEF Arm
  <2>2. Append(v.armed, f.of) \in Seq(Order(p))
    BY <1>2, <1>3 DEF OpenVenue
  <2> HIDE DEF w
  <2> QED BY <1>3, <2>1, <2>2 DEF OpenVenue
<1>5. fills \in Seq(Fill(p))
  BY <1>1
<1>6. Net(fills) = Net(s.fills) + Direction(f) * f.size /\ Net(s.fills) \in Int
  BY <1>1, NetGrows
<1> HIDE DEF w, fills
<1>7. w.position = start + Net(fills)
  BY <1>1, <1>2, <1>3, <1>4, <1>6
<1>8. Filled(s, f) = [venue |-> w, fills |-> fills]
  BY DEF Filled, w, v, fills
<1> QED BY <1>4, <1>5, <1>7, <1>8 DEF Session

\* The market orders of a candle.
LEMMA MarketsFilled ==
  ASSUME NEW p \in Pairs, NEW start \in Int, NEW s \in Session(p, start), NEW candle \in Bars
  PROVE  FillMarkets(s, candle) \in Session(p, start)
<1> DEFINE orders == s.venue.orders
           J == [k \in 0 .. Len(orders) |-> Session(p, start)]
<1>1. orders \in Seq(Order(p)) /\ Len(orders) \in Nat
  BY DEF Session, OpenVenue
<1>2. ASSUME NEW order \in Order(p), NEW t \in Session(p, start)
      PROVE  TryMarket(t, order, candle) \in Session(p, start)
  <2>1. order.side \in Sides /\ order.size \in Nat /\ candle.open \in Nat
    BY DEF Order, Bars
  <2>2. MarketFill(order, candle) \in Fill(p)
    BY <2>1, SlippedIs, OwnFill, VenueAssumption DEF MarketFill
  <2> QED BY <2>2, FilledKeeps DEF TryMarket
<1>3. \A k \in 1 .. Len(orders) :
        k - 1 \in 0 .. Len(orders) /\ k \in 0 .. Len(orders) /\ orders[k] \in Order(p)
  <2> HIDE DEF orders
  <2> QED BY <1>1
<1>4. \A k \in 1 .. Len(orders) : \A t \in J[k - 1] : TryMarket(t, orders[k], candle) \in J[k]
  BY <1>2, <1>3
<1>5. s \in J[0] /\ J[Len(orders)] = Session(p, start)
  BY <1>1
<1> HIDE DEF J
<1> QED BY <1>1, <1>4, <1>5, MarketsKeep

\* The limit orders of a candle.
LEMMA LimitsFilled ==
  ASSUME NEW p \in Pairs, NEW start \in Int, NEW s \in Session(p, start), NEW candle \in Bars, NEW now
  PROVE  FillLimits(s, candle, now) \in Session(p, start)
<1> DEFINE orders == s.venue.orders
           J == [k \in 0 .. Len(orders) |-> Session(p, start)]
<1>1. orders \in Seq(Order(p)) /\ Len(orders) \in Nat
  BY DEF Session, OpenVenue
<1>2. ASSUME NEW order \in Order(p), NEW t \in Session(p, start)
      PROVE  TryLimit(t, order, candle, now) \in Session(p, start)
  <2>1. order.limit \in Nat /\ order.size \in Nat /\ candle.open \in Nat
    BY DEF Order, Bars
  <2>2. Least(order.limit, candle.open) \in Nat /\ Max({order.limit, candle.open}) \in Nat
    <3>1. order.limit \in Int /\ candle.open \in Int
      BY <2>1
    <3>2. Max({order.limit, candle.open}) \in {order.limit, candle.open}
      BY <3>1, MaxOfTwo, Zenon
    <3> QED BY <2>1, <3>2 DEF Least
  <2>3. LimitFill(order, candle) \in Fill(p)
    BY <2>1, <2>2, OwnFill, VenueAssumption DEF LimitFill
  <2> QED BY <2>3, FilledKeeps DEF TryLimit
<1>3. \A k \in 1 .. Len(orders) :
        k - 1 \in 0 .. Len(orders) /\ k \in 0 .. Len(orders) /\ orders[k] \in Order(p)
  <2> HIDE DEF orders
  <2> QED BY <1>1
<1>4. \A k \in 1 .. Len(orders) : \A t \in J[k - 1] : TryLimit(t, orders[k], candle, now) \in J[k]
  BY <1>2, <1>3
<1>5. s \in J[0] /\ J[Len(orders)] = Session(p, start)
  BY <1>1
<1> HIDE DEF J
<1> QED BY <1>1, <1>4, <1>5, LimitsKeep

\* An exit sells at most what is left.
LEMMA ExitIs ==
  ASSUME NEW p \in Pairs, NEW v \in OpenVenue(p), v.position > 0, NEW order \in Order(p),
         NEW candle \in Bars
  PROVE  ExitFill(v, order, candle) \in Fill(p)
<1> DEFINE size == Least(order.size, v.position)
           exit == [order EXCEPT !.side = "sell", !.id = <<"exit", order.id>>]
<1>1. /\ order.size \in Nat /\ order.stop \in Nat /\ order.target \in Nat /\ order.id \in Nat \X Nat
      /\ candle.open \in Nat /\ v.position \in Nat
  BY DEF Order, Bars, OpenVenue
<1>2. size \in Nat
  BY <1>1 DEF Least
<1>3. exit.pair = p /\ exit.side = "sell" /\ exit.id = <<"exit", order.id>>
  BY DEF Order
<1>4. exit.id \in OrderId /\ "sell" \in Sides
  BY <1>1, <1>3 DEF OrderId, Sides
<1>5. Slipped(Least(order.stop, candle.open), "sell") \in Nat
  <2>1. Least(order.stop, candle.open) \in Nat
    BY <1>1 DEF Least
  <2> QED BY <1>4, <2>1, SlippedIs
<1>6. Max({order.target, candle.open}) \in Nat
  <2>1. order.target \in Int /\ candle.open \in Int
    BY <1>1
  <2>2. Max({order.target, candle.open}) \in {order.target, candle.open}
    BY <2>1, MaxOfTwo, Zenon
  <2> QED BY <1>1, <2>2
<1> HIDE DEF size, exit
<1>7. [MakeFill(exit, size, Slipped(Least(order.stop, candle.open), "sell"), TakerFee)
         EXCEPT !.exit = TRUE, !.of = order] \in Fill(p)
  BY <1>2, <1>3, <1>4, <1>5, OwnFill, VenueAssumption
<1>8. [MakeFill(exit, size, Max({order.target, candle.open}), MakerFee)
         EXCEPT !.exit = TRUE, !.of = order] \in Fill(p)
  BY <1>2, <1>3, <1>4, <1>6, OwnFill, VenueAssumption
<1> QED BY <1>7, <1>8 DEF ExitFill, size, exit

\* The protections of a candle.
LEMMA ProtectionsFired ==
  ASSUME NEW p \in Pairs, NEW start \in Int, NEW s \in Session(p, start), NEW candle \in Bars
  PROVE  FireProtections(s, candle) \in Session(p, start)
         /\ FireProtections(s, candle).venue.armed = <<>>
<1> DEFINE orders == s.venue.protections
           J == [k \in 0 .. Len(orders) |-> FireSession(p, start)]
           base == [venue |-> s.venue, fills |-> s.fills, kept |-> <<>>]
<1>1. orders \in Seq(Order(p)) /\ Len(orders) \in Nat
  BY DEF Session, OpenVenue
<1>2. ASSUME NEW order \in Order(p), NEW t \in FireSession(p, start)
      PROVE  Fire(t, order, candle) \in FireSession(p, start)
  <2>1. /\ t.venue \in OpenVenue(p) /\ t.fills \in Seq(Fill(p)) /\ t.kept \in Seq(Order(p))
        /\ t.venue.position = start + Net(t.fills) /\ t.venue.position \in Int
        /\ t = [venue |-> t.venue, fills |-> t.fills, kept |-> t.kept]
    BY DEF FireSession, OpenVenue
  <2>2. CASE t.venue.position <= 0
    BY <2>2 DEF Fire
  <2>3. CASE t.venue.position > 0 /\ ~(StopHit(order, candle) \/ TargetHit(order, candle))
    <3>1. Fire(t, order, candle) = [t EXCEPT !.kept = Append(t.kept, order)]
      BY <2>1, <2>3 DEF Fire
    <3>2. Append(t.kept, order) \in Seq(Order(p))
      BY <2>1
    <3> QED BY <2>1, <3>1, <3>2 DEF FireSession
  <2>4. CASE t.venue.position > 0 /\ (StopHit(order, candle) \/ TargetHit(order, candle))
    <3> DEFINE f == ExitFill(t.venue, order, candle)
               v == Track(t.venue, f)
               fills == Append(t.fills, f)
    <3>1. Fire(t, order, candle) = [t EXCEPT !.venue = v, !.fills = fills]
      BY <2>1, <2>4 DEF Fire
    <3>2. f \in Fill(p)
      BY <2>1, <2>4, ExitIs
    <3> HIDE DEF f
    <3>3. Direction(f) * f.size \in Int
      <4>1. Direction(f) \in {1, -1} /\ f.size \in Nat
        BY <3>2, FillIs
      <4> QED BY <4>1
    <3>4. v \in OpenVenue(p) /\ v.position = t.venue.position + Direction(f) * f.size
      BY <2>1, <3>3, Tracked
    <3>5. fills \in Seq(Fill(p)) /\ Net(fills) = Net(t.fills) + Direction(f) * f.size
          /\ Net(t.fills) \in Int
      BY <2>1, <3>2, NetGrows
    <3> HIDE DEF v, fills
    <3>6. v.position = start + Net(fills)
      BY <2>1, <3>3, <3>4, <3>5
    <3> QED BY <2>1, <3>1, <3>4, <3>5, <3>6 DEF FireSession
  <2> QED BY <2>1, <2>2, <2>3, <2>4
<1>3. \A k \in 1 .. Len(orders) :
        k - 1 \in 0 .. Len(orders) /\ k \in 0 .. Len(orders) /\ orders[k] \in Order(p)
  <2> HIDE DEF orders
  <2> QED BY <1>1
<1>4. \A k \in 1 .. Len(orders) : \A t \in J[k - 1] : Fire(t, orders[k], candle) \in J[k]
  BY <1>2, <1>3
<1>5. base \in FireSession(p, start)
  BY DEF Session, FireSession
<1>6. base \in J[0] /\ J[Len(orders)] = FireSession(p, start)
  BY <1>1, <1>5
<1>7. FireAll(s, candle) \in FireSession(p, start)
  <2> HIDE DEF J
  <2> QED BY <1>1, <1>4, <1>6, FiresKeep
<1> DEFINE t == FireAll(s, candle)
           v == [t.venue EXCEPT !.protections = t.kept \o t.venue.armed, !.armed = <<>>]
<1>8. FireProtections(s, candle) = [venue |-> v, fills |-> t.fills]
  BY DEF FireProtections
<1> HIDE DEF t
<1>9. t.venue \in OpenVenue(p) /\ t.fills \in Seq(Fill(p)) /\ t.venue.position = start + Net(t.fills)
      /\ t.kept \o t.venue.armed \in Seq(Order(p)) /\ <<>> \in Seq(Order(p))
  BY <1>7 DEF t, FireSession, OpenVenue
<1>10. v \in OpenVenue(p) /\ v.armed = <<>> /\ v.position = t.venue.position
  BY <1>9 DEF OpenVenue
<1> HIDE DEF v
<1> QED BY <1>8, <1>9, <1>10 DEF Session

\* A candle fills what it fills, and the venue holds the net of it.
LEMMA VenueCandle ==
  ASSUME NEW p \in Pairs, NEW v \in Venue(p), NEW candle \in Bars, NEW now
  PROVE  LET out == VenueOnCandle(v, candle, now)
         IN  /\ out.venue \in Venue(p) /\ out.venue.orders = <<>>
             /\ out.fills \in Seq(Fill(p))
             /\ out.venue.position = v.position + Net(out.fills)
<1> DEFINE base == [venue |-> v, fills |-> <<>>]
           a == FillMarkets(base, candle)
           b == FillLimits(a, candle, now)
           c == FireProtections(b, candle)
           w == [c.venue EXCEPT !.orders = <<>>]
<1>1. v \in OpenVenue(p) /\ v.position \in Int /\ <<>> \in Seq(Fill(p))
  <2>1. <<>> \in Seq(Order(p)) /\ <<>> \in Seq(Fill(p))
    OBVIOUS
  <2> QED BY <2>1 DEF Venue, OpenVenue
<1>2. base \in Session(p, v.position)
  BY <1>1, NetOfNone DEF Session
<1>3. a \in Session(p, v.position)
  BY <1>1, <1>2, MarketsFilled
<1> HIDE DEF a
<1>4. b \in Session(p, v.position)
  BY <1>1, <1>3, LimitsFilled
<1> HIDE DEF b
<1>5. c \in Session(p, v.position) /\ c.venue.armed = <<>>
  BY <1>1, <1>4, ProtectionsFired
<1>6. VenueOnCandle(v, candle, now) = [c EXCEPT !.venue = w]
  BY DEF VenueOnCandle, a, b
<1> HIDE DEF c
<1>7. c.venue \in OpenVenue(p) /\ c.fills \in Seq(Fill(p)) /\ c.venue.position = v.position + Net(c.fills)
      /\ c = [venue |-> c.venue, fills |-> c.fills] /\ <<>> \in Seq(Order(p))
  BY <1>5 DEF Session
<1>8. w \in Venue(p) /\ w.orders = <<>> /\ w.position = c.venue.position
  BY <1>5, <1>7 DEF OpenVenue, Venue
<1> HIDE DEF w
<1>9. VenueOnCandle(v, candle, now).venue = w /\ VenueOnCandle(v, candle, now).fills = c.fills
  BY <1>6, <1>7
<1> QED BY <1>7, <1>8, <1>9

-----------------------------------------------------------------------------
(***************************************************************************)
(* The books.                                                              *)
(***************************************************************************)
VenueMaps == {v \in [Pairs -> UNION {Venue(p) : p \in Pairs}] : \A p \in Pairs : v[p] \in Venue(p)}

\* No order is of a step to come; the books do not touch the daily rail.
NoneNewer(v) == \A p \in Pairs : \A i \in DOMAIN v[p].orders : v[p].orders[i].step <= step
SameRail(r) ==
  r.halted = risk.halted /\ r.day = risk.day /\ r.dayFloor = risk.dayFloor /\ r.floor = risk.floor

\* The books inside a step.
InOrder ==
  {s \in [ledger : Account, risk : RiskState, venues : VenueMaps, recorded : Seq(FillRow)] :
     /\ Sound(s.ledger) /\ AddUp(s.recorded, s.ledger, step + 1)
     /\ instrument = "spot" => Counted(s.recorded, s.risk, step)
     /\ SameRail(s.risk) /\ NoneNewer(s.venues)}
Drift(s, p) == s.venues[p].position - s.ledger.pos[p].size

\* One venue of them all is another.
LEMMA VenueReplaced ==
  ASSUME NEW v \in VenueMaps, NEW p \in Pairs, NEW w \in Venue(p)
  PROVE  LET new == [v EXCEPT ![p] = w]
         IN  new \in VenueMaps /\ new[p] = w /\ \A q \in Pairs : q # p => new[q] = v[q]
<1> DEFINE new == [v EXCEPT ![p] = w]
           All == UNION {Venue(q) : q \in Pairs}
<1>1. v \in [Pairs -> All] /\ w \in All /\ \A q \in Pairs : v[q] \in Venue(q)
  BY DEF VenueMaps
<1> HIDE DEF All
<1>2. new \in [Pairs -> All] /\ new[p] = w /\ \A q \in Pairs : q # p => new[q] = v[q]
  BY <1>1
<1> HIDE DEF new
<1>3. \A q \in Pairs : new[q] \in Venue(q)
  BY <1>1, <1>2
<1>4. new \in VenueMaps
  BY <1>2, <1>3 DEF VenueMaps, All
<1> QED BY <1>2, <1>4 DEF new

\* What is left of the protections are protections.
LEMMA WithoutIs ==
  ASSUME NEW p \in Pairs, NEW orders \in Seq(Order(p)), NEW id
  PROVE  Without(orders, id) \in Seq(Order(p))
<1> DEFINE J == [k \in 0 .. Len(orders) |-> Seq(Order(p))]
<1>1. Len(orders) \in Nat /\ <<>> \in Seq(Order(p))
  OBVIOUS
<1>2. \A k \in 1 .. Len(orders) :
        k - 1 \in 0 .. Len(orders) /\ k \in 0 .. Len(orders) /\ orders[k] \in Order(p)
  OBVIOUS
<1>3. ASSUME NEW order \in Order(p), NEW kept \in Seq(Order(p))
      PROVE  WithoutOp(id, order, kept) \in Seq(Order(p))
  BY DEF WithoutOp
<1>4. \A k \in 1 .. Len(orders) : \A x \in J[k - 1] : WithoutOp(id, orders[k], x) \in J[k]
  BY <1>2, <1>3
<1>5. <<>> \in J[0] /\ J[Len(orders)] = Seq(Order(p))
  BY <1>1
<1> HIDE DEF J
<1> QED BY <1>4, <1>5, WithoutsKeep

\* A voided fill moves the position back.
LEMMA VoidedIs ==
  ASSUME NEW p \in Pairs, NEW v \in Venue(p), NEW f \in Fill(p)
  PROVE  /\ Voided(v, f) \in Venue(p) /\ Voided(v, f).orders = v.orders
         /\ Voided(v, f).position = v.position - Direction(f) * f.size
<1> DEFINE position == v.position - Direction(f) * f.size
           kept == IF f.exit THEN Append(v.protections, f.of) ELSE Without(v.protections, f.order)
<1>1. v.protections \in Seq(Order(p)) /\ v.position \in Int /\ f.of \in Order(p)
      /\ Direction(f) \in {1, -1} /\ f.size \in Nat
  BY FillIs DEF Venue
<1>2. kept \in Seq(Order(p)) /\ position \in Int
  <2>1. Append(v.protections, f.of) \in Seq(Order(p))
    BY <1>1
  <2>2. position \in Int
    BY <1>1
  <2> QED BY <1>1, <2>1, <2>2, WithoutIs
<1>3. Voided(v, f) = [v EXCEPT !.position = position, !.protections = kept]
  BY DEF Voided
<1> HIDE DEF position, kept
<1>4. /\ Voided(v, f) \in Venue(p) /\ Voided(v, f).orders = v.orders
      /\ Voided(v, f).position = position
  BY <1>2, <1>3 DEF Venue
<1> QED BY <1>4 DEF position

\* A fill is booked or voided: either way the books stay in order, and what
\* the venue and the ledger differ by moves by the fill.
LEMMA Booked ==
  ASSUME step \in Nat, NEW p \in Pairs, NEW s \in InOrder, NEW f \in Fill(p)
  PROVE  LET t == BookFill(s, f)
         IN  /\ t \in InOrder
             /\ Drift(t, p) = Drift(s, p) - Direction(f) * f.size
             /\ \A q \in Pairs : q # p => Drift(t, q) = Drift(s, q)
<1>1. /\ s.ledger \in Account /\ s.risk \in RiskState /\ s.venues \in VenueMaps
      /\ s.recorded \in Seq(FillRow)
      /\ s = [ledger |-> s.ledger, risk |-> s.risk, venues |-> s.venues, recorded |-> s.recorded]
  BY DEF InOrder
<1>2. /\ Sound(s.ledger) /\ AddUp(s.recorded, s.ledger, step + 1)
      /\ instrument = "spot" => Counted(s.recorded, s.risk, step)
      /\ SameRail(s.risk) /\ NoneNewer(s.venues)
  BY DEF InOrder
<1>3. /\ Trade(f) /\ f.pair = p /\ f.fee <= Amount(f) /\ f.side \in Sides
      /\ Direction(f) \in {1, -1} /\ f.size \in Nat
  BY FillIs DEF Trade
<1>4. /\ \A q \in Pairs : s.venues[q] \in Venue(q) /\ s.venues[q].position \in Int
      /\ \A q \in Pairs : s.ledger.pos[q].size \in Int
  BY <1>1 DEF VenueMaps, Venue, Account, Position
<1>5. CASE ~Accepts(s.ledger, f, instrument)
  <2> DEFINE w == Voided(s.venues[p], f)
             v == [s.venues EXCEPT ![p] = w]
             t == BookFill(s, f)
  <2>1. t = [s EXCEPT !.venues = v]
    BY <1>3, <1>5 DEF BookFill
  <2>2. /\ w \in Venue(p) /\ w.orders = s.venues[p].orders
        /\ w.position = s.venues[p].position - Direction(f) * f.size
    BY <1>4, VoidedIs
  <2> HIDE DEF w
  <2>3. v \in VenueMaps /\ v[p] = w /\ \A q \in Pairs : q # p => v[q] = s.venues[q]
    BY <1>1, <2>2, VenueReplaced
  <2> HIDE DEF v, t
  <2>4. /\ t \in [ledger : Account, risk : RiskState, venues : VenueMaps, recorded : Seq(FillRow)]
        /\ t.ledger = s.ledger /\ t.risk = s.risk /\ t.recorded = s.recorded /\ t.venues = v
    BY <1>1, <2>1, <2>3
  <2>5. NoneNewer(v)
    BY <1>2, <2>2, <2>3 DEF NoneNewer
  <2>6. t \in InOrder
    BY <1>2, <2>4, <2>5 DEF InOrder
  <2>7. Drift(t, p) = Drift(s, p) - Direction(f) * f.size
    <3>1. Drift(t, p) = w.position - s.ledger.pos[p].size
      BY <2>3, <2>4 DEF Drift
    <3>2. Direction(f) * f.size \in Int /\ s.venues[p].position \in Int /\ s.ledger.pos[p].size \in Int
      BY <1>3, <1>4
    <3> QED BY <2>2, <3>1, <3>2 DEF Drift
  <2>8. \A q \in Pairs : q # p => Drift(t, q) = Drift(s, q)
    BY <2>3, <2>4 DEF Drift
  <2> QED BY <2>6, <2>7, <2>8 DEF t
<1>6. CASE Accepts(s.ledger, f, instrument)
  <2> DEFINE l == ApplyFill(s.ledger, f)
             pnl == Realized(s.ledger, f)
             told == f.side = "sell" \/ (instrument = "perp" /\ pnl # 0)
             r == IF told THEN NotifyTrade(s.risk, pnl) ELSE s.risk
             row == Row(f, step + 1, pnl)
             rows == Append(s.recorded, row)
             t == BookFill(s, f)
  <2>1. t = [s EXCEPT !.ledger = l, !.risk = r, !.recorded = rows]
    BY <1>6 DEF BookFill
  <2>2. Sound(l) /\ l \in Account /\ pnl \in Int /\ (instrument = "spot" /\ f.side = "buy" => pnl = 0)
    BY <1>2, <1>3, <1>6, SoundKept DEF Sound
  <2>3. rows \in Seq(FillRow) /\ AddUp(rows, l, step + 1)
    <3>1. step + 1 \in Nat /\ step + 1 # 0
      OBVIOUS
    <3> HIDE DEF pnl
    <3> QED BY <1>1, <1>2, <1>3, <2>2, <3>1, RowsKept
  <2>4. row \in FillRow /\ row.step = step + 1 /\ row.pnl = pnl
    <3>1. step + 1 \in Nat
      OBVIOUS
    <3> HIDE DEF pnl
    <3> QED BY <1>3, <2>2, <3>1, RowIs
  <2>5. r \in RiskState /\ SameRail(r)
    <3> HIDE DEF pnl
    <3> QED BY <1>1, <1>2, <2>2, Notified DEF SameRail
  <2>6. instrument = "spot" => r = NotifyTrade(s.risk, row.pnl)
    <3> SUFFICES ASSUME instrument = "spot" PROVE r = NotifyTrade(s.risk, row.pnl)
      OBVIOUS
    <3>1. CASE f.side = "sell"
      BY <2>4, <3>1
    <3>2. CASE f.side = "buy"
      <4>1. row.pnl = 0 /\ ~told
        BY <2>2, <2>4, <3>2
      <4> QED BY <1>1, <4>1, Notified
    <3> QED BY <1>3, <3>1, <3>2 DEF Sides
  <2>7. instrument = "spot" => Counted(rows, r, step)
    <3>1. row.step <= step + 1
      BY <2>4
    <3> HIDE DEF r, row
    <3> QED BY <1>1, <1>2, <2>4, <2>6, <3>1, CountedKept
  <2>8. /\ l.pos[p].size = s.ledger.pos[p].size + Direction(f) * f.size
        /\ \A q \in Pairs : q # p => l.pos[q] = s.ledger.pos[q]
    BY <1>1, <1>3, FillApplied
  <2> HIDE DEF l, r, rows, t
  <2>9. /\ t \in [ledger : Account, risk : RiskState, venues : VenueMaps, recorded : Seq(FillRow)]
        /\ t.ledger = l /\ t.risk = r /\ t.recorded = rows /\ t.venues = s.venues
    BY <1>1, <2>1, <2>2, <2>3, <2>5
  <2>10. t \in InOrder
    BY <1>2, <2>2, <2>3, <2>5, <2>7, <2>9 DEF InOrder
  <2>11. Drift(t, p) = Drift(s, p) - Direction(f) * f.size
    BY <1>3, <1>4, <2>8, <2>9 DEF Drift
  <2>12. \A q \in Pairs : q # p => Drift(t, q) = Drift(s, q)
    BY <2>8, <2>9 DEF Drift
  <2> QED BY <2>10, <2>11, <2>12 DEF t
<1> QED BY <1>5, <1>6

\* The net of the first k fills.
NetUpTo(fills, k) == SumFunctionOnSet(Units(fills), 1 .. k)

\* One fill more.
LEMMA NetSteps ==
  ASSUME NEW p \in Pairs, NEW fills \in Seq(Fill(p)), NEW k \in 1 .. Len(fills)
  PROVE  /\ NetUpTo(fills, 0) = 0 /\ NetUpTo(fills, Len(fills)) = Net(fills)
         /\ NetUpTo(fills, k - 1) \in Int
         /\ NetUpTo(fills, k) = NetUpTo(fills, k - 1) + Direction(fills[k]) * fills[k].size
<1> DEFINE units == Units(fills)
<1>1. Len(fills) \in Nat /\ DOMAIN fills = 1 .. Len(fills) /\ \A i \in 1 .. Len(fills) : fills[i] \in Fill(p)
  OBVIOUS
<1>2. DOMAIN units = 1 .. Len(fills)
      /\ \A i \in 1 .. Len(fills) : units[i] = Direction(fills[i]) * fills[i].size
  BY <1>1 DEF Units
<1>3. \A i \in 1 .. Len(fills) : units[i] \in Int
  <2> SUFFICES ASSUME NEW i \in 1 .. Len(fills) PROVE units[i] \in Int
    OBVIOUS
  <2>1. Direction(fills[i]) \in {1, -1} /\ fills[i].size \in Nat
    BY <1>1, FillIs
  <2> HIDE DEF units
  <2> QED BY <1>2, <2>1
<1> HIDE DEF units
<1>4. /\ k \in Nat \ {0} /\ k \notin 1 .. k - 1 /\ 1 .. k = (1 .. k - 1) \cup {k}
      /\ IsFiniteSet(1 .. k - 1) /\ \A i \in 1 .. k : i \in 1 .. Len(fills)
  <2>1. k \in Nat \ {0} /\ k - 1 \in Nat /\ k <= Len(fills)
    BY <1>1
  <2>2. IsFiniteSet(1 .. k - 1)
    BY <2>1, FS_Interval
  <2>3. \A i \in Int : i \in 1 .. k <=> i \in 1 .. k - 1 \/ i = k
    BY <2>1
  <2>4. 1 .. k = (1 .. k - 1) \cup {k}
    BY <2>1, <2>3
  <2> QED BY <1>1, <2>1, <2>2, <2>4
<1>5. SumFunctionOnSet(units, 1 .. k) = SumFunctionOnSet(units, 1 .. k - 1) + units[k]
  <2>1. \A i \in (1 .. k - 1) \cup {k} : units[i] \in Int
    BY <1>3, <1>4
  <2> QED BY <1>4, <2>1, SumJoins
<1>6. SumFunctionOnSet(units, 1 .. k - 1) \in Int
  <2>1. \A i \in 1 .. k - 1 : units[i] \in Int
    BY <1>3, <1>4
  <2> QED BY <1>4, <2>1, SumTakes
<1>7. SumFunctionOnSet(units, 1 .. 0) = 0
  <2>1. 1 .. 0 = {}
    OBVIOUS
  <2> QED BY <2>1, FS_EmptySet, SumOfZeros
<1> QED BY <1>2, <1>4, <1>5, <1>6, <1>7 DEF NetUpTo, Net, SumFunction, units

\* The fills of one venue, one after the other: at the end the venue and the
\* ledger differ by what they differed by before any was made.
LEMMA AllBooked ==
  ASSUME step \in Nat, NEW p \in Pairs, NEW s \in InOrder, NEW fills \in Seq(Fill(p))
  PROVE  LET t == BookFills(s, fills)
         IN  /\ t \in InOrder
             /\ Drift(t, p) = Drift(s, p) - Net(fills)
             /\ \A q \in Pairs : q # p => Drift(t, q) = Drift(s, q)
<1> DEFINE At(k) == {t \in InOrder : /\ Drift(t, p) = Drift(s, p) - NetUpTo(fills, k)
                                    /\ \A q \in Pairs : q # p => Drift(t, q) = Drift(s, q)}
           J == [k \in 0 .. Len(fills) |-> At(k)]
<1>1. Len(fills) \in Nat /\ \A k \in 1 .. Len(fills) :
        k - 1 \in 0 .. Len(fills) /\ k \in 0 .. Len(fills) /\ fills[k] \in Fill(p)
  OBVIOUS
<1>2. \A t \in InOrder, q \in Pairs : Drift(t, q) \in Int
  <2> SUFFICES ASSUME NEW t \in InOrder, NEW q \in Pairs PROVE Drift(t, q) \in Int
    OBVIOUS
  <2>1. t.venues[q] \in Venue(q) /\ t.ledger.pos[q] \in Position
    BY DEF InOrder, VenueMaps, Account
  <2>2. t.venues[q].position \in Int /\ t.ledger.pos[q].size \in Int
    BY <2>1 DEF Venue, Position
  <2> QED BY <2>2 DEF Drift
<1>3. NetUpTo(fills, 0) = 0 /\ NetUpTo(fills, Len(fills)) = Net(fills)
  <2>1. CASE Len(fills) = 0
    <3>1. fills = <<>> /\ 1 .. 0 = {}
      BY <2>1
    <3>2. NetUpTo(fills, 0) = 0
      BY <3>1, FS_EmptySet, SumOfZeros DEF NetUpTo
    <3> QED BY <2>1, <3>1, <3>2, NetOfNone
  <2>2. CASE Len(fills) # 0
    <3>1. 1 \in 1 .. Len(fills)
      BY <1>1, <2>2
    <3> QED BY <3>1, NetSteps
  <2> QED BY <2>1, <2>2
<1>4. ASSUME NEW k \in 1 .. Len(fills), NEW t \in At(k - 1)
      PROVE  BookFill(t, fills[k]) \in At(k)
  <2> DEFINE u == BookFill(t, fills[k])
             move == Direction(fills[k]) * fills[k].size
  <2>1. t \in InOrder /\ Drift(t, p) = Drift(s, p) - NetUpTo(fills, k - 1)
        /\ \A q \in Pairs : q # p => Drift(t, q) = Drift(s, q)
    OBVIOUS
  <2>2. u \in InOrder /\ Drift(u, p) = Drift(t, p) - move
        /\ \A q \in Pairs : q # p => Drift(u, q) = Drift(t, q)
    BY <1>1, <2>1, Booked
  <2>3. NetUpTo(fills, k) = NetUpTo(fills, k - 1) + move /\ NetUpTo(fills, k - 1) \in Int
    BY NetSteps
  <2>4. move \in Int
    <3>1. Direction(fills[k]) \in {1, -1} /\ fills[k].size \in Nat
      BY <1>1, FillIs
    <3> QED BY <3>1
  <2>5. Drift(s, p) \in Int
    BY <1>2
  <2> HIDE DEF u, move
  <2>6. Drift(u, p) = Drift(s, p) - NetUpTo(fills, k)
    BY <2>1, <2>2, <2>3, <2>4, <2>5
  <2> QED BY <2>1, <2>2, <2>6 DEF u
<1>5. s \in At(0)
  <2>1. Drift(s, p) = Drift(s, p) - NetUpTo(fills, 0)
    BY <1>2, <1>3
  <2> QED BY <2>1
<1>6. BookFills(s, fills) \in J[Len(fills)]
  <2>1. \A k \in 1 .. Len(fills) : \A t \in J[k - 1] : BookFill(t, fills[k]) \in J[k]
    <3> HIDE DEF At
    <3> QED BY <1>1, <1>4
  <2>2. s \in J[0]
    <3> HIDE DEF At
    <3> QED BY <1>1, <1>5
  <2> HIDE DEF J
  <2> QED BY <2>1, <2>2, BookingsKeep
<1>7. BookFills(s, fills) \in At(Len(fills))
  <2> HIDE DEF At
  <2> QED BY <1>1, <1>6
<1> QED BY <1>3, <1>7

\* The books of one pair: the venue's candle, then its fills.
LEMMA PairStepped ==
  ASSUME step \in Nat, NEW s \in InOrder, NEW p \in Pairs, NEW candle \in Bars
  PROVE  LET t == StepPair(s, p, candle)
         IN  t \in InOrder /\ \A q \in Pairs : Drift(t, q) = Drift(s, q)
<1> DEFINE out == VenueOnCandle(s.venues[p], candle, step + 1)
           v == [s.venues EXCEPT ![p] = out.venue]
           mid == [s EXCEPT !.venues = v]
<1>1. StepPair(s, p, candle) = BookFills(mid, out.fills)
  BY DEF StepPair
<1>2. /\ s \in [ledger : Account, risk : RiskState, venues : VenueMaps, recorded : Seq(FillRow)]
      /\ Sound(s.ledger) /\ AddUp(s.recorded, s.ledger, step + 1)
      /\ instrument = "spot" => Counted(s.recorded, s.risk, step)
      /\ SameRail(s.risk) /\ NoneNewer(s.venues) /\ s.venues \in VenueMaps
      /\ s.venues[p] \in Venue(p)
  BY DEF InOrder, VenueMaps
<1>3. /\ out.venue \in Venue(p) /\ out.venue.orders = <<>> /\ out.fills \in Seq(Fill(p))
      /\ out.venue.position = s.venues[p].position + Net(out.fills)
  BY <1>2, VenueCandle
<1> HIDE DEF out
<1>4. v \in VenueMaps /\ v[p] = out.venue /\ \A q \in Pairs : q # p => v[q] = s.venues[q]
  BY <1>2, <1>3, VenueReplaced
<1> HIDE DEF v
<1>5. /\ mid \in [ledger : Account, risk : RiskState, venues : VenueMaps, recorded : Seq(FillRow)]
      /\ mid.ledger = s.ledger /\ mid.risk = s.risk /\ mid.recorded = s.recorded /\ mid.venues = v
  BY <1>2, <1>4
<1> HIDE DEF mid
<1>6. NoneNewer(v)
  <2> SUFFICES ASSUME NEW q \in Pairs, NEW i \in DOMAIN v[q].orders
               PROVE  v[q].orders[i].step <= step
    BY DEF NoneNewer
  <2>1. q # p
    BY <1>3, <1>4
  <2> QED BY <1>2, <1>4, <2>1 DEF NoneNewer
<1>7. mid \in InOrder
  BY <1>2, <1>5, <1>6 DEF InOrder
<1>8. /\ Drift(mid, p) = Drift(s, p) + Net(out.fills)
      /\ \A q \in Pairs : q # p => Drift(mid, q) = Drift(s, q)
      /\ Drift(s, p) \in Int /\ Net(out.fills) \in Int
  <2>1. s.venues[p].position \in Int /\ s.ledger.pos[p].size \in Int
    BY <1>2 DEF Venue, Account, Position
  <2>2. Net(out.fills) \in Int
    <3>1. CASE out.fills = <<>>
      BY <3>1, NetOfNone
    <3>2. CASE out.fills # <<>>
      <4>1. 1 \in 1 .. Len(out.fills) /\ out.fills[1] \in Fill(p)
        BY <1>3, <3>2
      <4> QED BY <1>3, <4>1, NetGrows
    <3> QED BY <3>1, <3>2
  <2>3. Drift(mid, p) = s.venues[p].position + Net(out.fills) - s.ledger.pos[p].size
    <3>1. Drift(mid, p) = out.venue.position - s.ledger.pos[p].size
      BY <1>4, <1>5 DEF Drift
    <3> QED BY <1>3, <2>1, <2>2, <3>1
  <2>4. \A q \in Pairs : q # p => Drift(mid, q) = Drift(s, q)
    BY <1>4, <1>5 DEF Drift
  <2>5. Drift(s, p) = s.venues[p].position - s.ledger.pos[p].size
    BY DEF Drift
  <2> QED BY <2>1, <2>2, <2>3, <2>4, <2>5
<1> DEFINE t == BookFills(mid, out.fills)
<1>9. t \in InOrder /\ Drift(t, p) = Drift(mid, p) - Net(out.fills)
      /\ \A q \in Pairs : q # p => Drift(t, q) = Drift(mid, q)
  BY <1>3, <1>7, AllBooked
<1> HIDE DEF t
<1>10. \A q \in Pairs : Drift(t, q) = Drift(s, q)
  <2>1. Drift(t, p) = Drift(s, p)
    BY <1>8, <1>9
  <2> QED BY <1>8, <1>9, <2>1
<1> QED BY <1>1, <1>9, <1>10 DEF t

\* All pairs of a step.
LEMMA AllStepped ==
  ASSUME step \in Nat, Books \in InOrder,
         NEW on \in SUBSET Pairs, NEW candles \in [on -> Bars]
  PROVE  /\ StepBooks(candles) \in InOrder
         /\ \A q \in Pairs : Drift(StepBooks(candles), q) = Drift(Books, q)
<1> DEFINE Same == {s \in InOrder : \A q \in Pairs : Drift(s, q) = Drift(Books, q)}
           seq == Walk
           J == [k \in 0 .. Len(seq) |-> Same]
<1>1. seq \in Seq(Pairs) /\ Len(seq) \in Nat
  <2>1. Cardinality(Pairs) \in Nat /\ Pairs = 1 .. Cardinality(Pairs)
    BY PairsAssumption, FS_CardinalityType
  <2>2. \A i \in 1 .. Cardinality(Pairs) : i \in Pairs
    BY <2>1
  <2>3. seq \in Seq(Pairs)
    BY <2>1, <2>2, FunctionIsSeq DEF Walk
  <2> HIDE DEF seq
  <2> QED BY <2>3
<1>2. ASSUME NEW p \in Pairs, NEW s \in Same PROVE PairOp(candles, p, s) \in Same
  <2>1. CASE p \in DOMAIN candles
    <3>1. candles[p] \in Bars
      BY <2>1
    <3>2. s \in InOrder /\ \A q \in Pairs : Drift(s, q) = Drift(Books, q)
      OBVIOUS
    <3>3. /\ StepPair(s, p, candles[p]) \in InOrder
          /\ \A q \in Pairs : Drift(StepPair(s, p, candles[p]), q) = Drift(s, q)
      BY <3>1, <3>2, PairStepped
    <3> QED BY <2>1, <3>2, <3>3 DEF PairOp
  <2>2. CASE p \notin DOMAIN candles
    BY <2>2 DEF PairOp
  <2> QED BY <2>1, <2>2
<1> HIDE DEF seq
<1>3. \A k \in 1 .. Len(seq) :
        k - 1 \in 0 .. Len(seq) /\ k \in 0 .. Len(seq) /\ seq[k] \in Pairs
  BY <1>1
<1>4. \A k \in 1 .. Len(seq) : \A s \in J[k - 1] : PairOp(candles, seq[k], s) \in J[k]
  <2> HIDE DEF Same
  <2> QED BY <1>2, <1>3
<1>5. Books \in J[0] /\ J[Len(seq)] = Same
  BY <1>1
<1>6. StepBooks(candles) \in J[Len(seq)]
  <2> HIDE DEF J
  <2> QED BY <1>1, <1>4, <1>5, WalksKeep DEF seq
<1> QED BY <1>5, <1>6

-----------------------------------------------------------------------------
(***************************************************************************)
(* A candle.                                                               *)
(***************************************************************************)
\* A sum over the pairs.
LEMMA PairSum ==
  ASSUME NEW f, DOMAIN f = Pairs, \A p \in Pairs : f[p] \in Int
  PROVE  SumFunction(f) \in Int
BY PairsFinite, SumTakes DEF SumFunction

\* What an account is worth is a number, at the market and at the floor.
LEMMA WorthIs ==
  ASSUME NEW l \in Account, NEW prices, \A p \in Pairs : prices[p] \in Nat
  PROVE  /\ \A p \in Pairs : Exposure(l, p, prices) \in Int
         /\ Equity(l, prices) \in Int /\ FloorEquity(l, prices) \in Int
<1>1. /\ l.cash \in Int
      /\ \A p \in Pairs : l.pos[p].size \in Int /\ l.pos[p].cost \in Int /\ prices[p] \in Int
  BY DEF Account, Position
<1>2. \A p \in Pairs : Exposure(l, p, prices) \in Int
  <2> SUFFICES ASSUME NEW p \in Pairs PROVE Exposure(l, p, prices) \in Int
    OBVIOUS
  <2>1. l.pos[p].size \in Int /\ prices[p] \in Int
    BY <1>1
  <2> QED BY <2>1, Product DEF Exposure
<1>3. SumFunction([p \in Pairs |-> Exposure(l, p, prices)]) \in Int
  <2> DEFINE f == [p \in Pairs |-> Exposure(l, p, prices)]
  <2>1. DOMAIN f = Pairs /\ \A p \in Pairs : f[p] \in Int
    BY <1>2
  <2> HIDE DEF f
  <2>2. SumFunction(f) \in Int
    BY <2>1, PairSum
  <2> QED BY <2>2 DEF f
<1>4. SumFunction([p \in Pairs |-> Least(l.pos[p].cost, Exposure(l, p, prices))]) \in Int
  <2> DEFINE f == [p \in Pairs |-> Least(l.pos[p].cost, Exposure(l, p, prices))]
  <2>1. DOMAIN f = Pairs /\ \A p \in Pairs : f[p] \in Int
    BY <1>1, <1>2 DEF Least
  <2> HIDE DEF f
  <2>2. SumFunction(f) \in Int
    BY <2>1, PairSum
  <2> QED BY <2>2 DEF f
<1> QED BY <1>1, <1>2, <1>3, <1>4 DEF Equity, FloorEquity

\* Funding moves cash, and only that of a perp.
LEMMA FundingKept ==
  ASSUME NEW s \in InOrder, NEW prices, \A p \in Pairs : prices[p] \in Nat, NEW rate \in Int
  PROVE  LET t == Funding(s, prices, rate)
         IN  t \in InOrder /\ \A p \in Pairs : Drift(t, p) = Drift(s, p)
<1>1. CASE instrument # "perp"
  BY <1>1 DEF Funding
<1>2. CASE instrument = "perp"
  <2> DEFINE paid == [p \in Pairs |-> -(Exposure(s.ledger, p, prices) * rate) \div 10]
             amount == SumFunction(paid)
             l == s.ledger
             new == [l EXCEPT !.cash = l.cash + amount, !.funded = l.funded + amount]
             t == [s EXCEPT !.ledger = new]
  <2>1. /\ s \in [ledger : Account, risk : RiskState, venues : VenueMaps, recorded : Seq(FillRow)]
        /\ Sound(l) /\ AddUp(s.recorded, l, step + 1) /\ SameRail(s.risk) /\ NoneNewer(s.venues)
        /\ l \in Account
    BY DEF InOrder
  <2>2. amount \in Int
    <3>1. \A p \in Pairs : paid[p] \in Int
      <4> SUFFICES ASSUME NEW p \in Pairs PROVE paid[p] \in Int
        OBVIOUS
      <4>1. Exposure(l, p, prices) \in Int
        BY <2>1, WorthIs
      <4>2. Exposure(l, p, prices) * rate \in Int
        BY <4>1, Product
      <4>3. -(Exposure(l, p, prices) * rate) \div 10 \in Int
        BY <4>2
      <4> QED BY <4>3
    <3>2. DOMAIN paid = Pairs
      OBVIOUS
    <3> HIDE DEF paid
    <3> QED BY <3>1, <3>2, PairSum
  <2>3. Funding(s, prices, rate) = t
    BY <1>2 DEF Funding, ApplyFunding
  <2> HIDE DEF amount
  <2>4. l.cash \in Int /\ l.funded \in Int /\ l.opening \in Int /\ l.realized \in Int
    BY <2>1 DEF Account
  <2> DEFINE cash == l.cash + amount
             funded == l.funded + amount
  <2>5. cash \in Int /\ funded \in Int
    BY <2>2, <2>4
  <2> HIDE DEF cash, funded
  <2>6. /\ new \in Account /\ new.cash = cash /\ new.funded = funded /\ new.opening = l.opening
        /\ new.realized = l.realized /\ new.pos = l.pos
    <3>1. new = [l EXCEPT !.cash = cash, !.funded = funded]
      BY DEF cash, funded
    <3> HIDE DEF new
    <3> QED BY <2>1, <2>5, <3>1 DEF Account
  <2> HIDE DEF new
  <2>7. Costs(new) = Costs(l) /\ Costs(l) \in Int
    BY <2>1, <2>6, CostsAre DEF Costs
  <2>8. Balanced(new)
    <3>1. l.cash + Costs(l) = l.opening + l.realized + l.funded
      BY <2>1 DEF Sound, Balanced
    <3>2. cash + Costs(l) = l.opening + l.realized + funded
      BY <2>2, <2>4, <2>7, <3>1 DEF cash, funded
    <3> QED BY <2>6, <2>7, <3>2 DEF Balanced
  <2>9. Sound(new) /\ AddUp(s.recorded, new, step + 1)
    BY <1>2, <2>1, <2>6, <2>8 DEF Sound, Solvent, AddUp
  <2>10. /\ t \in [ledger : Account, risk : RiskState, venues : VenueMaps, recorded : Seq(FillRow)]
         /\ t.ledger = new /\ t.risk = s.risk /\ t.recorded = s.recorded /\ t.venues = s.venues
    BY <2>1, <2>6
  <2> HIDE DEF t
  <2>11. t \in InOrder
    BY <1>2, <2>1, <2>9, <2>10 DEF InOrder
  <2>12. \A p \in Pairs : Drift(t, p) = Drift(s, p)
    BY <2>6, <2>10 DEF Drift
  <2> QED BY <2>3, <2>11, <2>12
<1> QED BY <1>1, <1>2

\* A perp without equity is closed.
LEMMA LiquidationKept ==
  ASSUME step \in Nat, instrument = "perp", NEW s \in InOrder,
         NEW prices, \A p \in Pairs : prices[p] \in Nat
  PROVE  LET t == Liquidated(s, prices)
         IN  /\ Sound(t.ledger) /\ t.recorded \in Seq(FillRow)
             /\ AddUp(t.recorded, t.ledger, step + 1)
             /\ t.venues = s.venues
<1> DEFINE pair == CHOOSE p \in Pairs : s.ledger.pos[p].size # 0
           size == s.ledger.pos[pair].size
           made == LiquidationFill(pair, size, [close |-> prices[pair]])
           fee  == (prices[pair] * Abs(size) * TakerFee) \div 10
           f == [made EXCEPT !.price = prices[pair], !.fee = fee]
           l == ApplyFill(s.ledger, f)
           pnl == Realized(s.ledger, f)
           rows == Append(s.recorded, Row(f, step + 1, pnl))
           t == Liquidated(s, prices)
<1>1. /\ s \in [ledger : Account, risk : RiskState, venues : VenueMaps, recorded : Seq(FillRow)]
      /\ Sound(s.ledger) /\ s.ledger \in Account /\ s.recorded \in Seq(FillRow)
      /\ AddUp(s.recorded, s.ledger, step + 1)
  BY DEF InOrder
<1>2. CASE \A p \in Pairs : s.ledger.pos[p].size = 0
  BY <1>1, <1>2 DEF Liquidated
<1>3. CASE ~\A p \in Pairs : s.ledger.pos[p].size = 0
  <2>1. pair \in Pairs
    BY <1>3
  <2>2. t = [s EXCEPT !.ledger = l, !.recorded = rows]
    BY <1>3 DEF Liquidated
  <2> HIDE DEF pair
  <2>3. size \in Int /\ prices[pair] \in Nat
    BY <1>1, <2>1 DEF Account, Position
  <2>4. Abs(size) \in Nat /\ fee \in Nat /\ fee <= prices[pair] * Abs(size)
    <3>1. Abs(size) \in Nat
      BY <2>3 DEF Abs
    <3>2. prices[pair] * Abs(size) \in Nat
      BY <2>3, <3>1, Product
    <3>3. fee \in 0 .. prices[pair] * Abs(size)
      BY <3>2, Share, VenueAssumption
    <3> HIDE DEF fee
    <3> QED BY <3>1, <3>2, <3>3
  <2>5. /\ made.pair = pair /\ made.side \in Sides /\ made.size = Abs(size)
        /\ made = [pair |-> made.pair, side |-> made.side, size |-> made.size, price |-> made.price,
                   fee |-> made.fee, order |-> made.order, exit |-> made.exit, of |-> made.of]
    BY DEF LiquidationFill, Sides
  <2> HIDE DEF made, fee, size
  <2>6. /\ f.pair = pair /\ f.side \in Sides /\ f.size = Abs(size) /\ f.price = prices[pair]
        /\ f.fee = fee
    BY <2>5
  <2> HIDE DEF f
  <2>7. Trade(f) /\ f.fee <= Amount(f)
    BY <2>1, <2>3, <2>4, <2>6 DEF Trade, Amount
  <2>8. Sound(l) /\ pnl \in Int
    BY <1>1, <2>7, SoundKept
  <2>9. rows \in Seq(FillRow) /\ AddUp(rows, l, step + 1)
    <3>1. step + 1 \in Nat /\ step + 1 # 0
      OBVIOUS
    <3> HIDE DEF pnl
    <3> QED BY <1>1, <2>7, <2>8, <3>1, RowsKept
  <2> HIDE DEF l, rows, t
  <2>10. t.ledger = l /\ t.recorded = rows /\ t.venues = s.venues
    BY <1>1, <2>2
  <2> QED BY <2>8, <2>9, <2>10 DEF t
<1> QED BY <1>2, <1>3

\* The risk manager on a candle: the daily rail on the floor.
Judged(r, day, floor, new) ==
  /\ new \in RiskState /\ new.day = day /\ new.floor = floor
  /\ new.dayFloor = IF day = r.day THEN r.dayFloor
                    ELSE IF r.day = NoDay THEN floor ELSE r.floor
  /\ new.halted <=> r.halted \/ floor - new.dayFloor <= -MaxDailyLoss
  /\ new.cooldown >= r.cooldown - 1 /\ new.losses = r.losses

\* What RiskOnCandle does.
LEMMA JudgedIs ==
  ASSUME NEW r \in RiskState, NEW day \in Nat, NEW floor \in Int
  PROVE  Judged(r, day, floor, RiskOnCandle(r, day, floor))
<1> DEFINE dayFloor == IF day = r.day THEN r.dayFloor ELSE IF r.day = NoDay THEN floor ELSE r.floor
           cooldown == IF r.cooldown > 0 THEN r.cooldown - 1 ELSE 0
           halted == r.halted \/ floor - dayFloor <= -MaxDailyLoss
           new == RiskOnCandle(r, day, floor)
<1>1. new = [r EXCEPT !.day = day, !.dayFloor = dayFloor, !.floor = floor, !.cooldown = cooldown,
                      !.halted = halted]
  BY DEF RiskOnCandle
<1>2. /\ CooldownCandles \in Nat /\ r.cooldown \in 0 .. CooldownCandles /\ dayFloor \in Int
      /\ halted \in BOOLEAN
  BY RiskAssumption DEF RiskState
<1>3. cooldown \in 0 .. CooldownCandles /\ cooldown >= r.cooldown - 1 /\ cooldown >= 0
  BY <1>2
<1> HIDE DEF dayFloor, cooldown, halted, new
<1>4. /\ new \in RiskState /\ new.day = day /\ new.floor = floor /\ new.dayFloor = dayFloor
      /\ new.halted = halted /\ new.cooldown = cooldown /\ new.losses = r.losses
  BY <1>1, <1>2, <1>3 DEF RiskState
<1>5. r.cooldown \in Int
  BY <1>2
<1> QED BY <1>3, <1>4, <1>5 DEF Judged, new, dayFloor, halted

\* The cooldown is one shorter, and one candle more has passed since any streak.
LEMMA JudgedKept ==
  ASSUME step \in Nat, NEW r \in RiskState, NEW day \in Nat, NEW floor \in Int,
         NEW rows \in Seq(FillRow), \A i \in DOMAIN rows : rows[i].step \in 1 .. step + 1,
         Counted(rows, r, step)
  PROVE  Counted(rows, RiskOnCandle(r, day, floor), step + 1)
<1> DEFINE new == RiskOnCandle(r, day, floor)
<1>1. /\ new.cooldown >= r.cooldown - 1 /\ new.losses = r.losses /\ new \in RiskState
  <2>1. Judged(r, day, floor, new)
    BY JudgedIs
  <2> QED BY <2>1 DEF Judged
<1> HIDE DEF new
<1>2. r.cooldown \in Int /\ new.cooldown \in Int /\ CooldownCandles \in Int
  BY <1>1, RiskAssumption DEF RiskState
<1>3. \E j \in 0 .. Len(rows), full \in 0 .. Len(rows) :
        /\ LosingRun(rows, j, Len(rows))
        /\ Cardinality({k \in Exits(rows) : j < k}) = full * MaxLosses + new.losses
  BY <1>1 DEF Counted
<1>4. ASSUME NEW i \in Exits(rows), StreakEndsAt(rows, i)
      PROVE  new.cooldown >= CooldownCandles - 1 - ((step + 1) - rows[i].step)
  <2>1. r.cooldown >= CooldownCandles - 1 - (step - rows[i].step)
    BY <1>4 DEF Counted
  <2>2. rows[i].step \in Int
    <3>1. i \in DOMAIN rows
      BY DEF Exits
    <3>2. rows[i].step \in 1 .. step + 1
      BY <3>1
    <3> QED BY <3>2
  <2> QED BY <1>1, <1>2, <2>1, <2>2
<1>5. Counted(rows, new, step + 1)
  BY <1>3, <1>4 DEF Counted
<1> QED BY <1>5 DEF new

-----------------------------------------------------------------------------
\* What a division leaves is less than the divisor.
LEMMA Quotient ==
  ASSUME NEW a \in Int, NEW d \in Nat \ {0}
  PROVE  a \div d \in Int /\ d * (a \div d) <= a /\ a < d * (a \div d) + d
OBVIOUS

\* Days follow each other.
LEMMA DaysGrow ==
  ASSUME NEW a \in Nat, NEW b \in Nat, a <= b
  PROVE  Day(a) \in Int /\ Day(b) \in Int /\ Day(a) <= Day(b) /\ (a # 0 => Day(a) \in Nat \ {0})
<1> DEFINE d == StepsPerDay
           x == (a - 1) \div d
           y == (b - 1) \div d
<1>1. d \in Nat \ {0}
  BY EngineAssumption
<1>2. x \in Int /\ d * x <= a - 1 /\ a - 1 < d * x + d
  <2> HIDE DEF d
  <2> QED BY <1>1, Quotient
<1>3. y \in Int /\ d * y <= b - 1 /\ b - 1 < d * y + d
  <2> HIDE DEF d
  <2> QED BY <1>1, Quotient
<1>4. Day(a) = x + 1 /\ Day(b) = y + 1
  BY DEF Day
<1> HIDE DEF d, x, y
<1>5. x <= y
  <2> SUFFICES ASSUME y + 1 <= x PROVE FALSE
    BY <1>2, <1>3
  <2>1. d * (y + 1) <= d * x /\ d * (y + 1) = d * y + d
    BY <1>1, <1>2, <1>3
  <2>2. d * y \in Int /\ d * x \in Int
    BY <1>1, <1>2, <1>3
  <2> QED BY <1>1, <1>2, <1>3, <2>1, <2>2
<1>6. a # 0 => x >= 0
  <2> SUFFICES ASSUME a # 0, x + 1 <= 0 PROVE FALSE
    BY <1>2
  <2>1. d * (x + 1) <= 0 /\ d * (x + 1) = d * x + d /\ d * x \in Int
    BY <1>1, <1>2
  <2> QED BY <1>1, <1>2, <2>1
<1> QED BY <1>2, <1>3, <1>4, <1>5, <1>6

-----------------------------------------------------------------------------
\* A floor more: what the risk manager remembers is still what the floors say.
LEMMA RailKept ==
  ASSUME Typed, RailRemembers, phase = "candle", NEW floor \in Int,
         NEW r \in RiskState, SameRail(r),
         risk' = RiskOnCandle(r, Day(step + 1), floor), ~risk'.halted,
         floors' = Append(floors, floor), step' = step + 1
  PROVE  /\ floors' # <<>>
         /\ risk'.day = Day(step') /\ risk'.floor = floors'[Len(floors')]
         /\ risk'.dayFloor = DayFloor'
         /\ risk'.floor - risk'.dayFloor > -MaxDailyLoss
<1> DEFINE n == Len(floors)
           before == {i \in DOMAIN floors : Day(FirstStep + i - 1) < Day(step)}
           now == {i \in DOMAIN floors' : Day(FirstStep' + i - 1) < Day(step')}
<1>1. step \in Nat /\ n \in Nat /\ n <= step /\ floors \in Seq(Int) /\ risk \in RiskState
  BY EngineAssumption DEF Typed
<1>2. /\ Len(floors') = n + 1 /\ DOMAIN floors' = 1 .. n + 1 /\ DOMAIN floors = 1 .. n
      /\ floors'[n + 1] = floor /\ \A i \in 1 .. n : floors'[i] = floors[i] /\ floors[i] \in Int
      /\ floors' # <<>>
  BY <1>1
<1>3. FirstStep = (step - n) + 1 /\ FirstStep' = (step - n) + 1
  <2>1. FirstStep' = ((step + 1) - (n + 1)) + 1
    BY <1>2 DEF FirstStep
  <2> QED BY <1>1, <2>1 DEF FirstStep
<1> DEFINE At(i) == (step - n) + i
<1>4. \A i \in 1 .. n + 1 : /\ FirstStep + i - 1 = At(i) /\ FirstStep' + i - 1 = At(i)
                            /\ At(i) \in Nat \ {0} /\ At(i) <= step + 1 /\ (i <= n => At(i) <= step)
  BY <1>1, <1>3
<1>5. step + 1 \in Nat /\ Day(step + 1) \in Nat \ {0} /\ Day(step) \in Int /\ Day(step) <= Day(step + 1)
  BY <1>1, DaysGrow
<1>6. \A i \in 1 .. n : Day(At(i)) <= Day(step) /\ Day(At(i)) \in Int
  <2> SUFFICES ASSUME NEW i \in 1 .. n PROVE Day(At(i)) <= Day(step) /\ Day(At(i)) \in Int
    OBVIOUS
  <2>1. At(i) \in Nat /\ At(i) <= step
    BY <1>1, <1>4
  <2> HIDE DEF At
  <2> QED BY <1>1, <2>1, DaysGrow
<1>7. At(n + 1) = step + 1
  BY <1>1
<1> HIDE DEF At
<1>8. before = {i \in 1 .. n : Day(At(i)) < Day(step)}
  BY <1>1, <1>2, <1>4
<1>9. now = {i \in 1 .. n : Day(At(i)) < Day(step + 1)}
  <2>1. now = {i \in 1 .. n + 1 : Day(At(i)) < Day(step + 1)}
    BY <1>2, <1>4
  <2>2. ~(Day(At(n + 1)) < Day(step + 1))
    BY <1>5, <1>7
  <2>3. \A i \in 1 .. n + 1 : i \in 1 .. n \/ i = n + 1
    BY <1>1
  <2>4. \A i \in 1 .. n : i \in 1 .. n + 1
    BY <1>1
  <2> HIDE DEF now
  <2> QED BY <2>1, <2>2, <2>3, <2>4
<1>10. DayFloor = floors[IF before = {} THEN 1 ELSE Max(before)]
       /\ DayFloor' = floors'[IF now = {} THEN 1 ELSE Max(now)]
  BY DEF DayFloor
<1> HIDE DEF before, now, n
<1>11. /\ risk'.day = Day(step + 1) /\ risk'.floor = floor
       /\ risk'.dayFloor = IF Day(step + 1) = risk.day THEN risk.dayFloor
                           ELSE IF risk.day = NoDay THEN floor ELSE risk.floor
       /\ ~(floor - risk'.dayFloor <= -MaxDailyLoss)
  <2> DEFINE day == Day(step + 1)
             new == RiskOnCandle(r, day, floor)
  <2>1. day \in Nat /\ risk' = new
    BY <1>5
  <2> HIDE DEF day
  <2>2. Judged(r, day, floor, new)
    BY <2>1, JudgedIs
  <2> HIDE DEF new
  <2> QED BY <2>1, <2>2 DEF SameRail, Judged, day
<1>12. risk'.dayFloor = DayFloor' /\ DayFloor' \in Int
  <2>1. CASE n = 0
    <3>1. floors = <<>> /\ 1 .. n = {} /\ risk.day = NoDay
      BY <1>1, <2>1 DEF RailRemembers, n
    <3>2. now = {} /\ DayFloor' = floor
      BY <1>2, <1>9, <1>10, <2>1, <3>1
    <3>3. risk'.dayFloor = floor
      BY <1>5, <1>11, <3>1 DEF NoDay
    <3> QED BY <3>2, <3>3
  <2>2. CASE n # 0 /\ Day(step + 1) = Day(step)
    <3>1. risk.day = Day(step) /\ risk.dayFloor = DayFloor
      BY <1>1, <2>2 DEF RailRemembers, n
    <3>2. now = before
      BY <1>8, <1>9, <2>2
    <3>3. (IF before = {} THEN 1 ELSE Max(before)) \in 1 .. n
      <4>1. before \in SUBSET (1 .. n) /\ 1 \in 1 .. n
        BY <1>1, <1>8, <2>2
      <4>2. IsFiniteSet(before) /\ before \in SUBSET Int
        BY <1>1, <4>1, IdsAreFinite
      <4>3. before # {} => Max(before) \in before
        BY <4>2, MaxIs
      <4> QED BY <4>1, <4>3
    <3> QED BY <1>2, <1>10, <1>11, <2>2, <3>1, <3>2, <3>3
  <2>3. CASE n # 0 /\ Day(step + 1) # Day(step)
    <3>1. risk.day = Day(step) /\ risk.floor = floors[n] /\ n \in 1 .. n
      BY <1>1, <2>3 DEF RailRemembers, n
    <3>2. Day(step) < Day(step + 1)
      BY <1>5, <2>3
    <3>3. now = 1 .. n
      BY <1>5, <1>6, <1>9, <3>2
    <3>4. Max(now) = n
      <4>1. IsFiniteSet(now) /\ now \in SUBSET Int /\ now # {}
        BY <1>1, <3>1, <3>3, IdsAreFinite
      <4>2. Max(now) \in now /\ \A k \in now : Max(now) >= k
        BY <4>1, MaxIs
      <4>3. Max(now) \in 1 .. n /\ Max(now) >= n
        BY <3>1, <3>3, <4>2
      <4> HIDE DEF now
      <4> QED BY <1>1, <4>3
    <3>5. risk.day # NoDay
      <4>1. step # 0
        BY <1>1, <2>3
      <4>2. step <= step
        BY <1>1
      <4>3. Day(step) \in Nat \ {0}
        BY <1>1, <4>1, <4>2, DaysGrow
      <4> QED BY <3>1, <4>3 DEF NoDay
    <3>6. risk'.dayFloor = floors[n]
      BY <1>11, <2>3, <3>1, <3>5
    <3>7. DayFloor' = floors'[n]
      BY <1>10, <3>1, <3>3, <3>4
    <3> QED BY <1>2, <3>1, <3>6, <3>7
  <2> QED BY <2>1, <2>2, <2>3
<1>13. floor - DayFloor' > -MaxDailyLoss
  <2>1. MaxDailyLoss \in Nat
    BY RiskAssumption
  <2> HIDE DEF DayFloor
  <2> QED BY <1>11, <1>12, <2>1
<1> QED BY <1>2, <1>11, <1>12, <1>13

-----------------------------------------------------------------------------
\* Between two candles the books are in order, and the venues agree with the
\* ledger.
LEMMA BooksOpen ==
  ASSUME IInv, phase = "candle"
  PROVE  /\ step \in Nat /\ Books \in InOrder
         /\ restarts = 0 => \A p \in Pairs : Drift(Books, p) = 0
<1>1. /\ step \in Nat /\ ledger \in Account /\ risk \in RiskState /\ recorded \in Seq(FillRow)
      /\ venues = [p \in Pairs |-> venues[p]] /\ \A p \in Pairs : venues[p] \in Venue(p)
  BY EngineAssumption DEF IInv, Typed
<1>2. venues \in VenueMaps
  <2> DEFINE All == UNION {Venue(p) : p \in Pairs}
  <2>1. \A p \in Pairs : venues[p] \in All
    BY <1>1
  <2> HIDE DEF All
  <2>2. venues \in [Pairs -> All]
    BY <1>1, <2>1
  <2> QED BY <1>1, <2>2 DEF VenueMaps, All
<1>3. AddUp(recorded, ledger, step + 1)
  <2>1. AddUp(recorded, ledger, step)
    BY DEF IInv
  <2>2. \A i \in DOMAIN recorded : recorded[i].step \in 1 .. step + 1
    <3>1. \A i \in DOMAIN recorded : recorded[i].step \in 1 .. step
      BY <2>1 DEF AddUp
    <3>2. \A k \in 1 .. step : k \in 1 .. step + 1
      BY <1>1
    <3> QED BY <3>1, <3>2
  <2> QED BY <2>1, <2>2 DEF AddUp
<1>4. NoneNewer(venues)
  BY DEF IInv, OrdersAreOld, NoneNewer
<1>5. Sound(ledger) /\ (instrument = "spot" => Counted(recorded, risk, step)) /\ SameRail(risk)
  BY DEF IInv, SameRail
<1>6. Books \in InOrder
  BY <1>1, <1>2, <1>3, <1>4, <1>5 DEF Books, InOrder
<1>7. restarts = 0 => \A p \in Pairs : Drift(Books, p) = 0
  <2> SUFFICES ASSUME restarts = 0, NEW p \in Pairs PROVE Drift(Books, p) = 0
    OBVIOUS
  <2>1. venues[p].position = ledger.pos[p].size
    BY DEF IInv, VenueAgreesWithLedger, VenueNeverDrifts
  <2>2. ledger.pos[p].size \in Int
    BY <1>1 DEF Account, Position
  <2> QED BY <2>1, <2>2 DEF Drift, Books
<1> QED BY <1>1, <1>6, <1>7

\* What the conjuncts of the invariant that depend on the ledger, the rows and
\* the risk manager say of the next state.
LEMMA NextSound ==
  ASSUME instrument' = instrument, NEW l, ledger' = l
  PROVE  Sound(l) => Sound(ledger)'
BY DEF Sound, Solvent, Balanced, Costs, Account, Position

\* What the rows add up to, said of the next state.
LEMMA NextAddUp ==
  ASSUME instrument' = instrument, NEW l, ledger' = l, NEW rows, recorded' = rows, NEW n, step' = n
  PROVE  AddUp(rows, l, n) => AddUp(recorded, ledger, step)'
BY DEF AddUp, CashFlows, UnitFlows, CashFlow, UnitFlow, Direction, Amount

\* The losses counted, said of the next state.
LEMMA NextCounted ==
  ASSUME NEW rows, recorded' = rows, NEW r, risk' = r, NEW n, step' = n
  PROVE  Counted(rows, r, n) => Counted(recorded, risk, step)'
BY DEF Counted, LosingRun, StreakEndsAt, FullStreak, Exits

\* The invariant is kept by a candle.
LEMMA CandleKept ==
  ASSUME IInv, Candle
  PROVE  IInv' /\ phase' \in {"halted", "decide"}
<1>1. PICK on \in (SUBSET Pairs) \ {{}} :
      \E candles \in {c \in [on -> UNION {Candles[p] : p \in on}] : \A p \in on : c[p] \in Candles[p]},
         rate \in FundingRates :
       LET prices == [p \in Pairs |-> IF p \in on THEN candles[p].close ELSE closes[p]]
           s      == Funding(StepBooks(candles), prices, rate)
           broke  == instrument = "perp" /\ Equity(s.ledger, prices) <= 0
           t      == IF broke THEN Liquidated(s, prices) ELSE s
           floor  == FloorEquity(s.ledger, prices)
           judged == IF broke THEN [s.risk EXCEPT !.halted = TRUE]
                              ELSE RiskOnCandle(s.risk, Day(step + 1), floor)
       IN /\ IF instrument = "perp" THEN on = {1} ELSE rate = 0
          /\ ledger' = t.ledger /\ venues' = t.venues /\ recorded' = t.recorded
          /\ risk' = judged
          /\ closes' = prices
          /\ last' = [p \in DOMAIN last \cup on |-> IF p \in on THEN candles[p] ELSE last[p]]
          /\ floors' = Append(floors, floor)
          /\ phase' = IF judged.halted THEN "halted" ELSE "decide"
  BY DEF Candle
<1>2. PICK candles \in {c \in [on -> UNION {Candles[p] : p \in on}] : \A p \in on : c[p] \in Candles[p]},
           rate \in FundingRates :
       LET prices == [p \in Pairs |-> IF p \in on THEN candles[p].close ELSE closes[p]]
           s      == Funding(StepBooks(candles), prices, rate)
           broke  == instrument = "perp" /\ Equity(s.ledger, prices) <= 0
           t      == IF broke THEN Liquidated(s, prices) ELSE s
           floor  == FloorEquity(s.ledger, prices)
           judged == IF broke THEN [s.risk EXCEPT !.halted = TRUE]
                              ELSE RiskOnCandle(s.risk, Day(step + 1), floor)
       IN /\ IF instrument = "perp" THEN on = {1} ELSE rate = 0
          /\ ledger' = t.ledger /\ venues' = t.venues /\ recorded' = t.recorded
          /\ risk' = judged
          /\ closes' = prices
          /\ last' = [p \in DOMAIN last \cup on |-> IF p \in on THEN candles[p] ELSE last[p]]
          /\ floors' = Append(floors, floor)
          /\ phase' = IF judged.halted THEN "halted" ELSE "decide"
  BY <1>1
<1> DEFINE prices == [p \in Pairs |-> IF p \in on THEN candles[p].close ELSE closes[p]]
           s      == Funding(StepBooks(candles), prices, rate)
           broke  == instrument = "perp" /\ Equity(s.ledger, prices) <= 0
           t      == IF broke THEN Liquidated(s, prices) ELSE s
           floor  == FloorEquity(s.ledger, prices)
           judged == IF broke THEN [s.risk EXCEPT !.halted = TRUE]
                              ELSE RiskOnCandle(s.risk, Day(step + 1), floor)
<1>3. /\ phase = "candle" /\ step < MaxSteps /\ step' = step + 1
      /\ instrument' = instrument /\ restarts' = restarts
  BY DEF Candle
<1>4. /\ ledger' = t.ledger /\ venues' = t.venues /\ recorded' = t.recorded
      /\ risk' = judged /\ closes' = prices
      /\ last' = [p \in DOMAIN last \cup on |-> IF p \in on THEN candles[p] ELSE last[p]]
      /\ floors' = Append(floors, floor)
      /\ phase' = IF judged.halted THEN "halted" ELSE "decide"
  BY <1>2, Zenon
<1>5. step \in Nat /\ Books \in InOrder /\ (restarts = 0 => \A p \in Pairs : Drift(Books, p) = 0)
  BY <1>3, BooksOpen
<1>6. on \in SUBSET Pairs /\ candles \in [on -> Bars] /\ rate \in Int
  <2>1. \A p \in Pairs : Candles[p] \in SUBSET Bars
    BY EngineAssumption
  <2>2. \A p \in on : candles[p] \in Bars
    BY <2>1
  <2>3. candles = [p \in on |-> candles[p]]
    OBVIOUS
  <2> QED BY <2>2, <2>3, EngineAssumption
<1>7. prices \in [Pairs -> Nat] /\ \A p \in Pairs : prices[p] \in Nat
  <2>1. closes \in [Pairs -> Nat]
    BY DEF IInv, Typed
  <2>2. \A p \in on : candles[p].close \in Nat
    BY <1>6 DEF Bars
  <2> QED BY <2>1, <2>2
<1>8. s \in InOrder /\ \A p \in Pairs : Drift(s, p) = Drift(Books, p)
  <2>1. StepBooks(candles) \in InOrder /\ \A p \in Pairs : Drift(StepBooks(candles), p) = Drift(Books, p)
    BY <1>5, <1>6, AllStepped
  <2> HIDE DEF prices
  <2> QED BY <1>6, <1>7, <2>1, FundingKept
<1> HIDE DEF prices, s
<1>9. /\ s.ledger \in Account /\ s.risk \in RiskState /\ s.venues \in VenueMaps
      /\ s.recorded \in Seq(FillRow) /\ Sound(s.ledger) /\ AddUp(s.recorded, s.ledger, step + 1)
      /\ instrument = "spot" => Counted(s.recorded, s.risk, step)
      /\ SameRail(s.risk) /\ NoneNewer(s.venues)
  BY <1>8 DEF InOrder
<1>10. /\ Sound(t.ledger) /\ t.recorded \in Seq(FillRow) /\ AddUp(t.recorded, t.ledger, step + 1)
       /\ t.venues = s.venues
  BY <1>5, <1>7, <1>8, <1>9, LiquidationKept
<1>11. floor \in Int
  BY <1>7, <1>9, WorthIs
<1>12. step + 1 \in Nat /\ Day(step + 1) \in Nat
  <2>1. step + 1 \in Nat /\ step + 1 # 0 /\ step + 1 <= step + 1
    BY <1>5
  <2> QED BY <2>1, DaysGrow
<1> HIDE DEF floor
<1>13. judged \in RiskState /\ (broke => judged.halted)
  <2>1. CASE broke
    <3> HIDE DEF broke
    <3>1. judged = [s.risk EXCEPT !.halted = TRUE]
      BY <2>1
    <3> HIDE DEF judged
    <3> QED BY <1>9, <3>1 DEF RiskState
  <2>2. CASE ~broke
    <3> HIDE DEF broke
    <3>1. judged = RiskOnCandle(s.risk, Day(step + 1), floor)
      BY <2>2
    <3> HIDE DEF judged
    <3>2. Judged(s.risk, Day(step + 1), floor, RiskOnCandle(s.risk, Day(step + 1), floor))
      BY <1>9, <1>11, <1>12, JudgedIs
    <3> QED BY <2>2, <3>1, <3>2 DEF Judged
  <2> QED BY <2>1, <2>2
<1> HIDE DEF judged, t, broke
<1>14. Typed'
  <2>1. phase' \in {"candle", "decide", "halted", "done", "failed"} /\ instrument' \in Instruments
        /\ step' \in 0 .. MaxSteps /\ restarts' \in 0 .. MaxRestarts
    BY <1>3, <1>4, <1>5, EngineAssumption DEF IInv, Typed
  <2>2. ledger' \in Account /\ risk' \in RiskState
    BY <1>4, <1>10, <1>13 DEF Sound
  <2>3. venues' = [p \in Pairs |-> venues'[p]] /\ \A p \in Pairs : venues'[p] \in Venue(p)
    BY <1>4, <1>9, <1>10 DEF VenueMaps
  <2>4. closes' \in [Pairs -> Nat]
    BY <1>4, <1>7
  <2>5. DOMAIN last' \subseteq Pairs /\ \A p \in DOMAIN last' : last'[p] \in Bars
    <3>1. DOMAIN last \subseteq Pairs /\ \A p \in DOMAIN last : last[p] \in Bars
      BY DEF IInv, Typed
    <3>2. DOMAIN last' = DOMAIN last \cup on
      BY <1>4
    <3>3. \A p \in DOMAIN last' : last'[p] = IF p \in on THEN candles[p] ELSE last[p]
      BY <1>4
    <3> QED BY <1>6, <3>1, <3>2, <3>3
  <2>6. recorded' \in Seq(FillRow)
    BY <1>4, <1>10
  <2>7. floors' \in Seq(Int) /\ Len(floors') <= step'
    <3>1. floors \in Seq(Int) /\ Len(floors) <= step
      BY DEF IInv, Typed
    <3>2. Len(floors') = Len(floors) + 1 /\ Len(floors) \in Nat /\ floors' \in Seq(Int)
      BY <1>4, <1>11, <3>1
    <3> QED BY <1>3, <1>5, <3>1, <3>2
  <2> QED BY <2>1, <2>2, <2>3, <2>4, <2>5, <2>6, <2>7
      DEF Typed, Account, Position, RiskState, Venue, Order, FillRow, Amount, Sides, Bars
<1>15. Sound(ledger)'
  BY <1>3, <1>4, <1>10, NextSound
<1>16. AddUp(recorded, ledger, step)'
  BY <1>3, <1>4, <1>10, NextAddUp
<1>17. (phase \in {"candle", "decide"} /\ instrument = "spot" => Counted(recorded, risk, step))'
  <2> SUFFICES ASSUME instrument = "spot" PROVE Counted(recorded, risk, step)'
    BY <1>3
  <2>1. ~broke
    BY DEF broke
  <2>2. t = s /\ judged = RiskOnCandle(s.risk, Day(step + 1), floor)
    BY <2>1 DEF t, judged
  <2>3. \A i \in DOMAIN s.recorded : s.recorded[i].step \in 1 .. step + 1
    BY <1>9 DEF AddUp
  <2>4. Counted(s.recorded, judged, step + 1)
    BY <1>5, <1>9, <1>11, <1>12, <2>2, <2>3, JudgedKept
  <2> QED BY <1>3, <1>4, <2>2, <2>4, NextCounted
<1>18. VenueAgreesWithLedger'
  <2> SUFFICES ASSUME restarts = 0, phase' \in {"candle", "decide"}, NEW p \in Pairs
               PROVE  venues'[p].position = ledger'.pos[p].size
    BY <1>3 DEF VenueAgreesWithLedger, VenueNeverDrifts
  <2>1. ~broke
    BY <1>4, <1>13
  <2>2. t = s
    BY <2>1 DEF t
  <2>3. s.venues[p].position - s.ledger.pos[p].size = 0
    BY <1>5, <1>8 DEF Drift
  <2>4. s.venues[p].position \in Int /\ s.ledger.pos[p].size \in Int
    BY <1>9 DEF VenueMaps, Venue, Account, Position
  <2>5. s.venues[p].position = s.ledger.pos[p].size
    BY <2>3, <2>4
  <2> QED BY <1>4, <2>2, <2>5
<1>19. RailRemembers'
  <2>1. floors' # <<>>
    <3>1. floors \in Seq(Int)
      BY DEF IInv, Typed
    <3> QED BY <1>4, <1>11, <3>1
  <2>2. CASE phase' = "halted"
    BY <2>1, <2>2 DEF RailRemembers
  <2>3. CASE phase' = "decide"
    <3>1. ~judged.halted /\ ~broke
      BY <1>4, <1>13, <2>3
    <3>2. judged = RiskOnCandle(s.risk, Day(step + 1), floor)
      BY <3>1 DEF judged
    <3>3. /\ risk'.day = Day(step') /\ risk'.floor = floors'[Len(floors')]
          /\ risk'.dayFloor = DayFloor'
          /\ risk'.floor - risk'.dayFloor > -MaxDailyLoss
      BY <1>3, <1>4, <1>9, <1>11, <3>1, <3>2, RailKept DEF IInv
    <3> QED BY <2>1, <3>3 DEF RailRemembers
  <2> QED BY <1>4, <2>2, <2>3
<1>20. OrdersAreOld'
  <2> SUFFICES ASSUME NEW p \in Pairs, NEW i \in DOMAIN venues'[p].orders
               PROVE  venues'[p].orders[i].step <= IF phase' = "decide" THEN step' - 1 ELSE step'
    BY DEF OrdersAreOld
  <2>1. venues' = s.venues
    BY <1>4, <1>10
  <2>2. venues'[p].orders[i].step <= step
    BY <1>9, <2>1 DEF NoneNewer
  <2>3. venues'[p].orders[i].step \in Nat
    <3>1. venues'[p].orders \in Seq(Order(p))
      BY <1>9, <2>1 DEF VenueMaps, Venue
    <3>2. venues'[p].orders[i] \in Order(p)
      BY <3>1
    <3> QED BY <3>2 DEF Order
  <2> QED BY <1>3, <1>5, <2>2, <2>3
<1> QED BY <1>4, <1>14, <1>15, <1>16, <1>17, <1>18, <1>19, <1>20 DEF IInv

-----------------------------------------------------------------------------
(***************************************************************************)
(* A decision.                                                             *)
(***************************************************************************)
Batch == [orders : Seq(Intents), cash : Int, added : [Pairs -> Int], sold : [Pairs -> Int],
          resulting : [Pairs -> Int]]

\* One intent more is approved, at a size, for a cost, a number of units sold
\* and a move of the position.
Taken(old, new, intent, size, cost, sold, move) ==
  /\ new.orders = Append(old.orders, [intent EXCEPT !.size = size])
  /\ new.cash = old.cash - cost
  /\ \A q \in Pairs :
       /\ new.added[q] = old.added[q] + (IF q = intent.pair THEN cost ELSE 0)
       /\ new.sold[q] = old.sold[q] + (IF q = intent.pair THEN sold ELSE 0)
       /\ new.resulting[q] = old.resulting[q] + (IF q = intent.pair THEN move ELSE 0)

\* What an intent is about.
LEMMA IntentIs ==
  ASSUME NEW intent \in Intents, NEW prices, \A p \in Pairs : prices[p] \in Nat
  PROVE  /\ intent.pair \in Pairs /\ intent.side \in Sides /\ intent.size \in Nat \ {0}
         /\ PriceOf(intent, prices) \in Nat /\ Direction(intent) \in {1, -1}
         /\ \A size \in Nat \ {0} : [intent EXCEPT !.size = size] \in Intents
BY DEF Intents, Sides, PriceOf, Direction

\* A number of the pairs' changed at one.
LEMMA PairMoved ==
  ASSUME NEW f \in [Pairs -> Int], NEW p \in Pairs, NEW d \in Int
  PROVE  LET g == [f EXCEPT ![p] = f[p] + d]
         IN  /\ g \in [Pairs -> Int]
             /\ \A q \in Pairs : g[q] = f[q] + (IF q = p THEN d ELSE 0)
<1> DEFINE g == [f EXCEPT ![p] = f[p] + d]
<1>1. f[p] + d \in Int
  OBVIOUS
<1>2. g \in [Pairs -> Int]
  BY <1>1
<1>3. \A q \in Pairs : g[q] = f[q] + (IF q = p THEN d ELSE 0)
  <2> SUFFICES ASSUME NEW q \in Pairs PROVE g[q] = f[q] + (IF q = p THEN d ELSE 0)
    OBVIOUS
  <2>1. f[q] \in Int
    OBVIOUS
  <2> QED BY <2>1
<1> QED BY <1>2, <1>3

\* What may be bought is a number, no more than any of the headrooms.
LEMMA BudgetIs ==
  ASSUME NEW l \in Account, NEW prices, \A p \in Pairs : prices[p] \in Nat,
         NEW b \in Batch, NEW intent \in Intents
  PROVE  LET budget == Budget(l, prices, b, intent)
         IN  /\ budget \in Int
             /\ budget <= MaxPosition - l.pos[intent.pair].size * PriceOf(intent, prices)
                            - b.added[intent.pair]
             /\ budget <= MaxGross - SumFunction([p \in Pairs |-> Exposure(l, p, prices)])
                            - SumFunction(b.added)
             /\ b.cash >= 0 => budget <= b.cash
             /\ SumFunction(b.added) \in Int
             /\ SumFunction([p \in Pairs |-> Exposure(l, p, prices)]) \in Int
<1> DEFINE held == SumFunction([p \in Pairs |-> Exposure(l, p, prices)])
           added == SumFunction(b.added)
           value == l.pos[intent.pair].size * PriceOf(intent, prices)
           inPair == MaxPosition - value - b.added[intent.pair]
           inGross == MaxGross - held - added
           inCash == (10 * b.cash) \div (10 + CostRate)
<1>1. held \in Int
  <2> DEFINE f == [p \in Pairs |-> Exposure(l, p, prices)]
  <2>1. DOMAIN f = Pairs /\ \A p \in Pairs : f[p] \in Int
    BY WorthIs
  <2> HIDE DEF f
  <2>2. SumFunction(f) \in Int
    BY <2>1, PairSum
  <2> QED BY <2>2 DEF f
<1>2. added \in Int /\ b.added[intent.pair] \in Int /\ b.cash \in Int
  <2>1. b.added \in [Pairs -> Int] /\ intent.pair \in Pairs /\ b.cash \in Int
    BY IntentIs DEF Batch
  <2> QED BY <2>1, PairSum
<1>3. value \in Int
  <2>1. l.pos[intent.pair].size \in Int /\ PriceOf(intent, prices) \in Int
    BY IntentIs DEF Account, Position
  <2> QED BY <2>1, Product
<1>4. MaxPosition \in Nat /\ MaxGross \in Nat /\ CostRate \in Nat
  BY RiskAssumption
<1>5. inCash \in Int /\ (b.cash >= 0 => inCash <= b.cash)
  <2> DEFINE d == 10 + CostRate
             a == 10 * b.cash
  <2>1. d \in Nat \ {0} /\ a \in Int /\ d >= 10
    BY <1>2, <1>4
  <2>2. (a \div d) \in Int /\ d * (a \div d) <= a
    <3> HIDE DEF a, d
    <3> QED BY <2>1, Quotient
  <2>3. ASSUME b.cash >= 0, a \div d > b.cash PROVE FALSE
    <3> DEFINE q == a \div d
    <3>1. q \in Int /\ d * q <= a /\ q > b.cash
      BY <2>2, <2>3
    <3> HIDE DEF q
    <3>2. d * q = 10 * q + CostRate * q
      BY <1>4, <3>1
    <3>3. CostRate * q \in Int /\ CostRate * q >= 0
      BY <1>2, <1>4, <2>3, <3>1
    <3> HIDE DEF d
    <3> QED BY <1>2, <2>3, <3>1, <3>2, <3>3
  <2> HIDE DEF a, d
  <2>4. b.cash >= 0 => a \div d <= b.cash
    BY <1>2, <2>2, <2>3
  <2> QED BY <2>2, <2>4 DEF a, d
<1>6. Budget(l, prices, b, intent) = Least(Least(inPair, inGross), inCash)
  BY DEF Budget
<1> HIDE DEF held, added, value, inCash
<1>7. inPair \in Int /\ inGross \in Int
  BY <1>1, <1>2, <1>3, <1>4
<1> HIDE DEF inPair, inGross
<1> DEFINE budget == Least(Least(inPair, inGross), inCash)
<1>8. budget \in Int /\ budget <= inPair /\ budget <= inGross /\ (b.cash >= 0 => budget <= b.cash)
  BY <1>2, <1>5, <1>7 DEF Least
<1> HIDE DEF budget
<1>9. Budget(l, prices, b, intent) = budget
  BY <1>6 DEF budget
<1> QED BY <1>1, <1>2, <1>8, <1>9 DEF inPair, inGross, held, added, value

\* A buy is left out, or approved within the budget.
LEMMA BuyAssessed ==
  ASSUME NEW l \in Account, NEW r \in RiskState, NEW prices, \A p \in Pairs : prices[p] \in Nat,
         NEW b \in Batch, NEW intent \in Intents, PriceOf(intent, prices) # 0
  PROVE  LET new == AssessBuy(l, r, prices, b, intent)
         IN  \/ new = b
             \/ /\ new \in Batch /\ r.cooldown = 0
                /\ \E size \in Nat \ {0}, cost \in Nat \ {0} :
                     /\ cost = size * PriceOf(intent, prices)
                     /\ cost <= Budget(l, prices, b, intent)
                     /\ Taken(b, new, intent, size, cost, 0, 0)
<1> DEFINE new == AssessBuy(l, r, prices, b, intent)
           price == PriceOf(intent, prices)
           budget == Budget(l, prices, b, intent)
           size == IF budget > 0 THEN Least(intent.size, budget \div price) ELSE 0
           cost == size * price
           p == intent.pair
           orders == Append(b.orders, [intent EXCEPT !.size = size])
           cash == b.cash - cost
           added == [b.added EXCEPT ![p] = b.added[p] + cost]
<1>1. p \in Pairs /\ intent.size \in Nat \ {0} /\ price \in Nat \ {0}
  BY IntentIs
<1>2. budget \in Int
  BY BudgetIs
<1>3. r.cooldown \in Nat /\ MinOrder \in Nat \ {0}
  BY RiskAssumption DEF RiskState
<1>4. SUFFICES ASSUME ~(r.cooldown > 0 \/ size * price < MinOrder)
               PROVE  /\ new \in Batch /\ r.cooldown = 0 /\ size \in Nat \ {0}
                      /\ cost \in Nat \ {0} /\ cost <= budget
                      /\ Taken(b, new, intent, size, cost, 0, 0)
  <2>1. CASE r.cooldown > 0 \/ size * price < MinOrder
    <3>1. new = b
      BY <2>1 DEF AssessBuy
    <3> QED BY <3>1
  <2>2. CASE ~(r.cooldown > 0 \/ size * price < MinOrder)
    <3>1. /\ new \in Batch /\ r.cooldown = 0 /\ size \in Nat \ {0}
          /\ cost \in Nat \ {0} /\ cost <= budget
          /\ Taken(b, new, intent, size, cost, 0, 0)
      BY <1>4, <2>2
    <3>2. cost = size * price
      OBVIOUS
    <3> HIDE DEF new, size, cost, price, budget
    <3>3. \E n \in Nat \ {0}, c \in Nat \ {0} :
            c = n * price /\ c <= budget /\ Taken(b, new, intent, n, c, 0, 0)
      BY <3>1, <3>2
    <3> QED BY <3>1, <3>3 DEF new, price, budget
  <2> QED BY <2>1, <2>2
<1>5. new = [b EXCEPT !.orders = orders, !.cash = cash, !.added = added]
  BY <1>4 DEF AssessBuy, Approved
<1> HIDE DEF price, budget
<1>6. size \in Int /\ cost \in Int /\ (budget > 0 => cost <= budget)
  <2>1. CASE budget > 0
    <3> DEFINE q == budget \div price
    <3>1. q \in Int /\ price * q <= budget
      BY <1>1, <1>2, Quotient
    <3>2. size = Least(intent.size, q)
      BY <2>1
    <3> HIDE DEF q, size
    <3>3. size \in Int /\ size <= q
      BY <1>1, <3>1, <3>2 DEF Least
    <3>4. size * price \in Int /\ size * price <= price * q
      BY <1>1, <3>1, <3>3
    <3>5. price * q \in Int
      BY <1>1, <3>1
    <3> QED BY <1>2, <3>1, <3>3, <3>4, <3>5
  <2>2. CASE ~(budget > 0)
    BY <1>1, <2>2
  <2> QED BY <2>1, <2>2
<1>7. cost >= MinOrder /\ r.cooldown = 0
  BY <1>3, <1>4, <1>6
<1>8. budget > 0
  <2> SUFFICES ASSUME ~(budget > 0) PROVE FALSE
    OBVIOUS
  <2>1. cost = 0
    BY <1>1
  <2> QED BY <1>3, <1>7, <2>1
<1>9. size \in Nat \ {0} /\ cost \in Nat \ {0} /\ cost <= budget
  <2>1. cost \in Nat \ {0} /\ cost <= budget
    BY <1>3, <1>6, <1>7, <1>8
  <2> HIDE DEF size
  <2>2. size > 0
    <3> SUFFICES ASSUME size <= 0 PROVE FALSE
      BY <1>6
    <3>1. size * price <= 0
      BY <1>1, <1>6
    <3> QED BY <2>1, <3>1
  <2> QED BY <1>6, <2>1, <2>2
<1> HIDE DEF size
<1> HIDE DEF cost
<1>10. b.orders \in Seq(Intents) /\ b.cash \in Int /\ b.added \in [Pairs -> Int]
       /\ b.sold \in [Pairs -> Int] /\ b.resulting \in [Pairs -> Int]
  BY DEF Batch
<1>11. orders \in Seq(Intents) /\ cash \in Int
  <2>1. [intent EXCEPT !.size = size] \in Intents
    BY <1>9 DEF Intents
  <2> QED BY <1>9, <1>10, <2>1
<1>12. added \in [Pairs -> Int] /\ \A q \in Pairs : added[q] = b.added[q] + (IF q = p THEN cost ELSE 0)
  <2> HIDE DEF p
  <2> QED BY <1>1, <1>9, <1>10, PairMoved
<1> HIDE DEF orders, cash, added, new
<1>13. /\ new \in Batch /\ new.orders = orders /\ new.cash = cash /\ new.added = added
       /\ new.sold = b.sold /\ new.resulting = b.resulting
  BY <1>5, <1>10, <1>11, <1>12 DEF Batch
<1>14. \A q \in Pairs : b.sold[q] = b.sold[q] + (IF q = intent.pair THEN 0 ELSE 0)
                      /\ b.resulting[q] = b.resulting[q] + (IF q = intent.pair THEN 0 ELSE 0)
  <2> SUFFICES ASSUME NEW q \in Pairs
               PROVE  b.sold[q] = b.sold[q] + 0 /\ b.resulting[q] = b.resulting[q] + 0
    OBVIOUS
  <2>1. b.sold[q] \in Int /\ b.resulting[q] \in Int
    BY <1>10
  <2> QED BY <2>1
<1>15. Taken(b, new, intent, size, cost, 0, 0)
  BY <1>12, <1>13, <1>14 DEF Taken, orders, cash
<1> QED BY <1>7, <1>9, <1>13, <1>15

-----------------------------------------------------------------------------
\* A sale is left out, or approved for what is held and not sold yet.
LEMMA SellAssessed ==
  ASSUME NEW l \in Account, NEW prices, \A p \in Pairs : prices[p] \in Nat,
         NEW b \in Batch, NEW intent \in Intents
  PROVE  LET new == AssessSell(l, prices, b, intent)
         IN  \/ new = b
             \/ /\ new \in Batch
                /\ \E size \in Nat \ {0} :
                     /\ size <= l.pos[intent.pair].size - b.sold[intent.pair]
                     /\ Taken(b, new, intent, size, 0, size, 0)
<1> DEFINE new == AssessSell(l, prices, b, intent)
           p == intent.pair
           held == l.pos[p].size
           size == Least(intent.size, held - b.sold[p])
           orders == Append(b.orders, [intent EXCEPT !.size = size])
           sold == [b.sold EXCEPT ![p] = b.sold[p] + size]
<1>1. /\ b.orders \in Seq(Intents) /\ b.cash \in Int /\ b.added \in [Pairs -> Int]
      /\ b.sold \in [Pairs -> Int] /\ b.resulting \in [Pairs -> Int] /\ p \in Pairs
  BY IntentIs DEF Batch
<1>2. held \in Int /\ b.sold[p] \in Int /\ intent.size \in Nat \ {0}
  BY <1>1, IntentIs DEF Account, Position
<1>3. size \in Int /\ size <= held - b.sold[p]
  BY <1>2 DEF Least
<1>4. CASE size <= 0 \/ (size < held /\ size * PriceOf(intent, prices) < MinOrder)
  BY <1>4 DEF AssessSell
<1>5. CASE ~(size <= 0 \/ (size < held /\ size * PriceOf(intent, prices) < MinOrder))
  <2>1. new = [b EXCEPT !.orders = orders, !.sold = sold]
    BY <1>5 DEF AssessSell, Approved
  <2>2. size \in Nat \ {0}
    BY <1>3, <1>5
  <2> HIDE DEF size, held
  <2>3. orders \in Seq(Intents)
    <3>1. [intent EXCEPT !.size = size] \in Intents
      BY <2>2 DEF Intents
    <3> QED BY <1>1, <3>1
  <2>4. sold \in [Pairs -> Int] /\ \A q \in Pairs : sold[q] = b.sold[q] + (IF q = p THEN size ELSE 0)
    <3> HIDE DEF p
    <3> QED BY <1>1, <2>2, PairMoved
  <2> HIDE DEF orders, sold, new
  <2>5. /\ new \in Batch /\ new.orders = orders /\ new.sold = sold /\ new.cash = b.cash
        /\ new.added = b.added /\ new.resulting = b.resulting
    BY <1>1, <2>1, <2>3, <2>4 DEF Batch
  <2>6. \A q \in Pairs : b.added[q] = b.added[q] + 0 /\ b.resulting[q] = b.resulting[q] + 0
    <3> SUFFICES ASSUME NEW q \in Pairs
                 PROVE  b.added[q] = b.added[q] + 0 /\ b.resulting[q] = b.resulting[q] + 0
      OBVIOUS
    <3>1. b.added[q] \in Int /\ b.resulting[q] \in Int
      BY <1>1
    <3> QED BY <3>1
  <2>7. new.cash = b.cash - 0
    BY <1>1, <2>5
  <2>8. Taken(b, new, intent, size, 0, size, 0)
    BY <2>4, <2>5, <2>6, <2>7 DEF Taken, orders
  <2> QED BY <1>3, <2>2, <2>5, <2>8 DEF held, new
<1> QED BY <1>4, <1>5

\* What is held of the other pairs, at the given prices.
Others(b, intent, prices) ==
  SumFunctionOnSet([p \in Pairs |-> Abs(b.resulting[p]) * prices[p]], Pairs \ {intent.pair})
Room(b, intent, prices) == Max({0, Least(MaxPosition, MaxGross - Others(b, intent, prices))})

\* Room is never negative and stays inside both caps.
LEMMA RoomIs ==
  ASSUME NEW prices, \A p \in Pairs : prices[p] \in Nat, NEW b \in Batch, NEW intent \in Intents
  PROVE  /\ Others(b, intent, prices) \in Int /\ Room(b, intent, prices) \in Nat
         /\ Room(b, intent, prices) <= MaxPosition
         /\ Room(b, intent, prices) = 0 \/ Room(b, intent, prices) <= MaxGross - Others(b, intent, prices)
<1> DEFINE f == [p \in Pairs |-> Abs(b.resulting[p]) * prices[p]]
           others == Others(b, intent, prices)
           least == Least(MaxPosition, MaxGross - others)
<1>1. \A p \in Pairs : f[p] \in Int
  <2> SUFFICES ASSUME NEW p \in Pairs PROVE f[p] \in Int
    OBVIOUS
  <2>1. b.resulting[p] \in Int /\ prices[p] \in Int
    BY DEF Batch
  <2>2. Abs(b.resulting[p]) \in Int
    BY <2>1 DEF Abs
  <2>3. Abs(b.resulting[p]) * prices[p] \in Int
    BY <2>1, <2>2, Product
  <2> QED BY <2>3
<1> HIDE DEF f
<1>2. others \in Int
  <2>1. IsFiniteSet(Pairs \ {intent.pair}) /\ \A p \in Pairs \ {intent.pair} : f[p] \in Int
    BY <1>1, PairsFinite, FS_Subset
  <2>2. SumFunctionOnSet(f, Pairs \ {intent.pair}) \in Int
    BY <2>1, SumTakes
  <2> QED BY <2>2 DEF Others, f
<1>3. Room(b, intent, prices) = Max({0, least})
  BY DEF Room
<1> HIDE DEF others
<1>4. least \in Int /\ least <= MaxPosition /\ least <= MaxGross - others
  BY <1>2, RiskAssumption DEF Least
<1> HIDE DEF least
<1>5. Max({0, least}) \in {0, least} /\ Max({0, least}) >= 0
  <2>1. 0 \in Int /\ least \in Int
    BY <1>4
  <2> QED BY <2>1, MaxOfTwo, Zenon
<1>6. Max({0, least}) = 0 \/ Max({0, least}) = least
  BY <1>5
<1>7. MaxPosition \in Nat
  BY RiskAssumption
<1> QED BY <1>2, <1>3, <1>4, <1>5, <1>6, <1>7 DEF others

\* An intent of a perp is left out, or approved up to where the position has
\* no more value than there is room for.
LEMMA PerpAssessed ==
  ASSUME NEW r, NEW prices, \A p \in Pairs : prices[p] \in Nat,
         NEW b \in Batch, NEW intent \in Intents, PriceOf(intent, prices) # 0
  PROVE  LET new == AssessPerp(r, prices, b, intent)
         IN  \/ new = b
             \/ /\ new \in Batch
                /\ \E size \in Nat \ {0} :
                     LET move == Direction(intent) * size
                     IN  /\ Abs(b.resulting[intent.pair] + move) * PriceOf(intent, prices)
                              <= Room(b, intent, prices)
                         /\ Taken(b, new, intent, size, 0, 0, move)
<1> DEFINE new == AssessPerp(r, prices, b, intent)
           p == intent.pair
           price == PriceOf(intent, prices)
           current == b.resulting[p]
           dir == Direction(intent)
           delta == dir * intent.size
           room == Room(b, intent, prices)
           cap == room \div price
           d == Least(Max({delta, -cap - current}), cap - current)
           size == Abs(d)
           dust == size * price < MinOrder /\ current + d # 0
           idle == r.cooldown > 0 /\ Abs(current + d) > Abs(current)
           orders == Append(b.orders, [intent EXCEPT !.size = size])
           moved == [b.resulting EXCEPT ![p] = b.resulting[p] + d]
<1>1. /\ b.orders \in Seq(Intents) /\ b.cash \in Int /\ b.added \in [Pairs -> Int]
      /\ b.sold \in [Pairs -> Int] /\ b.resulting \in [Pairs -> Int] /\ p \in Pairs
  BY IntentIs DEF Batch
<1>2. current \in Int /\ intent.size \in Nat \ {0} /\ dir \in {1, -1} /\ price \in Nat \ {0}
  BY <1>1, IntentIs
<1>3. AssessPerp(r, prices, b, intent) =
        IF delta * d <= 0 \/ idle \/ dust
        THEN b
        ELSE [b EXCEPT !.orders = orders, !.resulting = moved]
  BY DEF AssessPerp, Approved, Room, Others
<1>4. room \in Nat
  BY RoomIs
<1> HIDE DEF dir, price, room
<1>5. cap \in Nat /\ cap * price <= room
  <2>1. room \div price \in Int /\ price * (room \div price) <= room /\ room < price * (room \div price) + price
    BY <1>2, <1>4, Quotient
  <2> HIDE DEF cap
  <2>2. cap \in Int /\ price * cap <= room /\ room < price * cap + price
    BY <2>1 DEF cap
  <2>3. cap >= 0
    <3> SUFFICES ASSUME cap + 1 <= 0 PROVE FALSE
      BY <2>2
    <3>1. price * (cap + 1) <= 0 /\ price * (cap + 1) = price * cap + price /\ price * cap \in Int
      BY <1>2, <2>2
    <3> QED BY <1>2, <1>4, <2>2, <3>1
  <2>4. cap * price = price * cap
    BY <1>2, <2>2
  <2> QED BY <2>2, <2>3, <2>4
<1> HIDE DEF cap, current
<1>6. delta \in Int /\ (delta > 0 <=> dir = 1) /\ (delta < 0 <=> dir = -1)
  BY <1>2
<1> HIDE DEF delta
<1>7. d \in Int /\ d <= cap - current /\ d >= -cap - current
  <2> DEFINE m == Max({delta, -cap - current})
  <2>1. delta \in Int /\ -cap - current \in Int
    BY <1>2, <1>5, <1>6
  <2>2. m \in {delta, -cap - current} /\ m >= -cap - current
    BY <2>1, MaxOfTwo, Zenon
  <2> HIDE DEF m
  <2>3. m \in Int
    BY <2>1, <2>2
  <2>4. Least(m, cap - current) \in Int /\ Least(m, cap - current) <= cap - current
        /\ Least(m, cap - current) >= -cap - current
    BY <1>2, <1>5, <2>2, <2>3 DEF Least
  <2> QED BY <2>4 DEF m
<1> HIDE DEF d
<1>8. CASE delta * d <= 0 \/ idle \/ dust
  <2>1. new = b
    BY <1>3, <1>8
  <2> QED BY <2>1
<1>9. CASE ~(delta * d <= 0 \/ idle \/ dust)
  <2>1. new = [b EXCEPT !.orders = orders, !.resulting = moved]
    BY <1>3, <1>9
  <2>2. ~(delta * d <= 0)
    BY <1>9
  <2>3. size \in Nat \ {0} /\ d = dir * size
    <3>1. CASE dir = 1
      <4>1. d > 0
        BY <1>6, <1>7, <2>2, <3>1
      <4> QED BY <1>7, <3>1, <4>1 DEF Abs
    <3>2. CASE dir = -1
      <4>1. d < 0
        BY <1>6, <1>7, <2>2, <3>2
      <4> QED BY <1>7, <3>2, <4>1 DEF Abs
    <3> QED BY <1>2, <3>1, <3>2
  <2> HIDE DEF size, orders, moved, new, dust, idle
  <2>4. Abs(current + d) * price <= room
    <3> DEFINE a == Abs(current + d)
    <3>1. a \in Nat /\ a <= cap
      BY <1>2, <1>5, <1>7 DEF Abs
    <3> HIDE DEF a
    <3>2. a * price <= cap * price
      BY <1>2, <1>5, <3>1
    <3>3. a * price \in Int /\ cap * price \in Int
      BY <1>2, <1>5, <3>1, Product
    <3>4. a * price <= room
      BY <1>4, <1>5, <3>2, <3>3
    <3> QED BY <3>4 DEF a
  <2>5. orders \in Seq(Intents)
    <3>1. [intent EXCEPT !.size = size] \in Intents
      BY <2>3 DEF Intents
    <3> QED BY <1>1, <3>1 DEF orders
  <2>6. moved \in [Pairs -> Int]
        /\ \A q \in Pairs : moved[q] = b.resulting[q] + (IF q = p THEN d ELSE 0)
    <3> HIDE DEF p
    <3> QED BY <1>1, <1>7, PairMoved DEF moved
  <2>7. /\ new \in Batch /\ new.orders = orders /\ new.resulting = moved /\ new.cash = b.cash
        /\ new.added = b.added /\ new.sold = b.sold
    BY <1>1, <2>1, <2>5, <2>6 DEF Batch
  <2>8. \A q \in Pairs : b.added[q] = b.added[q] + 0 /\ b.sold[q] = b.sold[q] + 0
    <3> SUFFICES ASSUME NEW q \in Pairs
                 PROVE  b.added[q] = b.added[q] + 0 /\ b.sold[q] = b.sold[q] + 0
      OBVIOUS
    <3>1. b.added[q] \in Int /\ b.sold[q] \in Int
      BY <1>1
    <3> QED BY <3>1
  <2>9. new.cash = b.cash - 0
    BY <1>1, <2>7
  <2>10. Taken(b, new, intent, size, 0, 0, dir * size)
    BY <2>3, <2>6, <2>7, <2>8, <2>9 DEF Taken, orders
  <2>11. Abs(current + dir * size) * price <= room
    BY <2>3, <2>4
  <2> QED BY <2>3, <2>7, <2>10, <2>11 DEF new, current, price, room, dir
<1> QED BY <1>8, <1>9

-----------------------------------------------------------------------------
\* What an order contributes, in its pair, to what a batch buys, sells and
\* moves the position by.
Kinds == {"cost", "sold", "move"}
Part(kind, order, p) ==
  IF order.pair # p THEN 0
  ELSE CASE kind = "cost" -> IF order.side = "buy" THEN order.size * PriceOf(order, closes) ELSE 0
         [] kind = "sold" -> IF order.side = "sell" THEN order.size ELSE 0
         [] kind = "move" -> Direction(order) * order.size
Parts(kind, orders, p) == [i \in DOMAIN orders |-> Part(kind, orders[i], p)]

\* An intent, or an order made of one.
IsOrder(order) ==
  order.side \in Sides /\ order.size \in Nat /\ order.limit \in Nat /\ order.pair \in Pairs

\* Every part of an order is a number; cost and units sold are not negative.
LEMMA PartIs ==
  ASSUME \A p \in Pairs : closes[p] \in Nat, NEW order, IsOrder(order), NEW kind \in Kinds, NEW p
  PROVE  Part(kind, order, p) \in Int /\ (kind # "move" => Part(kind, order, p) >= 0)
<1>1. /\ order.size \in Nat /\ PriceOf(order, closes) \in Nat /\ Direction(order) \in {1, -1}
  BY DEF IsOrder, PriceOf, Direction
<1>2. order.size * PriceOf(order, closes) \in Nat
  BY <1>1, Product
<1>3. Direction(order) * order.size \in Int
  BY <1>1
<1>4. CASE kind = "cost"
  BY <1>2, <1>4 DEF Part
<1>5. CASE kind = "sold"
  BY <1>1, <1>5 DEF Part
<1>6. CASE kind = "move"
  BY <1>3, <1>6 DEF Part
<1> QED BY <1>4, <1>5, <1>6 DEF Kinds

\* The parts with an order more, and their sums.
LEMMA PartsGrow ==
  ASSUME \A p \in Pairs : closes[p] \in Nat, NEW S, \A x \in S : IsOrder(x),
         NEW orders \in Seq(S), NEW order \in S, NEW kind \in Kinds, NEW p
  PROVE  LET more == Append(orders, order)
             n    == Len(orders)
         IN  /\ \A i \in 1 .. n : /\ Parts(kind, more, p)[i] = Parts(kind, orders, p)[i]
                                  /\ Parts(kind, orders, p)[i] \in Int
             /\ Parts(kind, more, p)[n + 1] = Part(kind, order, p)
             /\ Part(kind, order, p) \in Int
             /\ SumFunction(Parts(kind, more, p))
                  = SumFunction(Parts(kind, orders, p)) + Part(kind, order, p)
             /\ SumFunction(Parts(kind, orders, p)) \in Int
             /\ \A i \in 1 .. n : SumFunctionOnSet(Parts(kind, more, p), 1 .. i)
                                    = SumFunctionOnSet(Parts(kind, orders, p), 1 .. i)
<1> DEFINE more == Append(orders, order)
           n == Len(orders)
           f == Parts(kind, orders, p)
           g == Parts(kind, more, p)
<1>1. /\ more \in Seq(S) /\ Len(more) = n + 1 /\ n \in Nat /\ DOMAIN more = 1 .. n + 1
      /\ more[n + 1] = order /\ \A i \in 1 .. n : more[i] = orders[i] /\ orders[i] \in S
      /\ DOMAIN orders = 1 .. n
  OBVIOUS
<1> HIDE DEF more, n
<1>2. \A i \in 1 .. n + 1 : more[i] \in S
  BY <1>1
<1>3. \A x \in S : Part(kind, x, p) \in Int
  BY PartIs
<1>4. f \in [1 .. n -> Int] /\ g \in [1 .. n + 1 -> Int]
  BY <1>1, <1>2, <1>3 DEF Parts
<1>5. \A i \in 1 .. n : i \in 1 .. n + 1 /\ g[i] = f[i] /\ f[i] \in Int
  <2>1. \A i \in 1 .. n : i \in 1 .. n + 1
    BY <1>1
  <2> QED BY <1>1, <1>3, <2>1 DEF Parts
<1>6. g[n + 1] = Part(kind, order, p)
  <2>1. n + 1 \in 1 .. n + 1
    BY <1>1
  <2> QED BY <1>1, <2>1 DEF Parts
<1> HIDE DEF f, g
<1>7. SumFunction(g) = SumFunction(f) + g[n + 1] /\ SumFunction(f) \in Int
  BY <1>1, <1>4, <1>5, SumAppended
<1>8. \A i \in 1 .. n : SumFunctionOnSet(g, 1 .. i) = SumFunctionOnSet(f, 1 .. i)
  <2> SUFFICES ASSUME NEW i \in 1 .. n
               PROVE  SumFunctionOnSet(g, 1 .. i) = SumFunctionOnSet(f, 1 .. i)
    OBVIOUS
  <2>1. i \in Nat /\ \A k \in 1 .. i : k \in 1 .. n
    BY <1>1
  <2>2. IsFiniteSet(1 .. i)
    BY <2>1, FS_Interval
  <2> QED BY <1>5, <2>1, <2>2, SumSame
<1> QED BY <1>3, <1>5, <1>6, <1>7, <1>8 DEF f, g, more, n

\* The batch of a spot account so far.
Held == SumFunction([p \in Pairs |-> Exposure(ledger, p, closes)])
SpotBatch ==
  {b \in Batch :
     /\ b.cash >= 0 /\ b.cash + SumFunction(b.added) = ledger.cash
     /\ SumFunction(b.added) > 0 => SumFunction(b.added) + Held <= MaxGross
     /\ \A p \in Pairs : /\ b.added[p] = SumFunction(Parts("cost", b.orders, p))
                         /\ b.sold[p] = SumFunction(Parts("sold", b.orders, p))
                         /\ b.sold[p] <= ledger.pos[p].size
     /\ \A i \in DOMAIN b.orders : b.orders[i].side = "buy" =>
          /\ risk.cooldown = 0
          /\ LET p == b.orders[i].pair
             IN  ledger.pos[p].size * PriceOf(b.orders[i], closes)
                   + SumFunctionOnSet(Parts("cost", b.orders, p), 1 .. i) <= MaxPosition}

\* The batch of a perp so far.
Magnitude(sizes) == SumFunction([p \in Pairs |-> Abs(sizes[p]) * closes[p]])
PerpBatch ==
  {b \in Batch :
     /\ \A p \in Pairs :
          b.resulting[p] = ledger.pos[p].size + SumFunction(Parts("move", b.orders, p))
     /\ (\A i \in DOMAIN b.orders : b.orders[i].limit = 0) =>
          /\ \A p \in Pairs : Abs(b.resulting[p]) * closes[p]
                              <= Max({MaxPosition, Abs(ledger.pos[p].size) * closes[p]})
          /\ Magnitude(b.resulting) <= Max({MaxGross, Magnitude([p \in Pairs |-> ledger.pos[p].size])})}

\* One pair's entry moves.
PairMoves(f, g, p, d) == \A q \in Pairs : g[q] = f[q] + (IF q = p THEN d ELSE 0)

\* A sum over the pairs when one number changes.
LEMMA PairSumMoves ==
  ASSUME NEW f \in [Pairs -> Int], NEW g \in [Pairs -> Int], NEW p \in Pairs, NEW d \in Int,
         PairMoves(f, g, p, d)
  PROVE  SumFunction(g) = SumFunction(f) + d /\ SumFunction(f) \in Int
<1>1. \A q \in Pairs : f[q] \in Int /\ g[q] \in Int /\ (q # p => g[q] = f[q])
  BY DEF PairMoves
<1>2. SumFunctionOnSet(g, Pairs) = SumFunctionOnSet(f, Pairs) + g[p] - f[p]
  BY <1>1, PairsFinite, SumMoves
<1>3. SumFunctionOnSet(f, Pairs) \in Int
  BY <1>1, PairsFinite, SumTakes
<1>4. g[p] = f[p] + d /\ f[p] \in Int
  BY DEF PairMoves
<1>5. SumFunctionOnSet(g, Pairs) = SumFunctionOnSet(f, Pairs) + d
  BY <1>2, <1>3, <1>4
<1> QED BY <1>3, <1>5 DEF SumFunction

\* The orders with one more.
OneMore(old, new, order) ==
  /\ Len(old.orders) \in Nat /\ DOMAIN new.orders = 1 .. Len(old.orders) + 1
  /\ new.orders[Len(old.orders) + 1] = order
  /\ \A i \in 1 .. Len(old.orders) : new.orders[i] = old.orders[i] /\ old.orders[i].pair \in Pairs
  /\ \A kind \in Kinds, p \in Pairs :
       /\ SumFunction(Parts(kind, new.orders, p))
            = SumFunction(Parts(kind, old.orders, p)) + Part(kind, order, p)
       /\ SumFunction(Parts(kind, old.orders, p)) \in Int
       /\ \A i \in 1 .. Len(old.orders) : SumFunctionOnSet(Parts(kind, new.orders, p), 1 .. i)
                                           = SumFunctionOnSet(Parts(kind, old.orders, p), 1 .. i)
       /\ SumFunctionOnSet(Parts(kind, new.orders, p), 1 .. Len(old.orders) + 1)
            = SumFunction(Parts(kind, new.orders, p))

\* What the risk manager takes is one order more, and its parts are added.
LEMMA OrderTaken ==
  ASSUME \A p \in Pairs : closes[p] \in Nat, NEW old \in Batch, NEW new, NEW intent \in Intents,
         NEW size \in Nat \ {0}, NEW cost, NEW sold, NEW move,
         Taken(old, new, intent, size, cost, sold, move)
  PROVE  \E order \in Intents :
           /\ OneMore(old, new, order)
           /\ order.pair = intent.pair /\ order.side = intent.side /\ order.size = size
           /\ order.limit = intent.limit /\ PriceOf(order, closes) = PriceOf(intent, closes)
<1> DEFINE order == [intent EXCEPT !.size = size]
           n == Len(old.orders)
<1>1. /\ old.orders \in Seq(Intents) /\ new.orders = Append(old.orders, order)
      /\ order \in Intents
  BY DEF Batch, Taken, Intents
<1>2. /\ n \in Nat /\ DOMAIN new.orders = 1 .. n + 1 /\ new.orders[n + 1] = order
      /\ \A i \in 1 .. n : new.orders[i] = old.orders[i] /\ old.orders[i] \in Intents
  BY <1>1
<1>3. /\ order.pair = intent.pair /\ order.side = intent.side /\ order.size = size
      /\ order.limit = intent.limit
  BY DEF Intents
<1> HIDE DEF order, n
<1>4. \A x \in Intents : IsOrder(x) /\ x.pair \in Pairs
  BY DEF Intents, IsOrder, Sides
<1>5. ASSUME NEW kind \in Kinds, NEW p \in Pairs
      PROVE  /\ SumFunction(Parts(kind, new.orders, p))
                  = SumFunction(Parts(kind, old.orders, p)) + Part(kind, order, p)
             /\ SumFunction(Parts(kind, old.orders, p)) \in Int
             /\ \A i \in 1 .. n : SumFunctionOnSet(Parts(kind, new.orders, p), 1 .. i)
                                    = SumFunctionOnSet(Parts(kind, old.orders, p), 1 .. i)
  BY <1>1, <1>4, PartsGrow DEF n
<1>6. \A kind \in Kinds, p \in Pairs :
        SumFunctionOnSet(Parts(kind, new.orders, p), 1 .. n + 1) = SumFunction(Parts(kind, new.orders, p))
  BY <1>2 DEF SumFunction, Parts
<1>7. PriceOf(order, closes) = PriceOf(intent, closes)
  BY <1>3 DEF PriceOf
<1>8. OneMore(old, new, order)
  BY <1>2, <1>4, <1>5, <1>6 DEF OneMore, n
<1> QED BY <1>1, <1>3, <1>7, <1>8

-----------------------------------------------------------------------------
\* A buy more keeps a spot batch inside the cash and both caps.
LEMMA SpotBuyKept ==
  ASSUME ledger \in Account, risk \in RiskState, \A p \in Pairs : closes[p] \in Nat,
         NEW b \in SpotBatch, NEW intent \in Intents, intent.side = "buy",
         PriceOf(intent, closes) # 0
  PROVE  AssessBuy(ledger, risk, closes, b, intent) \in SpotBatch
<1> DEFINE new == AssessBuy(ledger, risk, closes, b, intent)
           p == intent.pair
           price == PriceOf(intent, closes)
<1>1. /\ b \in Batch /\ b.cash >= 0 /\ b.cash + SumFunction(b.added) = ledger.cash
      /\ SumFunction(b.added) > 0 => SumFunction(b.added) + Held <= MaxGross
      /\ \A q \in Pairs : /\ b.added[q] = SumFunction(Parts("cost", b.orders, q))
                          /\ b.sold[q] = SumFunction(Parts("sold", b.orders, q))
                          /\ b.sold[q] <= ledger.pos[q].size
      /\ \A i \in DOMAIN b.orders : b.orders[i].side = "buy" =>
           /\ risk.cooldown = 0
           /\ ledger.pos[b.orders[i].pair].size * PriceOf(b.orders[i], closes)
                + SumFunctionOnSet(Parts("cost", b.orders, b.orders[i].pair), 1 .. i) <= MaxPosition
  BY DEF SpotBatch
<1>2. SUFFICES ASSUME new # b PROVE new \in SpotBatch
  OBVIOUS
<1>3. PICK size \in Nat \ {0}, cost \in Nat \ {0} :
        /\ new \in Batch /\ risk.cooldown = 0
        /\ cost = size * price /\ cost <= Budget(ledger, closes, b, intent)
        /\ Taken(b, new, intent, size, cost, 0, 0)
  <2> HIDE DEF new
  <2> QED BY <1>1, <1>2, BuyAssessed DEF new
<1> HIDE DEF new
<1> DEFINE n == Len(b.orders)
<1>4. PICK order \in Intents :
        /\ OneMore(b, new, order) /\ order.pair = p /\ order.side = "buy" /\ order.size = size
        /\ PriceOf(order, closes) = PriceOf(intent, closes)
  BY <1>1, <1>3, OrderTaken
<1>13. /\ n \in Nat /\ DOMAIN new.orders = 1 .. n + 1 /\ new.orders[n + 1] = order
      /\ \A i \in 1 .. n : new.orders[i] = b.orders[i] /\ b.orders[i].pair \in Pairs
  BY <1>4 DEF OneMore
<1>14. \A kind \in Kinds, q \in Pairs :
         /\ SumFunction(Parts(kind, new.orders, q))
              = SumFunction(Parts(kind, b.orders, q)) + Part(kind, order, q)
         /\ SumFunction(Parts(kind, b.orders, q)) \in Int
         /\ SumFunctionOnSet(Parts(kind, new.orders, q), 1 .. n + 1)
              = SumFunction(Parts(kind, new.orders, q))
  BY <1>4 DEF OneMore
<1>15. \A kind \in Kinds, q \in Pairs, i \in 1 .. n :
         SumFunctionOnSet(Parts(kind, new.orders, q), 1 .. i)
           = SumFunctionOnSet(Parts(kind, b.orders, q), 1 .. i)
  BY <1>4 DEF OneMore
<1> HIDE DEF n
<1>5. \A q \in Pairs : /\ Part("cost", order, q) = IF q = p THEN cost ELSE 0
                       /\ Part("sold", order, q) = 0
  BY <1>3, <1>4, <1>13 DEF Part
<1>6. /\ new.cash = b.cash - cost
      /\ \A q \in Pairs : /\ new.added[q] = b.added[q] + (IF q = p THEN cost ELSE 0)
                          /\ new.sold[q] = b.sold[q] + 0
      /\ b.cash \in Int /\ b.added \in [Pairs -> Int] /\ b.sold \in [Pairs -> Int]
      /\ new.added \in [Pairs -> Int] /\ new.sold \in [Pairs -> Int] /\ p \in Pairs
  BY <1>1, <1>3, IntentIs DEF Taken, Batch
<1>7. /\ Budget(ledger, closes, b, intent) \in Int
      /\ Budget(ledger, closes, b, intent) <= MaxPosition - ledger.pos[p].size * price - b.added[p]
      /\ Budget(ledger, closes, b, intent) <= MaxGross - Held - SumFunction(b.added)
      /\ Budget(ledger, closes, b, intent) <= b.cash
      /\ Held \in Int
  BY <1>1, BudgetIs DEF Held
<1>8. SumFunction(new.added) = SumFunction(b.added) + cost /\ SumFunction(b.added) \in Int
  <2> DEFINE f == b.added
             g == new.added
  <2>1. /\ f \in [Pairs -> Int] /\ g \in [Pairs -> Int] /\ p \in Pairs /\ cost \in Int
        /\ PairMoves(f, g, p, cost)
    BY <1>3, <1>6 DEF PairMoves
  <2> HIDE DEF f, g, p
  <2>2. SumFunction(g) = SumFunction(f) + cost /\ SumFunction(f) \in Int
    BY ONLY <2>1, PairSumMoves
  <2> QED BY <2>2 DEF f, g
<1>9. MaxPosition \in Nat /\ MaxGross \in Nat
  BY RiskAssumption
<1>10. new.cash >= 0 /\ new.cash + SumFunction(new.added) = ledger.cash
       /\ SumFunction(new.added) + Held <= MaxGross
  <2> HIDE DEF p, price
  <2> DEFINE before == SumFunction(b.added)
             after == SumFunction(new.added)
             have == b.cash
             left == new.cash
             all == ledger.cash
  <2>1. cost <= have /\ cost <= MaxGross - Held - before
    BY <1>3, <1>6, <1>7, <1>8, <1>9
  <2>2. /\ after = before + cost /\ left = have - cost /\ have + before = all
        /\ before \in Int /\ have \in Int /\ cost \in Int /\ Held \in Int /\ MaxGross \in Int
    BY <1>1, <1>3, <1>6, <1>7, <1>8, <1>9
  <2> HIDE DEF before, after, have, left, all
  <2>3. left >= 0 /\ left + after = all /\ after + Held <= MaxGross
    BY ONLY <2>1, <2>2
  <2> QED BY <2>3 DEF before, after, have, left, all
<1>11. \A q \in Pairs : /\ new.added[q] = SumFunction(Parts("cost", new.orders, q))
                        /\ new.sold[q] = SumFunction(Parts("sold", new.orders, q))
                        /\ new.sold[q] <= ledger.pos[q].size
  <2> SUFFICES ASSUME NEW q \in Pairs
               PROVE  /\ new.added[q] = SumFunction(Parts("cost", new.orders, q))
                      /\ new.sold[q] = SumFunction(Parts("sold", new.orders, q))
                      /\ new.sold[q] <= ledger.pos[q].size
    OBVIOUS
  <2>1. /\ b.added[q] = SumFunction(Parts("cost", b.orders, q))
        /\ b.sold[q] = SumFunction(Parts("sold", b.orders, q)) /\ b.sold[q] \in Int
        /\ b.sold[q] <= ledger.pos[q].size
    BY <1>1, <1>6
  <2>2. /\ SumFunction(Parts("cost", new.orders, q))
             = SumFunction(Parts("cost", b.orders, q)) + (IF q = p THEN cost ELSE 0)
        /\ SumFunction(Parts("sold", new.orders, q)) = SumFunction(Parts("sold", b.orders, q)) + 0
    <3>1. "cost" \in Kinds /\ "sold" \in Kinds
      BY DEF Kinds
    <3> QED BY <1>14, <1>5, <3>1
  <2>3. new.sold[q] = b.sold[q]
    BY <1>6, <2>1
  <2> QED BY <1>6, <2>1, <2>2, <2>3
<1>12. \A i \in DOMAIN new.orders : new.orders[i].side = "buy" =>
         /\ risk.cooldown = 0
         /\ ledger.pos[new.orders[i].pair].size * PriceOf(new.orders[i], closes)
              + SumFunctionOnSet(Parts("cost", new.orders, new.orders[i].pair), 1 .. i) <= MaxPosition
  <2> SUFFICES ASSUME NEW i \in DOMAIN new.orders, new.orders[i].side = "buy"
               PROVE  ledger.pos[new.orders[i].pair].size * PriceOf(new.orders[i], closes)
                        + SumFunctionOnSet(Parts("cost", new.orders, new.orders[i].pair), 1 .. i)
                          <= MaxPosition
    BY <1>3
  <2>1. CASE i \in 1 .. n
    <3>1. new.orders[i] = b.orders[i] /\ i \in DOMAIN b.orders /\ b.orders[i] \in Intents
      BY <1>1, <1>4, <1>13, <2>1 DEF Batch, n
    <3>2. b.orders[i].pair \in Pairs
      BY <3>1, IntentIs
    <3>3. SumFunctionOnSet(Parts("cost", new.orders, b.orders[i].pair), 1 .. i)
            = SumFunctionOnSet(Parts("cost", b.orders, b.orders[i].pair), 1 .. i)
      BY <1>15, <2>1, <3>2 DEF Kinds
    <3> QED BY <1>1, <3>1, <3>3
  <2>2. CASE i = n + 1
    <3> DEFINE value == ledger.pos[p].size * price
    <3>1. new.orders[i] = order /\ new.orders[i].pair = p
      BY <1>4, <1>13, <2>2
    <3>2. SumFunctionOnSet(Parts("cost", new.orders, p), 1 .. i) = new.added[p]
      <4>1. "cost" \in Kinds /\ p \in Pairs
        BY <1>6 DEF Kinds
      <4> QED BY <1>14, <1>11, <2>2, <4>1
    <3>3. new.added[p] = b.added[p] + cost /\ b.added[p] \in Int
      BY <1>6
    <3>4. value \in Int
      <4>1. ledger.pos[p].size \in Int /\ price \in Int
        BY <1>6, IntentIs DEF Account, Position
      <4> QED BY <4>1, Product
    <3>5. Budget(ledger, closes, b, intent) <= MaxPosition - value - b.added[p]
      BY <1>7
    <3>6. cost <= Budget(ledger, closes, b, intent) /\ PriceOf(order, closes) = price
      BY <1>3, <1>4, <1>13
    <3> HIDE DEF value, p, price
    <3>7. value + new.added[p] <= MaxPosition
      BY <1>7, <1>9, <3>3, <3>4, <3>5, <3>6
    <3> QED BY <3>1, <3>2, <3>6, <3>7 DEF value
  <2>3. i \in 1 .. n \/ i = n + 1
    BY <1>4, <1>13
  <2> QED BY <2>1, <2>2, <2>3
<1> QED BY <1>3, <1>10, <1>11, <1>12 DEF SpotBatch

\* A sale more keeps it within what is held.
LEMMA SpotSellKept ==
  ASSUME ledger \in Account, \A p \in Pairs : closes[p] \in Nat,
         NEW b \in SpotBatch, NEW intent \in Intents, intent.side = "sell"
  PROVE  AssessSell(ledger, closes, b, intent) \in SpotBatch
<1> DEFINE new == AssessSell(ledger, closes, b, intent)
           p == intent.pair
<1>1. /\ b \in Batch /\ b.cash >= 0 /\ b.cash + SumFunction(b.added) = ledger.cash
      /\ SumFunction(b.added) > 0 => SumFunction(b.added) + Held <= MaxGross
      /\ \A q \in Pairs : /\ b.added[q] = SumFunction(Parts("cost", b.orders, q))
                          /\ b.sold[q] = SumFunction(Parts("sold", b.orders, q))
                          /\ b.sold[q] <= ledger.pos[q].size
      /\ \A i \in DOMAIN b.orders : b.orders[i].side = "buy" =>
           /\ risk.cooldown = 0
           /\ ledger.pos[b.orders[i].pair].size * PriceOf(b.orders[i], closes)
                + SumFunctionOnSet(Parts("cost", b.orders, b.orders[i].pair), 1 .. i) <= MaxPosition
  BY DEF SpotBatch
<1>2. SUFFICES ASSUME new # b PROVE new \in SpotBatch
  OBVIOUS
<1>3. PICK size \in Nat \ {0} :
        /\ new \in Batch /\ size <= ledger.pos[p].size - b.sold[p]
        /\ Taken(b, new, intent, size, 0, size, 0)
  <2> HIDE DEF new
  <2> QED BY <1>1, <1>2, SellAssessed DEF new
<1> HIDE DEF new
<1> DEFINE n == Len(b.orders)
<1>4. PICK order \in Intents :
        /\ OneMore(b, new, order) /\ order.pair = p /\ order.side = "sell" /\ order.size = size
        /\ PriceOf(order, closes) = PriceOf(intent, closes)
  BY <1>1, <1>3, OrderTaken
<1>13. /\ n \in Nat /\ DOMAIN new.orders = 1 .. n + 1 /\ new.orders[n + 1] = order
      /\ \A i \in 1 .. n : new.orders[i] = b.orders[i] /\ b.orders[i].pair \in Pairs
  BY <1>4 DEF OneMore
<1>14. \A kind \in Kinds, q \in Pairs :
         /\ SumFunction(Parts(kind, new.orders, q))
              = SumFunction(Parts(kind, b.orders, q)) + Part(kind, order, q)
         /\ SumFunction(Parts(kind, b.orders, q)) \in Int
         /\ SumFunctionOnSet(Parts(kind, new.orders, q), 1 .. n + 1)
              = SumFunction(Parts(kind, new.orders, q))
  BY <1>4 DEF OneMore
<1>15. \A kind \in Kinds, q \in Pairs, i \in 1 .. n :
         SumFunctionOnSet(Parts(kind, new.orders, q), 1 .. i)
           = SumFunctionOnSet(Parts(kind, b.orders, q), 1 .. i)
  BY <1>4 DEF OneMore
<1> HIDE DEF n
<1>5. \A q \in Pairs : /\ Part("sold", order, q) = IF q = p THEN size ELSE 0
                       /\ Part("cost", order, q) = 0
  BY <1>4, <1>13 DEF Part
<1>6. /\ new.cash = b.cash - 0
      /\ \A q \in Pairs : /\ new.added[q] = b.added[q] + (IF q = p THEN 0 ELSE 0)
                          /\ new.sold[q] = b.sold[q] + (IF q = p THEN size ELSE 0)
      /\ b.cash \in Int /\ b.added \in [Pairs -> Int] /\ b.sold \in [Pairs -> Int]
      /\ new.added \in [Pairs -> Int] /\ new.sold \in [Pairs -> Int] /\ p \in Pairs
  BY <1>1, <1>3, IntentIs DEF Taken, Batch
<1>7. new.cash = b.cash /\ new.added = b.added
  <2>1. \A q \in Pairs : b.added[q] \in Int /\ new.added[q] = b.added[q] + 0
    BY <1>6
  <2>2. \A q \in Pairs : new.added[q] = b.added[q]
    BY <2>1
  <2> QED BY <1>6, <2>2
<1>8. \A q \in Pairs : /\ new.added[q] = SumFunction(Parts("cost", new.orders, q))
                       /\ new.sold[q] = SumFunction(Parts("sold", new.orders, q))
                       /\ new.sold[q] <= ledger.pos[q].size
  <2> SUFFICES ASSUME NEW q \in Pairs
               PROVE  /\ new.added[q] = SumFunction(Parts("cost", new.orders, q))
                      /\ new.sold[q] = SumFunction(Parts("sold", new.orders, q))
                      /\ new.sold[q] <= ledger.pos[q].size
    OBVIOUS
  <2>1. /\ b.added[q] = SumFunction(Parts("cost", b.orders, q)) /\ b.added[q] \in Int
        /\ b.sold[q] = SumFunction(Parts("sold", b.orders, q)) /\ b.sold[q] \in Int
        /\ b.sold[q] <= ledger.pos[q].size /\ ledger.pos[q].size \in Int
    BY <1>1, <1>6 DEF Account, Position
  <2>2. /\ SumFunction(Parts("sold", new.orders, q))
             = SumFunction(Parts("sold", b.orders, q)) + (IF q = p THEN size ELSE 0)
        /\ SumFunction(Parts("cost", new.orders, q)) = SumFunction(Parts("cost", b.orders, q)) + 0
    <3>1. "cost" \in Kinds /\ "sold" \in Kinds
      BY DEF Kinds
    <3> QED BY <1>14, <1>5, <3>1
  <2>3. new.added[q] = b.added[q] /\ new.sold[q] = b.sold[q] + (IF q = p THEN size ELSE 0)
    BY <1>6, <1>7
  <2>4. q = p => size <= ledger.pos[q].size - b.sold[q]
    BY <1>3
  <2>5. new.sold[q] <= ledger.pos[q].size
    <3> HIDE DEF p
    <3> QED BY <2>1, <2>3, <2>4
  <2> QED BY <2>1, <2>2, <2>3, <2>5
<1>9. \A i \in DOMAIN new.orders : new.orders[i].side = "buy" =>
         /\ risk.cooldown = 0
         /\ ledger.pos[new.orders[i].pair].size * PriceOf(new.orders[i], closes)
              + SumFunctionOnSet(Parts("cost", new.orders, new.orders[i].pair), 1 .. i) <= MaxPosition
  <2> SUFFICES ASSUME NEW i \in DOMAIN new.orders, new.orders[i].side = "buy"
               PROVE  /\ risk.cooldown = 0
                      /\ ledger.pos[new.orders[i].pair].size * PriceOf(new.orders[i], closes)
                           + SumFunctionOnSet(Parts("cost", new.orders, new.orders[i].pair), 1 .. i)
                             <= MaxPosition
    OBVIOUS
  <2>1. i \in 1 .. n
    <3>1. i # n + 1
      BY <1>4, <1>13
    <3> QED BY <1>4, <1>13, <3>1
  <2>2. new.orders[i] = b.orders[i] /\ i \in DOMAIN b.orders /\ b.orders[i] \in Intents
    BY <1>1, <1>4, <1>13, <2>1 DEF Batch, n
  <2>3. b.orders[i].pair \in Pairs
    BY <2>2, IntentIs
  <2>4. SumFunctionOnSet(Parts("cost", new.orders, b.orders[i].pair), 1 .. i)
          = SumFunctionOnSet(Parts("cost", b.orders, b.orders[i].pair), 1 .. i)
    BY <1>15, <2>1, <2>3 DEF Kinds
  <2> QED BY <1>1, <2>2, <2>4
<1> QED BY <1>1, <1>3, <1>7, <1>8, <1>9 DEF SpotBatch

-----------------------------------------------------------------------------
\* The greater of two is no less than what is no more than one of them.
LEMMA Under ==
  ASSUME NEW a \in Int, NEW b \in Int, NEW x \in Int, x <= a \/ x <= b
  PROVE  x <= Max({a, b})
<1>1. Max({a, b}) \in {a, b} /\ Max({a, b}) >= a /\ Max({a, b}) >= b
  BY MaxOfTwo
<1>2. Max({a, b}) \in Int
  BY <1>1
<1> QED BY <1>1, <1>2

\* An intent of a perp more keeps the batch inside both caps.
LEMMA PerpKept ==
  ASSUME ledger \in Account, \A p \in Pairs : closes[p] \in Nat, NEW r,
         NEW b \in PerpBatch, NEW intent \in Intents, PriceOf(intent, closes) # 0
  PROVE  AssessPerp(r, closes, b, intent) \in PerpBatch
<1> DEFINE new == AssessPerp(r, closes, b, intent)
           p == intent.pair
           n == Len(b.orders)
           Value(bb, q) == Abs(bb.resulting[q]) * closes[q]
           was == [q \in Pairs |-> ledger.pos[q].size]
<1>1. /\ b \in Batch
      /\ \A q \in Pairs : b.resulting[q] = was[q] + SumFunction(Parts("move", b.orders, q))
      /\ (\A i \in DOMAIN b.orders : b.orders[i].limit = 0) =>
           /\ \A q \in Pairs : Value(b, q) <= Max({MaxPosition, Abs(was[q]) * closes[q]})
           /\ Magnitude(b.resulting) <= Max({MaxGross, Magnitude(was)})
  BY DEF PerpBatch
<1>2. SUFFICES ASSUME new # b PROVE new \in PerpBatch
  OBVIOUS
<1>3. PICK size \in Nat \ {0} :
        LET move == Direction(intent) * size
        IN  /\ new \in Batch
            /\ Abs(b.resulting[intent.pair] + move) * PriceOf(intent, closes) <= Room(b, intent, closes)
            /\ Taken(b, new, intent, size, 0, 0, move)
  <2> HIDE DEF new
  <2> QED BY <1>1, <1>2, PerpAssessed DEF new
<1> DEFINE move == Direction(intent) * size
<1> HIDE DEF new
<1>4. PICK order \in Intents :
        /\ OneMore(b, new, order) /\ order.pair = p /\ order.side = intent.side /\ order.size = size
        /\ order.limit = intent.limit
  BY <1>1, <1>3, OrderTaken
<1>5. /\ n \in Nat /\ DOMAIN new.orders = 1 .. n + 1 /\ new.orders[n + 1] = order
      /\ \A i \in 1 .. n : new.orders[i] = b.orders[i]
      /\ DOMAIN b.orders = 1 .. n
  <2>1. b.orders \in Seq(Intents)
    BY <1>1 DEF Batch
  <2> QED BY <1>4, <2>1 DEF OneMore
<1>6. \A q \in Pairs : /\ SumFunction(Parts("move", new.orders, q))
                            = SumFunction(Parts("move", b.orders, q)) + Part("move", order, q)
                       /\ SumFunction(Parts("move", b.orders, q)) \in Int
  BY <1>4 DEF OneMore, Kinds
<1>7. /\ p \in Pairs /\ move \in Int
      /\ \A q \in Pairs : Part("move", order, q) = IF q = p THEN move ELSE 0
  BY <1>4, IntentIs DEF Part, Direction
<1>8. /\ \A q \in Pairs : new.resulting[q] = b.resulting[q] + (IF q = p THEN move ELSE 0)
      /\ b.resulting \in [Pairs -> Int] /\ new.resulting \in [Pairs -> Int]
  BY <1>1, <1>3 DEF Taken, Batch
<1>9. \A q \in Pairs : was[q] \in Int
  BY DEF Account, Position
<1>10. \A q \in Pairs : new.resulting[q] = was[q] + SumFunction(Parts("move", new.orders, q))
  <2> SUFFICES ASSUME NEW q \in Pairs
               PROVE  new.resulting[q] = was[q] + SumFunction(Parts("move", new.orders, q))
    OBVIOUS
  <2> HIDE DEF p, move, was
  <2>1. new.resulting[q] = b.resulting[q] + (IF q = p THEN move ELSE 0)
    BY <1>8
  <2>2. SumFunction(Parts("move", new.orders, q))
          = SumFunction(Parts("move", b.orders, q)) + (IF q = p THEN move ELSE 0)
    BY <1>6, <1>7
  <2>3. b.resulting[q] = was[q] + SumFunction(Parts("move", b.orders, q))
    BY <1>1
  <2> QED BY <1>6, <1>7, <1>9, <2>1, <2>2, <2>3
<1>11. ASSUME NEW bb, bb.resulting \in [Pairs -> Int], NEW q \in Pairs
       PROVE  Value(bb, q) \in Nat
  <2>1. Abs(bb.resulting[q]) \in Nat /\ closes[q] \in Nat
    BY <1>11 DEF Abs
  <2> QED BY <2>1, Product
<1>12. /\ MaxPosition \in Nat /\ MaxGross \in Nat
  BY RiskAssumption
<1>13. ASSUME \A i \in DOMAIN new.orders : new.orders[i].limit = 0
       PROVE  /\ \A q \in Pairs : Value(new, q) <= Max({MaxPosition, Abs(was[q]) * closes[q]})
              /\ Magnitude(new.resulting) <= Max({MaxGross, Magnitude(was)})
  <2> DEFINE room == Room(b, intent, closes)
             others == Others(b, intent, closes)
             f == [q \in Pairs |-> Value(b, q)]
             g == [q \in Pairs |-> Value(new, q)]
  <2>1. \A i \in DOMAIN b.orders : b.orders[i].limit = 0
    <3> SUFFICES ASSUME NEW i \in 1 .. n PROVE b.orders[i].limit = 0
      BY <1>5
    <3>1. i \in DOMAIN new.orders /\ new.orders[i] = b.orders[i]
      BY <1>5
    <3> QED BY <1>13, <3>1
  <2>2. PriceOf(intent, closes) = closes[p]
    <3>1. n + 1 \in DOMAIN new.orders
      BY <1>5
    <3>2. order.limit = 0
      BY <1>5, <1>13, <3>1
    <3> QED BY <1>4, <3>2 DEF PriceOf
  <2>3. Value(new, p) <= room
    <3>1. new.resulting[p] = b.resulting[p] + move
      BY <1>7, <1>8
    <3> QED BY <1>3, <2>2, <3>1
  <2>4. /\ others \in Int /\ room \in Nat /\ room <= MaxPosition
        /\ room = 0 \/ room <= MaxGross - others
    BY <1>1, RoomIs
  <2>5. \A q \in Pairs : f[q] \in Nat /\ g[q] \in Nat /\ (q # p => g[q] = f[q])
    <3> SUFFICES ASSUME NEW q \in Pairs PROVE f[q] \in Nat /\ g[q] \in Nat /\ (q # p => g[q] = f[q])
      OBVIOUS
    <3>1. Value(b, q) \in Nat /\ Value(new, q) \in Nat
      BY <1>8, <1>11
    <3>2. q # p => new.resulting[q] = b.resulting[q]
      <4>1. b.resulting[q] \in Int /\ new.resulting[q] = b.resulting[q] + (IF q = p THEN move ELSE 0)
        BY <1>8
      <4> HIDE DEF p, move
      <4> QED BY <4>1
    <3> QED BY <3>1, <3>2
  <2>6. Magnitude(b.resulting) = SumFunctionOnSet(f, Pairs)
        /\ Magnitude(new.resulting) = SumFunctionOnSet(g, Pairs)
        /\ others = SumFunctionOnSet(f, Pairs \ {p})
        /\ f[p] = Value(b, p) /\ g[p] = Value(new, p)
    BY <1>7 DEF Magnitude, SumFunction, Others
  <2> HIDE DEF f, g, others, room, p, was
  <2>7. /\ SumFunctionOnSet(f, Pairs) = f[p] + SumFunctionOnSet(f, Pairs \ {p})
        /\ SumFunctionOnSet(g, Pairs) = g[p] + SumFunctionOnSet(g, Pairs \ {p})
    <3>1. \A q \in Pairs : f[q] \in Int /\ g[q] \in Int
      BY <2>5
    <3> QED BY <1>7, <3>1, PairsFinite, SumTakes
  <2>8. SumFunctionOnSet(g, Pairs \ {p}) = SumFunctionOnSet(f, Pairs \ {p})
    <3>1. IsFiniteSet(Pairs \ {p}) /\ \A q \in Pairs \ {p} : g[q] = f[q]
      BY <2>5, PairsFinite, FS_Subset
    <3> QED BY <3>1, SumSame
  <2>9. /\ Magnitude(b.resulting) = f[p] + others /\ Magnitude(new.resulting) = g[p] + others
        /\ f[p] \in Nat /\ g[p] \in Nat /\ g[p] <= room
    BY <1>7, <2>3, <2>5, <2>6, <2>7, <2>8
  <2>10. Magnitude(was) \in Int
    <3>1. \A q \in Pairs : Abs(was[q]) * closes[q] \in Int
      <4> SUFFICES ASSUME NEW q \in Pairs PROVE Abs(was[q]) * closes[q] \in Int
        OBVIOUS
      <4>1. Abs(was[q]) \in Int /\ closes[q] \in Int
        BY <1>9 DEF Abs
      <4> QED BY <4>1, Product
    <3> QED BY <3>1, PairSum DEF Magnitude
  <2>11. Magnitude(new.resulting) <= Max({MaxGross, Magnitude(was)})
    <3>1. Magnitude(new.resulting) <= MaxGross \/ Magnitude(new.resulting) <= Magnitude(b.resulting)
      BY <1>12, <2>4, <2>9
    <3>2. Magnitude(b.resulting) <= Max({MaxGross, Magnitude(was)})
      BY <1>1, <2>1
    <3>3. Max({MaxGross, Magnitude(was)}) \in Int /\ MaxGross <= Max({MaxGross, Magnitude(was)})
      <4>1. MaxGross \in Int
        BY <1>12
      <4>2. Max({MaxGross, Magnitude(was)}) \in {MaxGross, Magnitude(was)}
            /\ Max({MaxGross, Magnitude(was)}) >= MaxGross
        BY <2>10, <4>1, MaxOfTwo, Zenon
      <4>3. Max({MaxGross, Magnitude(was)}) \in Int
        BY <2>10, <4>1, <4>2
      <4> QED BY <4>1, <4>2, <4>3
    <3>4. Magnitude(new.resulting) \in Int /\ Magnitude(b.resulting) \in Int
      BY <2>4, <2>9
    <3> QED BY <1>12, <3>1, <3>2, <3>3, <3>4
  <2>12. ASSUME NEW q \in Pairs
         PROVE  Value(new, q) <= Max({MaxPosition, Abs(was[q]) * closes[q]})
    <3>1. CASE q # p
      <4>1. Value(new, q) = Value(b, q)
        BY <2>5, <3>1 DEF f, g
      <4> QED BY <1>1, <2>1, <4>1
    <3>2. CASE q = p
      <4>1. Value(new, p) \in Int /\ Value(new, p) <= MaxPosition
        BY <1>12, <2>3, <2>4, <2>6, <2>9
      <4>2. Abs(was[p]) * closes[p] \in Int
        <5>1. Abs(was[p]) \in Int /\ closes[p] \in Int
          BY <1>7, <1>9 DEF Abs
        <5> QED BY <5>1, Product
      <4>3. MaxPosition \in Int
        BY <1>12
      <4> QED BY <3>2, <4>1, <4>2, <4>3, Under
    <3> QED BY <3>1, <3>2
  <2> QED BY <2>11, <2>12
<1> QED BY <1>3, <1>10, <1>13 DEF PerpBatch

-----------------------------------------------------------------------------
\* No orders have no parts.
LEMMA NoParts ==
  ASSUME NEW kind, NEW p
  PROVE  SumFunction(Parts(kind, <<>>, p)) = 0
<1>1. DOMAIN Parts(kind, <<>>, p) = {}
  BY DEF Parts
<1>2. IsFiniteSet({})
  BY FS_EmptySet
<1> QED BY <1>1, <1>2, SumOfZeros DEF SumFunction

\* A batch nothing is approved in yet.
LEMMA NewBatchIs ==
  ASSUME ledger \in Account
  PROVE  /\ NewBatch(ledger) \in Batch
         /\ Solvent(ledger) /\ instrument = "spot" => NewBatch(ledger) \in SpotBatch
         /\ (\A p \in Pairs : closes[p] \in Nat) => NewBatch(ledger) \in PerpBatch
<1> DEFINE b == NewBatch(ledger)
           was == [p \in Pairs |-> ledger.pos[p].size]
<1>1. /\ b \in Batch /\ b.orders = <<>> /\ b.cash = ledger.cash /\ b.resulting = was
      /\ \A p \in Pairs : b.added[p] = 0 /\ b.sold[p] = 0
      /\ DOMAIN b.added = Pairs
  <2>1. ledger.cash \in Int /\ \A p \in Pairs : ledger.pos[p].size \in Int
    BY DEF Account, Position
  <2>2. <<>> \in Seq(Intents)
    OBVIOUS
  <2> QED BY <2>1, <2>2 DEF NewBatch, Batch
<1> HIDE DEF b
<1>2. SumFunction(b.added) = 0
  BY <1>1, PairsFinite, SumOfZeros DEF SumFunction
<1>3. /\ DOMAIN b.orders = {}
      /\ \A kind, p : SumFunction(Parts(kind, b.orders, p)) = 0
  BY <1>1, NoParts
<1>4. ASSUME Solvent(ledger), instrument = "spot" PROVE b \in SpotBatch
  <2>1. ledger.cash \in Int /\ ledger.cash >= 0 /\ \A p \in Pairs : ledger.pos[p].size >= 0
    BY <1>4 DEF Solvent, Account
  <2> QED BY <1>1, <1>2, <1>3, <2>1 DEF SpotBatch
<1>5. ASSUME \A p \in Pairs : closes[p] \in Nat PROVE b \in PerpBatch
  <2>1. \A p \in Pairs : was[p] \in Int /\ Abs(was[p]) * closes[p] \in Int
    <3> SUFFICES ASSUME NEW p \in Pairs PROVE was[p] \in Int /\ Abs(was[p]) * closes[p] \in Int
      OBVIOUS
    <3>1. was[p] \in Int
      BY DEF Account, Position
    <3> HIDE DEF was
    <3>2. Abs(was[p]) \in Int /\ closes[p] \in Int
      BY <1>5, <3>1 DEF Abs
    <3> QED BY <3>1, <3>2, Product
  <2>2. Magnitude(was) \in Int
    BY <2>1, PairSum DEF Magnitude
  <2>3. MaxPosition \in Int /\ MaxGross \in Int
    BY RiskAssumption
  <2> HIDE DEF was
  <2>4. Magnitude(was) <= Max({MaxGross, Magnitude(was)})
    <3>1. Magnitude(was) <= Magnitude(was)
      BY <2>2
    <3> QED BY <2>2, <2>3, <3>1, Under
  <2>5. \A p \in Pairs : Abs(was[p]) * closes[p] <= Max({MaxPosition, Abs(was[p]) * closes[p]})
    <3> SUFFICES ASSUME NEW p \in Pairs
                 PROVE  Abs(was[p]) * closes[p] <= Max({MaxPosition, Abs(was[p]) * closes[p]})
      OBVIOUS
    <3> DEFINE value == Abs(was[p]) * closes[p]
    <3>1. value \in Int
      BY <2>1
    <3> HIDE DEF value
    <3>2. value <= value
      BY <3>1
    <3>3. value <= Max({MaxPosition, value})
      BY <2>3, <3>1, <3>2, Under
    <3> QED BY <3>3 DEF value
  <2>6. \A p \in Pairs : b.resulting[p] = was[p] + SumFunction(Parts("move", b.orders, p))
    BY <1>1, <1>3, <2>1
  <2>7. /\ \A p \in Pairs : b.resulting[p] = ledger.pos[p].size + SumFunction(Parts("move", b.orders, p))
        /\ \A p \in Pairs : was[p] = ledger.pos[p].size
    BY <2>6 DEF was
  <2>8. \A p \in Pairs : Abs(b.resulting[p]) * closes[p]
                           <= Max({MaxPosition, Abs(ledger.pos[p].size) * closes[p]})
    BY <1>1, <2>5, <2>7
  <2>9. Magnitude(b.resulting) <= Max({MaxGross, Magnitude([p \in Pairs |-> ledger.pos[p].size])})
    BY <1>1, <2>4 DEF was
  <2> QED BY <1>1, <2>7, <2>8, <2>9 DEF PerpBatch
<1> QED BY <1>1, <1>4, <1>5 DEF b

\* What Assess leaves of a spot strategy's intents is inside the cash and the caps.
LEMMA SpotAssessed ==
  ASSUME ledger \in Account, Solvent(ledger), instrument = "spot", risk \in RiskState,
         \A p \in Pairs : closes[p] \in Nat, NEW intents \in Seq(Intents)
  PROVE  AssessAll(ledger, risk, closes, instrument, intents) \in SpotBatch
<1> DEFINE n == Len(intents)
           J == [k \in 0 .. n |-> SpotBatch]
<1>1. n \in Nat /\ \A k \in 1 .. n : intents[k] \in Intents /\ k \in 0 .. n /\ k - 1 \in 0 .. n
  OBVIOUS
<1>2. NewBatch(ledger) \in J[0]
  BY <1>1, NewBatchIs
<1>3. ASSUME NEW k \in 1 .. n, NEW b \in J[k - 1]
      PROVE  AssessOne(ledger, risk, closes, instrument, b, intents[k]) \in J[k]
  <2>1. b \in SpotBatch /\ intents[k] \in Intents /\ J[k] = SpotBatch
    BY <1>1
  <2>2. intents[k].side = "buy" \/ intents[k].side = "sell"
    BY <2>1 DEF Intents
  <2> HIDE DEF J, n
  <2>3. CASE PriceOf(intents[k], closes) = 0
    BY <2>1, <2>3 DEF AssessOne
  <2>4. CASE PriceOf(intents[k], closes) # 0 /\ intents[k].side = "buy"
    BY <2>1, <2>4, SpotBuyKept DEF AssessOne
  <2>5. CASE PriceOf(intents[k], closes) # 0 /\ intents[k].side = "sell"
    BY <2>1, <2>5, SpotSellKept DEF AssessOne
  <2> QED BY <2>2, <2>3, <2>4, <2>5
<1>4. J[n] = SpotBatch
  BY <1>1
<1> HIDE DEF J
<1>5. AssessAll(ledger, risk, closes, instrument, intents) \in J[Len(intents)]
  <2> DEFINE base == NewBatch(ledger)
  <2>1. base = NewBatch(ledger) /\ base \in J[0]
    BY <1>2
  <2> HIDE DEF base
  <2> QED BY <1>3, <2>1, BatchingKeep
<1> QED BY <1>4, <1>5

\* What it leaves of a perp strategy's is inside the caps.
LEMMA PerpsAssessed ==
  ASSUME ledger \in Account, instrument = "perp",
         \A p \in Pairs : closes[p] \in Nat, NEW intents \in Seq(Intents)
  PROVE  AssessAll(ledger, risk, closes, instrument, intents) \in PerpBatch
<1> DEFINE n == Len(intents)
           J == [k \in 0 .. n |-> PerpBatch]
<1>1. n \in Nat /\ \A k \in 1 .. n : intents[k] \in Intents /\ k \in 0 .. n /\ k - 1 \in 0 .. n
  OBVIOUS
<1>2. NewBatch(ledger) \in J[0]
  BY <1>1, NewBatchIs
<1>3. ASSUME NEW k \in 1 .. n, NEW b \in J[k - 1]
      PROVE  AssessOne(ledger, risk, closes, instrument, b, intents[k]) \in J[k]
  <2>1. b \in PerpBatch /\ intents[k] \in Intents /\ J[k] = PerpBatch
    BY <1>1
  <2> HIDE DEF J, n
  <2>2. CASE PriceOf(intents[k], closes) = 0
    BY <2>1, <2>2 DEF AssessOne
  <2>3. CASE PriceOf(intents[k], closes) # 0
    BY <2>1, <2>3, PerpKept DEF AssessOne
  <2> QED BY <2>2, <2>3
<1>4. J[n] = PerpBatch
  BY <1>1
<1> HIDE DEF J
<1>5. AssessAll(ledger, risk, closes, instrument, intents) \in J[Len(intents)]
  <2> DEFINE base == NewBatch(ledger)
  <2>1. base = NewBatch(ledger) /\ base \in J[0]
    BY <1>2
  <2> HIDE DEF base
  <2> QED BY <1>3, <2>1, BatchingKeep
<1> QED BY <1>4, <1>5

-----------------------------------------------------------------------------
\* The orders decided on this step, and what they come to.
PendingOf(orders) == {i \in DOMAIN orders : orders[i].step = step}
PendingSum(kind, orders, p) == SumFunctionOnSet(Parts(kind, orders, p), PendingOf(orders))
PendingUpTo(kind, orders, p, i) ==
  SumFunctionOnSet(Parts(kind, orders, p), {j \in PendingOf(orders) : j <= i})

\* One pending order more.
Grown(kind, orders, order, p) ==
  LET more == Append(orders, order)
      n    == Len(orders)
  IN  /\ n \in Nat /\ PendingOf(more) = PendingOf(orders) \cup {n + 1} /\ more[n + 1] = order
      /\ \A i \in PendingOf(orders) : i \in 1 .. n /\ more[i] = orders[i]
      /\ PendingSum(kind, more, p) = PendingSum(kind, orders, p) + Part(kind, order, p)
      /\ PendingSum(kind, orders, p) \in Int
      /\ \A i \in PendingOf(orders) :
           PendingUpTo(kind, more, p, i) = PendingUpTo(kind, orders, p, i)
      /\ PendingUpTo(kind, more, p, n + 1) = PendingSum(kind, more, p)

\* What it adds to the sums.
LEMMA PendingGrows ==
  ASSUME \A p \in Pairs : closes[p] \in Nat, NEW S, \A x \in S : IsOrder(x),
         NEW orders \in Seq(S), NEW order \in S, order.step = step, NEW kind \in Kinds, NEW p
  PROVE  Grown(kind, orders, order, p)
<1> DEFINE more == Append(orders, order)
           n == Len(orders)
           f == Parts(kind, orders, p)
           g == Parts(kind, more, p)
           old == PendingOf(orders)
<1>1. /\ Len(more) = n + 1 /\ n \in Nat /\ DOMAIN more = 1 .. n + 1
      /\ more[n + 1] = order /\ \A i \in 1 .. n : more[i] = orders[i]
      /\ DOMAIN orders = 1 .. n
  OBVIOUS
<1>2. /\ \A i \in 1 .. n : g[i] = f[i] /\ f[i] \in Int
      /\ g[n + 1] = Part(kind, order, p) /\ Part(kind, order, p) \in Int
  BY PartsGrow
<1> HIDE DEF more, n
<1>3. old = {i \in 1 .. n : orders[i].step = step}
  BY <1>1 DEF PendingOf
<1>4. PendingOf(more) = old \cup {n + 1}
  <2>1. PendingOf(more) = {i \in 1 .. n + 1 : more[i].step = step}
    BY <1>1 DEF PendingOf
  <2>2. \A i : i \in 1 .. n + 1 <=> i \in 1 .. n \/ i = n + 1
    BY <1>1
  <2> QED BY <1>1, <1>3, <2>1, <2>2
<1> HIDE DEF old, f, g
<1>5. IsFiniteSet(old) /\ n + 1 \notin old /\ old \in SUBSET (1 .. n)
  <2>1. IsFiniteSet(1 .. n) /\ n + 1 \notin 1 .. n
    BY <1>1, FS_Interval
  <2> QED BY <1>3, <2>1, FS_Subset
<1>6. SumFunctionOnSet(g, old \cup {n + 1}) = SumFunctionOnSet(g, old) + g[n + 1]
      /\ SumFunctionOnSet(g, old) = SumFunctionOnSet(f, old)
      /\ SumFunctionOnSet(f, old) \in Int
  <2>1. \A i \in old : g[i] = f[i] /\ f[i] \in Int /\ g[i] \in Int
    BY <1>2, <1>5
  <2>2. \A i \in old \cup {n + 1} : g[i] \in Int
    BY <1>2, <2>1
  <2>3. SumFunctionOnSet(g, old) = SumFunctionOnSet(f, old)
    BY <1>5, <2>1, SumSame
  <2>4. SumFunctionOnSet(f, old) \in Int
    BY <1>5, <2>1, SumTakes
  <2>5. SumFunctionOnSet(g, old \cup {n + 1}) = SumFunctionOnSet(g, old) + g[n + 1]
    BY <1>5, <2>2, SumJoins
  <2> QED BY <2>3, <2>4, <2>5
<1>7. ASSUME NEW i \in old
      PROVE  PendingUpTo(kind, more, p, i) = PendingUpTo(kind, orders, p, i)
  <2> DEFINE upTo == {j \in old : j <= i}
  <2>1. {j \in old \cup {n + 1} : j <= i} = upTo
    <3>1. i \in 1 .. n
      BY <1>5
    <3>2. ~(n + 1 <= i)
      BY <1>1, <3>1
    <3> QED BY <3>2
  <2>2. IsFiniteSet(upTo) /\ \A j \in upTo : g[j] = f[j]
    BY <1>2, <1>5, FS_Subset
  <2> HIDE DEF upTo
  <2>3. SumFunctionOnSet(g, upTo) = SumFunctionOnSet(f, upTo)
    BY <2>2, SumSame
  <2> QED BY <1>4, <2>1, <2>3 DEF PendingUpTo, upTo, f, g, old
<1>8. PendingUpTo(kind, more, p, n + 1) = PendingSum(kind, more, p)
  <2>1. \A j \in old \cup {n + 1} : j <= n + 1
    <3>1. \A j \in 1 .. n : j <= n + 1
      BY <1>1
    <3>2. n + 1 <= n + 1
      BY <1>1
    <3> QED BY <1>5, <3>1, <3>2
  <2>2. {j \in old \cup {n + 1} : j <= n + 1} = old \cup {n + 1}
    BY <2>1
  <2> QED BY <1>4, <2>2 DEF PendingUpTo, PendingSum
<1>9. /\ PendingSum(kind, more, p) = PendingSum(kind, orders, p) + Part(kind, order, p)
      /\ PendingSum(kind, orders, p) \in Int
  BY <1>2, <1>4, <1>6 DEF PendingSum, f, g, old
<1>10. \A i \in old : i \in 1 .. n /\ more[i] = orders[i]
  BY <1>1, <1>5
<1> QED BY <1>1, <1>4, <1>7, <1>8, <1>9, <1>10 DEF Grown, more, n, old

\* The orders approved, each with the step and its number.
Stamped == {order \in UNION {Order(p) : p \in Pairs} : order.step = step}

\* A stamped order is one for a venue, and is for its pair.
LEMMA StampedIs ==
  ASSUME NEW order \in Stamped
  PROVE  /\ order.pair \in Pairs /\ order \in Order(order.pair) /\ IsOrder(order)
         /\ order.step = step
BY DEF Stamped, Order, IsOrder, Sides

\* The sums over the first k orders sent.
LEMMA SentSteps ==
  ASSUME \A p \in Pairs : closes[p] \in Nat, NEW sent \in Seq(Stamped), NEW kind \in Kinds, NEW p,
         NEW k \in 1 .. Len(sent)
  PROVE  /\ SumFunctionOnSet(Parts(kind, sent, p), 1 .. k)
              = SumFunctionOnSet(Parts(kind, sent, p), 1 .. k - 1) + Part(kind, sent[k], p)
         /\ SumFunctionOnSet(Parts(kind, sent, p), 1 .. k - 1) \in Int
         /\ Part(kind, sent[k], p) \in Int
<1> DEFINE f == Parts(kind, sent, p)
           n == Len(sent)
<1>1. n \in Nat /\ DOMAIN sent = 1 .. n /\ \A i \in 1 .. n : sent[i] \in Stamped
  OBVIOUS
<1>2. \A i \in 1 .. n : f[i] = Part(kind, sent[i], p) /\ f[i] \in Int
  <2> SUFFICES ASSUME NEW i \in 1 .. n PROVE f[i] = Part(kind, sent[i], p) /\ f[i] \in Int
    OBVIOUS
  <2>1. IsOrder(sent[i])
    BY <1>1, StampedIs
  <2>2. Part(kind, sent[i], p) \in Int
    BY <2>1, PartIs
  <2> QED BY <1>1, <2>2 DEF Parts
<1> HIDE DEF f, n
<1>3. k \in 1 .. n
  BY DEF n
<1>4. /\ 1 .. k = (1 .. k - 1) \cup {k} /\ k \notin 1 .. k - 1 /\ IsFiniteSet(1 .. k - 1)
      /\ \A i \in 1 .. k : i \in 1 .. n
  <2>1. k - 1 \in Int /\ k \in Nat
    BY <1>1, <1>3
  <2>2. IsFiniteSet(1 .. k - 1)
    BY <2>1, FS_Interval
  <2> QED BY <1>1, <1>3, <2>1, <2>2
<1>5. \A i \in (1 .. k - 1) \cup {k} : f[i] \in Int
  BY <1>2, <1>4
<1>6. SumFunctionOnSet(f, (1 .. k - 1) \cup {k}) = SumFunctionOnSet(f, 1 .. k - 1) + f[k]
  BY <1>4, <1>5, SumJoins
<1>7. SumFunctionOnSet(f, 1 .. k - 1) \in Int
  <2>1. \A i \in 1 .. k - 1 : f[i] \in Int
    BY <1>5
  <2> QED BY <1>4, <2>1, SumTakes
<1> QED BY <1>2, <1>3, <1>4, <1>6, <1>7 DEF f

-----------------------------------------------------------------------------
\* The venues once the first k of the orders were sent: what is pending comes
\* to what was sent, and was sent in that order.
PlacedUpTo(sent, k, v) ==
  /\ v \in VenueMaps /\ NoneNewer(v)
  /\ \A p \in Pairs :
       /\ v[p].position = venues[p].position
       /\ \A kind \in Kinds : PendingSum(kind, v[p].orders, p)
                              = SumFunctionOnSet(Parts(kind, sent, p), 1 .. k)
       /\ \A i \in PendingOf(v[p].orders) : \E m \in 1 .. k :
            /\ v[p].orders[i] = sent[m]
            /\ PendingUpTo("cost", v[p].orders, p, i)
                 = SumFunctionOnSet(Parts("cost", sent, p), 1 .. m)
  /\ \A m \in 1 .. k : \E i \in PendingOf(v[sent[m].pair].orders) :
       v[sent[m].pair].orders[i] = sent[m]

\* The venue that is sent an order.
LEMMA SubmittedIs ==
  ASSUME \A p \in Pairs : closes[p] \in Nat, NEW x \in VenueMaps, NoneNewer(x), step \in Nat,
         NEW order \in Stamped
  PROVE  LET y == PlaceOp(0, order, x)
             p == order.pair
         IN  /\ y \in VenueMaps /\ NoneNewer(y)
             /\ \A q \in Pairs : y[q].position = x[q].position /\ (q # p => y[q] = x[q])
             /\ y[p].orders = Append(x[p].orders, order)
<1> DEFINE p == order.pair
           w == Submitted(x[p], order)
           y == PlaceOp(0, order, x)
<1>1. p \in Pairs /\ order \in Order(p) /\ order.step = step
  BY StampedIs
<1> HIDE DEF p
<1>2. x[p] \in Venue(p)
  BY <1>1 DEF VenueMaps
<1>3. w \in Venue(p) /\ w.orders = Append(x[p].orders, order) /\ w.position = x[p].position
  <2> DEFINE v == x[p]
             orders == Append(v.orders, order)
  <2>1. v.orders \in Seq(Order(p))
    BY <1>2 DEF Venue
  <2>2. orders \in Seq(Order(p))
    BY <1>1, <2>1
  <2>3. w = [v EXCEPT !.orders = orders] /\ v \in Venue(p)
    BY <1>2 DEF Submitted
  <2> HIDE DEF v, orders, w
  <2>4. w \in Venue(p) /\ w.orders = orders /\ w.position = v.position
    BY <2>2, <2>3 DEF Venue
  <2> QED BY <2>4 DEF v, orders
<1>4. y = [x EXCEPT ![p] = w]
  BY DEF PlaceOp, p
<1> HIDE DEF w, y
<1>5. y \in VenueMaps /\ y[p] = w /\ \A q \in Pairs : q # p => y[q] = x[q]
  <2> DEFINE z == [x EXCEPT ![p] = w]
  <2>1. z \in VenueMaps /\ z[p] = w /\ \A q \in Pairs : q # p => z[q] = x[q]
    BY <1>1, <1>3, VenueReplaced
  <2> QED BY <1>4, <2>1
<1>6. NoneNewer(y)
  <2> SUFFICES ASSUME NEW q \in Pairs, NEW i \in DOMAIN y[q].orders
               PROVE  y[q].orders[i].step <= step
    BY DEF NoneNewer
  <2>1. CASE q # p
    BY <1>5, <2>1 DEF NoneNewer
  <2>2. CASE q = p
    <3> DEFINE old == x[p].orders
    <3>1. old \in Seq(Order(p)) /\ y[q].orders = Append(old, order)
      BY <1>2, <1>3, <1>5, <2>2 DEF Venue
    <3>2. \A j \in DOMAIN old : old[j].step <= step
      BY <1>1 DEF NoneNewer
    <3> HIDE DEF old
    <3>3. (i \in DOMAIN old /\ y[q].orders[i] = old[i]) \/ y[q].orders[i] = order
      BY <3>1
    <3>4. order.step <= step
      BY <1>1
    <3> QED BY <3>2, <3>3, <3>4
  <2> QED BY <2>1, <2>2
<1> QED BY <1>1, <1>3, <1>5, <1>6 DEF p, y

\* One order more.
LEMMA OnePlaced ==
  ASSUME \A p \in Pairs : closes[p] \in Nat, step \in Nat, NEW sent \in Seq(Stamped),
         NEW k \in 1 .. Len(sent), NEW x, PlacedUpTo(sent, k - 1, x)
  PROVE  PlacedUpTo(sent, k, PlaceOp(0, sent[k], x))
<1> DEFINE order == sent[k]
           p0 == order.pair
           y == PlaceOp(0, order, x)
<1>1. /\ order \in Stamped /\ p0 \in Pairs /\ order.step = step /\ order \in Order(p0)
      /\ k \in Nat \ {0} /\ k \in 1 .. k
      /\ \A m \in 1 .. k : m \in 1 .. k - 1 \/ m = k
      /\ \A m \in 1 .. k - 1 : m \in 1 .. k
  <2>1. order \in Stamped
    OBVIOUS
  <2> QED BY <2>1, StampedIs
<1>2. x \in VenueMaps /\ NoneNewer(x)
  BY DEF PlacedUpTo
<1>3. /\ y \in VenueMaps /\ NoneNewer(y)
      /\ \A q \in Pairs : y[q].position = x[q].position /\ (q # p0 => y[q] = x[q])
      /\ y[p0].orders = Append(x[p0].orders, order)
  BY <1>1, <1>2, SubmittedIs
<1> DEFINE old == x[p0].orders
           n == Len(old)
<1>4. old \in Seq(Stamped \cup Order(p0)) /\ (\A z \in Stamped \cup Order(p0) : IsOrder(z))
  <2>1. old \in Seq(Order(p0))
    BY <1>1, <1>2 DEF VenueMaps, Venue
  <2>2. \A z \in Order(p0) : IsOrder(z)
    BY <1>1 DEF Order, IsOrder, Sides
  <2> QED BY <2>1, <2>2, StampedIs
<1> HIDE DEF order, y, p0
<1>13. \A kind \in Kinds : Grown(kind, old, order, p0)
  BY <1>1, <1>4, PendingGrows
<1>14. Grown("cost", old, order, p0) /\ y[p0].orders = Append(old, order)
  BY <1>1, <1>3, <1>13 DEF Kinds
<1>5. /\ n \in Nat /\ PendingOf(y[p0].orders) = PendingOf(old) \cup {n + 1}
      /\ y[p0].orders[n + 1] = order
      /\ \A i \in PendingOf(old) : y[p0].orders[i] = old[i]
  BY <1>14 DEF Grown
<1>6. \A kind \in Kinds :
        PendingSum(kind, y[p0].orders, p0) = PendingSum(kind, old, p0) + Part(kind, order, p0)
  BY <1>13, <1>14 DEF Grown
<1>7. /\ \A i \in PendingOf(old) :
           PendingUpTo("cost", y[p0].orders, p0, i) = PendingUpTo("cost", old, p0, i)
      /\ PendingUpTo("cost", y[p0].orders, p0, n + 1) = PendingSum("cost", y[p0].orders, p0)
  BY <1>14 DEF Grown
<1>8. \A q \in Pairs, kind \in Kinds :
        PendingSum(kind, y[q].orders, q) = SumFunctionOnSet(Parts(kind, sent, q), 1 .. k)
  <2> SUFFICES ASSUME NEW q \in Pairs, NEW kind \in Kinds
               PROVE  PendingSum(kind, y[q].orders, q) = SumFunctionOnSet(Parts(kind, sent, q), 1 .. k)
    OBVIOUS
  <2>1. PendingSum(kind, x[q].orders, q) = SumFunctionOnSet(Parts(kind, sent, q), 1 .. k - 1)
    BY DEF PlacedUpTo
  <2>2. /\ SumFunctionOnSet(Parts(kind, sent, q), 1 .. k)
             = SumFunctionOnSet(Parts(kind, sent, q), 1 .. k - 1) + Part(kind, order, q)
        /\ SumFunctionOnSet(Parts(kind, sent, q), 1 .. k - 1) \in Int
    BY SentSteps DEF order
  <2>3. CASE q # p0
    <3>1. Part(kind, order, q) = 0
      BY <2>3 DEF Part, p0
    <3>2. y[q] = x[q]
      BY <1>3, <2>3
    <3> QED BY <2>1, <2>2, <3>1, <3>2
  <2>4. CASE q = p0
    <3>1. PendingSum(kind, y[q].orders, q) = PendingSum(kind, x[q].orders, q) + Part(kind, order, q)
      BY <1>6, <2>4
    <3> QED BY <2>1, <2>2, <3>1
  <2> QED BY <2>3, <2>4
<1>9. \A q \in Pairs : \A i \in PendingOf(y[q].orders) : \E m \in 1 .. k :
        /\ y[q].orders[i] = sent[m]
        /\ PendingUpTo("cost", y[q].orders, q, i)
             = SumFunctionOnSet(Parts("cost", sent, q), 1 .. m)
  <2> SUFFICES ASSUME NEW q \in Pairs, NEW i \in PendingOf(y[q].orders)
               PROVE  \E m \in 1 .. k :
                        /\ y[q].orders[i] = sent[m]
                        /\ PendingUpTo("cost", y[q].orders, q, i)
                             = SumFunctionOnSet(Parts("cost", sent, q), 1 .. m)
    OBVIOUS
  <2>1. \A j \in PendingOf(x[q].orders) : \E m \in 1 .. k - 1 :
          /\ x[q].orders[j] = sent[m]
          /\ PendingUpTo("cost", x[q].orders, q, j)
               = SumFunctionOnSet(Parts("cost", sent, q), 1 .. m)
    BY DEF PlacedUpTo
  <2>2. CASE q # p0
    <3>1. y[q] = x[q]
      BY <1>3, <2>2
    <3>2. PICK m \in 1 .. k - 1 :
            /\ y[q].orders[i] = sent[m]
            /\ PendingUpTo("cost", y[q].orders, q, i)
                 = SumFunctionOnSet(Parts("cost", sent, q), 1 .. m)
      BY <2>1, <3>1
    <3> QED BY <1>1, <3>2
  <2>3. CASE q = p0 /\ i = n + 1
    <3>1. y[q].orders[i] = sent[k]
      BY <1>5, <2>3 DEF order
    <3>2. PendingUpTo("cost", y[q].orders, q, i) = SumFunctionOnSet(Parts("cost", sent, q), 1 .. k)
      BY <1>7, <1>8, <2>3 DEF Kinds
    <3> QED BY <1>1, <3>1, <3>2
  <2>4. CASE q = p0 /\ i # n + 1
    <3>1. i \in PendingOf(old) /\ old = x[q].orders
      BY <1>5, <2>4
    <3>2. PICK m \in 1 .. k - 1 :
            /\ old[i] = sent[m]
            /\ PendingUpTo("cost", old, q, i)
                 = SumFunctionOnSet(Parts("cost", sent, q), 1 .. m)
      BY <2>1, <3>1
    <3>3. y[q].orders[i] = old[i]
      BY <1>5, <2>4, <3>1
    <3>4. PendingUpTo("cost", y[q].orders, q, i) = PendingUpTo("cost", old, q, i)
      BY <1>7, <2>4, <3>1
    <3> QED BY <1>1, <3>2, <3>3, <3>4
  <2> QED BY <2>2, <2>3, <2>4
<1>10. ASSUME NEW m \in 1 .. k
       PROVE  \E i \in PendingOf(y[sent[m].pair].orders) : y[sent[m].pair].orders[i] = sent[m]
  <2>1. CASE m = k
    <3>1. sent[m] = order /\ sent[m].pair = p0
      BY <2>1 DEF order, p0
    <3>2. n + 1 \in PendingOf(y[p0].orders) /\ y[p0].orders[n + 1] = order
      BY <1>5
    <3> QED BY <3>1, <3>2
  <2>2. CASE m \in 1 .. k - 1
    <3> DEFINE q == sent[m].pair
    <3>1. q \in Pairs
      <4>1. sent[m] \in Stamped
        BY <1>1, <2>2
      <4> QED BY <4>1, StampedIs
    <3>2. PICK i \in PendingOf(x[q].orders) : x[q].orders[i] = sent[m]
      BY <2>2 DEF PlacedUpTo
    <3> HIDE DEF q
    <3>3. CASE q # p0
      <4>1. y[q] = x[q]
        BY <1>3, <3>1, <3>3
      <4> QED BY <3>2, <4>1 DEF q
    <3>4. CASE q = p0
      <4>1. i \in PendingOf(old) /\ old[i] = sent[m]
        BY <3>2, <3>4
      <4>2. i \in PendingOf(y[p0].orders) /\ y[p0].orders[i] = sent[m]
        BY <1>5, <4>1
      <4> QED BY <3>4, <4>2 DEF q
    <3> QED BY <3>3, <3>4
  <2> QED BY <1>1, <2>1, <2>2
<1>11. \A q \in Pairs : y[q].position = venues[q].position
  BY <1>3 DEF PlacedUpTo
<1>12. PlacedUpTo(sent, k, y)
  BY <1>3, <1>8, <1>9, <1>10, <1>11 DEF PlacedUpTo
<1> QED BY <1>12 DEF y, order

-----------------------------------------------------------------------------
\* All of them.
LEMMA AllPlaced ==
  ASSUME \A p \in Pairs : closes[p] \in Nat, step \in Nat, venues \in VenueMaps,
         \A p \in Pairs : \A i \in DOMAIN venues[p].orders :
           venues[p].orders[i].step \in Nat /\ venues[p].orders[i].step <= step - 1,
         NEW sent \in Seq(Stamped)
  PROVE  PlacedUpTo(sent, Len(sent), Placed(sent))
<1> DEFINE n == Len(sent)
           J == [k \in 0 .. n |-> {v \in VenueMaps : PlacedUpTo(sent, k, v)}]
<1>1. n \in Nat /\ \A k \in 1 .. n : k \in 0 .. n /\ k - 1 \in 0 .. n
  OBVIOUS
<1>2. PlacedUpTo(sent, 0, venues)
  <2>1. \A p \in Pairs : PendingOf(venues[p].orders) = {}
    BY DEF PendingOf
  <2>2. \A f : SumFunctionOnSet(f, {}) = 0
    BY FS_EmptySet, SumOfZeros
  <2>3. 1 .. 0 = {}
    OBVIOUS
  <2>4. \A p \in Pairs, kind \in Kinds :
          PendingSum(kind, venues[p].orders, p) = SumFunctionOnSet(Parts(kind, sent, p), 1 .. 0)
    BY <2>1, <2>2, <2>3 DEF PendingSum
  <2>5. NoneNewer(venues)
    BY DEF NoneNewer
  <2> QED BY <2>1, <2>3, <2>4, <2>5 DEF PlacedUpTo
<1>3. venues \in J[0]
  BY <1>1, <1>2
<1>4. ASSUME NEW k \in 1 .. n, NEW x \in J[k - 1] PROVE PlaceOp(0, sent[k], x) \in J[k]
  <2>1. PlacedUpTo(sent, k - 1, x) /\ J[k] = {v \in VenueMaps : PlacedUpTo(sent, k, v)}
    BY <1>1
  <2> HIDE DEF J
  <2>2. PlacedUpTo(sent, k, PlaceOp(0, sent[k], x))
    BY <2>1, OnePlaced
  <2>3. PlaceOp(0, sent[k], x) \in VenueMaps
    BY <2>2 DEF PlacedUpTo
  <2> QED BY <2>1, <2>2, <2>3
<1>5. J[n] = {v \in VenueMaps : PlacedUpTo(sent, n, v)}
  BY <1>1
<1> HIDE DEF J
<1>6. Placed(sent) \in J[Len(sent)]
  <2> DEFINE base == venues
  <2>1. base = venues /\ base \in J[0]
    BY <1>3
  <2> HIDE DEF base
  <2> QED BY <1>4, <2>1, PlacingsKeep
<1> QED BY <1>5, <1>6

\* The orders of a batch, stamped.
Sent(orders) == [i \in DOMAIN orders |-> [orders[i] EXCEPT !.step = step, !.id = <<step, i>>]]

\* Each is the intent it was made of, and the parts are the same.
LEMMA SentIs ==
  ASSUME \A p \in Pairs : closes[p] \in Nat, step \in Nat, NEW orders \in Seq(Intents)
  PROVE  /\ Sent(orders) \in Seq(Stamped) /\ Len(Sent(orders)) = Len(orders)
         /\ DOMAIN orders = 1 .. Len(orders)
         /\ \A i \in 1 .. Len(orders) :
              /\ Sent(orders)[i].pair = orders[i].pair /\ Sent(orders)[i].side = orders[i].side
              /\ Sent(orders)[i].limit = orders[i].limit
              /\ PriceOf(Sent(orders)[i], closes) = PriceOf(orders[i], closes)
         /\ \A p : \A kind \in Kinds : Parts(kind, Sent(orders), p) = Parts(kind, orders, p)
<1> DEFINE sent == Sent(orders)
           n == Len(orders)
<1>1. n \in Nat /\ DOMAIN orders = 1 .. n /\ DOMAIN sent = 1 .. n
  BY DEF Sent
<1>2. ASSUME NEW i \in 1 .. n
      PROVE  /\ sent[i] \in Stamped /\ sent[i].pair = orders[i].pair /\ sent[i].side = orders[i].side
             /\ sent[i].size = orders[i].size /\ sent[i].limit = orders[i].limit
  <2> DEFINE o == orders[i]
             id == <<step, i>>
  <2>1. o \in Intents /\ id \in Nat \X Nat
    BY <1>1
  <2>2. sent[i] = [o EXCEPT !.step = step, !.id = id]
    BY <1>1 DEF Sent
  <2> HIDE DEF o, id, sent
  <2>3. /\ sent[i].pair = o.pair /\ sent[i].side = o.side /\ sent[i].size = o.size
        /\ sent[i].limit = o.limit /\ sent[i].step = step /\ o.pair \in Pairs
    BY <2>1, <2>2 DEF Intents
  <2>4. sent[i] \in Order(o.pair)
    BY <2>1, <2>2 DEF Intents, Order, Sides
  <2> QED BY <2>3, <2>4 DEF Stamped, o
<1>3. sent \in Seq(Stamped) /\ Len(sent) = n
  <2>1. sent \in [1 .. n -> Stamped]
    <3>1. sent = [i \in 1 .. n |-> sent[i]]
      BY <1>1 DEF Sent
    <3> HIDE DEF sent, n
    <3> QED BY <1>2, <3>1
  <2> HIDE DEF sent, n
  <2> QED BY <1>1, <2>1
<1> HIDE DEF sent, n
<1>4. \A i \in 1 .. n : PriceOf(sent[i], closes) = PriceOf(orders[i], closes)
  BY <1>2 DEF PriceOf
<1>5. \A p : \A kind \in Kinds : \A i \in 1 .. n : Part(kind, sent[i], p) = Part(kind, orders[i], p)
  <2> SUFFICES ASSUME NEW kind \in Kinds, NEW p, NEW i \in 1 .. n
               PROVE  Part(kind, sent[i], p) = Part(kind, orders[i], p)
    OBVIOUS
  <2>1. /\ sent[i].pair = orders[i].pair /\ sent[i].side = orders[i].side
        /\ sent[i].size = orders[i].size /\ PriceOf(sent[i], closes) = PriceOf(orders[i], closes)
    BY <1>2, <1>4
  <2> QED BY <2>1 DEF Part, Direction
<1>6. \A p : \A kind \in Kinds : Parts(kind, sent, p) = Parts(kind, orders, p)
  BY <1>1, <1>5 DEF Parts
<1> QED BY <1>1, <1>2, <1>3, <1>4, <1>6 DEF sent, n

-----------------------------------------------------------------------------
\* What a decision sends: a batch inside the caps, in its order.
LEMMA DecideSends ==
  ASSUME IInv, Decide
  PROVE  \E b \in Batch : /\ instrument = "spot" => b \in SpotBatch
                          /\ instrument = "perp" => b \in PerpBatch
                          /\ PlacedUpTo(Sent(b.orders), Len(b.orders), venues')
<1>1. PICK intents \in Batches :
        LET orders == Assess(ledger, risk, closes, instrument, intents)
        IN  venues' = Placed(Sent(orders))
  BY DEF Decide, Sent
<1> DEFINE b == AssessAll(ledger, risk, closes, instrument, intents)
<1>2. venues' = Placed(Sent(b.orders))
  BY <1>1 DEF Assess
<1>3. /\ ledger \in Account /\ risk \in RiskState /\ Solvent(ledger) /\ phase = "decide"
      /\ step \in Nat /\ instrument \in {"spot", "perp"}
      /\ \A p \in Pairs : closes[p] \in Nat
  <2>1. Typed /\ Sound(ledger) /\ phase = "decide"
    BY DEF Decide, IInv
  <2>2. instrument \in {"spot", "perp"} /\ MaxSteps \in Nat
    BY <2>1, EngineAssumption DEF Typed
  <2>3. step \in Nat
    BY <2>1, <2>2 DEF Typed
  <2>4. risk \in RiskState /\ \A p \in Pairs : closes[p] \in Nat
    BY <2>1 DEF Typed
  <2> QED BY <2>1, <2>2, <2>3, <2>4 DEF Sound
<1>4. intents \in Seq(Intents)
  BY EngineAssumption
<1>5. instrument = "spot" => b \in SpotBatch
  BY <1>3, <1>4, SpotAssessed
<1>6. instrument = "perp" => b \in PerpBatch
  BY <1>3, <1>4, PerpsAssessed
<1> HIDE DEF b
<1>7. b \in Batch /\ b.orders \in Seq(Intents)
  BY <1>3, <1>5, <1>6 DEF SpotBatch, PerpBatch, Batch
<1>8. Sent(b.orders) \in Seq(Stamped) /\ Len(Sent(b.orders)) = Len(b.orders)
  BY <1>3, <1>7, SentIs
<1>9. venues \in VenueMaps /\ \A p \in Pairs : venues[p] \in Venue(p)
  <2>1. venues = [p \in Pairs |-> venues[p]] /\ \A p \in Pairs : venues[p] \in Venue(p)
    BY DEF IInv, Typed
  <2> QED BY <2>1 DEF VenueMaps
<1>10. \A p \in Pairs : \A i \in DOMAIN venues[p].orders :
         venues[p].orders[i].step \in Nat /\ venues[p].orders[i].step <= step - 1
  <2> SUFFICES ASSUME NEW p \in Pairs, NEW i \in DOMAIN venues[p].orders
               PROVE  venues[p].orders[i].step \in Nat /\ venues[p].orders[i].step <= step - 1
    OBVIOUS
  <2>1. venues[p].orders \in Seq(Order(p))
    BY <1>9 DEF Venue
  <2>2. venues[p].orders[i] \in Order(p)
    BY <2>1
  <2> QED BY <1>3, <2>2 DEF Order, IInv, OrdersAreOld
<1>11. PlacedUpTo(Sent(b.orders), Len(Sent(b.orders)), Placed(Sent(b.orders)))
  BY <1>3, <1>8, <1>9, <1>10, AllPlaced
<1> QED BY <1>2, <1>5, <1>6, <1>7, <1>8, <1>11

\* The invariant is kept by a decision.
LEMMA DecideKept ==
  ASSUME IInv, Decide
  PROVE  IInv'
<1>1. /\ phase = "decide" /\ phase' = "candle"
      /\ instrument' = instrument /\ step' = step /\ ledger' = ledger /\ risk' = risk
      /\ closes' = closes /\ last' = last /\ recorded' = recorded /\ floors' = floors
      /\ restarts' = restarts
  BY DEF Decide
<1>2. /\ venues' \in VenueMaps /\ NoneNewer(venues')
      /\ \A p \in Pairs : venues'[p].position = venues[p].position
  BY DecideSends DEF PlacedUpTo
<1>3. Typed'
  <2>1. venues' = [p \in Pairs |-> venues'[p]] /\ \A p \in Pairs : venues'[p] \in Venue(p)
    BY <1>2 DEF VenueMaps
  <2> QED BY <1>1, <2>1 DEF IInv, Typed
<1>4. Sound(ledger)'
  BY <1>1, NextSound DEF IInv
<1>5. AddUp(recorded, ledger, step)'
  BY <1>1, NextAddUp DEF IInv
<1>6. (phase \in {"candle", "decide"} /\ instrument = "spot" => Counted(recorded, risk, step))'
  <2>1. instrument = "spot" => Counted(recorded, risk, step)
    BY <1>1 DEF IInv
  <2> QED BY <1>1, <2>1, NextCounted
<1>7. VenueAgreesWithLedger'
  BY <1>1, <1>2 DEF IInv, VenueAgreesWithLedger, VenueNeverDrifts
<1>8. RailRemembers'
  <2>1. DayFloor' = DayFloor /\ Day(step)' = Day(step)
    BY <1>1 DEF DayFloor, FirstStep, Day
  <2> QED BY <1>1, <2>1 DEF IInv, RailRemembers
<1>9. OrdersAreOld'
  BY <1>1, <1>2 DEF OrdersAreOld, NoneNewer
<1> QED BY <1>3, <1>4, <1>5, <1>6, <1>7, <1>8, <1>9 DEF IInv

-----------------------------------------------------------------------------
\* What the properties say of the pending orders, in the sums above.
LEMMA PendingIs ==
  ASSUME step' = step, closes' = closes, ledger' = ledger, venues' \in VenueMaps, NEW p \in Pairs
  PROVE  /\ Pending(p)' = PendingOf(venues'[p].orders)
         /\ Bought(p)' = PendingSum("cost", venues'[p].orders, p)
         /\ SoldUnits(p)' = PendingSum("sold", venues'[p].orders, p)
         /\ Resulting(p)' = ledger.pos[p].size + PendingSum("move", venues'[p].orders, p)
         /\ \A i \in Pending(p)' :
              BoughtUpTo(p, i)' = PendingUpTo("cost", venues'[p].orders, p, i)
<1> DEFINE orders == venues'[p].orders
<1>1. \A i \in DOMAIN orders : orders[i].pair = p
  <2>1. orders \in Seq(Order(p))
    BY DEF VenueMaps, Venue
  <2>2. \A i \in DOMAIN orders : orders[i] \in Order(p)
    BY <2>1
  <2> HIDE DEF orders
  <2> QED BY <2>2 DEF Order
<1>2. Pending(p)' = PendingOf(orders)
  BY DEF Pending, PendingOf
<1>3. Cost(p)' = Parts("cost", orders, p)
  <2>1. Cost(p)' = [i \in DOMAIN orders |-> IF orders[i].side = "buy"
                                            THEN orders[i].size * PriceOf(orders[i], closes) ELSE 0]
    BY DEF Cost, OfOrders, PriceOf
  <2> HIDE DEF orders
  <2> QED BY <1>1, <2>1 DEF Parts, Part
<1>4. [i \in DOMAIN orders |-> IF orders[i].side = "sell" THEN orders[i].size ELSE 0]
        = Parts("sold", orders, p)
  BY <1>1 DEF Parts, Part
<1>5. [i \in DOMAIN orders |-> Direction(orders[i]) * orders[i].size] = Parts("move", orders, p)
  BY <1>1 DEF Parts, Part
<1>6. SoldUnits(p)' = SumFunctionOnSet(Parts("sold", orders, p), PendingOf(orders))
  <2>1. SoldUnits(p)' = SumFunctionOnSet(
          [i \in DOMAIN orders |-> IF orders[i].side = "sell" THEN orders[i].size ELSE 0], Pending(p)')
    BY DEF SoldUnits, OfOrders
  <2> QED BY <1>2, <1>4, <2>1
<1>7. Resulting(p)' = ledger.pos[p].size + SumFunctionOnSet(Parts("move", orders, p), PendingOf(orders))
  <2>1. Resulting(p)' = ledger.pos[p].size + SumFunctionOnSet(
          [i \in DOMAIN orders |-> Direction(orders[i]) * orders[i].size], Pending(p)')
    BY DEF Resulting, OfOrders
  <2> QED BY <1>2, <1>5, <2>1
<1>8. Bought(p)' = SumFunctionOnSet(Parts("cost", orders, p), PendingOf(orders))
  <2>1. Bought(p)' = SumFunctionOnSet(Cost(p)', Pending(p)')
    BY DEF Bought
  <2> QED BY <1>2, <1>3, <2>1
<1>9. ASSUME NEW i \in Pending(p)'
      PROVE  BoughtUpTo(p, i)' = PendingUpTo("cost", orders, p, i)
  <2>1. BoughtUpTo(p, i)' = SumFunctionOnSet(Cost(p)', {k \in Pending(p)' : k <= i})
    BY DEF BoughtUpTo
  <2> QED BY <1>2, <1>3, <2>1 DEF PendingUpTo
<1> QED BY <1>2, <1>6, <1>7, <1>8, <1>9 DEF PendingSum

-----------------------------------------------------------------------------
\* A decision about a spot account stays inside the cash and the caps, and
\* buys nothing while the cooldown runs.
LEMMA SpotDecided ==
  ASSUME IInv, Decide, instrument = "spot"
  PROVE  BatchStaysInCaps' /\ CooldownHolds'
<1>1. /\ phase = "decide" /\ phase' = "candle"
      /\ instrument' = instrument /\ step' = step /\ ledger' = ledger /\ closes' = closes
      /\ recorded' = recorded
  BY DEF Decide
<1>2. /\ ledger \in Account /\ Solvent(ledger) /\ Counted(recorded, risk, step) /\ step \in Nat
      /\ closes \in [Pairs -> Nat] /\ recorded \in Seq(FillRow) /\ risk \in RiskState
      /\ AddUp(recorded, ledger, step)
  BY <1>1, EngineAssumption DEF IInv, Typed, Sound
<1>3. PICK b \in SpotBatch : PlacedUpTo(Sent(b.orders), Len(b.orders), venues')
  BY DecideSends
<1> DEFINE n == Len(b.orders)
           sent == Sent(b.orders)
           Cost1(p, m) == SumFunctionOnSet(Parts("cost", b.orders, p), 1 .. m)
<1>4. /\ b \in Batch /\ b.cash \in Int /\ b.cash >= 0 /\ b.cash + SumFunction(b.added) = ledger.cash
      /\ SumFunction(b.added) > 0 => SumFunction(b.added) + Held <= MaxGross
      /\ \A p \in Pairs : /\ b.added[p] = SumFunction(Parts("cost", b.orders, p))
                          /\ b.sold[p] = SumFunction(Parts("sold", b.orders, p))
                          /\ b.sold[p] <= ledger.pos[p].size
      /\ b.orders \in Seq(Intents) /\ b.added \in [Pairs -> Int]
  BY DEF SpotBatch, Batch
<1>5. \A i \in DOMAIN b.orders : b.orders[i].side = "buy" =>
        /\ risk.cooldown = 0
        /\ ledger.pos[b.orders[i].pair].size * PriceOf(b.orders[i], closes)
             + Cost1(b.orders[i].pair, i) <= MaxPosition
  BY DEF SpotBatch
<1>6. /\ n \in Nat /\ DOMAIN b.orders = 1 .. n
      /\ \A i \in 1 .. n : /\ sent[i].pair = b.orders[i].pair /\ sent[i].side = b.orders[i].side
                           /\ PriceOf(sent[i], closes) = PriceOf(b.orders[i], closes)
      /\ \A p : \A kind \in Kinds : Parts(kind, sent, p) = Parts(kind, b.orders, p)
  BY <1>2, <1>4, SentIs
<1>7. /\ venues' \in VenueMaps
      /\ \A p \in Pairs : \A kind \in Kinds :
           PendingSum(kind, venues'[p].orders, p) = SumFunctionOnSet(Parts(kind, sent, p), 1 .. n)
      /\ \A p \in Pairs : \A i \in PendingOf(venues'[p].orders) : \E m \in 1 .. n :
           /\ venues'[p].orders[i] = sent[m]
           /\ PendingUpTo("cost", venues'[p].orders, p, i)
                = SumFunctionOnSet(Parts("cost", sent, p), 1 .. m)
  BY <1>3 DEF PlacedUpTo
<1> HIDE DEF n, sent
<1>8. \A p \in Pairs : Bought(p)' = b.added[p] /\ SoldUnits(p)' = b.sold[p]
  <2> SUFFICES ASSUME NEW p \in Pairs PROVE Bought(p)' = b.added[p] /\ SoldUnits(p)' = b.sold[p]
    OBVIOUS
  <2>1. /\ Bought(p)' = PendingSum("cost", venues'[p].orders, p)
        /\ SoldUnits(p)' = PendingSum("sold", venues'[p].orders, p)
    BY <1>1, <1>7, PendingIs
  <2>2. /\ PendingSum("cost", venues'[p].orders, p) = SumFunctionOnSet(Parts("cost", b.orders, p), 1 .. n)
        /\ PendingSum("sold", venues'[p].orders, p) = SumFunctionOnSet(Parts("sold", b.orders, p), 1 .. n)
    BY <1>6, <1>7 DEF Kinds
  <2>3. DOMAIN Parts("cost", b.orders, p) = 1 .. n /\ DOMAIN Parts("sold", b.orders, p) = 1 .. n
    BY <1>6 DEF Parts
  <2> QED BY <1>4, <2>1, <2>2, <2>3 DEF SumFunction
<1>9. SumFunction([p \in Pairs |-> Bought(p)]') = SumFunction(b.added) /\ SumFunction(b.added) \in Int
  <2>1. SumFunction(b.added) \in Int
    BY <1>4, PairSum
  <2>2. [p \in Pairs |-> Bought(p)'] = b.added
    BY <1>4, <1>8
  <2> QED BY <2>1, <2>2
<1>10. Gross(Sizes)' = Held
  <2>1. \A p \in Pairs : Abs(ledger.pos[p].size) = ledger.pos[p].size
    <3> SUFFICES ASSUME NEW p \in Pairs PROVE Abs(ledger.pos[p].size) = ledger.pos[p].size
      OBVIOUS
    <3>1. ledger.pos[p].size \in Int /\ ledger.pos[p].size >= 0
      BY <1>2 DEF Solvent, Account, Position
    <3> QED BY <3>1 DEF Abs
  <2>2. Gross(Sizes)' = SumFunction([p \in Pairs |-> Abs(ledger.pos[p].size) * closes[p]])
    BY <1>1 DEF Gross, Sizes
  <2>3. [p \in Pairs |-> Abs(ledger.pos[p].size) * closes[p]] = [p \in Pairs |-> Exposure(ledger, p, closes)]
    BY <2>1 DEF Exposure
  <2> QED BY <2>2, <2>3 DEF Held
<1>11. ASSUME NEW p \in Pairs, NEW i \in Pending(p)', venues'[p].orders[i].side = "buy"
       PROVE  /\ risk.cooldown = 0
              /\ ledger.pos[p].size * PriceOf(venues'[p].orders[i], closes) + BoughtUpTo(p, i)'
                   <= MaxPosition
  <2>1. /\ i \in PendingOf(venues'[p].orders)
        /\ BoughtUpTo(p, i)' = PendingUpTo("cost", venues'[p].orders, p, i)
    BY <1>1, <1>7, PendingIs
  <2>2. PICK m \in 1 .. n :
          /\ venues'[p].orders[i] = sent[m]
          /\ PendingUpTo("cost", venues'[p].orders, p, i)
               = SumFunctionOnSet(Parts("cost", sent, p), 1 .. m)
    BY <1>7, <2>1
  <2>3. b.orders[m].side = "buy" /\ PriceOf(venues'[p].orders[i], closes) = PriceOf(b.orders[m], closes)
    BY <1>6, <1>11, <2>2
  <2>4. b.orders[m].pair = p
    <3> DEFINE orders == venues'[p].orders
    <3>1. orders \in Seq(Order(p)) /\ i \in DOMAIN orders
      BY <1>7, <2>1 DEF VenueMaps, Venue, PendingOf
    <3> HIDE DEF orders
    <3>2. orders[i] \in Order(p)
      BY <3>1
    <3>3. orders[i].pair = p
      BY <3>2 DEF Order
    <3> QED BY <1>6, <2>2, <3>3 DEF orders
  <2>5. PendingUpTo("cost", venues'[p].orders, p, i) = Cost1(p, m)
    BY <1>6, <2>2 DEF Kinds
  <2> HIDE DEF Cost1
  <2>6. /\ risk.cooldown = 0
        /\ ledger.pos[p].size * PriceOf(b.orders[m], closes) + Cost1(p, m) <= MaxPosition
    BY <1>5, <1>6, <2>3, <2>4
  <2> QED BY <2>1, <2>3, <2>5, <2>6
<1>12. BatchStaysInCaps'
  <2>1. SumFunction([p \in Pairs |-> Bought(p)]') <= ledger'.cash
    <3>1. ledger.cash \in Int
      BY <1>2 DEF Account
    <3> QED BY <1>1, <1>4, <1>9, <3>1
  <2>2. SumFunction([p \in Pairs |-> Bought(p)]') > 0 =>
          SumFunction([p \in Pairs |-> Bought(p)]') + Gross(Sizes)' <= MaxGross
    BY <1>4, <1>9, <1>10
  <2>3. \A p \in Pairs : SoldUnits(p)' <= ledger'.pos[p].size
    BY <1>1, <1>4, <1>8
  <2>4. \A p \in Pairs : \A i \in Pending(p)' : venues'[p].orders[i].side = "buy" =>
          ledger'.pos[p].size * PriceOf(venues'[p].orders[i], closes') + BoughtUpTo(p, i)' <= MaxPosition
    BY <1>1, <1>11
  <2> QED BY <1>1, <2>1, <2>2, <2>3, <2>4 DEF BatchStaysInCaps, PriceOf
<1>13. CooldownHolds'
  <2> SUFFICES ASSUME NEW i \in Exits(recorded), StreakEndsAt(recorded, i),
                      step - recorded[i].step < CooldownCandles - 1, NEW p \in Pairs
               PROVE  Bought(p)' = 0
    <3>1. Exits(recorded)' = Exits(recorded)
          /\ \A i \in Exits(recorded) : StreakEndsAt(recorded, i)' = StreakEndsAt(recorded, i)
      BY <1>1 DEF Exits, StreakEndsAt, FullStreak, LosingRun
    <3> QED BY <1>1, <3>1 DEF CooldownHolds
  <2>1. risk.cooldown # 0
    <3>1. risk.cooldown >= CooldownCandles - 1 - (step - recorded[i].step)
      BY <1>2 DEF Counted
    <3>2. risk.cooldown \in Int /\ CooldownCandles \in Int
      BY <1>2, RiskAssumption DEF RiskState
    <3>3. recorded[i].step \in Int
      <4>1. i \in DOMAIN recorded
        BY DEF Exits
      <4>2. recorded[i].step \in 1 .. step
        BY <1>2, <4>1 DEF AddUp
      <4> QED BY <4>2
    <3> QED BY <1>2, <3>1, <3>2, <3>3
  <2>2. \A k \in 1 .. n : Part("cost", b.orders[k], p) = 0
    BY <1>5, <1>6, <2>1 DEF Part
  <2>3. DOMAIN Parts("cost", b.orders, p) = 1 .. n /\ \A k \in 1 .. n : Parts("cost", b.orders, p)[k] = 0
    BY <1>6, <2>2 DEF Parts
  <2>4. SumFunction(Parts("cost", b.orders, p)) = 0
    <3>1. IsFiniteSet(1 .. n)
      BY <1>6, FS_Interval
    <3> QED BY <2>3, <3>1, SumOfZeros DEF SumFunction
  <2> QED BY <1>4, <1>8, <2>4
<1> QED BY <1>12, <1>13

\* A decision about a perp: the positions it leads to are inside the caps, as
\* far as the pending orders have no limit.
LEMMA PerpDecided ==
  ASSUME IInv, Decide, instrument = "perp"
  PROVE  BatchStaysInCaps' /\ CooldownHolds'
<1>1. /\ phase = "decide" /\ phase' = "candle"
      /\ instrument' = instrument /\ step' = step /\ ledger' = ledger /\ closes' = closes
  BY DEF Decide
<1>2. /\ ledger \in Account /\ step \in Nat /\ closes \in [Pairs -> Nat]
  BY <1>1, EngineAssumption DEF IInv, Typed
<1>3. PICK b \in PerpBatch : PlacedUpTo(Sent(b.orders), Len(b.orders), venues')
  BY DecideSends
<1> DEFINE n == Len(b.orders)
           sent == Sent(b.orders)
           was == [p \in Pairs |-> ledger.pos[p].size]
<1>4. /\ b.orders \in Seq(Intents) /\ b.resulting \in [Pairs -> Int]
      /\ \A p \in Pairs :
           b.resulting[p] = was[p] + SumFunction(Parts("move", b.orders, p))
      /\ (\A i \in DOMAIN b.orders : b.orders[i].limit = 0) =>
           /\ \A p \in Pairs : Abs(b.resulting[p]) * closes[p]
                               <= Max({MaxPosition, Abs(ledger.pos[p].size) * closes[p]})
           /\ Magnitude(b.resulting) <= Max({MaxGross, Magnitude(was)})
  BY DEF PerpBatch, Batch
<1>5. /\ n \in Nat /\ DOMAIN b.orders = 1 .. n
      /\ \A i \in 1 .. n : sent[i].limit = b.orders[i].limit /\ sent[i].pair \in Pairs
      /\ \A p : \A kind \in Kinds : Parts(kind, sent, p) = Parts(kind, b.orders, p)
  <2>1. /\ sent \in Seq(Stamped) /\ Len(sent) = n /\ DOMAIN b.orders = 1 .. n /\ n \in Nat
        /\ \A i \in 1 .. n : sent[i].limit = b.orders[i].limit
        /\ \A p : \A kind \in Kinds : Parts(kind, sent, p) = Parts(kind, b.orders, p)
    BY <1>2, <1>4, SentIs
  <2> HIDE DEF n, sent
  <2>2. \A i \in 1 .. n : sent[i] \in Stamped
    BY <2>1
  <2>3. \A i \in 1 .. n : sent[i].pair \in Pairs
    BY <2>2, StampedIs
  <2> QED BY <2>1, <2>3
<1>6. /\ venues' \in VenueMaps
      /\ \A p \in Pairs : \A kind \in Kinds :
           PendingSum(kind, venues'[p].orders, p) = SumFunctionOnSet(Parts(kind, sent, p), 1 .. n)
      /\ \A m \in 1 .. n : \E i \in PendingOf(venues'[sent[m].pair].orders) :
           venues'[sent[m].pair].orders[i] = sent[m]
  BY <1>3 DEF PlacedUpTo
<1> HIDE DEF n, sent
<1>7. \A p \in Pairs : Resulting(p)' = b.resulting[p] /\ Pending(p)' = PendingOf(venues'[p].orders)
  <2> SUFFICES ASSUME NEW p \in Pairs
               PROVE  Resulting(p)' = b.resulting[p] /\ Pending(p)' = PendingOf(venues'[p].orders)
    OBVIOUS
  <2>1. /\ Resulting(p)' = ledger.pos[p].size + PendingSum("move", venues'[p].orders, p)
        /\ Pending(p)' = PendingOf(venues'[p].orders)
    BY <1>1, <1>6, PendingIs
  <2>2. PendingSum("move", venues'[p].orders, p) = SumFunctionOnSet(Parts("move", b.orders, p), 1 .. n)
    BY <1>5, <1>6 DEF Kinds
  <2>3. DOMAIN Parts("move", b.orders, p) = 1 .. n
    BY <1>5 DEF Parts
  <2> QED BY <1>4, <2>1, <2>2, <2>3 DEF SumFunction
<1>8. ASSUME \A p \in Pairs : \A i \in Pending(p)' : venues'[p].orders[i].limit = 0
      PROVE  \A m \in DOMAIN b.orders : b.orders[m].limit = 0
  <2> SUFFICES ASSUME NEW m \in 1 .. n PROVE b.orders[m].limit = 0
    BY <1>5
  <2> DEFINE p == sent[m].pair
  <2>1. p \in Pairs /\ sent[m].limit = b.orders[m].limit
    BY <1>5
  <2>2. PICK i \in PendingOf(venues'[p].orders) : venues'[p].orders[i] = sent[m]
    BY <1>6
  <2> HIDE DEF p
  <2>3. venues'[p].orders[i].limit = 0
    BY <1>7, <1>8, <2>1, <2>2
  <2> QED BY <2>1, <2>2, <2>3
<1>9. Gross(Sizes)' = Magnitude(was)
  BY <1>1 DEF Gross, Sizes, Magnitude
<1>10. Gross([p \in Pairs |-> Resulting(p)])' = Magnitude(b.resulting)
  <2>1. [p \in Pairs |-> Resulting(p)'] = b.resulting
    BY <1>4, <1>7
  <2>2. Gross([p \in Pairs |-> Resulting(p)])'
          = SumFunction([p \in Pairs |-> Abs([q \in Pairs |-> Resulting(q)'][p]) * closes[p]])
    BY <1>1 DEF Gross
  <2> QED BY <2>1, <2>2 DEF Magnitude
<1>11. BatchStaysInCaps'
  <2>1. ASSUME \A p \in Pairs : \A i \in Pending(p)' : venues'[p].orders[i].limit = 0
        PROVE  /\ \A p \in Pairs : Abs(Resulting(p)') * closes[p]
                                   <= Max({MaxPosition, Abs(ledger.pos[p].size) * closes[p]})
               /\ Gross([p \in Pairs |-> Resulting(p)])' <= Max({MaxGross, Gross(Sizes)'})
    BY <1>4, <1>7, <1>8, <1>9, <1>10, <2>1
  <2> QED BY <1>1, <2>1 DEF BatchStaysInCaps
<1>12. CooldownHolds'
  BY <1>1 DEF CooldownHolds
<1> QED BY <1>11, <1>12

-----------------------------------------------------------------------------
(***************************************************************************)
(* A beginning, of a chain and of a run that resumes one.                  *)
(***************************************************************************)
\* A ledger that opens with something opens balanced.
LEMMA NewLedgerIs ==
  ASSUME NEW cash \in Int, NEW pos \in [Pairs -> Position]
  PROVE  LET l == NewLedger(cash, pos)
         IN  l \in Account /\ l.cash = cash /\ l.pos = pos /\ Balanced(l)
<1> DEFINE l == NewLedger(cash, pos)
           first == [cash |-> cash, pos |-> pos, realized |-> 0, funded |-> 0, opening |-> 0]
           costs == SumFunctionOnSet([p \in Pairs |-> pos[p].cost], Pairs)
<1>1. Costs(first) = costs /\ costs \in Int
  <2>1. \A p \in Pairs : pos[p].cost \in Int
    BY DEF Position
  <2>2. costs \in Int
    BY <2>1, PairsFinite, SumTakes
  <2> QED BY <2>2 DEF Costs, SumFunction
<1> HIDE DEF costs
<1>2. l = [cash |-> cash, pos |-> pos, realized |-> 0, funded |-> 0, opening |-> cash + costs]
  BY <1>1 DEF NewLedger
<1> HIDE DEF l
<1>3. l \in Account /\ l.cash = cash /\ l.pos = pos /\ l.opening = cash + costs /\ l.realized = 0
      /\ l.funded = 0
  BY <1>1, <1>2 DEF Account
<1>4. Costs(l) = costs
  BY <1>3 DEF Costs, SumFunction, costs
<1>5. Balanced(l)
  BY <1>1, <1>3, <1>4 DEF Balanced
<1> QED BY <1>3, <1>5 DEF l

\* With nothing held and no rows everything adds up.
LEMMA FreshAccount ==
  ASSUME NEW now
  PROVE  LET l == NewLedger(StartingCash, FlatAccount)
         IN  /\ Sound(l) /\ AddUp(<<>>, l, now) /\ l.cash = StartingCash
             /\ \A p \in Pairs : l.pos[p].size = 0
<1> DEFINE l == NewLedger(StartingCash, FlatAccount)
<1>1. StartingCash \in Int /\ StartingCash >= 0 /\ FlatAccount \in [Pairs -> Position]
      /\ \A p \in Pairs : FlatAccount[p].size = 0 /\ FlatAccount[p].cost = 0
  BY EngineAssumption DEF FlatAccount, Flat, Position
<1>2. l \in Account /\ l.cash = StartingCash /\ l.pos = FlatAccount /\ Balanced(l)
  BY <1>1, NewLedgerIs
<1> HIDE DEF l
<1>3. Sound(l)
  BY <1>1, <1>2 DEF Sound, Solvent
<1>4. SumFunction(CashFlows(<<>>)) = 0 /\ \A p \in Pairs : SumFunction(UnitFlows(<<>>, p)) = 0
  <2>1. DOMAIN CashFlows(<<>>) = {} /\ \A p \in Pairs : DOMAIN UnitFlows(<<>>, p) = {}
    BY DEF CashFlows, UnitFlows
  <2>2. \A f : SumFunctionOnSet(f, {}) = 0
    BY FS_EmptySet, SumOfZeros
  <2> QED BY <2>1, <2>2 DEF SumFunction
<1>5. AddUp(<<>>, l, now)
  BY <1>1, <1>2, <1>4 DEF AddUp
<1> QED BY <1>1, <1>2, <1>3, <1>5 DEF l

\* A fresh risk manager has counted nothing.
LEMMA FreshRisk ==
  ASSUME NEW now
  PROVE  NewRisk \in RiskState /\ NewRisk.day = NoDay /\ ~NewRisk.halted /\ Counted(<<>>, NewRisk, now)
<1>1. NewRisk \in RiskState /\ NewRisk.losses = 0 /\ NewRisk.day = NoDay /\ ~NewRisk.halted
  BY RiskAssumption DEF NewRisk, RiskState, NoDay
<1>2. Exits(<<>>) = {}
  BY DEF Exits
<1>3. LosingRun(<<>>, 0, Len(<<>>))
  BY <1>2 DEF LosingRun
<1>4. Cardinality({k \in Exits(<<>>) : 0 < k}) = 0 * MaxLosses + NewRisk.losses
  <2>1. {k \in Exits(<<>>) : 0 < k} = {}
    BY <1>2
  <2>2. Cardinality({}) = 0
    BY FS_EmptySet
  <2>3. 0 * MaxLosses = 0
    BY RiskAssumption
  <2>4. 0 * MaxLosses + NewRisk.losses = 0
    BY <1>1, <2>3
  <2> QED BY <2>1, <2>2, <2>4
<1>5. 0 \in 0 .. Len(<<>>)
  OBVIOUS
<1>6. Counted(<<>>, NewRisk, now)
  BY <1>2, <1>3, <1>4, <1>5 DEF Counted
<1> QED BY <1>1, <1>6

\* A venue no order has reached.
LEMMA FreshVenue ==
  \A p \in Pairs : NewVenue \in Venue(p) /\ NewVenue.orders = <<>> /\ NewVenue.position = 0
<1> SUFFICES ASSUME NEW p \in Pairs
             PROVE  NewVenue \in Venue(p) /\ NewVenue.orders = <<>> /\ NewVenue.position = 0
  OBVIOUS
<1>1. <<>> \in Seq(Order(p))
  OBVIOUS
<1> QED BY <1>1 DEF NewVenue, Venue

\* The invariant holds at the beginning.
LEMMA InitKept ==
  ASSUME Init
  PROVE  IInv
<1>1. /\ phase = "candle" /\ step = 0 /\ restarts = 0 /\ instrument \in Instruments
      /\ ledger = NewLedger(StartingCash, FlatAccount) /\ risk = NewRisk
      /\ venues = [p \in Pairs |-> NewVenue] /\ closes = [p \in Pairs |-> 0]
      /\ last = <<>> /\ recorded = <<>> /\ floors = <<>>
  BY DEF Init
<1>2. /\ Sound(ledger) /\ AddUp(recorded, ledger, step)
      /\ \A p \in Pairs : ledger.pos[p].size = 0
  BY <1>1, FreshAccount
<1>3. risk \in RiskState /\ risk.day = NoDay /\ Counted(recorded, risk, step)
  BY <1>1, FreshRisk
<1>4. \A p \in Pairs : venues[p] \in Venue(p) /\ venues[p].orders = <<>> /\ venues[p].position = 0
  BY <1>1, FreshVenue
<1>5. Typed
  <2>1. step \in 0 .. MaxSteps /\ restarts \in 0 .. MaxRestarts /\ Len(floors) <= step
    BY <1>1, EngineAssumption
  <2>2. recorded \in Seq(FillRow) /\ floors \in Seq(Int)
    BY <1>1
  <2>3. DOMAIN last \subseteq Pairs /\ \A p \in DOMAIN last : last[p] \in Bars
    BY <1>1
  <2>4. venues = [p \in Pairs |-> venues[p]] /\ closes \in [Pairs -> Nat]
    BY <1>1
  <2> QED BY <1>1, <1>2, <1>3, <1>4, <2>1, <2>2, <2>3, <2>4 DEF Typed, Sound
<1>6. VenueAgreesWithLedger
  BY <1>2, <1>4 DEF VenueAgreesWithLedger, VenueNeverDrifts
<1>7. RailRemembers
  BY <1>1, <1>3 DEF RailRemembers
<1>8. OrdersAreOld
  BY <1>4 DEF OrdersAreOld
<1> QED BY <1>2, <1>3, <1>5, <1>6, <1>7, <1>8 DEF IInv

-----------------------------------------------------------------------------
(***************************************************************************)
(* The end of the data.                                                    *)
(***************************************************************************)
\* The accounts while they are wound down.
Winding ==
  {s \in [failed : BOOLEAN, ledger : Account, risk : RiskState, venues : VenueMaps,
          recorded : Seq(FillRow)] :
     /\ Sound(s.ledger) /\ AddUp(s.recorded, s.ledger, step)
     /\ s.risk.day = risk.day /\ NoneNewer(s.venues)}

\* The fill that closes a position at the close is a trade.
LEMMA LiquidationIs ==
  ASSUME NEW p \in Pairs, NEW size \in Int, NEW candle \in Bars
  PROVE  LET f == LiquidationFill(p, size, candle)
         IN  Trade(f) /\ f.fee <= Amount(f) /\ f.pair = p
<1> DEFINE side == IF size > 0 THEN "sell" ELSE "buy"
           price == Slipped(candle.close, side)
           fee == (price * Abs(size) * TakerFee) \div 10
           f == LiquidationFill(p, size, candle)
<1>1. side \in Sides /\ candle.close \in Nat
  BY DEF Sides, Bars
<1> HIDE DEF side
<1>2. price \in Nat
  BY <1>1, SlippedIs
<1>3. f.pair = p /\ f.side = side /\ f.size = Abs(size) /\ f.price = price /\ f.fee = fee
  BY DEF LiquidationFill, side
<1> HIDE DEF price, f
<1>4. Abs(size) \in Nat /\ price * Abs(size) \in Nat
  <2>1. Abs(size) \in Nat
    BY DEF Abs
  <2> QED BY <1>2, <2>1, Product
<1>5. fee \in 0 .. price * Abs(size)
  BY <1>4, Share, VenueAssumption
<1> HIDE DEF fee
<1>6. fee \in Nat /\ fee <= price * Abs(size)
  BY <1>4, <1>5
<1>7. Trade(f) /\ f.fee <= Amount(f) /\ f.pair = p
  BY <1>1, <1>2, <1>3, <1>4, <1>6 DEF Trade, Amount
<1> QED BY <1>7 DEF f

\* A venue that tracks it is a venue, with the orders it had.
LEMMA TrackedVenue ==
  ASSUME NEW p \in Pairs, NEW v \in Venue(p), NEW f, Trade(f)
  PROVE  Track(v, f) \in Venue(p) /\ Track(v, f).orders = v.orders
<1> DEFINE position == v.position + Direction(f) * f.size
<1>1. position \in Int /\ <<>> \in Seq(Order(p))
  BY DEF Venue, Trade, Direction
<1>2. Track(v, f) = IF position <= 0
                    THEN [v EXCEPT !.position = position, !.protections = <<>>, !.armed = <<>>]
                    ELSE [v EXCEPT !.position = position]
  BY DEF Track
<1> HIDE DEF position
<1>3. CASE position <= 0
  BY <1>1, <1>2, <1>3 DEF Venue
<1>4. CASE ~(position <= 0)
  BY <1>1, <1>2, <1>4 DEF Venue
<1> QED BY <1>3, <1>4

\* One pair wound down.
LEMMA PairWound ==
  ASSUME step \in Nat \ {0}, instrument \in {"spot", "perp"},
         \A p \in DOMAIN last : last[p] \in Bars, NEW s \in Winding, NEW p \in Pairs
  PROVE  WindDown(s, p) \in Winding
<1> DEFINE size == s.ledger.pos[p].size
           fill == LiquidationFill(p, size, last[p])
           tracked == Track(s.venues[p], fill)
           venues1 == [s.venues EXCEPT ![p] = tracked]
           sent == [s EXCEPT !.venues = venues1]
           pnl  == Realized(s.ledger, fill)
           l == ApplyFill(s.ledger, fill)
           r == NotifyTrade(s.risk, pnl)
           rows == Append(s.recorded, Row(fill, step, pnl))
<1>1. /\ s \in [failed : BOOLEAN, ledger : Account, risk : RiskState, venues : VenueMaps,
                recorded : Seq(FillRow)]
      /\ s.ledger \in Account /\ s.risk \in RiskState /\ s.venues \in VenueMaps
      /\ s.recorded \in Seq(FillRow)
      /\ Sound(s.ledger) /\ AddUp(s.recorded, s.ledger, step)
      /\ s.risk.day = risk.day /\ NoneNewer(s.venues)
  BY DEF Winding
<1>2. CASE s.failed \/ p \notin DOMAIN last \/ size = 0
  BY <1>2 DEF WindDown
<1>3. CASE ~(s.failed \/ p \notin DOMAIN last \/ size = 0)
  <2>1. WindDown(s, p) = IF ~Accepts(s.ledger, fill, instrument) THEN [sent EXCEPT !.failed = TRUE]
                         ELSE [sent EXCEPT !.ledger = l, !.risk = r, !.recorded = rows]
    BY <1>3 DEF WindDown
  <2>2. size \in Int /\ last[p] \in Bars
    BY <1>1, <1>3 DEF Account, Position
  <2> HIDE DEF size
  <2>3. Trade(fill) /\ fill.fee <= Amount(fill) /\ fill.pair = p
    BY <2>2, LiquidationIs
  <2> HIDE DEF fill
  <2>4. s.venues[p] \in Venue(p)
    BY <1>1 DEF VenueMaps
  <2>5. tracked \in Venue(p) /\ tracked.orders = s.venues[p].orders
    BY <2>3, <2>4, TrackedVenue
  <2> HIDE DEF tracked
  <2>6. venues1 \in VenueMaps /\ venues1[p] = tracked
        /\ \A q \in Pairs : q # p => venues1[q] = s.venues[q]
    BY <1>1, <2>5, VenueReplaced
  <2> HIDE DEF venues1
  <2>7. NoneNewer(venues1)
    <3> SUFFICES ASSUME NEW q \in Pairs PROVE \A i \in DOMAIN venues1[q].orders :
                                                venues1[q].orders[i].step <= step
      BY DEF NoneNewer
    <3>1. venues1[q].orders = s.venues[q].orders
      BY <2>5, <2>6
    <3> QED BY <1>1, <3>1 DEF NoneNewer
  <2>8. CASE ~Accepts(s.ledger, fill, instrument)
    <3> DEFINE t == WindDown(s, p)
    <3>1. t = [s EXCEPT !.venues = venues1, !.failed = TRUE]
      BY <1>1, <2>1, <2>8
    <3> HIDE DEF t
    <3>2. t.ledger = s.ledger /\ t.risk = s.risk /\ t.recorded = s.recorded /\ t.venues = venues1
      BY <1>1, <3>1
    <3>3. t \in [failed : BOOLEAN, ledger : Account, risk : RiskState, venues : VenueMaps,
                 recorded : Seq(FillRow)]
      BY <1>1, <2>6, <3>1
    <3>4. t \in Winding
      BY <1>1, <2>7, <3>2, <3>3 DEF Winding
    <3> QED BY <3>4 DEF t
  <2>9. CASE Accepts(s.ledger, fill, instrument)
    <3> DEFINE t == WindDown(s, p)
    <3>1. Sound(l) /\ pnl \in Int
      <4>1. instrument = "spot" => Accepts(s.ledger, fill, "spot")
        BY <2>9
      <4> QED BY <1>1, <2>3, <4>1, SoundKept
    <3>2. rows \in Seq(FillRow) /\ AddUp(rows, l, step)
      <4> HIDE DEF pnl
      <4> QED BY <1>1, <2>3, <3>1, RowsKept
    <3>3. r \in RiskState /\ r.day = s.risk.day
      <4> HIDE DEF pnl
      <4> QED BY <1>1, <3>1, Notified
    <3> HIDE DEF l, rows, r
    <3>4. t = [s EXCEPT !.venues = venues1, !.ledger = l, !.risk = r, !.recorded = rows]
      BY <1>1, <2>1, <2>9
    <3> HIDE DEF t
    <3>5. t.ledger = l /\ t.risk = r /\ t.recorded = rows /\ t.venues = venues1
      BY <1>1, <3>4
    <3>6. t \in [failed : BOOLEAN, ledger : Account, risk : RiskState, venues : VenueMaps,
                 recorded : Seq(FillRow)]
      <4>1. l \in Account
        BY <3>1 DEF Sound
      <4> QED BY <1>1, <2>6, <3>2, <3>3, <3>4, <4>1
    <3>7. t \in Winding
      BY <1>1, <2>7, <3>1, <3>2, <3>3, <3>5, <3>6 DEF Winding
    <3> QED BY <3>7 DEF t
  <2> QED BY <2>8, <2>9
<1> QED BY <1>2, <1>3

-----------------------------------------------------------------------------
\* All pairs wound down.
LEMMA AllWound ==
  ASSUME IInv, phase = "candle", step > 0
  PROVE  WoundDown \in Winding
<1> DEFINE base == [failed |-> FALSE, ledger |-> ledger, risk |-> risk, venues |-> venues,
                    recorded |-> recorded]
           seq == Walk
           J == [k \in 0 .. Len(seq) |-> Winding]
<1>1. /\ step \in Nat \ {0} /\ instrument \in {"spot", "perp"}
      /\ \A p \in DOMAIN last : last[p] \in Bars
  <2>1. step \in Nat /\ Books \in InOrder
    BY BooksOpen
  <2> QED BY <2>1, EngineAssumption DEF IInv, Typed
<1>2. base \in Winding
  <2>1. /\ ledger \in Account /\ risk \in RiskState /\ recorded \in Seq(FillRow)
        /\ Sound(ledger) /\ AddUp(recorded, ledger, step)
    BY DEF IInv, Typed
  <2>2. venues \in VenueMaps
    <3>1. venues = [p \in Pairs |-> venues[p]] /\ \A p \in Pairs : venues[p] \in Venue(p)
      BY DEF IInv, Typed
    <3> QED BY <3>1 DEF VenueMaps
  <2>3. NoneNewer(venues)
    BY DEF IInv, OrdersAreOld, NoneNewer
  <2> QED BY <2>1, <2>2, <2>3 DEF Winding
<1>3. seq \in Seq(Pairs) /\ Len(seq) \in Nat
  <2>1. Cardinality(Pairs) \in Nat /\ Pairs = 1 .. Cardinality(Pairs)
    BY PairsAssumption, FS_CardinalityType
  <2>2. \A i \in 1 .. Cardinality(Pairs) : i \in Pairs
    BY <2>1
  <2>3. seq \in Seq(Pairs)
    BY <2>1, <2>2, FunctionIsSeq DEF Walk
  <2> HIDE DEF seq
  <2> QED BY <2>3
<1>4. base = [failed |-> FALSE, ledger |-> ledger, risk |-> risk, venues |-> venues,
              recorded |-> recorded] /\ seq = Walk
  OBVIOUS
<1> HIDE DEF seq, base
<1>5. \A k \in 1 .. Len(seq) :
        k - 1 \in 0 .. Len(seq) /\ k \in 0 .. Len(seq) /\ seq[k] \in Pairs
  BY <1>3
<1>6. \A k \in 1 .. Len(seq) : \A s \in J[k - 1] : WindDown(s, seq[k]) \in J[k]
  BY <1>1, <1>5, PairWound
<1>7. base \in J[0] /\ J[Len(seq)] = Winding
  BY <1>2, <1>3
<1>8. WoundDown \in J[Len(seq)]
  <2> HIDE DEF J
  <2> QED BY <1>3, <1>4, <1>6, <1>7, WindDownsKeep
<1> QED BY <1>7, <1>8

\* The invariant is kept by the end of the data.
LEMMA EndOfDataKept ==
  ASSUME IInv, EndOfData
  PROVE  IInv'
<1> DEFINE out == WoundDown
<1>1. /\ phase = "candle" /\ step > 0
      /\ ledger' = out.ledger /\ risk' = out.risk /\ recorded' = out.recorded
      /\ phase' \in {"done", "failed"}
      /\ venues' = IF out.failed THEN out.venues ELSE [p \in Pairs |-> CancelAll(out.venues[p])]
      /\ instrument' = instrument /\ step' = step /\ closes' = closes /\ last' = last
      /\ floors' = floors /\ restarts' = restarts
  BY DEF EndOfData
<1>2. out \in Winding
  BY <1>1, AllWound
<1> HIDE DEF out
<1>3. /\ ledger' \in Account /\ risk' \in RiskState /\ out.venues \in VenueMaps
      /\ recorded' \in Seq(FillRow) /\ risk'.day = risk.day /\ NoneNewer(out.venues)
      /\ Sound(out.ledger) /\ AddUp(out.recorded, out.ledger, step)
  BY <1>1, <1>2 DEF Winding
<1>4. \A p \in Pairs : venues'[p] \in Venue(p)
                       /\ \A i \in DOMAIN venues'[p].orders : venues'[p].orders[i].step <= step
  <2> SUFFICES ASSUME NEW p \in Pairs
               PROVE  venues'[p] \in Venue(p)
                      /\ \A i \in DOMAIN venues'[p].orders : venues'[p].orders[i].step <= step
    OBVIOUS
  <2> DEFINE v == out.venues[p]
  <2>1. v \in Venue(p) /\ \A i \in DOMAIN v.orders : v.orders[i].step <= step
    BY <1>3 DEF VenueMaps, NoneNewer
  <2>2. CASE out.failed
    BY <1>1, <2>1, <2>2
  <2>3. CASE ~out.failed
    <3>1. venues'[p] = CancelAll(v)
      BY <1>1, <2>3
    <3> HIDE DEF v
    <3>2. <<>> \in Seq(Order(p))
      OBVIOUS
    <3>3. CancelAll(v) \in Venue(p) /\ CancelAll(v).orders = <<>>
      BY <2>1, <3>2 DEF CancelAll, Venue
    <3> QED BY <3>1, <3>3
  <2> QED BY <2>2, <2>3
<1>5. venues' = [p \in Pairs |-> venues'[p]]
  BY <1>1, <1>3 DEF VenueMaps
<1>6. Typed'
  BY <1>1, <1>3, <1>4, <1>5 DEF IInv, Typed
<1>7. Sound(ledger)'
  BY <1>1, <1>3, NextSound
<1>8. AddUp(recorded, ledger, step)'
  BY <1>1, <1>3, NextAddUp
<1>9. VenueAgreesWithLedger' /\ OrdersAreOld'
  BY <1>1, <1>4 DEF VenueAgreesWithLedger, VenueNeverDrifts, OrdersAreOld
<1>10. RailRemembers'
  BY <1>1, <1>3 DEF IInv, RailRemembers
<1>11. (phase \in {"candle", "decide"} /\ instrument = "spot" => Counted(recorded, risk, step))'
  BY <1>1
<1> QED BY <1>6, <1>7, <1>8, <1>9, <1>10, <1>11 DEF IInv

-----------------------------------------------------------------------------
(***************************************************************************)
(* A restart.                                                              *)
(***************************************************************************)
\* A replay that went through the rows of D, whatever their order: refused, or
\* with what those rows add up to.
Replayed(rows, D) ==
  {t \in [ok : BOOLEAN, ledger : Account] :
     t.ok => /\ Sound(t.ledger)
             /\ t.ledger.cash = StartingCash + SumFunctionOnSet(CashFlows(rows), D)
             /\ \A p \in Pairs : t.ledger.pos[p].size = SumFunctionOnSet(UnitFlows(rows, p), D)}

\* One row more.
LEMMA RowReplayed ==
  ASSUME instrument = "spot", NEW rows \in Seq(FillRow), NEW D \in SUBSET DOMAIN rows,
         NEW i \in DOMAIN rows, i \notin D, NEW t \in Replayed(rows, D)
  PROVE  ReplayFill(t, rows[i]) \in Replayed(rows, D \cup {i})
<1> DEFINE row == rows[i]
           l == ApplyFill(t.ledger, row)
           u == ReplayFill(t, row)
<1>1. /\ t \in [ok : BOOLEAN, ledger : Account] /\ t.ledger \in Account
      /\ t.ok => /\ Sound(t.ledger)
                 /\ t.ledger.cash = StartingCash + SumFunctionOnSet(CashFlows(rows), D)
                 /\ \A p \in Pairs : t.ledger.pos[p].size = SumFunctionOnSet(UnitFlows(rows, p), D)
  BY DEF Replayed
<1>2. u = IF t.ok /\ Accepts(t.ledger, row, "spot") THEN [t EXCEPT !.ledger = l]
                                                   ELSE [t EXCEPT !.ok = FALSE]
  BY DEF ReplayFill
<1>3. row \in FillRow /\ Trade(row) /\ row.fee <= Amount(row)
  <2>1. row \in FillRow
    OBVIOUS
  <2> HIDE DEF row
  <2> QED BY <2>1 DEF FillRow, Trade
<1>4. CashFlows(rows)[i] = CashFlow(row) /\ \A p \in Pairs : UnitFlows(rows, p)[i] = UnitFlow(row, p)
  BY DEF CashFlows, UnitFlows
<1> HIDE DEF row, l, u
<1>5. CASE ~(t.ok /\ Accepts(t.ledger, row, "spot"))
  <2>1. u = [t EXCEPT !.ok = FALSE]
    BY <1>2, <1>5
  <2>2. u \in [ok : BOOLEAN, ledger : Account] /\ ~u.ok
    BY <1>1, <2>1
  <2>3. u \in Replayed(rows, D \cup {i})
    BY <2>2 DEF Replayed
  <2> QED BY <2>3 DEF u, row
<1>6. CASE t.ok /\ Accepts(t.ledger, row, "spot")
  <2>1. Sound(l)
    BY <1>1, <1>3, <1>6, SoundKept DEF l
  <2>2. u = [t EXCEPT !.ledger = l]
    BY <1>2, <1>6
  <2>3. u \in [ok : BOOLEAN, ledger : Account] /\ u.ledger = l
    BY <1>1, <2>1, <2>2 DEF Sound
  <2>4. \A f \in [1 .. Len(rows) -> Int] :
          SumFunctionOnSet(f, D \cup {i}) = SumFunctionOnSet(f, D) + f[i]
          /\ SumFunctionOnSet(f, D) \in Int /\ f[i] \in Int
    <3> SUFFICES ASSUME NEW f \in [1 .. Len(rows) -> Int]
                 PROVE  SumFunctionOnSet(f, D \cup {i}) = SumFunctionOnSet(f, D) + f[i]
                        /\ SumFunctionOnSet(f, D) \in Int /\ f[i] \in Int
      OBVIOUS
    <3>1. DOMAIN rows = 1 .. Len(rows) /\ Len(rows) \in Nat
      OBVIOUS
    <3>2. IsFiniteSet(D)
      <4>1. IsFiniteSet(1 .. Len(rows))
        BY <3>1, FS_Interval
      <4> QED BY <3>1, <4>1, FS_Subset
    <3>3. \A q \in D \cup {i} : f[q] \in Int
      BY <3>1
    <3>4. SumFunctionOnSet(f, D) \in Int
      BY <3>2, <3>3, SumTakes
    <3> QED BY <3>2, <3>3, <3>4, SumJoins
  <2>5. l.cash = StartingCash + SumFunctionOnSet(CashFlows(rows), D \cup {i})
    <3> DEFINE f == CashFlows(rows)
    <3>1. l.cash = t.ledger.cash - Direction(row) * Amount(row) - row.fee
      BY <1>1, <1>3, FillApplied DEF l
    <3>2. Direction(row) * Amount(row) \in Int /\ row.fee \in Int /\ t.ledger.cash \in Int
      <4>1. Amount(row) \in Nat /\ row.fee \in Nat
        BY <1>1, <1>3, FillApplied DEF Trade
      <4> QED BY <1>1, <4>1 DEF Direction, Account
    <3>3. CashFlow(row) = -(Direction(row) * Amount(row)) - row.fee
      <4>1. Amount(row) \in Nat
        BY <1>1, <1>3, FillApplied
      <4> QED BY <3>2, <4>1 DEF CashFlow, Direction
    <3>4. f \in [1 .. Len(rows) -> Int]
      <4> SUFFICES CashFlows(rows) \in [1 .. Len(rows) -> Int]
        OBVIOUS
      <4>1. row.pair \in Pairs
        BY <1>3 DEF Trade
      <4> QED BY <4>1, FlowsAre
    <3>5. f[i] = CashFlow(row) /\ t.ledger.cash = StartingCash + SumFunctionOnSet(f, D)
      BY <1>1, <1>4, <1>6
    <3> HIDE DEF f
    <3>6. SumFunctionOnSet(f, D \cup {i}) = SumFunctionOnSet(f, D) + f[i]
          /\ SumFunctionOnSet(f, D) \in Int
      BY <2>4, <3>4
    <3>7. StartingCash \in Int
      BY EngineAssumption
    <3>8. l.cash = StartingCash + SumFunctionOnSet(f, D \cup {i})
      BY <3>1, <3>2, <3>3, <3>5, <3>6, <3>7
    <3> QED BY <3>8 DEF f
  <2>6. ASSUME NEW p \in Pairs
        PROVE  l.pos[p].size = SumFunctionOnSet(UnitFlows(rows, p), D \cup {i})
    <3> DEFINE f == UnitFlows(rows, p)
    <3>1. f \in [1 .. Len(rows) -> Int]
      BY FlowsAre
    <3>2. f[i] = UnitFlow(row, p) /\ t.ledger.pos[p].size = SumFunctionOnSet(f, D)
      BY <1>1, <1>4, <1>6
    <3> HIDE DEF f
    <3>3. SumFunctionOnSet(f, D \cup {i}) = SumFunctionOnSet(f, D) + f[i]
          /\ SumFunctionOnSet(f, D) \in Int
      BY <2>4, <3>1
    <3>4. l.pos[p].size = t.ledger.pos[p].size + UnitFlow(row, p)
      <4>1. CASE p = row.pair
        <5>1. l.pos[p].size = t.ledger.pos[p].size + Direction(row) * row.size
          BY <1>1, <1>3, <4>1, FillApplied DEF l
        <5> QED BY <4>1, <5>1 DEF UnitFlow
      <4>2. CASE p # row.pair
        <5>1. l.pos[p] = t.ledger.pos[p]
          BY <1>1, <1>3, <4>2, FillApplied DEF l
        <5>2. t.ledger.pos[p].size \in Int
          BY <1>1 DEF Account, Position
        <5> QED BY <4>2, <5>1, <5>2 DEF UnitFlow
      <4> QED BY <4>1, <4>2
    <3> QED BY <3>2, <3>3, <3>4 DEF f
  <2>7. u \in Replayed(rows, D \cup {i})
    BY <2>1, <2>3, <2>5, <2>6 DEF Replayed
  <2> QED BY <2>7 DEF u, row
<1> QED BY <1>5, <1>6

-----------------------------------------------------------------------------
\* The rows of one step and side.
Of(rows, at, side, k) == {i \in 1 .. k : rows[i].step = at /\ rows[i].side = side}

\* They go through one after the other.
LEMMA SideReplayed ==
  ASSUME instrument = "spot", NEW rows \in Seq(FillRow), NEW D \in SUBSET DOMAIN rows,
         NEW at, NEW side, \A i \in D : ~(rows[i].step = at /\ rows[i].side = side),
         NEW t \in Replayed(rows, D)
  PROVE  ReplaySide(t, rows, at, side) \in Replayed(rows, D \cup Of(rows, at, side, Len(rows)))
<1> DEFINE n == Len(rows)
           c == [at |-> at, side |-> side]
           J == [k \in 0 .. n |-> Replayed(rows, D \cup Of(rows, at, side, k))]
<1>1. n \in Nat /\ DOMAIN rows = 1 .. n
      /\ \A k \in 1 .. n : k \in 0 .. n /\ k - 1 \in 0 .. n
  OBVIOUS
<1> HIDE DEF n
<1>2. t \in J[0]
  <2>1. Of(rows, at, side, 0) = {}
    BY DEF Of
  <2>2. J[0] = Replayed(rows, D \cup Of(rows, at, side, 0))
    BY <1>1
  <2>3. D \cup Of(rows, at, side, 0) = D
    BY <2>1
  <2> QED BY <2>2, <2>3
<1>3. ASSUME NEW k \in 1 .. n, NEW x \in J[k - 1] PROVE RowOp(c, rows[k], x) \in J[k]
  <2> DEFINE E == D \cup Of(rows, at, side, k - 1)
  <2>1. x \in Replayed(rows, E) /\ J[k] = Replayed(rows, D \cup Of(rows, at, side, k))
    BY <1>1
  <2>2. E \in SUBSET DOMAIN rows
    <3>1. \A i \in 1 .. k - 1 : i \in 1 .. n
      BY <1>1
    <3> QED BY <1>1, <3>1 DEF Of
  <2>3. \A i : i \in 1 .. k <=> i \in 1 .. k - 1 \/ i = k
    BY <1>1
  <2> HIDE DEF J
  <2>4. CASE rows[k].step = at /\ rows[k].side = side
    <3>1. Of(rows, at, side, k) = Of(rows, at, side, k - 1) \cup {k}
      BY <2>3, <2>4 DEF Of
    <3>2. k \notin E /\ k \in DOMAIN rows
      <4>1. k \notin 1 .. k - 1
        BY <1>1
      <4> QED BY <1>1, <2>4, <4>1 DEF Of
    <3>3. D \cup Of(rows, at, side, k) = E \cup {k}
      BY <3>1
    <3> HIDE DEF E
    <3>4. ReplayFill(x, rows[k]) \in Replayed(rows, E \cup {k})
      BY <2>1, <2>2, <3>2, RowReplayed
    <3>5. RowOp(c, rows[k], x) = ReplayFill(x, rows[k])
      BY <2>4 DEF RowOp
    <3> QED BY <2>1, <3>3, <3>4, <3>5
  <2>5. CASE ~(rows[k].step = at /\ rows[k].side = side)
    <3>1. Of(rows, at, side, k) = Of(rows, at, side, k - 1)
      BY <2>3, <2>5 DEF Of
    <3>2. RowOp(c, rows[k], x) = x
      BY <2>5 DEF RowOp
    <3> QED BY <2>1, <3>1, <3>2
  <2> QED BY <2>4, <2>5
<1>4. J[n] = Replayed(rows, D \cup Of(rows, at, side, n))
  BY <1>1
<1> HIDE DEF J
<1>5. ReplaySide(t, rows, at, side) \in J[Len(rows)]
  BY <1>2, <1>3, ReplaysKeep DEF n
<1> QED BY <1>4, <1>5 DEF n

\* The rows of the first steps.
UpTo(rows, at) == {i \in DOMAIN rows : rows[i].step \in 1 .. at}

\* One step more: its buys, then its sells.
LEMMA StepReplayed ==
  ASSUME instrument = "spot", NEW rows \in Seq(FillRow), NEW at \in Nat \ {0},
         NEW t \in Replayed(rows, UpTo(rows, at - 1))
  PROVE  ReplayOp(rows, at, t) \in Replayed(rows, UpTo(rows, at))
<1> DEFINE n == Len(rows)
           D == UpTo(rows, at - 1)
           B == D \cup Of(rows, at, "buy", n)
           C == B \cup Of(rows, at, "sell", n)
           bought == ReplaySide(t, rows, at, "buy")
<1>1. /\ n \in Nat /\ DOMAIN rows = 1 .. n
      /\ \A i \in 1 .. n : rows[i].side \in {"buy", "sell"} /\ rows[i].step \in Nat
  <2>1. \A i \in 1 .. n : rows[i] \in FillRow
    OBVIOUS
  <2> HIDE DEF n
  <2>2. \A i \in 1 .. n : rows[i].side \in {"buy", "sell"} /\ rows[i].step \in Nat
    BY <2>1 DEF FillRow, Sides
  <2> QED BY <2>2 DEF n
<1>2. \A i \in D : rows[i].step # at
  BY DEF UpTo
<1>3. D \in SUBSET DOMAIN rows /\ B \in SUBSET DOMAIN rows
  BY <1>1 DEF UpTo, Of
<1>4. \A i \in B : ~(rows[i].step = at /\ rows[i].side = "sell")
  BY <1>2 DEF Of
<1>5. C = UpTo(rows, at)
  <2>1. \A k \in Nat : k \in 1 .. at <=> k \in 1 .. at - 1 \/ k = at
    OBVIOUS
  <2> HIDE DEF n
  <2>2. \A i : i \in C <=> i \in UpTo(rows, at)
    BY <1>1, <2>1 DEF UpTo, Of
  <2> HIDE DEF C
  <2> QED BY <2>2
<1> HIDE DEF B, C, D, bought
<1>6. bought \in Replayed(rows, B)
  BY <1>2, <1>3, SideReplayed DEF B, D, bought
<1>7. ReplaySide(bought, rows, at, "sell") \in Replayed(rows, C)
  BY <1>3, <1>4, <1>6, SideReplayed DEF C
<1> QED BY <1>5, <1>7 DEF ReplayOp, bought

\* A replay of a spot chain's rows that is not refused ends with the cash and the
\* sizes those rows add up to.
LEMMA ReplayIs ==
  ASSUME instrument = "spot", step \in Nat, NEW rows \in Seq(FillRow),
         \A i \in DOMAIN rows : rows[i].step \in 1 .. step
  PROVE  /\ Replay(rows) \in [ok : BOOLEAN, ledger : Account]
         /\ Replay(rows).ok =>
              /\ Sound(Replay(rows).ledger)
              /\ Replay(rows).ledger.cash = StartingCash + SumFunction(CashFlows(rows))
              /\ \A p \in Pairs : Replay(rows).ledger.pos[p].size = SumFunction(UnitFlows(rows, p))
<1> DEFINE base == [ok |-> TRUE, ledger |-> NewLedger(StartingCash, FlatAccount)]
           seq == [i \in 1 .. step |-> i]
           J == [k \in 0 .. step |-> Replayed(rows, UpTo(rows, k))]
<1>1. /\ seq \in Seq(Nat \ {0}) /\ Len(seq) = step
      /\ \A k \in 1 .. step : k \in 0 .. step /\ k - 1 \in 0 .. step /\ seq[k] = k /\ k \in Nat \ {0}
  OBVIOUS
<1>2. base \in J[0]
  <2>1. UpTo(rows, 0) = {}
    BY DEF UpTo
  <2>2. \A f : SumFunctionOnSet(f, {}) = 0
    BY FS_EmptySet, SumOfZeros
  <2>3. /\ Sound(base.ledger) /\ base.ledger.cash = StartingCash
        /\ \A p \in Pairs : base.ledger.pos[p].size = 0
    BY FreshAccount
  <2>4. StartingCash + 0 = StartingCash
    BY EngineAssumption
  <2>5. base \in [ok : BOOLEAN, ledger : Account]
    BY <2>3 DEF Sound
  <2> HIDE DEF base
  <2>6. base \in Replayed(rows, {})
    BY <2>2, <2>3, <2>4, <2>5 DEF Replayed
  <2>7. J[0] = Replayed(rows, UpTo(rows, 0))
    BY <1>1
  <2> QED BY <2>1, <2>6, <2>7
<1>3. ASSUME NEW k \in 1 .. step, NEW x \in J[k - 1] PROVE ReplayOp(rows, seq[k], x) \in J[k]
  <2>1. x \in Replayed(rows, UpTo(rows, k - 1)) /\ J[k] = Replayed(rows, UpTo(rows, k))
        /\ seq[k] = k /\ k \in Nat \ {0}
    BY <1>1
  <2> HIDE DEF J, seq
  <2> QED BY <2>1, StepReplayed
<1>4. J[step] = Replayed(rows, UpTo(rows, step))
  OBVIOUS
<1>5. base = [ok |-> TRUE, ledger |-> NewLedger(StartingCash, FlatAccount)]
      /\ seq = [i \in 1 .. step |-> i]
  OBVIOUS
<1> HIDE DEF J, seq, base
<1>6. Replay(rows) \in J[Len(seq)]
  BY <1>1, <1>2, <1>3, <1>5, StepsKeep
<1>7. UpTo(rows, step) = DOMAIN rows
  BY DEF UpTo
<1>8. Replay(rows) \in Replayed(rows, DOMAIN rows)
  BY <1>1, <1>4, <1>6, <1>7
<1>9. SumFunction(CashFlows(rows)) = SumFunctionOnSet(CashFlows(rows), DOMAIN rows)
      /\ \A p \in Pairs : SumFunction(UnitFlows(rows, p)) = SumFunctionOnSet(UnitFlows(rows, p), DOMAIN rows)
  BY DEF SumFunction, CashFlows, UnitFlows
<1> QED BY <1>8, <1>9 DEF Replayed

-----------------------------------------------------------------------------
\* A run that resumes a chain carries its risk state on as it was.
LEMMA RestoredIs ==
  \A r \in RiskState : Restored(r) = r
BY DEF Restored, NewRisk, RiskState

\* A replay that is not refused brings the cash and the sizes of the run.
LEMMA ReplayAgreesNow ==
  ASSUME IInv, instrument = "spot"
  PROVE  /\ Replay(recorded) \in [ok : BOOLEAN, ledger : Account]
         /\ Replay(recorded).ok =>
              /\ Sound(Replay(recorded).ledger)
              /\ Replay(recorded).ledger.cash = ledger.cash
              /\ \A p \in Pairs : Replay(recorded).ledger.pos[p].size = ledger.pos[p].size
<1>1. step \in Nat /\ recorded \in Seq(FillRow) /\ AddUp(recorded, ledger, step)
  BY EngineAssumption DEF IInv, Typed
<1>2. \A i \in DOMAIN recorded : recorded[i].step \in 1 .. step
  BY <1>1 DEF AddUp
<1>3. /\ Replay(recorded) \in [ok : BOOLEAN, ledger : Account]
      /\ Replay(recorded).ok =>
           /\ Sound(Replay(recorded).ledger)
           /\ Replay(recorded).ledger.cash = StartingCash + SumFunction(CashFlows(recorded))
           /\ \A p \in Pairs : Replay(recorded).ledger.pos[p].size = SumFunction(UnitFlows(recorded, p))
  BY <1>1, <1>2, ReplayIs
<1>4. /\ ledger.cash = StartingCash + SumFunction(CashFlows(recorded))
      /\ \A p \in Pairs : ledger.pos[p].size = SumFunction(UnitFlows(recorded, p))
  BY <1>1 DEF AddUp
<1> QED BY <1>3, <1>4

\* The invariant is kept by a restart.
LEMMA RestartKept ==
  ASSUME IInv, Restart
  PROVE  IInv' /\ \A p \in Pairs : venues'[p].orders = <<>>
<1> DEFINE replay == Replay(recorded)
           old == replay.ledger
<1>1. /\ phase = "candle" /\ instrument = "spot" /\ step > 0 /\ restarts < MaxRestarts
      /\ restarts' = restarts + 1 /\ phase' = phase /\ instrument' = instrument /\ step' = step
      /\ closes' = closes /\ last' = last /\ venues' = [p \in Pairs |-> NewVenue]
  BY DEF Restart, Begin
<1>2. \/ /\ replay.ok
         /\ ledger' = NewLedger(old.cash, old.pos) /\ risk' = Restored(risk)
         /\ recorded' = recorded /\ floors' = floors
      \/ /\ ledger' = NewLedger(StartingCash, FlatAccount) /\ risk' = Restored(NewRisk)
         /\ recorded' = <<>> /\ floors' = <<>>
  BY DEF Restart, Begin
<1>3. /\ replay \in [ok : BOOLEAN, ledger : Account]
      /\ replay.ok => Sound(old) /\ old.cash = ledger.cash
                      /\ \A p \in Pairs : old.pos[p].size = ledger.pos[p].size
  BY <1>1, ReplayAgreesNow
<1>4. /\ risk \in RiskState /\ recorded \in Seq(FillRow) /\ AddUp(recorded, ledger, step)
      /\ Counted(recorded, risk, step) /\ RailRemembers /\ restarts \in Nat
      /\ floors \in Seq(Int) /\ Len(floors) <= step /\ step \in Nat
  BY <1>1, EngineAssumption DEF IInv, Typed
<1> HIDE DEF replay, old
<1>5. /\ ledger' \in Account /\ Sound(ledger') /\ AddUp(recorded', ledger', step)
      /\ risk' \in RiskState /\ Counted(recorded', risk', step)
      /\ recorded' \in Seq(FillRow) /\ floors' \in Seq(Int) /\ Len(floors') <= step
      /\ RailRemembers'
  <2>1. CASE /\ replay.ok
             /\ ledger' = NewLedger(old.cash, old.pos) /\ risk' = Restored(risk)
             /\ recorded' = recorded /\ floors' = floors
    <3>1. /\ Sound(old) /\ old.cash = ledger.cash
          /\ \A p \in Pairs : old.pos[p].size = ledger.pos[p].size
          /\ old.cash \in Int /\ old.pos \in [Pairs -> Position]
      BY <1>3, <2>1 DEF Sound, Account
    <3>2. ledger' \in Account /\ ledger'.cash = old.cash /\ ledger'.pos = old.pos /\ Balanced(ledger')
      BY <2>1, <3>1, NewLedgerIs
    <3>3. Sound(ledger')
      BY <3>1, <3>2 DEF Sound, Solvent
    <3>4. AddUp(recorded', ledger', step)
      BY <1>1, <1>4, <2>1, <3>1, <3>2 DEF AddUp
    <3>5. risk' = risk
      BY <1>4, <2>1, RestoredIs
    <3>6. RailRemembers'
      <4>1. DayFloor' = DayFloor /\ Day(step)' = Day(step)
        BY <1>1, <2>1 DEF DayFloor, FirstStep, Day
      <4> QED BY <1>1, <1>4, <2>1, <3>5, <4>1 DEF RailRemembers
    <3> QED BY <1>4, <2>1, <3>2, <3>3, <3>4, <3>5, <3>6
  <2>2. CASE /\ ledger' = NewLedger(StartingCash, FlatAccount) /\ risk' = Restored(NewRisk)
             /\ recorded' = <<>> /\ floors' = <<>>
    <3>1. Sound(ledger') /\ AddUp(recorded', ledger', step)
      BY <2>2, FreshAccount
    <3>2. risk' \in RiskState /\ risk'.day = NoDay /\ Counted(recorded', risk', step)
      BY <2>2, FreshRisk, RestoredIs
    <3>3. RailRemembers'
      BY <1>1, <2>2, <3>2 DEF RailRemembers
    <3>4. <<>> \in Seq(FillRow) /\ <<>> \in Seq(Int) /\ Len(<<>>) <= step
      BY <1>4
    <3> QED BY <2>2, <3>1, <3>2, <3>3, <3>4 DEF Sound
  <2> QED BY <1>2, <2>1, <2>2
<1>6. \A p \in Pairs : venues'[p] \in Venue(p) /\ venues'[p].orders = <<>>
  BY <1>1, FreshVenue
<1>7. Typed'
  <2>1. restarts' \in 0 .. MaxRestarts
    BY <1>1, <1>4, EngineAssumption
  <2>2. venues' = [p \in Pairs |-> venues'[p]]
    BY <1>1
  <2> QED BY <1>1, <1>5, <1>6, <2>1, <2>2 DEF IInv, Typed
<1>8. Sound(ledger)'
  BY <1>1, <1>5, NextSound
<1>9. AddUp(recorded, ledger, step)'
  <2>1. AddUp(recorded', ledger', step')
    BY <1>1, <1>5
  <2> QED BY <1>1, <2>1, NextAddUp
<1>10. Counted(recorded, risk, step)'
  <2>1. Counted(recorded', risk', step')
    BY <1>1, <1>5
  <2> QED BY <2>1, NextCounted
<1>11. VenueAgreesWithLedger'
  BY <1>1, <1>4 DEF VenueAgreesWithLedger
<1>12. OrdersAreOld'
  BY <1>6 DEF OrdersAreOld
<1> QED BY <1>5, <1>6, <1>7, <1>8, <1>9, <1>10, <1>11, <1>12 DEF IInv

-----------------------------------------------------------------------------
(***************************************************************************)
(* The theorems.                                                           *)
(***************************************************************************)
\* The invariant is kept by every step.
LEMMA StepKept ==
  ASSUME IInv, [Next]_vars
  PROVE  IInv'
<1>1. CASE Candle
  BY <1>1, CandleKept
<1>2. CASE Decide
  BY <1>2, DecideKept
<1>3. CASE EndOfData
  BY <1>3, EndOfDataKept
<1>4. CASE Restart
  BY <1>4, RestartKept
<1>5. CASE UNCHANGED vars
  <2>1. /\ phase' = phase /\ instrument' = instrument /\ step' = step /\ ledger' = ledger
        /\ risk' = risk /\ venues' = venues /\ closes' = closes /\ last' = last
        /\ recorded' = recorded /\ floors' = floors /\ restarts' = restarts
    BY <1>5 DEF vars
  <2>2. Typed'
    BY <2>1 DEF IInv, Typed
  <2>3. Sound(ledger)' /\ AddUp(recorded, ledger, step)'
    BY <2>1, NextSound, NextAddUp DEF IInv
  <2>4. (phase \in {"candle", "decide"} /\ instrument = "spot" => Counted(recorded, risk, step))'
    <3>1. phase \in {"candle", "decide"} /\ instrument = "spot" => Counted(recorded, risk, step)
      BY DEF IInv
    <3> QED BY <2>1, <3>1, NextCounted
  <2>5. VenueAgreesWithLedger' /\ OrdersAreOld'
    BY <2>1 DEF IInv, VenueAgreesWithLedger, VenueNeverDrifts, OrdersAreOld
  <2>6. RailRemembers'
    BY <2>1 DEF IInv, RailRemembers, DayFloor, FirstStep, Day
  <2> QED BY <2>2, <2>3, <2>4, <2>5, <2>6 DEF IInv
<1> QED BY <1>1, <1>2, <1>3, <1>4, <1>5 DEF Next

\* The invariant holds in every state of every run.
THEOREM Inductive == Spec => []IInv
<1>1. Init => IInv
  BY InitKept
<1>2. IInv /\ [Next]_vars => IInv'
  BY StepKept
<1> QED BY <1>1, <1>2, PTL DEF Spec

\* Types, a spot account that is never overdrawn or short, and no more floors
\* than candles, in every state.
THEOREM Types == Spec => []TypeOK
<1>1. IInv => TypeOK
  <2> SUFFICES ASSUME IInv PROVE TypeOK
    OBVIOUS
  <2>1. Typed /\ Solvent(ledger)
    BY DEF IInv, Sound
  <2>2. ledger.cash \in Int /\ ledger.pos \in [Pairs -> [size : Int, cost : Int]]
    BY <2>1 DEF Typed, Account, Position
  <2>3. /\ risk.halted \in BOOLEAN /\ risk.losses \in 0 .. MaxLosses - 1
        /\ risk.cooldown \in 0 .. CooldownCandles
    BY <2>1 DEF Typed, RiskState
  <2>4. \A p \in Pairs : venues[p].armed = <<>> /\ venues[p].position \in Int
    BY <2>1 DEF Typed, Venue
  <2> QED BY <2>1, <2>2, <2>3, <2>4 DEF TypeOK, Typed, Solvent
<1> QED BY <1>1, Inductive, PTL

\* Cash and the cost of what is held are what the run opened with plus what was
\* realized and funded, whatever was filled, voided, liquidated or carried in.
THEOREM AccountsAddUp == Spec => []AccountingIdentity
<1>1. IInv => AccountingIdentity
  BY DEF IInv, Sound, Balanced, AccountingIdentity
<1> QED BY <1>1, Inductive, PTL

\* Until a restart the net position a venue tracks is what the ledger has of its
\* pair, whatever fills the ledger refused and the venue voided (_ledger_accepts,
\* void_fill): no fill is counted by one of the two only.  Sizes are whole numbers,
\* which both add up alike; how far rounding sums of floats can part the two is
\* not in it.
THEOREM FillsAreCountedAlike == Spec => []VenueAgreesWithLedger
<1>1. IInv => VenueAgreesWithLedger
  BY DEF IInv
<1> QED BY <1>1, Inductive, PTL

\* A run that still decides has not lost MaxDailyLoss of floor equity since the
\* last close of the day before.
THEOREM DailyRail == Spec => []RailHolds
<1>1. IInv => RailHolds
  <2> SUFFICES ASSUME IInv, phase = "decide" PROVE floors[Len(floors)] - DayFloor > -MaxDailyLoss
    BY DEF RailHolds
  <2>1. /\ risk.floor = floors[Len(floors)] /\ risk.dayFloor = DayFloor
        /\ risk.floor - risk.dayFloor > -MaxDailyLoss
    BY DEF IInv, RailRemembers
  <2> QED BY <2>1
<1> QED BY <1>1, Inductive, PTL

\* A replay that accepts the recorded fills ends with the cash and the units of
\* every pair that the run has, in whatever order it takes them (replay_fills).
\* What the units cost on average depends on that order and is not compared:
\* ReplayIsExactly, which compares it, is false.
THEOREM ReplayKeepsCashAndUnits == Spec => []ReplayAgrees
<1>1. IInv => ReplayAgrees
  BY ReplayAgreesNow DEF ReplayAgrees
<1> QED BY <1>1, Inductive, PTL

\* With nothing pending the caps hold.
LEMMA NothingPending ==
  IInv /\ (\A p \in Pairs : venues[p].orders = <<>>) => BatchStaysInCaps /\ CooldownHolds
<1> SUFFICES ASSUME IInv, \A p \in Pairs : venues[p].orders = <<>>
             PROVE  BatchStaysInCaps /\ CooldownHolds
  OBVIOUS
<1>1. \A p \in Pairs : Pending(p) = {}
  BY DEF Pending
<1>2. \A f : SumFunctionOnSet(f, {}) = 0
  BY FS_EmptySet, SumOfZeros
<1>3. /\ ledger \in Account /\ Solvent(ledger) /\ \A p \in Pairs : closes[p] \in Nat
      /\ instrument \in {"spot", "perp"}
  BY EngineAssumption DEF IInv, Typed, Sound
<1>4. \A p \in Pairs : ledger.pos[p].size \in Int /\ ledger.cash \in Int
  BY <1>3 DEF Account, Position
<1>5. \A p \in Pairs : Bought(p) = 0 /\ SoldUnits(p) = 0 /\ Resulting(p) = ledger.pos[p].size
  <2> SUFFICES ASSUME NEW p \in Pairs
               PROVE  Bought(p) = 0 /\ SoldUnits(p) = 0 /\ Resulting(p) = ledger.pos[p].size
    OBVIOUS
  <2>1. Bought(p) = 0
    BY <1>1, <1>2 DEF Bought
  <2>2. SoldUnits(p) = 0
    BY <1>1, <1>2 DEF SoldUnits
  <2>3. Resulting(p) = ledger.pos[p].size + 0
    BY <1>1, <1>2 DEF Resulting
  <2> QED BY <1>4, <2>1, <2>2, <2>3
<1>6. SumFunction([p \in Pairs |-> Bought(p)]) = 0
  BY <1>5, PairsFinite, SumOfZeros DEF SumFunction
<1>7. \A p \in Pairs : Abs(ledger.pos[p].size) * closes[p] \in Int
  <2> SUFFICES ASSUME NEW p \in Pairs PROVE Abs(ledger.pos[p].size) * closes[p] \in Int
    OBVIOUS
  <2>1. Abs(ledger.pos[p].size) \in Int /\ closes[p] \in Int
    BY <1>3, <1>4 DEF Abs
  <2> QED BY <2>1, Product
<1>8. Gross([p \in Pairs |-> Resulting(p)]) = Gross(Sizes) /\ Gross(Sizes) \in Int
  <2>1. [p \in Pairs |-> Resulting(p)] = Sizes
    BY <1>5 DEF Sizes
  <2>2. Gross(Sizes) \in Int
    BY <1>7, PairSum DEF Gross, Sizes
  <2> QED BY <2>1, <2>2
<1>9. MaxPosition \in Int /\ MaxGross \in Int
  BY RiskAssumption
<1>10. Gross(Sizes) <= Max({MaxGross, Gross(Sizes)})
  <2>1. Gross(Sizes) <= Gross(Sizes)
    BY <1>8
  <2> QED BY <1>8, <1>9, <2>1, Under
<1>11. \A p \in Pairs : Abs(ledger.pos[p].size) * closes[p]
                          <= Max({MaxPosition, Abs(ledger.pos[p].size) * closes[p]})
  <2> SUFFICES ASSUME NEW p \in Pairs
               PROVE  Abs(ledger.pos[p].size) * closes[p]
                        <= Max({MaxPosition, Abs(ledger.pos[p].size) * closes[p]})
    OBVIOUS
  <2> DEFINE value == Abs(ledger.pos[p].size) * closes[p]
  <2>1. value \in Int
    BY <1>7
  <2> HIDE DEF value
  <2>2. value <= value
    BY <2>1
  <2>3. value <= Max({MaxPosition, value})
    BY <1>9, <2>1, <2>2, Under
  <2> QED BY <2>3 DEF value
<1>12. CASE instrument = "spot"
  <2>1. ledger.cash \in Int /\ ledger.cash >= 0 /\ \A p \in Pairs : ledger.pos[p].size >= 0
    BY <1>3, <1>12 DEF Account, Solvent
  <2> QED BY <1>1, <1>5, <1>6, <1>12, <2>1 DEF BatchStaysInCaps, CooldownHolds
<1>13. CASE instrument = "perp"
  <2>1. \A p \in Pairs : Abs(Resulting(p)) * closes[p]
                           <= Max({MaxPosition, Abs(ledger.pos[p].size) * closes[p]})
    BY <1>5, <1>11
  <2> QED BY <1>8, <1>10, <1>13, <2>1 DEF BatchStaysInCaps, CooldownHolds
<1> QED BY <1>3, <1>12, <1>13

\* The caps and the cooldown are kept by every step: they are established by a
\* decision, a beginning has nothing pending, and of what comes between a
\* decision and the candle nothing else is a step.
LEMMA DecisionsKept ==
  ASSUME IInv, BatchStaysInCaps, CooldownHolds, [Next]_vars
  PROVE  BatchStaysInCaps' /\ CooldownHolds'
<1>1. CASE Candle \/ EndOfData
  <2>1. CASE Candle
    <3>1. phase' \in {"halted", "decide"}
      BY <2>1, CandleKept
    <3> QED BY <3>1 DEF BatchStaysInCaps, CooldownHolds
  <2>2. CASE EndOfData
    <3>1. phase' = IF WoundDown.failed THEN "failed" ELSE "done"
      BY <2>2 DEF EndOfData
    <3> HIDE DEF WoundDown
    <3>2. phase' # "candle"
      BY <3>1
    <3> QED BY <3>2 DEF BatchStaysInCaps, CooldownHolds
  <2> QED BY <1>1, <2>1, <2>2
<1>2. CASE Decide
  <2>1. instrument \in {"spot", "perp"}
    BY EngineAssumption DEF IInv, Typed
  <2> QED BY <1>2, <2>1, SpotDecided, PerpDecided
<1>3. CASE Restart
  <2>1. IInv' /\ \A p \in Pairs : venues'[p].orders = <<>>
    BY <1>3, RestartKept
  <2>2. (IInv /\ (\A p \in Pairs : venues[p].orders = <<>>) => BatchStaysInCaps /\ CooldownHolds)'
    BY NothingPending, PTL
  <2> QED BY <2>1, <2>2
<1>4. CASE UNCHANGED vars
  <2>1. /\ phase' = phase /\ instrument' = instrument /\ step' = step /\ ledger' = ledger
        /\ risk' = risk /\ venues' = venues /\ closes' = closes /\ last' = last
        /\ recorded' = recorded /\ floors' = floors /\ restarts' = restarts
    BY <1>4 DEF vars
  <2>2. \A p \in Pairs : /\ Pending(p)' = Pending(p) /\ Cost(p)' = Cost(p) /\ Bought(p)' = Bought(p)
                         /\ SoldUnits(p)' = SoldUnits(p) /\ Resulting(p)' = Resulting(p)
                         /\ \A i \in Pending(p) : BoughtUpTo(p, i)' = BoughtUpTo(p, i)
    BY <2>1 DEF Pending, Cost, Bought, BoughtUpTo, SoldUnits, Resulting, OfOrders, PriceOf
  <2>3. BatchStaysInCaps'
    BY <2>1, <2>2 DEF BatchStaysInCaps, Gross, Sizes, PriceOf
  <2>4. CooldownHolds'
    <3>1. Exits(recorded)' = Exits(recorded)
          /\ \A i \in Exits(recorded) : StreakEndsAt(recorded, i)' = StreakEndsAt(recorded, i)
      BY <2>1 DEF Exits, StreakEndsAt, FullStreak, LosingRun
    <3> QED BY <2>1, <2>2, <3>1 DEF CooldownHolds
  <2> QED BY <2>3, <2>4
<1> QED BY <1>1, <1>2, <1>3, <1>4 DEF Next

\* Both hold in every state.
THEOREM Decisions == Spec => [](BatchStaysInCaps /\ CooldownHolds)
<1>1. Init => IInv /\ BatchStaysInCaps /\ CooldownHolds
  <2> SUFFICES ASSUME Init PROVE IInv /\ BatchStaysInCaps /\ CooldownHolds
    OBVIOUS
  <2>1. IInv
    BY InitKept
  <2>2. \A p \in Pairs : venues[p].orders = <<>>
    BY FreshVenue DEF Init
  <2> QED BY <2>1, <2>2, NothingPending
<1>2. IInv /\ BatchStaysInCaps /\ CooldownHolds /\ [Next]_vars => BatchStaysInCaps' /\ CooldownHolds'
  BY DecisionsKept
<1> QED BY <1>1, <1>2, Inductive, PTL DEF Spec

\* The orders of one decision together stay inside the cash and both caps.
THEOREM BatchesStayInCaps == Spec => []BatchStaysInCaps
BY Decisions, PTL

\* After a losing streak nothing is bought while the cooldown lasts.
THEOREM CooldownIsKept == Spec => []CooldownHolds
BY Decisions, PTL

=============================================================================
