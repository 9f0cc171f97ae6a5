------------------------------ MODULE DataLemmas ------------------------------
(***************************************************************************)
(* Facts about numbers, finite sets, sequences and folds that the proofs   *)
(* of several components rest on.                                          *)
(***************************************************************************)
EXTENDS Integers, Sequences, FiniteSetsExt, Folds, SequenceTheorems, FunctionTheorems,
        FiniteSetTheorems, WellFoundedInduction, TLAPS

\* The provers cannot instantiate a lemma about any operator; a module about
\* one can be instantiated, once for every operator that is folded.  Only the
\* last section is about it.
CONSTANT Op(_, _, _)  \* what the fold captures, an element, the result so far

-----------------------------------------------------------------------------
(***************************************************************************)
(* The ends of a finite set of integers.                                   *)
(***************************************************************************)
\* A finite nonempty set of integers has a greatest member: the filters above
\* its members are finite, and a minimal one belongs to the maximum.
LEMMA HasGreatest ==
  ASSUME NEW S \in SUBSET Int, IsFiniteSet(S), S # {}
  PROVE  \E m \in S : \A q \in S : q <= m
<1> DEFINE Above(r) == {q \in S : r <= q}
           T == {Above(r) : r \in S}
<1>1. T \subseteq FiniteSubsetsOf(S) /\ T # {}
  <2>1. FiniteSubsetsOf(S) = SUBSET S
    BY FS_FiniteSubsetsOfFinite
  <2>2. \A r \in S : Above(r) \in SUBSET S
    OBVIOUS
  <2>3. T \in SUBSET SUBSET S /\ T # {}
    BY <2>2
  <2> QED BY <2>1, <2>3
<1>2. \E x \in T : \A y \in T : ~(<<y, x>> \in StrictSubsetOrdering(S))
  <2>1. IsWellFoundedOn(StrictSubsetOrdering(S), FiniteSubsetsOf(S))
    BY FS_StrictSubsetOrderingWellFounded
  <2> HIDE DEF T
  <2> QED BY <2>1, <1>1, WFMin
<1>3. PICK m \in S : \A y \in T : ~(<<y, Above(m)>> \in StrictSubsetOrdering(S))
  BY <1>2
<1>4. \A q \in S : q <= m
  <2> SUFFICES ASSUME NEW q \in S, ~(q <= m) PROVE FALSE
    OBVIOUS
  <2>1. q \in Int /\ m \in Int /\ m < q
    OBVIOUS
  <2>2. \A x \in S : x \in Int /\ (q <= x => m <= x)
    BY <2>1
  <2>3. m <= m /\ ~(q <= m)
    BY <2>1
  <2>4. Above(q) \subseteq Above(m)
    BY <2>2
  <2>5. m \in Above(m) /\ m \notin Above(q)
    BY <2>3
  <2>6. <<Above(q), Above(m)>> \in StrictSubsetOrdering(S)
    BY <2>4, <2>5 DEF StrictSubsetOrdering
  <2> QED BY <2>6, <1>3
<1> QED BY <1>4

\* And a least one: the greatest among the negated members.
LEMMA HasLeast ==
  ASSUME NEW S \in SUBSET Int, IsFiniteSet(S), S # {}
  PROVE  \E m \in S : \A q \in S : m <= q
<1> DEFINE N == {-q : q \in S}
           f == [q \in S |-> -q]
<1>1. N \in SUBSET Int /\ N # {}
  <2>1. \A q \in S : -q \in Int
    OBVIOUS
  <2>2. PICK q \in S : TRUE
    OBVIOUS
  <2>3. -q \in N
    OBVIOUS
  <2> QED BY <2>1, <2>3
<1>2. IsFiniteSet(N)
  <2>1. f \in [S -> N] /\ \A y \in N : \E q \in S : f[q] = y
    OBVIOUS
  <2>2. f \in Surjection(S, N)
    BY <2>1, Fun_IsSurj
  <2> QED BY <2>2, FS_Surjection
<1>3. PICK m \in N : \A q \in N : q <= m
  <2> HIDE DEF N
  <2> QED BY <1>1, <1>2, HasGreatest
<1>4. PICK r \in S : m = -r
  OBVIOUS
<1>5. \A q \in S : r <= q
  <2> SUFFICES ASSUME NEW q \in S PROVE r <= q
    OBVIOUS
  <2>1. -q \in N /\ q \in Int /\ r \in Int
    OBVIOUS
  <2>2. -q <= -r
    BY <2>1, <1>3, <1>4
  <2> QED BY <2>1, <2>2
<1> QED BY <1>5

\* Ids are numbers up to a length; a set of them is finite.
LEMMA IdsAreFinite ==
  ASSUME NEW n \in Nat, NEW S \in SUBSET (1 .. n)
  PROVE  IsFiniteSet(S) /\ S \in SUBSET Int /\ Cardinality(S) \in Nat
<1>1. IsFiniteSet(1 .. n)
  <2>1. 1 \in Int /\ n \in Int
    OBVIOUS
  <2> QED BY <2>1, FS_Interval
<1>2. IsFiniteSet(S)
  BY <1>1, FS_Subset
<1> QED BY <1>2, FS_CardinalityType

\* The greatest member of a finite nonempty set of integers.
LEMMA MaxIs ==
  ASSUME NEW S \in SUBSET Int, IsFiniteSet(S), S # {}
  PROVE  Max(S) \in S /\ \A x \in S : Max(S) >= x
<1>1. PICK m \in S : \A q \in S : q <= m
  BY HasGreatest
<1>2. \E m2 \in S : \A q \in S : m2 >= q
  BY <1>1
<1> QED BY <1>2 DEF Max

\* The least member of one.
LEMMA MinIs ==
  ASSUME NEW S \in SUBSET Int, IsFiniteSet(S), S # {}
  PROVE  Min(S) \in S /\ \A x \in S : Min(S) <= x
<1>1. \E m \in S : \A q \in S : m =< q
  BY HasLeast
<1> QED BY <1>1 DEF Min

\* The greater of two.
LEMMA MaxOfTwo ==
  ASSUME NEW a \in Int, NEW b \in Int
  PROVE  Max({a, b}) \in {a, b} /\ Max({a, b}) >= a /\ Max({a, b}) >= b
<1>1. \E m \in {a, b} : \A q \in {a, b} : m >= q
  OBVIOUS
<1> QED BY <1>1 DEF Max

\* The lesser of two.
LEMMA MinOfTwo ==
  ASSUME NEW a \in Int, NEW b \in Int
  PROVE  Min({a, b}) = IF a <= b THEN a ELSE b
<1>1. \E m \in {a, b} : \A q \in {a, b} : m =< q
  OBVIOUS
<1>2. Min({a, b}) \in {a, b} /\ \A q \in {a, b} : Min({a, b}) =< q
  BY <1>1 DEF Min
<1> QED BY <1>2

\* A finite set of integers has a member of every rank: the least one that has
\* enough members before it has no more than that.
LEMMA HasRanks ==
  ASSUME NEW S \in SUBSET Int, IsFiniteSet(S), NEW i \in 1 .. Cardinality(S)
  PROVE  \E m \in S : Cardinality({u \in S : u < m}) = i - 1
<1> DEFINE Below(m) == {u \in S : u < m}
           T == {m \in S : Cardinality(Below(m)) >= i - 1}
<1>1. ASSUME NEW m \in S
      PROVE  IsFiniteSet(Below(m)) /\ Below(m) \in SUBSET S /\ Cardinality(Below(m)) \in Nat
  BY FS_Subset, FS_CardinalityType
<1>2. Cardinality(S) \in Nat /\ i \in Nat /\ 1 <= i /\ i <= Cardinality(S) /\ S # {}
  BY FS_CardinalityType, FS_EmptySet
<1>3. ASSUME NEW U \in SUBSET S, U # {}
      PROVE  \E m \in U : /\ \A q \in U : q <= m
                         /\ Cardinality(U \ {m}) = Cardinality(U) - 1
  <2>1. IsFiniteSet(U)
    BY FS_Subset
  <2>2. PICK m \in U : \A q \in U : q <= m
    BY <2>1, <1>3, HasGreatest
  <2> QED BY <2>1, <2>2, FS_RemoveElement
<1>4. T # {}
  <2>1. PICK g \in S : (\A q \in S : q <= g) /\ Cardinality(S \ {g}) = Cardinality(S) - 1
    BY <1>2, <1>3
  <2>2. Below(g) = S \ {g}
    <3>1. \A q \in S : q < g <=> q # g
      BY <2>1
    <3> QED BY <3>1
  <2>3. Cardinality(Below(g)) >= i - 1
    <3> HIDE DEF Below
    <3> QED BY <1>2, <2>1, <2>2
  <2> QED BY <2>3
<1>5. PICK m \in T : \A q \in T : m <= q
  <2>1. T \in SUBSET Int /\ IsFiniteSet(T)
    BY FS_Subset
  <2> HIDE DEF T
  <2> QED BY <2>1, <1>4, HasLeast
<1>6. ASSUME Cardinality(Below(m)) # i - 1 PROVE FALSE
  <2>1. Cardinality(Below(m)) >= i /\ m \in S
    <3> HIDE DEF Below
    <3> QED BY <1>1, <1>2, <1>5, <1>6
  <2>2. Below(m) # {}
    <3> HIDE DEF Below
    <3> QED BY <2>1, <1>2, FS_EmptySet
  <2>3. PICK k \in Below(m) : /\ \A q \in Below(m) : q <= k
                              /\ Cardinality(Below(m) \ {k}) = Cardinality(Below(m)) - 1
    <3> HIDE DEF Below
    <3> QED BY <2>1, <2>2, <1>1, <1>3
  <2>4. Below(k) = Below(m) \ {k}
    <3>1. \A q \in S : q < k <=> q < m /\ q # k
      BY <2>1, <2>3
    <3> QED BY <3>1
  <2>5. k \in S /\ k < m
    BY <2>3
  <2>6. k \in T
    <3>1. Cardinality(Below(k)) >= i - 1
      <4> HIDE DEF Below
      <4> QED BY <1>1, <1>2, <2>1, <2>3, <2>4
    <3> QED BY <2>5, <3>1
  <2> QED BY <2>1, <2>5, <2>6, <1>5
<1> QED BY <1>5, <1>6

\* A set of numbers up to a bound that holds none of them, or holds the next
\* of any it holds, holds all: induction for a set.
LEMMA Climbing ==
  ASSUME NEW n \in Nat, NEW S, 0 \in S, \A k \in 0 .. n : k \in S /\ k < n => k + 1 \in S
  PROVE  \A k \in 0 .. n : k \in S
<1> DEFINE out == {k \in 0 .. n : k \notin S}
<1> SUFFICES ASSUME out # {} PROVE FALSE
  OBVIOUS
<1>1. out \in SUBSET Int /\ IsFiniteSet(out)
  <2>1. IsFiniteSet(0 .. n)
    BY FS_Interval
  <2> QED BY <2>1, FS_Subset
<1>2. PICK k \in out : \A q \in out : k <= q
  <2> HIDE DEF out
  <2> QED BY <1>1, HasLeast
<1>3. k \in 0 .. n /\ k # 0 /\ k \notin S
  OBVIOUS
<1>4. k - 1 \in 0 .. n /\ k - 1 < k /\ k - 1 < n /\ (k - 1) + 1 = k
  BY <1>3
<1>5. k - 1 \notin out
  <2>1. k \in Int /\ \A q \in out : q \in Int /\ k <= q
    BY <1>2
  <2> HIDE DEF out
  <2> QED BY <1>4, <2>1
<1> QED BY <1>3, <1>4, <1>5

\* A set of subsets of a finite set that holds the empty one, and each that it
\* holds all smaller ones of, holds the set: induction on size.
LEMMA Growing ==
  ASSUME NEW S, IsFiniteSet(S), NEW G \in SUBSET SUBSET S, {} \in G,
         \A s \in SUBSET S :
           s # {} /\ (\A r \in SUBSET S : Cardinality(r) < Cardinality(s) => r \in G) => s \in G
  PROVE  S \in G
<1> DEFINE n == Cardinality(S)
           Held == {k \in 0 .. n : \A s \in SUBSET S : Cardinality(s) <= k => s \in G}
<1>1. /\ n \in Nat
      /\ \A s \in SUBSET S : IsFiniteSet(s) /\ Cardinality(s) \in Nat /\ Cardinality(s) <= n
  BY FS_CardinalityType, FS_Subset
<1>2. 0 \in Held
  <2>1. ASSUME NEW s \in SUBSET S, Cardinality(s) <= 0 PROVE s \in G
    <3>1. Cardinality(s) = 0
      BY <1>1, <2>1
    <3> QED BY <1>1, <3>1, FS_EmptySet
  <2>2. 0 \in 0 .. n
    BY <1>1
  <2> QED BY <2>1, <2>2
<1>3. ASSUME NEW k \in 0 .. n, k \in Held, k < n PROVE k + 1 \in Held
  <2>1. ASSUME NEW s \in SUBSET S, Cardinality(s) <= k + 1 PROVE s \in G
    <3>1. \A r \in SUBSET S : Cardinality(r) < Cardinality(s) => Cardinality(r) <= k
      <4> SUFFICES ASSUME NEW r \in SUBSET S, Cardinality(r) < Cardinality(s)
                   PROVE  Cardinality(r) <= k
        OBVIOUS
      <4>1. Cardinality(r) \in Nat /\ Cardinality(s) \in Nat /\ k \in Nat
        BY <1>1
      <4> QED BY <2>1, <4>1
    <3>2. \A r \in SUBSET S : Cardinality(r) < Cardinality(s) => r \in G
      BY <1>3, <3>1
    <3> QED BY <3>2
  <2>2. k + 1 \in 0 .. n
    BY <1>1, <1>3
  <2> QED BY <2>1, <2>2
<1>4. n \in Held
  <2>1. n \in 0 .. n
    BY <1>1
  <2> HIDE DEF Held, n
  <2> QED BY <1>1, <1>2, <1>3, <2>1, Climbing
<1>5. Cardinality(S) <= n /\ S \in SUBSET S
  BY <1>1
<1> HIDE DEF n
<1> QED BY <1>4, <1>5

-----------------------------------------------------------------------------
(***************************************************************************)
(* Sequences.                                                              *)
(***************************************************************************)
\* A function on the ids of a sequence is a sequence of the same length.
LEMMA FunctionIsSeq ==
  ASSUME NEW S, NEW n \in Nat, NEW f \in [1 .. n -> S]
  PROVE  f \in Seq(S) /\ Len(f) = n
<1>1. f \in Seq(S)
  BY SeqDef
<1>2. Len(f) \in Nat /\ DOMAIN f = 1 .. Len(f)
  BY <1>1, LenProperties
<1>3. 1 .. Len(f) = 1 .. n
  BY <1>2
<1> QED BY <1>1, <1>2, <1>3

\* Replacing one row of a sequence.
LEMMA RowReplaced ==
  ASSUME NEW S, NEW s \in Seq(S), NEW i \in 1 .. Len(s), NEW e \in S
  PROVE  LET new == [s EXCEPT ![i] = e]
         IN  /\ new \in Seq(S)
             /\ Len(new) = Len(s)
             /\ new[i] = e
             /\ \A j \in 1 .. Len(s) : j # i => new[j] = s[j]
BY ExceptSeq

-----------------------------------------------------------------------------
(***************************************************************************)
(* Folds over a sequence, element by element.                              *)
(***************************************************************************)
\* The greatest index of a set comes last.
LEMMA LastIndex ==
  ASSUME NEW n \in Nat, NEW s \in SUBSET (1 .. n), s # {}
  PROVE  Max(s) \in s /\ \A k \in s : k \in Int /\ k <= Max(s)
<1>1. IsFiniteSet(s) /\ s \in SUBSET Int
  BY IdsAreFinite
<1>2. Max(s) \in s /\ \A k \in s : Max(s) >= k
  BY <1>1, MaxIs
<1>3. \A k \in s : k \in Int /\ Max(s) \in Int
  BY <1>1, <1>2
<1> QED BY <1>2, <1>3

\* Of the first k indices the last one is k; before it come the first k - 1.
LEMMA FirstIndices ==
  ASSUME NEW n \in Nat, NEW k \in 1 .. n
  PROVE  /\ 1 .. k \in SUBSET (1 .. n) /\ 1 .. k # {}
         /\ Max(1 .. k) = k /\ (1 .. k) \ {k} = 1 .. k - 1
<1>1. 1 .. k \in SUBSET (1 .. n) /\ k \in 1 .. k /\ (1 .. k) \ {k} = 1 .. k - 1
  OBVIOUS
<1>2. Max(1 .. k) \in 1 .. k /\ k <= Max(1 .. k)
  BY <1>1, LastIndex
<1>3. Max(1 .. k) = k
  <2> DEFINE m == Max(1 .. k)
  <2>1. m \in 1 .. k /\ k <= m
    BY <1>2
  <2> HIDE DEF m
  <2>2. m = k
    BY <2>1
  <2> QED BY <2>2 DEF m
<1> QED BY <1>1, <1>3

\* The recursion behind FoldLeft: the last index first.
FoldStep(c, base, seq, n, f) ==
  [s \in SUBSET (1 .. n) |-> IF s = {} THEN base ELSE Op(c, seq[Max(s)], f[s \ {Max(s)}])]

\* The recursion behind a fold has a solution: on the sets of indices up to k
\* first, and then on those up to k + 1.
LEMMA FoldExists ==
  ASSUME NEW c, NEW base, NEW seq, NEW n \in Nat
  PROVE  \E f : f = FoldStep(c, base, seq, n, f)
<1> DEFINE S == 1 .. n
           Right(h, s) == h[s] = IF s = {} THEN base ELSE Op(c, seq[Max(s)], h[s \ {Max(s)}])
           Solves(h, k) == h = [s \in SUBSET S |-> h[s]] /\ \A s \in SUBSET (1 .. k) : Right(h, s)
           Solved == {k \in 0 .. n : \E h : Solves(h, k)}
<1>0. \A s \in SUBSET S : s # {} => Max(s) \in s /\ \A k \in s : k \in Int /\ k <= Max(s)
  BY LastIndex
<1>1. 0 \in Solved
  <2> DEFINE h == [s \in SUBSET S |-> base]
  <2>1. 1 .. 0 = {}
    OBVIOUS
  <2>2. Right(h, {}) /\ h = [s \in SUBSET S |-> h[s]]
    OBVIOUS
  <2> HIDE DEF h, Right
  <2>3. Solves(h, 0)
    BY <2>1, <2>2
  <2> HIDE DEF Solves
  <2> QED BY <2>3
<1>2. ASSUME NEW k \in Solved, k < n PROVE k + 1 \in Solved
  <2>1. k \in 0 .. n /\ k + 1 \in 0 .. n
    BY <1>2
  <2>2. PICK h : Solves(h, k)
    OBVIOUS
  <2> DEFINE next == [s \in SUBSET S |-> IF s = {} THEN base
                                         ELSE Op(c, seq[Max(s)], h[s \ {Max(s)}])]
  <2>3. \A s \in SUBSET (1 .. k) : s \in SUBSET S /\ next[s] = h[s]
    <3> SUFFICES ASSUME NEW s \in SUBSET (1 .. k) PROVE s \in SUBSET S /\ next[s] = h[s]
      OBVIOUS
    <3>1. s \in SUBSET S
      BY <2>1
    <3>2. Right(h, s)
      BY <2>2
    <3> QED BY <3>1, <3>2
  <2>4. ASSUME NEW s \in SUBSET (1 .. k + 1), s # {}
        PROVE  s \in SUBSET S /\ s \ {Max(s)} \in SUBSET (1 .. k)
    <3>1. s \in SUBSET S
      BY <2>1
    <3>2. Max(s) \in s /\ \A q \in s : q <= Max(s)
      BY <1>0, <2>4, <3>1
    <3>3. \A q \in s : q \in 1 .. k + 1
      OBVIOUS
    <3>4. \A q \in s \ {Max(s)} : q \in 1 .. k
      BY <2>1, <3>2, <3>3
    <3> QED BY <3>1, <3>4
  <2>5. \A s \in SUBSET (1 .. k + 1) : Right(next, s)
    <3> SUFFICES ASSUME NEW s \in SUBSET (1 .. k + 1) PROVE Right(next, s)
      OBVIOUS
    <3>1. CASE s = {}
      BY <3>1
    <3>2. CASE s # {}
      <4>1. s \in SUBSET S /\ next[s \ {Max(s)}] = h[s \ {Max(s)}]
        <5> HIDE DEF next, S
        <5> QED BY <2>3, <2>4, <3>2
      <4>2. next[s] = Op(c, seq[Max(s)], h[s \ {Max(s)}])
        BY <3>2, <4>1
      <4> HIDE DEF next
      <4> QED BY <3>2, <4>1, <4>2
    <3> QED BY <3>1, <3>2
  <2>6. next = [s \in SUBSET S |-> next[s]]
    OBVIOUS
  <2> HIDE DEF next, Right
  <2>7. Solves(next, k + 1)
    BY <2>5, <2>6
  <2> HIDE DEF Solves
  <2> QED BY <2>1, <2>7
<1>3. \E h : Solves(h, n)
  <2>1. Solved \in SUBSET (0 .. n)
    OBVIOUS
  <2> HIDE DEF Solved
  <2>2. n \in 0 .. n
    OBVIOUS
  <2>3. n \in Solved
    BY <1>1, <1>2, <2>2, Climbing
  <2> QED BY <2>3 DEF Solved
<1>4. PICK h : Solves(h, n)
  BY <1>3
<1>5. [s \in SUBSET S |-> h[s]] = FoldStep(c, base, seq, n, h)
  BY <1>4 DEF FoldStep
<1>6. h = FoldStep(c, base, seq, n, h)
  BY <1>4, <1>5
<1> QED BY <1>6

\* What holds of the start, and is kept from each element to the next, holds at
\* the end of a fold.
LEMMA FoldKeeps ==
  ASSUME NEW c, NEW base, NEW seq, NEW n \in Nat, NEW g, g = FoldStep(c, base, seq, n, g),
         NEW J, base \in J[0],
         \A k \in 1 .. n : \A x \in J[k - 1] : Op(c, seq[k], x) \in J[k]
  PROVE  g[1 .. n] \in J[n]
<1> DEFINE Held == {k \in 0 .. n : g[1 .. k] \in J[k]}
<1>1. \A s \in SUBSET (1 .. n) :
        g[s] = IF s = {} THEN base ELSE Op(c, seq[Max(s)], g[s \ {Max(s)}])
  BY DEF FoldStep
<1>2. 0 \in Held
  <2>1. 1 .. 0 = {} /\ 1 .. 0 \in SUBSET (1 .. n)
    OBVIOUS
  <2>2. g[1 .. 0] = base
    BY <1>1, <2>1
  <2> QED BY <2>2
<1>3. ASSUME NEW k \in Held, k < n PROVE k + 1 \in Held
  <2> DEFINE m == k + 1
  <2>1. m \in 1 .. n /\ m \in 0 .. n /\ m - 1 = k /\ g[1 .. k] \in J[k]
    BY <1>3
  <2> HIDE DEF m
  <2>2. /\ 1 .. m \in SUBSET (1 .. n) /\ 1 .. m # {}
        /\ Max(1 .. m) = m /\ (1 .. m) \ {m} = 1 .. k
    BY <2>1, FirstIndices
  <2>3. g[1 .. m] = Op(c, seq[m], g[1 .. k])
    BY <1>1, <2>2
  <2>4. g[1 .. m] \in J[m]
    BY <2>1, <2>3
  <2> QED BY <2>1, <2>4 DEF m
<1>4. n \in Held
  <2>1. n \in 0 .. n
    OBVIOUS
  <2> HIDE DEF Held
  <2> QED BY <1>2, <1>3, <2>1, Climbing
<1> QED BY <1>4

=============================================================================
