-------------------------- MODULE LiveTradingProofs --------------------------
(***************************************************************************)
(* Proofs about LiveTrading, for any number of orders, trades and faults:  *)
(* the inductive invariant of LiveTradingInvariant, what follows from it,  *)
(* and that the rows implement TradeBook.                                  *)
(***************************************************************************)
EXTENDS LiveTradingInvariant, DataLemmas

-----------------------------------------------------------------------------
(***************************************************************************)
(* What fills and trades add up to, for given orders os and trades ts.     *)
(***************************************************************************)
UnitsBy(os, side, fills) ==
  UNION {{id} \X (1 .. fills[id]) :
           id \in {id \in Ids : fills[id] > 0 /\ os[id[2]].side = side}}
NetBy(os, fills) == Cardinality(UnitsBy(os, "buy", fills)) - Cardinality(UnitsBy(os, "sell", fills))

OnSideBy(os, ts, side, ids) == {i \in ids : os[ts[i].order].side = side}
NetOfBy(os, ts, ids) ==
  Cardinality(OnSideBy(os, ts, "buy", ids)) - Cardinality(OnSideBy(os, ts, "sell", ids))

SignBy(os, o) == IF os[o].side = "buy" THEN 1 ELSE -1
OfOrder(ts, o, ids) == {i \in ids : ts[i].order = o}

\* There are finitely many ids of rows.
LEMMA IdsFinite == IsFiniteSet(Ids)
<1>1. MaxOrders \in Nat
  BY ExchangeAssumption
<1>2. IsFiniteSet(Txids)
  BY <1>1, FS_Interval DEF Txids
<1>3. IsFiniteSet({"own", "kraken"})
  <2>1. {"own", "kraken"} = {"own"} \cup {"kraken"}
    OBVIOUS
  <2>2. IsFiniteSet({"own"})
    BY FS_Singleton
  <2> QED BY <2>1, <2>2, FS_AddElement
<1> QED BY <1>2, <1>3, FS_Product DEF Ids

\* The units of a book, one by one.
LEMMA UnitsAre ==
  ASSUME NEW os, NEW side, NEW fills \in [Ids -> Nat]
  PROVE  /\ IsFiniteSet(UnitsBy(os, side, fills))
         /\ Cardinality(UnitsBy(os, side, fills)) \in Nat
         /\ \A u : u \in UnitsBy(os, side, fills) <=>
              /\ u \in Ids \X Nat /\ u = <<u[1], u[2]>>
              /\ os[u[1][2]].side = side /\ 1 <= u[2] /\ u[2] <= fills[u[1]]
<1> DEFINE some == {id \in Ids : fills[id] > 0 /\ os[id[2]].side = side}
           parts == {{id} \X (1 .. fills[id]) : id \in some}
<1>1. UnitsBy(os, side, fills) = UNION parts
  BY DEF UnitsBy
<1>2. IsFiniteSet(some)
  BY IdsFinite, FS_Subset
<1>3. IsFiniteSet(parts)
  <2> DEFINE f == [id \in some |-> {id} \X (1 .. fills[id])]
  <2>1. f \in Surjection(some, parts)
    <3>1. f \in [some -> parts] /\ \A y \in parts : \E id \in some : f[id] = y
      OBVIOUS
    <3> HIDE DEF f, parts, some
    <3> QED BY <3>1, Fun_IsSurj
  <2> HIDE DEF f, parts, some
  <2> QED BY <1>2, <2>1, FS_Surjection
<1>4. ASSUME NEW p \in parts PROVE IsFiniteSet(p)
  <2>1. PICK id \in some : p = {id} \X (1 .. fills[id])
    OBVIOUS
  <2>2. IsFiniteSet({id})
    BY FS_Singleton
  <2>3. IsFiniteSet(1 .. fills[id])
    <3>1. 1 \in Int /\ fills[id] \in Int
      OBVIOUS
    <3> QED BY <3>1, FS_Interval
  <2> QED BY <2>1, <2>2, <2>3, FS_Product
<1>5. IsFiniteSet(UNION parts)
  <2> HIDE DEF parts
  <2> QED BY <1>3, <1>4, FS_UNION
<1>6. ASSUME NEW u
      PROVE  u \in UNION parts <=>
              /\ u \in Ids \X Nat /\ u = <<u[1], u[2]>>
              /\ os[u[1][2]].side = side /\ 1 <= u[2] /\ u[2] <= fills[u[1]]
  <2>1. ASSUME u \in UNION parts
        PROVE  /\ u \in Ids \X Nat /\ u = <<u[1], u[2]>>
               /\ os[u[1][2]].side = side /\ 1 <= u[2] /\ u[2] <= fills[u[1]]
    <3>1. PICK id \in some : u \in {id} \X (1 .. fills[id])
      BY <2>1
    <3>2. u = <<u[1], u[2]>> /\ u[1] = id /\ u[2] \in 1 .. fills[id]
      BY <3>1
    <3> QED BY <3>2
  <2>2. ASSUME /\ u \in Ids \X Nat /\ u = <<u[1], u[2]>>
               /\ os[u[1][2]].side = side /\ 1 <= u[2] /\ u[2] <= fills[u[1]]
        PROVE  u \in UNION parts
    <3>1. u[1] \in Ids /\ u[2] \in Nat
      BY <2>2
    <3>2. fills[u[1]] \in Nat /\ u[1] \in some /\ u[2] \in 1 .. fills[u[1]]
      BY <2>2, <3>1
    <3>3. u \in {u[1]} \X (1 .. fills[u[1]])
      BY <2>2, <3>2
    <3>4. {u[1]} \X (1 .. fills[u[1]]) \in parts
      BY <3>2
    <3> HIDE DEF parts
    <3> QED BY <3>3, <3>4
  <2> QED BY <2>1, <2>2
<1>7. Cardinality(UNION parts) \in Nat
  BY <1>5, FS_CardinalityType
<1> QED BY <1>1, <1>5, <1>6, <1>7

\* A position is a number.
LEMMA NetByType ==
  ASSUME NEW os, NEW fills \in [Ids -> Nat]
  PROVE  NetBy(os, fills) \in Int
<1>1. Cardinality(UnitsBy(os, "buy", fills)) \in Nat
  BY UnitsAre
<1>2. Cardinality(UnitsBy(os, "sell", fills)) \in Nat
  BY UnitsAre
<1> QED BY <1>1, <1>2 DEF NetBy

\* The sides of the orders that have fills are all it depends on.
LEMMA NetByKept ==
  ASSUME NEW os, NEW os2, NEW fills \in [Ids -> Nat],
         \A id \in Ids : fills[id] > 0 => os2[id[2]].side = os[id[2]].side
  PROVE  NetBy(os2, fills) = NetBy(os, fills)
<1>1. ASSUME NEW side
      PROVE  UnitsBy(os2, side, fills) = UnitsBy(os, side, fills)
  <2>1. {id \in Ids : fills[id] > 0 /\ os2[id[2]].side = side} =
          {id \in Ids : fills[id] > 0 /\ os[id[2]].side = side}
    OBVIOUS
  <2> QED BY <2>1 DEF UnitsBy
<1> QED BY <1>1 DEF NetBy

\* No fills, no position.
LEMMA NetByNothing ==
  ASSUME NEW os
  PROVE  NoFills \in [Ids -> Nat] /\ NetBy(os, NoFills) = 0
<1>1. NoFills \in [Ids -> Nat]
  BY DEF NoFills
<1>2. ASSUME NEW side PROVE UnitsBy(os, side, NoFills) = {}
  <2>1. {id \in Ids : NoFills[id] > 0 /\ os[id[2]].side = side} = {}
    BY DEF NoFills
  <2> QED BY <2>1 DEF UnitsBy
<1>3. Cardinality({}) = 0
  BY FS_EmptySet
<1>4. UnitsBy(os, "buy", NoFills) = {} /\ UnitsBy(os, "sell", NoFills) = {}
  BY <1>2
<1>5. NetBy(os, NoFills) = 0
  BY <1>3, <1>4 DEF NetBy
<1> QED BY <1>1, <1>5

\* The units of two books together: the second's come after the first's.
LEMMA UnitsAdd ==
  ASSUME NEW os, NEW side, NEW a \in [Ids -> Nat], NEW b \in [Ids -> Nat],
         NEW c \in [Ids -> Nat], \A id \in Ids : c[id] = a[id] + b[id]
  PROVE  Cardinality(UnitsBy(os, side, c)) =
           Cardinality(UnitsBy(os, side, a)) + Cardinality(UnitsBy(os, side, b))
<1>0. PICK A : A = UnitsBy(os, side, a)
  OBVIOUS
<1>1. PICK B : B = UnitsBy(os, side, b)
  OBVIOUS
<1>2. PICK C : C = UnitsBy(os, side, c)
  OBVIOUS
<1>3. /\ IsFiniteSet(A) /\ Cardinality(A) \in Nat
      /\ \A u : u \in A <=> /\ u \in Ids \X Nat /\ u = <<u[1], u[2]>>
                            /\ os[u[1][2]].side = side /\ 1 <= u[2] /\ u[2] <= a[u[1]]
  BY <1>0, UnitsAre
<1>4. /\ IsFiniteSet(B) /\ Cardinality(B) \in Nat
      /\ \A u : u \in B <=> /\ u \in Ids \X Nat /\ u = <<u[1], u[2]>>
                            /\ os[u[1][2]].side = side /\ 1 <= u[2] /\ u[2] <= b[u[1]]
  BY <1>1, UnitsAre
<1>5. /\ IsFiniteSet(C) /\ Cardinality(C) \in Nat
      /\ \A u : u \in C <=> /\ u \in Ids \X Nat /\ u = <<u[1], u[2]>>
                            /\ os[u[1][2]].side = side /\ 1 <= u[2] /\ u[2] <= c[u[1]]
  BY <1>2, UnitsAre
<1>6. A \subseteq C
  <2> SUFFICES ASSUME NEW u \in A PROVE u \in C
    OBVIOUS
  <2>1. u \in Ids \X Nat /\ u = <<u[1], u[2]>> /\ os[u[1][2]].side = side
        /\ 1 <= u[2] /\ u[2] <= a[u[1]]
    BY <1>3
  <2>2. u[1] \in Ids /\ u[2] \in Nat /\ c[u[1]] = a[u[1]] + b[u[1]] /\ a[u[1]] \in Nat /\ b[u[1]] \in Nat
    BY <2>1
  <2> QED BY <2>1, <2>2, <1>5
<1> DEFINE f == [u \in B |-> <<u[1], a[u[1]] + u[2]>>]
<1>7. ASSUME NEW u \in B
      PROVE  /\ f[u] \in C \ A /\ f[u][1] = u[1] /\ f[u][2] = a[u[1]] + u[2]
             /\ u[1] \in Ids /\ u[2] \in Nat /\ a[u[1]] \in Nat /\ u = <<u[1], u[2]>>
  <2>1. u \in Ids \X Nat /\ u = <<u[1], u[2]>> /\ os[u[1][2]].side = side
        /\ 1 <= u[2] /\ u[2] <= b[u[1]]
    BY <1>4
  <2>2. u[1] \in Ids /\ u[2] \in Nat /\ c[u[1]] = a[u[1]] + b[u[1]] /\ a[u[1]] \in Nat /\ b[u[1]] \in Nat
    BY <2>1
  <2>3. PICK v : v = <<u[1], a[u[1]] + u[2]>>
    OBVIOUS
  <2>4. /\ v[1] = u[1] /\ v[2] = a[u[1]] + u[2] /\ v = <<v[1], v[2]>> /\ v \in Ids \X Nat
    BY <2>2, <2>3
  <2>5. v[2] \in Nat /\ 1 <= v[2] /\ v[2] <= c[v[1]] /\ ~(v[2] <= a[v[1]])
    BY <2>1, <2>2, <2>4
  <2>6. v \in C
    BY <2>1, <2>4, <2>5, <1>5
  <2>7. v \notin A
    BY <2>5, <1>3
  <2> QED BY <2>1, <2>2, <2>3, <2>4, <2>6, <2>7
<1>8. ASSUME NEW v \in C \ A PROVE \E u \in B : f[u] = v
  <2>1. v \in Ids \X Nat /\ v = <<v[1], v[2]>> /\ os[v[1][2]].side = side
        /\ 1 <= v[2] /\ v[2] <= c[v[1]] /\ ~(v[2] <= a[v[1]])
    BY <1>3, <1>5
  <2>2. v[1] \in Ids /\ v[2] \in Nat /\ c[v[1]] = a[v[1]] + b[v[1]] /\ a[v[1]] \in Nat /\ b[v[1]] \in Nat
    BY <2>1
  <2>3. PICK n : n = v[2] - a[v[1]]
    OBVIOUS
  <2>4. n \in Nat /\ 1 <= n /\ n <= b[v[1]] /\ a[v[1]] + n = v[2]
    BY <2>1, <2>2, <2>3
  <2>5. PICK u : u = <<v[1], n>>
    OBVIOUS
  <2>6. u[1] = v[1] /\ u[2] = n /\ u = <<u[1], u[2]>> /\ u \in Ids \X Nat
    BY <2>2, <2>4, <2>5
  <2>7. u \in B
    BY <2>1, <2>4, <2>6, <1>4
  <2>8. f[u] = <<v[1], v[2]>>
    BY <2>4, <2>6, <2>7
  <2> QED BY <2>1, <2>7, <2>8
<1>9. f \in Bijection(B, C \ A)
  <2>1. f \in [B -> C \ A]
    BY <1>7
  <2>2. ASSUME NEW u \in B, NEW v \in B, f[u] = f[v] PROVE u = v
    <3> HIDE DEF f
    <3>1. u[1] = v[1] /\ a[u[1]] + u[2] = a[v[1]] + v[2]
      BY <2>2, <1>7
    <3>2. u[2] = v[2]
      BY <3>1, <1>7
    <3> QED BY <3>1, <3>2, <1>7
  <2> HIDE DEF f
  <2>3. f \in Injection(B, C \ A)
    BY <2>1, <2>2, Fun_IsInj
  <2>4. f \in Surjection(B, C \ A)
    BY <2>1, <1>8, Fun_IsSurj
  <2> QED BY <2>3, <2>4 DEF Bijection
<1>10. Cardinality(C \ A) = Cardinality(B)
  <2> HIDE DEF f
  <2>1. ExistsBijection(B, C \ A)
    BY <1>9 DEF ExistsBijection
  <2> QED BY <2>1, <1>4, FS_Bijection
<1>11. Cardinality(C \ A) = Cardinality(C) - Cardinality(A)
  <2>1. C \cap A = A
    BY <1>6
  <2>2. Cardinality(C \ A) = Cardinality(C) - Cardinality(C \cap A)
    BY <1>5, FS_Difference
  <2> QED BY <2>1, <2>2
<1> QED BY <1>0, <1>1, <1>2, <1>3, <1>4, <1>5, <1>10, <1>11

\* Positions add up.
LEMMA NetByAdds ==
  ASSUME NEW os, NEW a \in [Ids -> Nat], NEW b \in [Ids -> Nat],
         NEW c \in [Ids -> Nat], \A id \in Ids : c[id] = a[id] + b[id]
  PROVE  NetBy(os, c) = NetBy(os, a) + NetBy(os, b)
<1>1. Cardinality(UnitsBy(os, "buy", c)) =
        Cardinality(UnitsBy(os, "buy", a)) + Cardinality(UnitsBy(os, "buy", b))
  BY UnitsAdd
<1>2. Cardinality(UnitsBy(os, "sell", c)) =
        Cardinality(UnitsBy(os, "sell", a)) + Cardinality(UnitsBy(os, "sell", b))
  BY UnitsAdd
<1>3. /\ Cardinality(UnitsBy(os, "buy", a)) \in Nat /\ Cardinality(UnitsBy(os, "sell", a)) \in Nat
  BY UnitsAre
<1>4. /\ Cardinality(UnitsBy(os, "buy", b)) \in Nat /\ Cardinality(UnitsBy(os, "sell", b)) \in Nat
  BY UnitsAre
<1> QED BY <1>1, <1>2, <1>3, <1>4 DEF NetBy

\* One row of n units.
LEMMA NetByOne ==
  ASSUME NEW os, NEW id \in Ids, NEW n \in Nat, os[id[2]].side \in {"buy", "sell"},
         NEW b, b = [j \in Ids |-> IF j = id THEN n ELSE 0]
  PROVE  b \in [Ids -> Nat] /\ NetBy(os, b) = SignBy(os, id[2]) * n
<1>1. b \in [Ids -> Nat]
  OBVIOUS
<1>2. ASSUME NEW side, os[id[2]].side = side PROVE Cardinality(UnitsBy(os, side, b)) = n
  <2>1. PICK U : U = UnitsBy(os, side, b)
    OBVIOUS
  <2>2. \A u : u \in U <=> /\ u \in Ids \X Nat /\ u = <<u[1], u[2]>>
                           /\ os[u[1][2]].side = side /\ 1 <= u[2] /\ u[2] <= b[u[1]]
    BY <1>1, <2>1, UnitsAre
  <2>3. U = {id} \X (1 .. n)
    <3>1. ASSUME NEW u \in U PROVE u \in {id} \X (1 .. n)
      <4>1. u \in Ids \X Nat /\ u = <<u[1], u[2]>> /\ 1 <= u[2] /\ u[2] <= b[u[1]]
        BY <2>2
      <4>2. u[1] \in Ids /\ u[2] \in Nat
        BY <4>1
      <4>3. u[1] = id /\ u[2] <= n
        BY <4>1, <4>2
      <4> QED BY <4>1, <4>2, <4>3
    <3>2. ASSUME NEW u \in {id} \X (1 .. n) PROVE u \in U
      <4>1. u = <<u[1], u[2]>> /\ u[1] = id /\ u[2] \in 1 .. n
        OBVIOUS
      <4>2. u \in Ids \X Nat /\ b[u[1]] = n
        BY <4>1
      <4> QED BY <1>2, <2>2, <4>1, <4>2
    <3> QED BY <3>1, <3>2
  <2>4. IsFiniteSet({id}) /\ Cardinality({id}) = 1
    BY FS_Singleton
  <2>5. IsFiniteSet(1 .. n) /\ Cardinality(1 .. n) = n
    <3>1. 1 \in Int /\ n \in Int
      OBVIOUS
    <3>2. IsFiniteSet(1 .. n) /\ Cardinality(1 .. n) = IF 1 > n THEN 0 ELSE n - 1 + 1
      BY <3>1, FS_Interval
    <3> QED BY <3>2
  <2>6. Cardinality({id} \X (1 .. n)) = Cardinality({id}) * Cardinality(1 .. n)
    BY <2>4, <2>5, FS_Product
  <2>7. Cardinality({id} \X (1 .. n)) = n
    BY <2>4, <2>5, <2>6
  <2> QED BY <2>1, <2>3, <2>7
<1>3. ASSUME NEW side, os[id[2]].side # side PROVE Cardinality(UnitsBy(os, side, b)) = 0
  <2>1. {j \in Ids : b[j] > 0 /\ os[j[2]].side = side} = {}
    BY <1>3
  <2>2. UnitsBy(os, side, b) = {}
    BY <2>1 DEF UnitsBy
  <2> QED BY <2>2, FS_EmptySet
<1>4. CASE os[id[2]].side = "buy"
  <2>1. Cardinality(UnitsBy(os, "buy", b)) = n /\ Cardinality(UnitsBy(os, "sell", b)) = 0
    BY <1>2, <1>3, <1>4
  <2> QED BY <1>1, <1>4, <2>1 DEF NetBy, SignBy
<1>5. CASE os[id[2]].side = "sell"
  <2>1. Cardinality(UnitsBy(os, "sell", b)) = n /\ Cardinality(UnitsBy(os, "buy", b)) = 0
    BY <1>2, <1>3, <1>5
  <2> QED BY <1>1, <1>5, <2>1 DEF NetBy, SignBy
<1> QED BY <1>4, <1>5

\* Sets of trades: the trades of an order, and those of a side.
LEMMA TradeSets ==
  ASSUME NEW os, NEW ts, NEW n \in Nat, NEW S \in SUBSET (1 .. n)
  PROVE  /\ \A o : IsFiniteSet(OfOrder(ts, o, S)) /\ Cardinality(OfOrder(ts, o, S)) \in Nat
         /\ \A side : /\ IsFiniteSet(OnSideBy(os, ts, side, S))
                      /\ Cardinality(OnSideBy(os, ts, side, S)) \in Nat
         /\ NetOfBy(os, ts, S) \in Int
<1>1. ASSUME NEW o
      PROVE  IsFiniteSet(OfOrder(ts, o, S)) /\ Cardinality(OfOrder(ts, o, S)) \in Nat
  <2>1. OfOrder(ts, o, S) \in SUBSET (1 .. n)
    BY DEF OfOrder
  <2> QED BY <2>1, IdsAreFinite
<1>2. ASSUME NEW side
      PROVE  /\ IsFiniteSet(OnSideBy(os, ts, side, S))
             /\ Cardinality(OnSideBy(os, ts, side, S)) \in Nat
  <2>1. OnSideBy(os, ts, side, S) \in SUBSET (1 .. n)
    BY DEF OnSideBy
  <2> QED BY <2>1, IdsAreFinite
<1>3. NetOfBy(os, ts, S) \in Int
  <2>1. Cardinality(OnSideBy(os, ts, "buy", S)) \in Nat /\ Cardinality(OnSideBy(os, ts, "sell", S)) \in Nat
    BY <1>2
  <2> QED BY <2>1 DEF NetOfBy
<1> QED BY <1>1, <1>2, <1>3

\* Two disjoint finite sets.
LEMMA DisjointSum ==
  ASSUME NEW S, NEW T, IsFiniteSet(S), IsFiniteSet(T), S \cap T = {}
  PROVE  Cardinality(S \cup T) = Cardinality(S) + Cardinality(T)
<1>1. Cardinality(S \cup T) = Cardinality(S) + Cardinality(T) - Cardinality(S \cap T)
  BY FS_Union
<1>2. Cardinality(S \cap T) = 0
  BY FS_EmptySet
<1>3. Cardinality(S) \in Nat /\ Cardinality(T) \in Nat
  BY FS_CardinalityType
<1> QED BY <1>1, <1>2, <1>3

\* Trades that come together.
LEMMA TradesAdd ==
  ASSUME NEW os, NEW ts, NEW S, NEW T, IsFiniteSet(S), IsFiniteSet(T),
         S \cap T = {}, NEW U, U = S \cup T
  PROVE  /\ NetOfBy(os, ts, U) = NetOfBy(os, ts, S) + NetOfBy(os, ts, T)
         /\ \A o : Cardinality(OfOrder(ts, o, U)) =
                     Cardinality(OfOrder(ts, o, S)) + Cardinality(OfOrder(ts, o, T))
<1>0. ASSUME NEW side
      PROVE  IsFiniteSet(OnSideBy(os, ts, side, S)) /\ IsFiniteSet(OnSideBy(os, ts, side, T))
  <2>1. OnSideBy(os, ts, side, S) \subseteq S /\ OnSideBy(os, ts, side, T) \subseteq T
    BY DEF OnSideBy
  <2> QED BY <2>1, FS_Subset
<1>1. ASSUME NEW side
      PROVE  Cardinality(OnSideBy(os, ts, side, U)) =
               Cardinality(OnSideBy(os, ts, side, S)) + Cardinality(OnSideBy(os, ts, side, T))
  <2>1. /\ OnSideBy(os, ts, side, U) = OnSideBy(os, ts, side, S) \cup OnSideBy(os, ts, side, T)
        /\ OnSideBy(os, ts, side, S) \cap OnSideBy(os, ts, side, T) = {}
    BY DEF OnSideBy
  <2> QED BY <1>0, <2>1, DisjointSum
<1>2. ASSUME NEW o
      PROVE  Cardinality(OfOrder(ts, o, U)) =
               Cardinality(OfOrder(ts, o, S)) + Cardinality(OfOrder(ts, o, T))
  <2>1. OfOrder(ts, o, S) \subseteq S /\ OfOrder(ts, o, T) \subseteq T
    BY DEF OfOrder
  <2>2. IsFiniteSet(OfOrder(ts, o, S)) /\ IsFiniteSet(OfOrder(ts, o, T))
    BY <2>1, FS_Subset
  <2>3. /\ OfOrder(ts, o, U) = OfOrder(ts, o, S) \cup OfOrder(ts, o, T)
        /\ OfOrder(ts, o, S) \cap OfOrder(ts, o, T) = {}
    BY DEF OfOrder
  <2> QED BY <2>2, <2>3, DisjointSum
<1>3. NetOfBy(os, ts, U) = NetOfBy(os, ts, S) + NetOfBy(os, ts, T)
  <2>1. /\ Cardinality(OnSideBy(os, ts, "buy", U)) =
             Cardinality(OnSideBy(os, ts, "buy", S)) + Cardinality(OnSideBy(os, ts, "buy", T))
        /\ Cardinality(OnSideBy(os, ts, "sell", U)) =
             Cardinality(OnSideBy(os, ts, "sell", S)) + Cardinality(OnSideBy(os, ts, "sell", T))
    BY <1>1
  <2>2. /\ Cardinality(OnSideBy(os, ts, "buy", S)) \in Nat
        /\ Cardinality(OnSideBy(os, ts, "sell", S)) \in Nat
    BY <1>0, FS_CardinalityType
  <2>3. /\ Cardinality(OnSideBy(os, ts, "buy", T)) \in Nat
        /\ Cardinality(OnSideBy(os, ts, "sell", T)) \in Nat
    BY <1>0, FS_CardinalityType
  <2> QED BY <2>1, <2>2, <2>3 DEF NetOfBy
<1> QED BY <1>2, <1>3

\* A set of trades within another.
LEMMA TradesWithin ==
  ASSUME NEW ts, NEW n \in Nat, NEW T \in SUBSET (1 .. n), NEW S \in SUBSET T
  PROVE  \A o : Cardinality(OfOrder(ts, o, S)) <= Cardinality(OfOrder(ts, o, T))
<1> SUFFICES ASSUME NEW o
             PROVE  Cardinality(OfOrder(ts, o, S)) <= Cardinality(OfOrder(ts, o, T))
  OBVIOUS
<1>1. IsFiniteSet(OfOrder(ts, o, T))
  BY TradeSets
<1>2. OfOrder(ts, o, S) \in SUBSET OfOrder(ts, o, T)
  BY DEF OfOrder
<1> QED BY <1>1, <1>2, FS_Subset

\* The trades of one order.
LEMMA TradesOfOne ==
  ASSUME NEW os, NEW ts, NEW n \in Nat, NEW S \in SUBSET (1 .. n), NEW o,
         \A i \in S : ts[i].order = o, os[o].side \in {"buy", "sell"}
  PROVE  /\ NetOfBy(os, ts, S) = SignBy(os, o) * Cardinality(S)
         /\ OfOrder(ts, o, S) = S /\ Cardinality(S) \in Nat
<1>1. OfOrder(ts, o, S) = S
  BY DEF OfOrder
<1>2. Cardinality(S) \in Nat
  BY IdsAreFinite
<1>3. ASSUME NEW side, os[o].side = side PROVE OnSideBy(os, ts, side, S) = S
  BY <1>3 DEF OnSideBy
<1>4. ASSUME NEW side, os[o].side # side PROVE Cardinality(OnSideBy(os, ts, side, S)) = 0
  <2>1. OnSideBy(os, ts, side, S) = {}
    BY <1>4 DEF OnSideBy
  <2> QED BY <2>1, FS_EmptySet
<1>5. CASE os[o].side = "buy"
  <2>1. OnSideBy(os, ts, "buy", S) = S /\ Cardinality(OnSideBy(os, ts, "sell", S)) = 0
    BY <1>3, <1>4, <1>5
  <2> QED BY <1>1, <1>2, <1>5, <2>1 DEF NetOfBy, SignBy
<1>6. CASE os[o].side = "sell"
  <2>1. OnSideBy(os, ts, "sell", S) = S /\ Cardinality(OnSideBy(os, ts, "buy", S)) = 0
    BY <1>3, <1>4, <1>6
  <2> QED BY <1>1, <1>2, <1>6, <2>1 DEF NetOfBy, SignBy
<1> QED BY <1>5, <1>6

\* Trades and sides that stay what they were.
LEMMA TradesKept ==
  ASSUME NEW os, NEW ts, NEW os2, NEW ts2, NEW S,
         \A i \in S : ts2[i] = ts[i] /\ os2[ts[i].order].side = os[ts[i].order].side
  PROVE  NetOfBy(os2, ts2, S) = NetOfBy(os, ts, S)
<1>1. ASSUME NEW side PROVE OnSideBy(os2, ts2, side, S) = OnSideBy(os, ts, side, S)
  BY DEF OnSideBy
<1> QED BY <1>1 DEF NetOfBy

-----------------------------------------------------------------------------
(***************************************************************************)
(* The state.                                                              *)
(***************************************************************************)
\* The account as sequences, the run and the books as records.
LEMMA Shape ==
  ASSUME Typed
  PROVE  /\ Len(orders) \in Nat /\ DOMAIN orders = 1 .. Len(orders)
         /\ DOMAIN orders \subseteq Txids
         /\ Len(trades) \in Nat /\ DOMAIN trades = 1 .. Len(trades)
         /\ \A o \in DOMAIN orders : orders[o] \in Order
         /\ \A i \in DOMAIN trades : trades[i] \in [order : Nat, ts : Nat]
<1>1. /\ orders \in Seq(Order) /\ Len(orders) <= MaxOrders /\ MaxOrders \in Nat
      /\ trades \in Seq([order : Nat, ts : Nat])
  BY ExchangeAssumption DEF Typed
<1>2. /\ Len(orders) \in Nat /\ DOMAIN orders = 1 .. Len(orders)
      /\ orders \in [1 .. Len(orders) -> Order]
  BY <1>1, LenProperties
<1>3. /\ Len(trades) \in Nat /\ DOMAIN trades = 1 .. Len(trades)
      /\ trades \in [1 .. Len(trades) -> [order : Nat, ts : Nat]]
  BY <1>1, LenProperties
<1>4. DOMAIN orders \subseteq Txids
  BY <1>1, <1>2 DEF Txids
<1> QED BY <1>2, <1>3, <1>4

\* The parts of a run and of the books.
LEMMA Parts ==
  ASSUME Typed
  PROVE  /\ run.ledger \in Int /\ run.resumed \in BOOLEAN /\ run.fills \subseteq Fill
         /\ run.missed \in Buffer /\ run.buffer \in Buffer /\ db.book \in Buffer
         /\ db.root \in Int /\ venue.cursor \in Nat
         /\ db.book.fills \in [Ids -> Nat]
         /\ run.missed.fills \in [Ids -> Nat] /\ run.buffer.fills \in [Ids -> Nat]
<1>1. run \in Run /\ venue \in Venue /\ db \in Books
  BY DEF Typed
<1>2. /\ run.ledger \in Int /\ run.resumed \in BOOLEAN /\ run.fills \subseteq Fill
      /\ run.missed \in Buffer /\ run.buffer \in Buffer /\ db.book \in Buffer
      /\ db.root \in Int /\ venue.cursor \in Nat
  BY <1>1 DEF Run, Venue, Books
<1> QED BY <1>2 DEF Buffer

\* The trades behind the cursor.
LEMMA TakenFacts ==
  ASSUME IInv
  PROVE  /\ Consumed \in SUBSET (1 .. Len(trades)) /\ Taken \in SUBSET (1 .. Len(trades))
         /\ Pending \in SUBSET Consumed /\ Taken \cap Pending = {} /\ Taken \cup Pending = Consumed
<1>1. DOMAIN trades = 1 .. Len(trades)
  BY Shape DEF IInv
<1>2. Pending \subseteq Consumed
  BY DEF IInv, Waiting, Pending
<1> QED BY <1>1, <1>2 DEF Consumed, Taken

\* A row that holds a fill is of an order that was placed.
LEMMA HeldFacts ==
  ASSUME IInv, NEW id \in Ids
  PROVE  /\ id[2] \in Txids /\ Executed(id[2]) \in Nat
         /\ Executed(id[2]) > 0 => id[2] \in DOMAIN orders
         /\ Cardinality(TradesOf(id[2], Taken)) <= Executed(id[2])
         /\ Cardinality(TradesOf(id[2], Taken)) \in Nat
         /\ db.book.fills[id] \in Nat /\ run.missed.fills[id] \in Nat /\ run.buffer.fills[id] \in Nat
         /\ db.book.fills[id] > 0 => id[2] \in DOMAIN orders
         /\ run.missed.fills[id] > 0 => id[2] \in DOMAIN orders
         /\ run.buffer.fills[id] > 0 => id[2] \in DOMAIN orders
<1>1. /\ Typed /\ Len(trades) \in Nat /\ DOMAIN trades = 1 .. Len(trades)
      /\ Taken \in SUBSET (DOMAIN trades)
  BY Shape, TakenFacts DEF IInv
<1>2. /\ Executed(id[2]) = Cardinality(OfOrder(trades, id[2], DOMAIN trades))
      /\ TradesOf(id[2], Taken) = OfOrder(trades, id[2], Taken)
  BY DEF Executed, TradesOf, OfOrder
<1>3. /\ Cardinality(OfOrder(trades, id[2], DOMAIN trades)) \in Nat
      /\ IsFiniteSet(OfOrder(trades, id[2], DOMAIN trades))
      /\ Cardinality(OfOrder(trades, id[2], Taken)) \in Nat
      /\ Cardinality(OfOrder(trades, id[2], Taken)) <= Cardinality(OfOrder(trades, id[2], DOMAIN trades))
  <2>1. /\ Cardinality(OfOrder(trades, id[2], DOMAIN trades)) \in Nat
        /\ IsFiniteSet(OfOrder(trades, id[2], DOMAIN trades))
    BY <1>1, TradeSets
  <2>2. Cardinality(OfOrder(trades, id[2], Taken)) \in Nat
    BY <1>1, TradeSets
  <2> QED BY <1>1, <2>1, <2>2, TradesWithin
<1>4. Executed(id[2]) > 0 => id[2] \in DOMAIN orders
  <2>1. ASSUME id[2] \notin DOMAIN orders PROVE OfOrder(trades, id[2], DOMAIN trades) = {}
    BY <2>1 DEF OfOrder, IInv, Account
  <2> QED BY <1>2, <2>1, FS_EmptySet
<1>5. /\ db.book.fills[id] \in Nat /\ run.missed.fills[id] \in Nat /\ run.buffer.fills[id] \in Nat
  BY <1>1, Parts
<1>6. db.book.fills[id] <= Executed(id[2])
  BY DEF IInv, Backed
<1>7. CASE phase \in {"down", "recovering"}
  <2>1. run.missed.fills = NoFills /\ run.buffer.fills = NoFills
    BY <1>7 DEF IInv, Buffered, Starting
  <2> QED BY <1>2, <1>3, <1>4, <1>5, <1>6, <2>1 DEF NoFills, Ids
<1>8. CASE phase \notin {"down", "recovering"}
  <2>1. Held(id) <= Cardinality(TradesOf(id[2], Taken))
    BY <1>8 DEF IInv, Backed
  <2> QED BY <1>2, <1>3, <1>4, <1>5, <1>6, <2>1 DEF Held, Ids
<1> QED BY <1>7, <1>8

\* The positions and the trades of this state and the next, for the lemmas.
LEMMA Given ==
  /\ Net(db.book.fills) = NetBy(orders, db.book.fills)
  /\ Net(run.missed.fills) = NetBy(orders, run.missed.fills)
  /\ Net(run.buffer.fills) = NetBy(orders, run.buffer.fills)
  /\ NetOf(Taken) = NetOfBy(orders, trades, Taken)
  /\ \A o : TradesOf(o, Taken) = OfOrder(trades, o, Taken)
  /\ \A o : Executed(o) = Cardinality(OfOrder(trades, o, DOMAIN trades))
BY DEF Net, NetBy, Units, UnitsBy, NetOf, NetOfBy, OnSide, OnSideBy, TradesOf, OfOrder, Executed

\* The same of the next state.
LEMMA GivenNext ==
  /\ Net(db.book.fills)' = NetBy(orders', db'.book.fills)
  /\ Net(run.missed.fills)' = NetBy(orders', run'.missed.fills)
  /\ Net(run.buffer.fills)' = NetBy(orders', run'.buffer.fills)
  /\ NetOf(Taken)' = NetOfBy(orders', trades', Taken')
  /\ \A o : TradesOf(o, Taken)' = OfOrder(trades', o, Taken')
  /\ \A o : Executed(o)' = Cardinality(OfOrder(trades', o, DOMAIN trades'))
BY DEF Net, NetBy, Units, UnitsBy, NetOf, NetOfBy, OnSide, OnSideBy, TradesOf, OfOrder, Executed

\* Orders and trades are only ever added.
AccountGrows ==
  /\ DOMAIN orders \subseteq DOMAIN orders'
  /\ \A o \in DOMAIN orders : orders'[o].side = orders[o].side
  /\ DOMAIN trades \subseteq DOMAIN trades'
  /\ \A i \in DOMAIN trades : trades'[i] = trades[i]

\* What that leaves as it was.
LEMMA Unmoved ==
  ASSUME IInv, AccountGrows, Typed'
  PROVE  /\ NetBy(orders', db.book.fills) = NetBy(orders, db.book.fills)
         /\ NetBy(orders', run.missed.fills) = NetBy(orders, run.missed.fills)
         /\ NetBy(orders', run.buffer.fills) = NetBy(orders, run.buffer.fills)
         /\ \A S \in SUBSET (DOMAIN trades) :
              /\ NetOfBy(orders', trades', S) = NetOfBy(orders, trades, S)
              /\ \A o : OfOrder(trades', o, S) = OfOrder(trades, o, S)
         /\ \A id \in Ids : Executed(id[2]) <= Executed(id[2])' /\ Executed(id[2])' \in Nat
<1>1. /\ Typed /\ Len(trades) \in Nat /\ DOMAIN trades = 1 .. Len(trades)
      /\ db.book.fills \in [Ids -> Nat] /\ run.missed.fills \in [Ids -> Nat]
      /\ run.buffer.fills \in [Ids -> Nat]
  BY Shape, Parts DEF IInv
<1>2. ASSUME NEW fills \in [Ids -> Nat], \A id \in Ids : fills[id] > 0 => id[2] \in DOMAIN orders
      PROVE  NetBy(orders', fills) = NetBy(orders, fills)
  BY <1>2, NetByKept DEF AccountGrows
<1>3. /\ NetBy(orders', db.book.fills) = NetBy(orders, db.book.fills)
      /\ NetBy(orders', run.missed.fills) = NetBy(orders, run.missed.fills)
      /\ NetBy(orders', run.buffer.fills) = NetBy(orders, run.buffer.fills)
  BY <1>1, <1>2, HeldFacts
<1>4. ASSUME NEW S \in SUBSET (DOMAIN trades)
      PROVE  /\ NetOfBy(orders', trades', S) = NetOfBy(orders, trades, S)
             /\ \A o : OfOrder(trades', o, S) = OfOrder(trades, o, S)
  <2>1. \A i \in S : trades'[i] = trades[i] /\ orders'[trades[i].order].side = orders[trades[i].order].side
    BY DEF AccountGrows, IInv, Account
  <2>2. NetOfBy(orders', trades', S) = NetOfBy(orders, trades, S)
    BY <2>1, TradesKept
  <2>3. \A o : OfOrder(trades', o, S) = OfOrder(trades, o, S)
    BY <2>1 DEF OfOrder
  <2> QED BY <2>2, <2>3
<1>5. ASSUME NEW id \in Ids PROVE Executed(id[2]) <= Executed(id[2])' /\ Executed(id[2])' \in Nat
  <2>1. Len(trades') \in Nat /\ DOMAIN trades' = 1 .. Len(trades')
    BY LenProperties DEF Typed
  <2>2. Cardinality(OfOrder(trades', id[2], DOMAIN trades)) <=
          Cardinality(OfOrder(trades', id[2], DOMAIN trades'))
    BY <2>1, TradesWithin DEF AccountGrows
  <2>3. OfOrder(trades', id[2], DOMAIN trades) = OfOrder(trades, id[2], DOMAIN trades)
    BY <1>4
  <2>4. Cardinality(OfOrder(trades', id[2], DOMAIN trades')) \in Nat
    BY <2>1, TradeSets
  <2> QED BY <2>2, <2>3, <2>4, Given, GivenNext
<1> QED BY <1>3, <1>4, <1>5

\* Phases from the claimed row to the last candle.
Running == {"recording", "checkpoint"} \cup Trading

\* A step that moves no money: the numbers of the invariant stay.
LEMMA CalmStep ==
  ASSUME IInv, Typed', Account', Tracked', Cursor', Dated', Waiting', Buffered', AccountGrows,
         db'.book = db.book, db'.root = db.root, run'.ledger = run.ledger,
         run'.missed.fills = run.missed.fills, run'.buffer.fills = run.buffer.fills,
         run'.resumed = run.resumed, run'.quiet = run.quiet, run'.rejected = run.rejected,
         Taken \subseteq Taken', Taken' = Taken \/ phase' = "sweep",
         \/ phase' = phase
         \/ phase \in Running /\ phase' \in Running \cup {"sweep"}
         \/ phase = "sweep" /\ phase' = "finish"
  PROVE  IInv'
<1>1. /\ Typed /\ Taken \in SUBSET (1 .. Len(trades)) /\ DOMAIN trades = 1 .. Len(trades)
      /\ Len(trades) \in Nat
  BY Shape, TakenFacts DEF IInv
<1>2. /\ Net(db.book.fills)' = Net(db.book.fills)
      /\ Net(run.missed.fills)' = Net(run.missed.fills)
      /\ Net(run.buffer.fills)' = Net(run.buffer.fills)
      /\ \A id \in Ids : Executed(id[2]) <= Executed(id[2])' /\ Executed(id[2])' \in Nat
  BY Unmoved, Given, GivenNext
<1>3. NetOfBy(orders', trades', Taken) = NetOfBy(orders, trades, Taken)
      /\ \A o : OfOrder(trades', o, Taken) = OfOrder(trades, o, Taken)
  BY <1>1, Unmoved
<1>4. Taken' = Taken => NetOf(Taken)' = NetOf(Taken)
  BY <1>3, Given, GivenNext
<1>5. ASSUME NEW id \in Ids
      PROVE  /\ Cardinality(TradesOf(id[2], Taken)) <= Cardinality(TradesOf(id[2], Taken))'
             /\ Cardinality(TradesOf(id[2], Taken))' \in Nat
  <2>1. /\ Len(trades') \in Nat /\ DOMAIN trades' = 1 .. Len(trades')
        /\ Taken' \in SUBSET (1 .. Len(trades'))
    <3>1. Len(trades') \in Nat /\ DOMAIN trades' = 1 .. Len(trades')
      BY LenProperties DEF Typed
    <3> QED BY <3>1 DEF Taken, Consumed
  <2>2. Cardinality(OfOrder(trades', id[2], Taken)) <= Cardinality(OfOrder(trades', id[2], Taken'))
    BY <2>1, TradesWithin
  <2>3. Cardinality(OfOrder(trades', id[2], Taken')) \in Nat
    BY <2>1, TradeSets
  <2> QED BY <1>3, <2>2, <2>3, Given, GivenNext
<1>6. Backed'
  <2>1. ASSUME NEW id \in Ids PROVE db'.book.fills[id] <= Executed(id[2])'
    <3>1. db.book.fills[id] <= Executed(id[2]) /\ db.book.fills[id] \in Nat /\ Executed(id[2]) \in Nat
      BY HeldFacts DEF IInv, Backed
    <3> QED BY <1>2, <3>1
  <2>2. ASSUME NEW id \in Ids, phase' \notin {"down", "recovering"}
        PROVE  Held(id)' <= Cardinality(TradesOf(id[2], Taken))'
    <3>1. phase \notin {"down", "recovering"}
      BY <2>2 DEF Running, Trading, InCandle
    <3>2. Held(id) <= Cardinality(TradesOf(id[2], Taken)) /\ Held(id) \in Nat
          /\ Cardinality(TradesOf(id[2], Taken)) \in Nat
      BY <3>1, HeldFacts DEF IInv, Backed, Held
    <3>3. Held(id)' = Held(id)
      BY DEF Held
    <3> QED BY <1>5, <3>2, <3>3
  <2> QED BY <2>1, <2>2 DEF Backed
<1>7. Rooted'
  BY <1>2 DEF IInv, Rooted, Running, Trading, InCandle
<1>8. Follows'
  BY <1>4 DEF IInv, Follows, Running, Trading, InCandle
<1> QED BY <1>6, <1>7, <1>8 DEF IInv

-----------------------------------------------------------------------------
(***************************************************************************)
(* The initial state, and what the exchange does.                          *)
(***************************************************************************)
\* A run that is not there.
LEMMA NothingIsTyped ==
  /\ NoRun \in Run /\ NoVenue \in Venue /\ EmptyBuffer \in Buffer
  /\ NoRun.fills = {} /\ NoRun.missed.fills = NoFills /\ NoRun.buffer.fills = NoFills
  /\ ~NoRun.resumed /\ NoRun.missed = EmptyBuffer /\ NoRun.buffer = EmptyBuffer
  /\ NoRun.ledger = 0 /\ ~NoRun.rejected
  /\ NoVenue.cursor = 0 /\ NoVenue.seen = {} /\ EmptyBuffer.fills = NoFills
  /\ EmptyBuffer.last = 0
<1>1. EmptyBuffer \in Buffer /\ EmptyBuffer.fills = NoFills /\ EmptyBuffer.last = 0
  BY DEF EmptyBuffer, Buffer, NoFills, NoStatus, Statuses
<1>2. NoVenue \in Venue /\ NoVenue.cursor = 0 /\ NoVenue.seen = {}
  BY DEF NoVenue, Venue
<1>3. NoRun \in Run
  BY <1>1 DEF NoRun, Run
<1> QED BY <1>1, <1>2, <1>3 DEF NoRun

\* The invariant holds at the start.
LEMMA InitStep == Init => IInv
<1> SUFFICES ASSUME Init PROVE IInv
  OBVIOUS
<1> USE DEF Init, ExchangeInit
<1>1. /\ orders = <<>> /\ trades = <<>> /\ clock = 0 /\ phase = "down"
      /\ run = NoRun /\ venue = NoVenue /\ db.book = EmptyBuffer
  OBVIOUS
<1>2. db \in Books
  BY NothingIsTyped DEF Books, None
<1>3. DOMAIN orders = {} /\ DOMAIN trades = {} /\ Len(orders) = 0
  OBVIOUS
<1>4. Typed
  BY <1>1, <1>2, <1>3, NothingIsTyped, ExchangeAssumption DEF Typed, Phases
<1>5. Account /\ Tracked /\ Cursor /\ Dated
  BY <1>1, <1>3, NothingIsTyped DEF Account, Tracked, Cursor, Dated, Starting, Trading, InCandle
<1>6. Waiting /\ Buffered
  BY <1>1, NothingIsTyped, FS_EmptySet DEF Waiting, Buffered
<1>7. Backed
  <2>1. ASSUME NEW id \in Ids PROVE db.book.fills[id] <= Executed(id[2])
    <3>1. Executed(id[2]) = 0
      <4>1. TradesOf(id[2], DOMAIN trades) = {}
        BY <1>3 DEF TradesOf
      <4> QED BY <4>1, FS_EmptySet DEF Executed
    <3>2. db.book.fills[id] = 0
      BY <1>1, NothingIsTyped DEF NoFills
    <3> QED BY <3>1, <3>2
  <2> QED BY <1>1, <2>1 DEF Backed
<1>8. Rooted /\ Follows
  BY <1>1 DEF Rooted, Follows, Trading, InCandle
<1> QED BY <1>4, <1>5, <1>6, <1>7, <1>8 DEF IInv

\* What moves on the account behind the run's back.
LEMMA AccountStep ==
  ASSUME IInv, UNCHANGED <<phase, run, venue, db>>,
         clock' \in Nat, clock <= clock', orders' \in Seq(Order), Len(orders') <= MaxOrders,
         trades' \in Seq([order : Nat, ts : Nat]), AccountGrows, Account', OwnOpen' \subseteq OwnOpen,
         \A i \in DOMAIN trades' : i \in DOMAIN trades \/ trades'[i].ts >= venue.cursor
  PROVE  IInv'
<1>1. Typed /\ Typed' /\ Cursor /\ Waiting /\ Buffered /\ clock \in Nat /\ venue.cursor \in Nat
  BY Parts DEF IInv, Typed
<1>2. Tracked'
  BY DEF IInv, Tracked
<1>3. Cursor'
  BY <1>1 DEF Cursor, AccountGrows
<1>4. \A i \in DOMAIN trades' : trades'[i].ts \in Nat
  <2>1. DOMAIN trades' = 1 .. Len(trades') /\ trades' \in [1 .. Len(trades') -> [order : Nat, ts : Nat]]
    BY LenProperties
  <2>2. \A i \in DOMAIN trades' : trades'[i] \in [order : Nat, ts : Nat]
    BY <2>1
  <2> QED BY <2>2
<1>5. Consumed' = Consumed
  BY <1>1, <1>4 DEF Cursor, Consumed, AccountGrows
<1>6. Waiting'
  <2>1. \A i \in Consumed : trades'[i] = trades[i]
    BY DEF Consumed, AccountGrows
  <2> QED BY <1>1, <1>5, <2>1 DEF Waiting
<1>7. Taken' = Taken
  BY <1>5 DEF Taken, Pending
<1>8. Buffered'
  BY <1>1 DEF Buffered
<1>9. Dated'
  <2>1. db.since \in Nat /\ db.book.last \in Nat /\ run.missed.last \in Nat /\ run.buffer.last \in Nat
    BY <1>1, Parts DEF Typed, Books, Buffer
  <2> QED BY <1>1, <2>1 DEF IInv, Dated
<1> QED BY <1>1, <1>2, <1>3, <1>6, <1>7, <1>8, <1>9, CalmStep

\* Orders that are closed.
LEMMA ClosedFacts ==
  ASSUME IInv, NEW S, orders' = Closed(S)
  PROVE  /\ orders' \in Seq(Order) /\ Len(orders') <= MaxOrders /\ DOMAIN orders' = DOMAIN orders
         /\ \A o \in DOMAIN orders : /\ orders'[o].side = orders[o].side
                                     /\ orders'[o].state = "inflight" => orders'[o].origin = "lost"
         /\ OwnOpen' = OwnOpen \ S
<1>1. /\ Typed /\ Len(orders) \in Nat /\ DOMAIN orders = 1 .. Len(orders)
      /\ \A o \in DOMAIN orders : orders[o] \in Order
  BY Shape DEF IInv
<1>2. ASSUME NEW o \in DOMAIN orders
      PROVE  /\ orders'[o] \in Order /\ orders'[o].side = orders[o].side
             /\ orders'[o].origin = orders[o].origin
             /\ orders'[o].state = IF o \in S THEN "closed" ELSE orders[o].state
  BY <1>1 DEF Closed, Order
<1>3. orders' \in [1 .. Len(orders) -> Order]
  <2>1. DOMAIN orders' = 1 .. Len(orders)
    BY <1>1 DEF Closed
  <2> QED BY <1>1, <1>2, <2>1 DEF Closed
<1>4. orders' \in Seq(Order) /\ Len(orders') = Len(orders) /\ DOMAIN orders' = DOMAIN orders
  BY <1>1, <1>3, FunctionIsSeq
<1>5. OwnOpen' = OwnOpen \ S
  BY <1>2, <1>4 DEF OwnOpen, OpenIds
<1> QED BY <1>1, <1>2, <1>4, <1>5 DEF IInv, Account, Typed

\* An order that is placed.
LEMMA PlacedFacts ==
  ASSUME IInv, Len(orders) < MaxOrders, NEW order \in Order, orders' = Append(orders, order),
         order.state = "inflight" => order.origin = "lost"
  PROVE  /\ orders' \in Seq(Order) /\ Len(orders') <= MaxOrders
         /\ DOMAIN orders \subseteq DOMAIN orders' /\ Len(orders) + 1 \in Txids
         /\ \A o \in DOMAIN orders : orders'[o].side = orders[o].side
         /\ \A o \in DOMAIN orders' : orders'[o].state = "inflight" => orders'[o].origin = "lost"
         /\ order.origin # "own" => OwnOpen' = OwnOpen
         /\ OwnOpen' \subseteq OwnOpen \cup {Len(orders) + 1}
<1>1. /\ Typed /\ Len(orders) \in Nat /\ DOMAIN orders = 1 .. Len(orders) /\ orders \in Seq(Order)
      /\ MaxOrders \in Nat
  BY Shape, ExchangeAssumption DEF IInv, Typed
<1>2. /\ orders' \in Seq(Order) /\ Len(orders') = Len(orders) + 1
      /\ \A o \in 1 .. Len(orders) : orders'[o] = orders[o]
      /\ orders'[Len(orders) + 1] = order
  BY <1>1, AppendProperties
<1>3. DOMAIN orders' = 1 .. (Len(orders) + 1)
  BY <1>2, LenProperties
<1>4. /\ DOMAIN orders \subseteq DOMAIN orders'
      /\ \A o \in DOMAIN orders' : o \in DOMAIN orders \/ o = Len(orders) + 1
      /\ \A o \in DOMAIN orders : orders'[o] = orders[o]
  BY <1>1, <1>2, <1>3
<1>5. \A o \in DOMAIN orders' : orders'[o].state = "inflight" => orders'[o].origin = "lost"
  BY <1>2, <1>4 DEF IInv, Account
<1>6. OwnOpen' \subseteq OwnOpen \cup {Len(orders) + 1}
  BY <1>4 DEF OwnOpen, OpenIds
<1>7. order.origin # "own" => OwnOpen' = OwnOpen
  BY <1>2, <1>4 DEF OwnOpen, OpenIds
<1>8. Len(orders') <= MaxOrders /\ Len(orders) + 1 \in Txids
  BY <1>1, <1>2 DEF Txids
<1> QED BY <1>2, <1>4, <1>5, <1>6, <1>7, <1>8

\* Time passes, and limits end with it.
LEMMA TickStep ==
  ASSUME IInv, Tick, UNCHANGED localVars
  PROVE  IInv'
<1>1. PICK S : orders' = Closed(S)
  BY DEF Tick
<1>2. clock \in Nat /\ clock' = clock + 1 /\ trades' = trades
      /\ trades \in Seq([order : Nat, ts : Nat]) /\ UNCHANGED <<phase, run, venue, db>>
  BY DEF Tick, IInv, Typed, localVars
<1>3. /\ orders' \in Seq(Order) /\ Len(orders') <= MaxOrders /\ DOMAIN orders' = DOMAIN orders
      /\ \A o \in DOMAIN orders : /\ orders'[o].side = orders[o].side
                                  /\ orders'[o].state = "inflight" => orders'[o].origin = "lost"
      /\ OwnOpen' = OwnOpen \ S
  BY <1>1, ClosedFacts
<1>4. AccountGrows
  BY <1>2, <1>3 DEF AccountGrows
<1>5. Account'
  <2>1. \A i \in DOMAIN trades : trades[i].ts \in Nat
    BY Shape DEF IInv
  <2> QED BY <1>2, <1>3, <2>1 DEF IInv, Account
<1>6. clock' \in Nat /\ clock <= clock' /\ OwnOpen' \subseteq OwnOpen
  BY <1>2, <1>3
<1> QED BY <1>2, <1>3, <1>4, <1>5, <1>6, AccountStep

\* An open order executes a unit, at or after the cursor.
LEMMA TradedFacts ==
  ASSUME IInv, NEW o \in DOMAIN orders, trades' = Append(trades, [order |-> o, ts |-> clock])
  PROVE  /\ trades' \in Seq([order : Nat, ts : Nat]) /\ Len(trades') = Len(trades) + 1
         /\ DOMAIN trades' = DOMAIN trades \cup {Len(trades) + 1}
         /\ Len(trades) + 1 \notin DOMAIN trades
         /\ \A i \in DOMAIN trades : trades'[i] = trades[i]
         /\ trades'[Len(trades) + 1].order = o /\ trades'[Len(trades) + 1].ts = clock
<1>1. /\ Typed /\ Len(trades) \in Nat /\ DOMAIN trades = 1 .. Len(trades)
      /\ trades \in Seq([order : Nat, ts : Nat]) /\ clock \in Nat /\ o \in Nat
  BY Shape DEF IInv, Typed
<1>2. PICK trade : trade = [order |-> o, ts |-> clock]
  OBVIOUS
<1>3. trade \in [order : Nat, ts : Nat] /\ trade.order = o /\ trade.ts = clock
  BY <1>1, <1>2
<1>4. /\ trades' \in Seq([order : Nat, ts : Nat]) /\ Len(trades') = Len(trades) + 1
      /\ \A i \in 1 .. Len(trades) : trades'[i] = trades[i]
      /\ trades'[Len(trades) + 1] = trade
  BY <1>1, <1>2, <1>3, AppendProperties
<1>5. DOMAIN trades' = 1 .. (Len(trades) + 1)
  BY <1>4, LenProperties
<1> QED BY <1>1, <1>3, <1>4, <1>5

\* An order that executes a unit takes nothing from what was taken.
LEMMA ExecuteStep ==
  ASSUME IInv, NEW o \in DOMAIN orders, Execute(o), UNCHANGED localVars
  PROVE  IInv'
<1>1. /\ Typed /\ clock' = clock /\ clock \in Nat /\ UNCHANGED <<phase, run, venue, db>>
      /\ trades' = Append(trades, [order |-> o, ts |-> clock])
      /\ orders' = orders \/ orders' = Closed({o})
  BY DEF Execute, IInv, Typed, localVars
<1>2. /\ trades' \in Seq([order : Nat, ts : Nat])
      /\ DOMAIN trades' = DOMAIN trades \cup {Len(trades) + 1}
      /\ \A i \in DOMAIN trades : trades'[i] = trades[i]
      /\ trades'[Len(trades) + 1].order = o /\ trades'[Len(trades) + 1].ts = clock
  BY <1>1, TradedFacts
<1>3. /\ orders' \in Seq(Order) /\ Len(orders') <= MaxOrders /\ DOMAIN orders' = DOMAIN orders
      /\ \A p \in DOMAIN orders : /\ orders'[p].side = orders[p].side
                                  /\ orders'[p].state = "inflight" => orders'[p].origin = "lost"
      /\ OwnOpen' \subseteq OwnOpen
  <2>1. CASE orders' = orders
    BY <2>1 DEF IInv, Typed, Account, OwnOpen, OpenIds
  <2>2. CASE orders' = Closed({o})
    <3>1. OwnOpen' = OwnOpen \ {o}
      BY <2>2, ClosedFacts
    <3> QED BY <2>2, <3>1, ClosedFacts
  <2> QED BY <1>1, <2>1, <2>2
<1>4. AccountGrows
  BY <1>2, <1>3 DEF AccountGrows
<1>5. Account'
  <2>1. /\ Account /\ o \in DOMAIN orders' /\ clock <= clock /\ clock' = clock
        /\ DOMAIN orders' = DOMAIN orders
    BY <1>1, <1>3 DEF IInv
  <2>2. \A i \in DOMAIN trades : trades'[i].order \in DOMAIN orders' /\ trades'[i].ts <= clock'
    BY <1>2, <2>1 DEF Account
  <2>3. \A i \in DOMAIN trades' : trades'[i].order \in DOMAIN orders' /\ trades'[i].ts <= clock'
    BY <1>2, <2>1, <2>2
  <2>4. \A p \in DOMAIN orders' : orders'[p].state = "inflight" => orders'[p].origin = "lost"
    BY <1>3
  <2> QED BY <2>3, <2>4 DEF Account
<1>6. \A i \in DOMAIN trades' : i \in DOMAIN trades \/ trades'[i].ts >= venue.cursor
  <2>1. venue.cursor \in Nat /\ venue.cursor <= clock
    BY <1>1, Parts DEF IInv, Cursor
  <2> QED BY <1>1, <1>2, <2>1
<1>7. clock' \in Nat /\ clock <= clock'
  BY <1>1
<1> QED BY <1>1, <1>2, <1>3, <1>4, <1>5, <1>6, <1>7, AccountStep

\* A lost placement arrives.
LEMMA LandStep ==
  ASSUME IInv, NEW o \in DOMAIN orders, Land(o), UNCHANGED localVars
  PROVE  IInv'
<1>1. /\ Typed /\ orders[o].state = "inflight" /\ orders[o].origin = "lost"
      /\ UNCHANGED <<clock, trades, phase, run, venue, db>> /\ clock \in Nat
      /\ orders' = [orders EXCEPT ![o].state = "open"]
      /\ trades \in Seq([order : Nat, ts : Nat]) /\ Len(orders) <= MaxOrders /\ orders \in Seq(Order)
  BY DEF Land, IInv, Account, Typed, localVars
<1>2. /\ DOMAIN orders = 1 .. Len(orders) /\ \A p \in DOMAIN orders : orders[p] \in Order
  BY <1>1, Shape
<1>3. PICK order : order = [orders[o] EXCEPT !.state = "open"]
  OBVIOUS
<1>4. order \in Order /\ order.side = orders[o].side /\ order.origin = "lost" /\ order.state = "open"
  BY <1>1, <1>2, <1>3 DEF Order
<1>5. orders' = [orders EXCEPT ![o] = order]
  BY <1>1, <1>3
<1>6. /\ orders' \in Seq(Order) /\ Len(orders') = Len(orders) /\ orders'[o] = order
      /\ \A p \in 1 .. Len(orders) : p # o => orders'[p] = orders[p]
  <2>1. orders \in [1 .. Len(orders) -> Order] /\ Len(orders) \in Nat /\ o \in 1 .. Len(orders)
    BY <1>1, <1>2, LenProperties
  <2>2. /\ orders' \in [1 .. Len(orders) -> Order] /\ orders'[o] = order
        /\ \A p \in 1 .. Len(orders) : p # o => orders'[p] = orders[p]
    BY <1>4, <1>5, <2>1
  <2> QED BY <2>1, <2>2, FunctionIsSeq
<1>7. DOMAIN orders' = DOMAIN orders
  BY <1>5
<1>8. AccountGrows
  BY <1>1, <1>2, <1>4, <1>6, <1>7 DEF AccountGrows
<1>9. Account'
  BY <1>1, <1>2, <1>4, <1>6, <1>7 DEF IInv, Account
<1>10. OwnOpen' \subseteq OwnOpen
  BY <1>1, <1>2, <1>4, <1>6, <1>7 DEF OwnOpen, OpenIds
<1>11. clock' \in Nat /\ clock <= clock' /\ Len(orders') <= MaxOrders
       /\ trades' \in Seq([order : Nat, ts : Nat])
  BY <1>1, <1>6
<1> QED BY <1>1, <1>6, <1>8, <1>9, <1>10, <1>11, AccountStep

\* Somebody else's order is not the run's.
LEMMA ForeignStep ==
  ASSUME IInv, ForeignOrder
  PROVE  IInv'
<1>1. /\ Typed /\ Len(orders) < MaxOrders /\ UNCHANGED <<clock, trades, phase, run, venue, db>>
      /\ clock \in Nat /\ trades \in Seq([order : Nat, ts : Nat])
  BY DEF ForeignOrder, IInv, Typed
<1>2. PICK side \in {"buy", "sell"}, size \in 1 .. MaxSize :
         orders' = NewOrder(side, size, Never, "foreign", "open")
  BY DEF ForeignOrder
<1>3. PICK order : order = [side |-> side, size |-> size, expires |-> Never,
                            origin |-> "foreign", state |-> "open"]
  OBVIOUS
<1>4. /\ order \in Order /\ order.origin = "foreign" /\ order.state = "open"
      /\ orders' = Append(orders, order)
  BY <1>2, <1>3 DEF Order, NewOrder, Never
<1>5. /\ orders' \in Seq(Order) /\ Len(orders') <= MaxOrders
      /\ DOMAIN orders \subseteq DOMAIN orders'
      /\ \A o \in DOMAIN orders : orders'[o].side = orders[o].side
      /\ \A o \in DOMAIN orders' : orders'[o].state = "inflight" => orders'[o].origin = "lost"
      /\ OwnOpen' = OwnOpen
  BY <1>1, <1>4, PlacedFacts
<1>6. AccountGrows /\ Account' /\ clock' \in Nat /\ clock <= clock' /\ OwnOpen' \subseteq OwnOpen
  BY <1>1, <1>5 DEF AccountGrows, IInv, Account
<1> QED BY <1>1, <1>5, <1>6, AccountStep

-----------------------------------------------------------------------------
(***************************************************************************)
(* Steps of a run that move no money.                                      *)
(***************************************************************************)
\* A run's step that leaves its ledger, its cursor and the account's sides,
\* and has no fills to book.
LEMMA QuietStep ==
  ASSUME IInv, trades' = trades, clock' = clock, venue'.cursor = venue.cursor,
         venue'.seen = venue.seen, orders' \in Seq(Order), Len(orders') <= MaxOrders,
         DOMAIN orders \subseteq DOMAIN orders',
         \A o \in DOMAIN orders : orders'[o].side = orders[o].side,
         \A o \in DOMAIN orders' : orders'[o].state = "inflight" => orders'[o].origin = "lost",
         run' \in Run, venue' \in Venue, db' \in Books, Tracked',
         db'.book = db.book, db'.root = db.root, db'.since = db.since,
         run'.ledger = run.ledger, run'.missed = run.missed,
         run'.buffer.fills = run.buffer.fills, run'.buffer.last = run.buffer.last,
         run'.resumed = run.resumed, run'.quiet = run.quiet, run'.rejected = run.rejected,
         run'.fills = {},
         phase \in Running \cup {"sweep"} /\ phase # "recording",
         \/ phase # "book" /\ phase' \in (Trading \ {"book", "idle"}) \cup {"sweep"}
            /\ phase # "sweep"
         \/ phase = "checkpoint" /\ phase' = "idle"
         \/ phase = "sweep" /\ phase' = "finish"
         \/ phase \in Running /\ phase' = "sweep"
  PROVE  IInv'
<1>1. Typed' /\ AccountGrows
  <2>1. phase' \in Phases
    BY DEF Phases, Trading, InCandle
  <2> QED BY <2>1 DEF IInv, Typed, AccountGrows
<1>2. Account'
  BY DEF IInv, Account
<1>3. Cursor' /\ Dated' /\ Consumed' = Consumed
  BY DEF IInv, Cursor, Dated, Consumed
<1>4. Waiting'
  BY FS_EmptySet DEF Waiting
<1>5. Pending' = {} /\ Taken' = Consumed /\ Taken \subseteq Consumed
  BY <1>3 DEF Taken, Pending
<1>6. Taken' = Taken \/ phase' = "sweep"
  <2>1. ASSUME phase # "book" PROVE Taken = Consumed
    <3>1. run.fills = {}
      BY <2>1 DEF IInv, Waiting
    <3> QED BY <3>1 DEF Taken, Pending
  <2> QED BY <1>5, <2>1
<1>7. Buffered'
  <2>1. run.missed.fills = NoFills
    BY DEF IInv, Buffered, Running, Trading, InCandle
  <2>2. phase = "checkpoint" => run.buffer.fills = NoFills
    BY DEF IInv, Buffered, Starting
  <2>3. phase' \in Starting \cup {"down", "idle"} => phase = "checkpoint"
    BY DEF Running, Starting, Trading, InCandle
  <2> QED BY <2>1, <2>2, <2>3 DEF Buffered
<1>8. \/ phase' = phase
      \/ phase \in Running /\ phase' \in Running \cup {"sweep"}
      \/ phase = "sweep" /\ phase' = "finish"
  BY DEF Running, Trading, InCandle
<1> QED BY <1>1, <1>2, <1>3, <1>4, <1>5, <1>6, <1>7, <1>8, CalmStep

\* A note of what became of some orders.
LEMMA WithStatusFacts ==
  ASSUME NEW buffer \in Buffer, NEW S, NEW status \in Statuses
  PROVE  /\ WithStatus(buffer, S, status) \in Buffer
         /\ WithStatus(buffer, S, status).fills = buffer.fills
         /\ WithStatus(buffer, S, status).last = buffer.last
<1>1. buffer.status \in [Txids -> Statuses]
  BY DEF Buffer
<1>2. PICK noted : noted = [o \in Txids |-> IF o \in S THEN status ELSE buffer.status[o]]
  OBVIOUS
<1>3. noted \in [Txids -> Statuses]
  BY <1>1, <1>2
<1>4. WithStatus(buffer, S, status) = [buffer EXCEPT !.status = noted]
  BY <1>2 DEF WithStatus
<1> QED BY <1>3, <1>4 DEF Buffer

\* The account as it is, for steps that leave it.
LEMMA AccountStays ==
  ASSUME IInv, orders' = orders
  PROVE  /\ orders' \in Seq(Order) /\ Len(orders') <= MaxOrders
         /\ DOMAIN orders' = DOMAIN orders /\ OwnOpen' = OwnOpen
         /\ \A o \in DOMAIN orders : orders'[o].side = orders[o].side
         /\ \A o \in DOMAIN orders' : orders'[o].state = "inflight" => orders'[o].origin = "lost"
BY DEF IInv, Typed, Account, OwnOpen, OpenIds

\* The first checkpoint ends the start: nothing rests on the exchange.
LEMMA FirstCheckpointStep ==
  ASSUME IInv, FirstCheckpoint
  PROVE  IInv'
<1>1. /\ phase = "checkpoint" /\ phase' = "idle" /\ UNCHANGED <<exchangeVars, venue, spent>>
      /\ UNCHANGED <<clock, orders, trades>>
      /\ run \in Run /\ venue \in Venue /\ db \in Books /\ clock \in Nat
      /\ run.fills = {} /\ OwnOpen = {}
  BY DEF FirstCheckpoint, IInv, Typed, Waiting, Tracked, Starting, exchangeVars
<1>2. PICK candle : candle = clock \div Period
  OBVIOUS
<1>3. candle \in Int
  BY <1>1, <1>2, LiveAssumption
<1>4. run' = [run EXCEPT !.candle = candle] /\ db' = [db EXCEPT !.risk = "ok"]
  BY <1>2 DEF FirstCheckpoint
<1>5. /\ run' \in Run /\ run'.fills = {} /\ run'.ledger = run.ledger /\ run'.missed = run.missed
      /\ run'.buffer = run.buffer /\ run'.resumed = run.resumed /\ run'.quiet = run.quiet
      /\ run'.rejected = run.rejected
  BY <1>1, <1>3, <1>4 DEF Run
<1>6. db' \in Books /\ db'.book = db.book /\ db'.root = db.root /\ db'.since = db.since
  BY <1>1, <1>4 DEF Books
<1>7. Tracked'
  BY <1>1, AccountStays DEF Tracked, Starting
<1>8. phase \in Running
  BY <1>1 DEF Running
<1> QED BY <1>1, <1>5, <1>6, <1>7, <1>8, AccountStays, QuietStep

\* A candle begins.
LEMMA BeginCandleStep ==
  ASSUME IInv, BeginCandle
  PROVE  IInv'
<1>1. /\ phase = "idle" /\ phase' = "cancel"
      /\ UNCHANGED <<clock, orders, trades, venue>>
      /\ run \in Run /\ venue \in Venue /\ db \in Books /\ clock \in Nat
      /\ run.fills = {} /\ OwnOpen \subseteq venue.open
  BY DEF BeginCandle, IInv, Typed, Waiting, Tracked, Trading, exchangeVars
<1>2. PICK candle : candle = clock \div Period
  OBVIOUS
<1>3. candle \in Int
  BY <1>1, <1>2, LiveAssumption
<1>4. run' = [run EXCEPT !.candle = candle] /\ db' = [db EXCEPT !.risk = "incomplete"]
  BY <1>2 DEF BeginCandle
<1>5. /\ run' \in Run /\ run'.fills = {} /\ run'.ledger = run.ledger /\ run'.missed = run.missed
      /\ run'.buffer = run.buffer /\ run'.resumed = run.resumed /\ run'.quiet = run.quiet
      /\ run'.rejected = run.rejected
  BY <1>1, <1>3, <1>4 DEF Run
<1>6. db' \in Books /\ db'.book = db.book /\ db'.root = db.root /\ db'.since = db.since
  BY <1>1, <1>4 DEF Books
<1>7. Tracked'
  BY <1>1, AccountStays DEF Tracked, Starting
<1>8. phase \in Running /\ phase' \in Trading \ {"book", "idle"}
  BY <1>1 DEF Running, Trading, InCandle
<1> QED BY <1>1, <1>5, <1>6, <1>7, <1>8, AccountStays, QuietStep

\* What the candle's cancels leave open is stuck.
LEMMA CancelTrackedStep ==
  ASSUME IInv, CancelTracked
  PROVE  IInv'
<1>1. /\ phase = "cancel" /\ phase' = "poll" /\ UNCHANGED <<clock, trades, run, db>>
      /\ run \in Run /\ venue \in Venue /\ db \in Books
      /\ run.fills = {} /\ OwnOpen \subseteq venue.open
  BY DEF CancelTracked, IInv, Typed, Waiting, Tracked, Trading, InCandle
<1>2. PICK S : /\ orders' = Closed(S)
               /\ \/ venue' = venue /\ S = venue.open
                  \/ \E stuck \in SUBSET venue.open :
                       venue' = [venue EXCEPT !.stuck = stuck] /\ venue.open \ stuck \subseteq S
  <2>1. CASE orders' = Closed(venue.open) /\ venue' = venue
    BY <2>1
  <2>2. ASSUME NEW stuck \in SUBSET venue.open, NEW applied \in SUBSET stuck,
               venue' = [venue EXCEPT !.stuck = stuck],
               orders' = Closed((venue.open \ stuck) \cup applied)
        PROVE  \E T : /\ orders' = Closed(T)
                      /\ venue' = [venue EXCEPT !.stuck = stuck] /\ venue.open \ stuck \subseteq T
    BY <2>2
  <2> QED BY <2>1, <2>2 DEF CancelTracked
<1>3. /\ orders' \in Seq(Order) /\ Len(orders') <= MaxOrders /\ DOMAIN orders' = DOMAIN orders
      /\ \A o \in DOMAIN orders : /\ orders'[o].side = orders[o].side
                                  /\ orders'[o].state = "inflight" => orders'[o].origin = "lost"
      /\ OwnOpen' = OwnOpen \ S
  BY <1>2, ClosedFacts
<1>4. /\ venue' \in Venue /\ venue'.cursor = venue.cursor /\ venue'.seen = venue.seen
      /\ venue'.open = venue.open /\ OwnOpen' \subseteq venue'.stuck
  <2>1. CASE venue' = venue /\ S = venue.open
    BY <1>1, <1>3, <2>1
  <2>2. CASE \E stuck \in SUBSET venue.open :
               venue' = [venue EXCEPT !.stuck = stuck] /\ venue.open \ stuck \subseteq S
    <3>1. PICK stuck \in SUBSET venue.open :
               venue' = [venue EXCEPT !.stuck = stuck] /\ venue.open \ stuck \subseteq S
      BY <2>2
    <3>2. venue' \in Venue /\ venue'.cursor = venue.cursor /\ venue'.seen = venue.seen
          /\ venue'.open = venue.open /\ venue'.stuck = stuck
      BY <1>1, <3>1 DEF Venue
    <3> QED BY <1>1, <1>3, <3>1, <3>2
  <2> QED BY <1>2, <2>1, <2>2
<1>5. Tracked'
  BY <1>1, <1>3, <1>4 DEF Tracked, Starting
<1>6. phase \in Running /\ phase' \in Trading \ {"book", "idle"}
  BY <1>1 DEF Running, Trading, InCandle
<1> QED BY <1>1, <1>3, <1>4, <1>5, <1>6, QuietStep

\* What the exchange is asked for is a size.
LEMMA SizeIsTyped ==
  ASSUME NEW wanted \in 1 .. Ceiling + 1
  PROVE  SizeForExchange(wanted) \in Int
<1>1. Ceiling \in Nat /\ Lot \in Nat \ {0}
  BY LiveAssumption
<1>2. PICK m : m = Min({wanted, Ceiling})
  OBVIOUS
<1>3. m \in {wanted, Ceiling}
  <2>1. \E x \in {wanted, Ceiling} : \A y \in {wanted, Ceiling} : x <= y
    BY <1>1
  <2> QED BY <1>2, <2>1 DEF Min
<1>4. m \in Int
  BY <1>1, <1>3
<1>5. m \div Lot \in Int
  BY <1>1, <1>4
<1> QED BY <1>2, <1>5 DEF SizeForExchange

\* An order of the strategy: tracked, or lost on its way.
LEMMA SubmitStep ==
  ASSUME IInv, Submit
  PROVE  IInv'
<1>0. PICK o : o = Len(orders) + 1
  OBVIOUS
<1>1. PICK expires : expires = (run.candle + 1) * Period
  OBVIOUS
<1>2. /\ phase = "decide" /\ phase' = "decide" /\ UNCHANGED <<clock, trades, db>>
      /\ Len(orders) < MaxOrders
      /\ run \in Run /\ venue \in Venue /\ db \in Books
      /\ run.fills = {} /\ OwnOpen \subseteq venue.open
  BY DEF Submit, IInv, Typed, Waiting, Tracked, Trading, InCandle
<1>3. expires \in Int
  BY <1>1, <1>2, LiveAssumption DEF Run
<1>4. PICK side \in {"buy", "sell"}, wanted \in 1 .. Ceiling + 1 :
        LET size == SizeForExchange(wanted)
        IN \/ /\ orders' = NewOrder(side, size, expires, "own", "open")
              /\ venue' = [venue EXCEPT !.open = @ \cup {o}]
              /\ run' = [run EXCEPT !.buffer = WithStatus(@, {o}, "open")]
           \/ /\ \E state \in {"inflight", "open"} :
                   orders' = NewOrder(side, size, expires, "lost", state)
              /\ UNCHANGED <<venue, run>>
  BY <1>0, <1>1 DEF Submit
<1>5. PICK size : size = SizeForExchange(wanted)
  OBVIOUS
<1>6. size \in Int
  BY <1>5, SizeIsTyped
<1>7. PICK order \in Order :
        /\ orders' = Append(orders, order)
        /\ order.state = "inflight" => order.origin = "lost"
        /\ \/ /\ venue' = [venue EXCEPT !.open = @ \cup {o}]
              /\ run' = [run EXCEPT !.buffer = WithStatus(@, {o}, "open")]
           \/ order.origin # "own" /\ UNCHANGED <<venue, run>>
  <2>1. CASE /\ orders' = NewOrder(side, size, expires, "own", "open")
             /\ venue' = [venue EXCEPT !.open = @ \cup {o}]
             /\ run' = [run EXCEPT !.buffer = WithStatus(@, {o}, "open")]
    <3>1. PICK order : order = [side |-> side, size |-> size, expires |-> expires,
                                origin |-> "own", state |-> "open"]
      OBVIOUS
    <3>2. order \in Order /\ order.state = "open" /\ orders' = Append(orders, order)
      BY <1>3, <1>6, <2>1, <3>1 DEF Order, NewOrder
    <3> QED BY <2>1, <3>2
  <2>2. ASSUME NEW state \in {"inflight", "open"}, UNCHANGED <<venue, run>>,
               orders' = NewOrder(side, size, expires, "lost", state)
        PROVE  \E order \in Order :
                 /\ orders' = Append(orders, order)
                 /\ order.state = "inflight" => order.origin = "lost"
                 /\ order.origin # "own" /\ UNCHANGED <<venue, run>>
    <3>1. PICK order : order = [side |-> side, size |-> size, expires |-> expires,
                                origin |-> "lost", state |-> state]
      OBVIOUS
    <3>2. order \in Order /\ order.origin = "lost" /\ orders' = Append(orders, order)
      BY <1>3, <1>6, <2>2, <3>1 DEF Order, NewOrder
    <3> QED BY <2>2, <3>2
  <2> QED BY <1>4, <1>5, <2>1, <2>2
<1>8. /\ orders' \in Seq(Order) /\ Len(orders') <= MaxOrders /\ o \in Txids
      /\ DOMAIN orders \subseteq DOMAIN orders'
      /\ \A p \in DOMAIN orders : orders'[p].side = orders[p].side
      /\ \A p \in DOMAIN orders' : orders'[p].state = "inflight" => orders'[p].origin = "lost"
      /\ order.origin # "own" => OwnOpen' = OwnOpen
      /\ OwnOpen' \subseteq OwnOpen \cup {o}
  <2>1. /\ orders' = Append(orders, order) /\ order \in Order
        /\ order.state = "inflight" => order.origin = "lost"
    BY <1>7
  <2>2. /\ orders' \in Seq(Order) /\ Len(orders') <= MaxOrders
        /\ DOMAIN orders \subseteq DOMAIN orders' /\ Len(orders) + 1 \in Txids
        /\ \A p \in DOMAIN orders : orders'[p].side = orders[p].side
        /\ \A p \in DOMAIN orders' : orders'[p].state = "inflight" => orders'[p].origin = "lost"
        /\ order.origin # "own" => OwnOpen' = OwnOpen
        /\ OwnOpen' \subseteq OwnOpen \cup {Len(orders) + 1}
    BY <1>2, <2>1, PlacedFacts
  <2> QED BY <1>0, <2>2
<1>9. /\ venue' \in Venue /\ venue'.cursor = venue.cursor /\ venue'.seen = venue.seen
      /\ OwnOpen' \subseteq venue'.open
      /\ run' \in Run /\ run'.fills = {} /\ run'.ledger = run.ledger /\ run'.missed = run.missed
      /\ run'.buffer.fills = run.buffer.fills /\ run'.buffer.last = run.buffer.last
      /\ run'.resumed = run.resumed
      /\ run'.quiet = run.quiet /\ run'.rejected = run.rejected
  <2>1. CASE order.origin # "own" /\ UNCHANGED <<venue, run>>
    BY <1>2, <1>8, <2>1
  <2>2. CASE /\ venue' = [venue EXCEPT !.open = @ \cup {o}]
             /\ run' = [run EXCEPT !.buffer = WithStatus(@, {o}, "open")]
    <3>1. PICK buffer : buffer = WithStatus(run.buffer, {o}, "open")
      OBVIOUS
    <3>2. buffer \in Buffer /\ buffer.fills = run.buffer.fills /\ buffer.last = run.buffer.last
      BY <1>2, <3>1, WithStatusFacts, Parts DEF IInv, Statuses
    <3>3. run' = [run EXCEPT !.buffer = buffer]
      BY <2>2, <3>1
    <3>4. /\ run' \in Run /\ run'.fills = {} /\ run'.ledger = run.ledger /\ run'.missed = run.missed
          /\ run'.buffer = buffer /\ run'.resumed = run.resumed
          /\ run'.quiet = run.quiet /\ run'.rejected = run.rejected
      BY <1>2, <3>2, <3>3 DEF Run
    <3>5. /\ venue' \in Venue /\ venue'.cursor = venue.cursor /\ venue'.seen = venue.seen
          /\ venue'.open = venue.open \cup {o}
      BY <1>2, <1>8, <2>2 DEF Venue
    <3> QED BY <1>2, <1>8, <3>2, <3>4, <3>5
  <2> QED BY <1>7, <2>1, <2>2
<1>10. Tracked'
  BY <1>2, <1>9 DEF Tracked, Starting
<1>11. phase \in Running /\ phase' \in Trading \ {"book", "idle"}
  BY <1>2 DEF Running, Trading, InCandle
<1> QED BY <1>2, <1>8, <1>9, <1>10, <1>11, QuietStep

\* The run ends: what is not booked is dropped.
LEMMA EndingStep ==
  ASSUME IInv, Stop \/ RunFails
  PROVE  IInv'
<1>1. /\ phase \in Running /\ phase # "recording" /\ phase' = "sweep"
      /\ UNCHANGED <<clock, orders, trades, venue, db>>
      /\ run \in Run /\ venue \in Venue /\ db \in Books
  BY DEF Stop, RunFails, IInv, Typed, Running, Trading, InCandle, exchangeVars
<1>2. \/ run' = [run EXCEPT !.ending = "stopped"] /\ run.fills = {}
      \/ run' = [run EXCEPT !.ending = "failed", !.fills = {}]
  BY DEF Stop, RunFails, IInv, Waiting
<1>3. /\ run' \in Run /\ run'.fills = {} /\ run'.ledger = run.ledger /\ run'.missed = run.missed
      /\ run'.buffer = run.buffer /\ run'.resumed = run.resumed /\ run'.quiet = run.quiet
      /\ run'.rejected = run.rejected
  BY <1>1, <1>2 DEF Run
<1>4. Tracked'
  BY <1>1 DEF Tracked, Starting, Trading, InCandle
<1> QED BY <1>1, <1>3, <1>4, AccountStays, QuietStep

\* The sweep of a run that ends.
LEMMA SweepStep ==
  ASSUME IInv, Sweep
  PROVE  IInv'
<1>1. /\ phase = "sweep" /\ phase' = "finish" /\ UNCHANGED <<clock, trades, db>>
      /\ run \in Run /\ venue \in Venue /\ db \in Books /\ run.fills = {}
      /\ venue' = [venue EXCEPT !.open = {}, !.stuck = {}, !.filled = {}]
  BY DEF Sweep, IInv, Typed, Waiting
<1>2. PICK S : orders' = Closed(S)
  BY DEF Sweep
<1>3. /\ orders' \in Seq(Order) /\ Len(orders') <= MaxOrders /\ DOMAIN orders' = DOMAIN orders
      /\ \A o \in DOMAIN orders : /\ orders'[o].side = orders[o].side
                                  /\ orders'[o].state = "inflight" => orders'[o].origin = "lost"
  BY <1>2, ClosedFacts
<1>4. PICK buffer : buffer = WithStatus(run.buffer, venue.open, "cancelled")
  OBVIOUS
<1>5. buffer \in Buffer /\ buffer.fills = run.buffer.fills /\ buffer.last = run.buffer.last
  BY <1>1, <1>4, WithStatusFacts, Parts DEF IInv, Statuses
<1>6. run' = [run EXCEPT !.buffer = buffer]
  BY <1>4 DEF Sweep
<1>7. /\ run' \in Run /\ run'.fills = {} /\ run'.ledger = run.ledger /\ run'.missed = run.missed
      /\ run'.buffer = buffer /\ run'.resumed = run.resumed
      /\ run'.quiet = run.quiet /\ run'.rejected = run.rejected
  BY <1>1, <1>5, <1>6 DEF Run
<1>8. venue' \in Venue /\ venue'.cursor = venue.cursor /\ venue'.seen = venue.seen
  BY <1>1 DEF Venue
<1>9. Tracked'
  BY <1>1 DEF Tracked, Starting, Trading, InCandle
<1> QED BY <1>1, <1>3, <1>5, <1>7, <1>8, <1>9, QuietStep

-----------------------------------------------------------------------------
(***************************************************************************)
(* The ends of a run, and starts that are refused.                         *)
(***************************************************************************)
\* Without a run the rows alone are held against the account, and a start
\* takes its ledger from them.
LEMMA RestingStep ==
  ASSUME IInv, trades' = trades, clock' = clock, orders' \in Seq(Order),
         Len(orders') <= MaxOrders, DOMAIN orders' = DOMAIN orders,
         \A o \in DOMAIN orders' : orders'[o].state = "inflight" => orders'[o].origin = "lost",
         phase' \in {"down", "recovering"}, phase' = "recovering" => OwnOpen' = {},
         run' \in Run, run'.fills = {}, run'.missed = EmptyBuffer, run'.buffer = EmptyBuffer,
         venue' \in Venue, venue' = venue \/ venue' = NoVenue,
         db' \in Books, db'.since = db.since, db'.book.last <= clock,
         \A id \in Ids : db'.book.fills[id] <= Executed(id[2]),
         phase' = "recovering" =>
           run'.ledger = IF run'.resumed THEN Net(db.book.fills)' - db'.root ELSE 0
  PROVE  IInv'
<1>1. Typed /\ Typed' /\ clock \in Nat
  BY DEF IInv, Typed, Phases, Starting
<1>2. Account'
  BY DEF IInv, Account
<1>3. Tracked'
  BY DEF Tracked, Starting, Trading, InCandle
<1>4. Cursor'
  BY <1>1, NothingIsTyped DEF IInv, Cursor
<1>5. Dated'
  BY <1>1, NothingIsTyped DEF IInv, Dated
<1>6. Waiting' /\ Buffered'
  BY NothingIsTyped, FS_EmptySet DEF Waiting, Buffered
<1>7. Backed'
  <2>1. \A id \in Ids : Executed(id[2])' = Executed(id[2])
    BY DEF Executed, TradesOf
  <2> QED BY <2>1 DEF Backed
<1>8. Rooted' /\ Follows'
  BY DEF Rooted, Follows, Trading, InCandle
<1> QED BY <1>1, <1>2, <1>3, <1>4, <1>5, <1>6, <1>7, <1>8 DEF IInv

\* What the rows hold is backed by what the orders executed.
LEMMA BooksAreBacked ==
  ASSUME IInv
  PROVE  /\ \A id \in Ids : db.book.fills[id] <= Executed(id[2])
         /\ db.book.last <= clock
BY DEF IInv, Backed, Dated

\* One transaction of the recorder.
LEMMA MergedFacts ==
  ASSUME NEW book \in Buffer, NEW more \in Buffer
  PROVE  /\ Merged(book, more) \in Buffer
         /\ \A id \in Ids : Merged(book, more).fills[id] = book.fills[id] + more.fills[id]
         /\ \A os : NetBy(os, Merged(book, more).fills) = NetBy(os, book.fills) + NetBy(os, more.fills)
         /\ Merged(book, more).last \in {book.last, more.last}
         /\ book.last <= Merged(book, more).last
<1>1. /\ book.fills \in [Ids -> Nat] /\ more.fills \in [Ids -> Nat]
      /\ book.status \in [Txids -> Statuses] /\ more.status \in [Txids -> Statuses]
      /\ book.last \in Nat /\ more.last \in Nat
  BY DEF Buffer
<1>2. PICK fills : fills = [id \in Ids |-> book.fills[id] + more.fills[id]]
  OBVIOUS
<1>3. PICK status : status = [o \in Txids |-> IF more.status[o] = None THEN book.status[o]
                                              ELSE more.status[o]]
  OBVIOUS
<1>4. PICK last : last = Max({book.last, more.last})
  OBVIOUS
<1>5. fills \in [Ids -> Nat] /\ \A id \in Ids : fills[id] = book.fills[id] + more.fills[id]
  BY <1>1, <1>2
<1>6. status \in [Txids -> Statuses]
  BY <1>1, <1>3
<1>7. last \in {book.last, more.last} /\ book.last <= last
  <2>1. \E x \in {book.last, more.last} : \A y \in {book.last, more.last} : x >= y
    BY <1>1
  <2>2. last \in {book.last, more.last} /\ \A y \in {book.last, more.last} : last >= y
    BY <1>4, <2>1 DEF Max
  <2> QED BY <1>1, <2>2
<1>8. Merged(book, more) = [fills |-> fills, status |-> status, last |-> last]
  BY <1>2, <1>3, <1>4 DEF Merged
<1>9. ASSUME NEW os PROVE NetBy(os, fills) = NetBy(os, book.fills) + NetBy(os, more.fills)
  BY <1>1, <1>5, NetByAdds
<1>10. Merged(book, more) \in Buffer
  BY <1>1, <1>5, <1>6, <1>7, <1>8 DEF Buffer
<1>11. /\ Merged(book, more).fills = fills /\ Merged(book, more).last = last
  BY <1>8
<1> QED BY <1>5, <1>7, <1>9, <1>10, <1>11

\* A start closes what is open, or is refused.
LEMMA StartStep ==
  ASSUME IInv, Start
  PROVE  IInv'
<1>1. /\ phase = "down" /\ UNCHANGED <<clock, trades, venue, db>>
      /\ venue \in Venue /\ db \in Books /\ Typed
  BY DEF Start, IInv, Typed
<1>2. PICK S : /\ orders' = Closed(S)
               /\ \/ phase' = "recovering" /\ S = OpenIds
                  \/ phase' = "down"
  BY DEF Start, CancelOpen
<1>3. /\ orders' \in Seq(Order) /\ Len(orders') <= MaxOrders /\ DOMAIN orders' = DOMAIN orders
      /\ \A o \in DOMAIN orders : /\ orders'[o].side = orders[o].side
                                  /\ orders'[o].state = "inflight" => orders'[o].origin = "lost"
      /\ OwnOpen' = OwnOpen \ S
  BY <1>2, ClosedFacts
<1>4. phase' = "recovering" => OwnOpen' = {}
  BY <1>2, <1>3 DEF OwnOpen
<1>5. PICK resumed : resumed = (db.row \in {"running", "stopped"})
  OBVIOUS
<1>6. PICK ledger : ledger = IF resumed THEN Net(db.book.fills) - db.root ELSE 0
  OBVIOUS
<1>7. run' = [NoRun EXCEPT !.resumed = resumed, !.ledger = ledger]
  BY <1>5, <1>6 DEF Start
<1>8. resumed \in BOOLEAN /\ ledger \in Int
  <2>1. Net(db.book.fills) \in Int /\ db.root \in Int
    BY <1>1, Parts, NetByType, Given
  <2> QED BY <1>5, <1>6, <2>1
<1>9. /\ run' \in Run /\ run'.fills = {} /\ run'.missed = EmptyBuffer /\ run'.buffer = EmptyBuffer
      /\ run'.resumed = resumed /\ run'.ledger = ledger
  BY <1>7, <1>8, NothingIsTyped DEF Run
<1>10. Net(db.book.fills)' = Net(db.book.fills)
  <2>1. AccountGrows /\ Typed'
    BY <1>1, <1>2, <1>3, <1>9 DEF AccountGrows, Typed, Phases, Starting
  <2> QED BY <1>1, <2>1, Unmoved, Given, GivenNext
<1>11. phase' = "recovering" =>
         run'.ledger = IF run'.resumed THEN Net(db.book.fills)' - db'.root ELSE 0
  BY <1>1, <1>6, <1>9, <1>10
<1>12. phase' \in {"down", "recovering"}
  BY <1>2
<1> QED BY <1>1, <1>3, <1>4, <1>9, <1>11, <1>12, BooksAreBacked, RestingStep

\* A start over closes what is open and has an empty ledger.
LEMMA StartOverStep ==
  ASSUME IInv, StartOver
  PROVE  IInv'
<1>1. /\ phase = "down" /\ phase' = "recovering" /\ run' = NoRun /\ orders' = Closed(OpenIds)
      /\ UNCHANGED <<clock, trades, venue, db>>
      /\ venue \in Venue /\ db \in Books /\ Typed
  BY DEF StartOver, IInv, Typed
<1>2. /\ orders' \in Seq(Order) /\ Len(orders') <= MaxOrders /\ DOMAIN orders' = DOMAIN orders
      /\ \A o \in DOMAIN orders : /\ orders'[o].side = orders[o].side
                                  /\ orders'[o].state = "inflight" => orders'[o].origin = "lost"
      /\ OwnOpen' = OwnOpen \ OpenIds
  BY <1>1, ClosedFacts
<1>3. OwnOpen' = {}
  BY <1>2 DEF OwnOpen
<1>4. phase' \in {"down", "recovering"}
  BY <1>1
<1>5. /\ run' \in Run /\ run'.fills = {} /\ run'.missed = EmptyBuffer /\ run'.buffer = EmptyBuffer
      /\ ~run'.resumed /\ run'.ledger = 0
  BY <1>1, NothingIsTyped
<1>6. run'.ledger = IF run'.resumed THEN Net(db.book.fills)' - db'.root ELSE 0
  BY <1>5
<1> QED BY <1>1, <1>2, <1>3, <1>4, <1>5, <1>6, BooksAreBacked, RestingStep

\* The process dies.
LEMMA CrashStep ==
  ASSUME IInv, Crash
  PROVE  IInv'
<1>1. /\ phase' = "down" /\ run' = NoRun /\ venue' = NoVenue
      /\ UNCHANGED <<clock, orders, trades, db>> /\ db \in Books
  BY DEF Crash, exchangeVars, IInv, Typed
<1> QED BY <1>1, AccountStays, NothingIsTyped, BooksAreBacked, RestingStep

\* What a flush leaves in the rows.
LEMMA FlushedFacts ==
  ASSUME IInv, NEW new, new = Flushed
  PROVE  /\ new \in Books /\ new.book \in Buffer /\ new.since = db.since /\ new.root = db.root
         /\ \A id \in Ids : /\ new.book.fills[id] = db.book.fills[id] + run.buffer.fills[id]
                            /\ phase \notin {"down", "recovering"} =>
                                 new.book.fills[id] <= Executed(id[2])
         /\ NetBy(orders, new.book.fills) = NetBy(orders, db.book.fills) + NetBy(orders, run.buffer.fills)
         /\ new.book.last <= clock
<1>1. /\ db \in Books /\ db.book \in Buffer /\ run.buffer \in Buffer
  BY Parts DEF IInv, Typed
<1>2. PICK book : book = Merged(db.book, run.buffer)
  OBVIOUS
<1>3. /\ book \in Buffer
      /\ \A id \in Ids : book.fills[id] = db.book.fills[id] + run.buffer.fills[id]
      /\ NetBy(orders, book.fills) = NetBy(orders, db.book.fills) + NetBy(orders, run.buffer.fills)
      /\ book.last \in {db.book.last, run.buffer.last}
  <2>1. /\ book \in Buffer
        /\ \A id \in Ids : book.fills[id] = db.book.fills[id] + run.buffer.fills[id]
        /\ book.last \in {db.book.last, run.buffer.last}
    BY <1>1, <1>2, MergedFacts
  <2>2. \A os : NetBy(os, Merged(db.book, run.buffer).fills) =
                  NetBy(os, db.book.fills) + NetBy(os, run.buffer.fills)
    BY <1>1, MergedFacts
  <2>3. NetBy(orders, book.fills) = NetBy(orders, db.book.fills) + NetBy(orders, run.buffer.fills)
    BY <1>2, <2>2
  <2> QED BY <2>1, <2>3
<1>4. new = [db EXCEPT !.book = book]
  BY <1>2 DEF Flushed
<1>5. new \in Books /\ new.book = book /\ new.since = db.since /\ new.root = db.root
  BY <1>1, <1>3, <1>4 DEF Books
<1>6. ASSUME NEW id \in Ids, phase \notin {"down", "recovering"}
      PROVE  new.book.fills[id] <= Executed(id[2])
  <2>1. /\ Executed(id[2]) \in Nat /\ db.book.fills[id] \in Nat /\ run.missed.fills[id] \in Nat
        /\ run.buffer.fills[id] \in Nat /\ Cardinality(TradesOf(id[2], Taken)) <= Executed(id[2])
        /\ Cardinality(TradesOf(id[2], Taken)) \in Nat
    BY HeldFacts
  <2>2. db.book.fills[id] + run.missed.fills[id] + run.buffer.fills[id] <=
          Cardinality(TradesOf(id[2], Taken))
    BY <1>6 DEF IInv, Backed, Held
  <2>3. new.book.fills[id] = db.book.fills[id] + run.buffer.fills[id]
    BY <1>3, <1>5
  <2> QED BY <2>1, <2>2, <2>3
<1>7. new.book.last <= clock
  BY <1>3, <1>5 DEF IInv, Dated
<1> QED BY <1>3, <1>5, <1>6, <1>7

\* The last flush and the row's end, or neither, or only the first.
LEMMA FinishStep ==
  ASSUME IInv, Finish
  PROVE  IInv'
<1>1. /\ phase = "finish" /\ phase' = "down" /\ run' = NoRun /\ venue' = NoVenue
      /\ UNCHANGED <<clock, orders, trades>> /\ run \in Run
  BY DEF Finish, exchangeVars, IInv, Typed
<1>2. PICK new : new = Flushed
  OBVIOUS
<1>3. /\ new \in Books /\ new.since = db.since /\ new.book.last <= clock
      /\ \A id \in Ids : new.book.fills[id] <= Executed(id[2])
  BY <1>1, <1>2, FlushedFacts
<1>4. db' \in {db, new, [new EXCEPT !.row = run.ending]}
  BY <1>2 DEF Finish
<1>5. /\ db' \in Books /\ db'.since = db.since /\ db'.book.last <= clock
      /\ \A id \in Ids : db'.book.fills[id] <= Executed(id[2])
  <2>1. CASE db' = db
    BY <2>1, BooksAreBacked DEF IInv, Typed
  <2>2. CASE db' = new
    BY <2>2, <1>3
  <2>3. CASE db' = [new EXCEPT !.row = run.ending]
    <3>1. run.ending \in {"stopped", "failed"}
      BY <1>1 DEF Run
    <3>2. db' \in Books /\ db'.since = new.since /\ db'.book = new.book
      BY <2>3, <3>1, <1>3 DEF Books
    <3> QED BY <1>3, <3>2
  <2> QED BY <1>4, <2>1, <2>2, <2>3
<1> QED BY <1>1, <1>5, AccountStays, NothingIsTyped, RestingStep

-----------------------------------------------------------------------------
(***************************************************************************)
(* Fills on their way to the rows.                                         *)
(***************************************************************************)
\* A fill that moves from the process to the rows is still held.
LEMMA RecordedStep ==
  ASSUME IInv, UNCHANGED <<clock, orders, trades, venue>>, run' \in Run, db' \in Books,
         run.fills = {}, run'.fills = {}, run'.ledger = run.ledger,
         run'.resumed = run.resumed, run'.quiet = run.quiet, run'.rejected = run.rejected,
         db'.root = db.root, phase \in Running, phase' \in Running, phase' # "recording",
         phase' # "poll", Tracked', Buffered', Dated',
         \A id \in Ids : Held(id)' = Held(id) /\ db'.book.fills[id] <= Executed(id[2]),
         Net(db.book.fills)' + Net(run.missed.fills)' + Net(run.buffer.fills)' =
           Net(db.book.fills) + Net(run.missed.fills) + Net(run.buffer.fills)
  PROVE  IInv'
<1>1. Typed /\ Typed' /\ Account' /\ Cursor' /\ Consumed' = Consumed
  BY DEF IInv, Typed, Account, Cursor, Consumed, Phases, Running, Starting, Trading
<1>2. Waiting'
  BY FS_EmptySet DEF Waiting
<1>3. Taken' = Taken
  BY <1>1 DEF Taken, Pending
<1>4. /\ Net(db.book.fills) \in Int /\ Net(run.missed.fills) \in Int /\ Net(run.buffer.fills) \in Int
      /\ db.root \in Int
  BY <1>1, Parts, NetByType, Given
<1>5. /\ Net(db.book.fills)' \in Int /\ Net(run.missed.fills)' \in Int /\ Net(run.buffer.fills)' \in Int
  <2>1. /\ db'.book.fills \in [Ids -> Nat] /\ run'.missed.fills \in [Ids -> Nat]
        /\ run'.buffer.fills \in [Ids -> Nat]
    BY DEF Run, Books, Buffer
  <2> QED BY <2>1, NetByType, GivenNext
<1>6. Backed'
  <2>1. \A id \in Ids : Executed(id[2])' = Executed(id[2])
    BY DEF Executed, TradesOf
  <2>2. \A id \in Ids : TradesOf(id[2], Taken)' = TradesOf(id[2], Taken)
    BY <1>3 DEF TradesOf
  <2>3. phase \notin {"down", "recovering"}
    BY DEF Running, Trading, InCandle
  <2> QED BY <2>1, <2>2, <2>3 DEF IInv, Backed
<1>7. Rooted'
  <2>1. run.ledger = Net(db.book.fills) + Net(run.missed.fills) + Net(run.buffer.fills) - db.root
    BY DEF IInv, Rooted, Running
  <2>2. run'.ledger = Net(db.book.fills)' + Net(run.missed.fills)' + Net(run.buffer.fills)' - db'.root
    BY <2>1, <1>4, <1>5
  <2> QED BY <2>2 DEF Rooted, Running, Trading, InCandle
<1>8. Follows'
  <2>1. NetOf(Taken)' = NetOf(Taken)
    BY <1>3 DEF NetOf, OnSide
  <2> QED BY <2>1 DEF IInv, Follows, Running, Trading, InCandle
<1> QED BY <1>1, <1>2, <1>6, <1>7, <1>8 DEF IInv

\* The recovered fills are recorded.
LEMMA RecordRecoveredStep ==
  ASSUME IInv, RecordRecovered
  PROVE  IInv'
<1>1. /\ phase = "recording" /\ phase' = "checkpoint"
      /\ UNCHANGED <<clock, orders, trades, venue>>
      /\ run \in Run /\ db \in Books /\ Typed /\ run.fills = {} /\ OwnOpen = {}
      /\ run.buffer.fills = NoFills
  BY DEF RecordRecovered, IInv, Typed, Waiting, Buffered, Tracked, Starting, exchangeVars
<1>2. /\ db.book \in Buffer /\ run.missed \in Buffer
  BY <1>1, Parts
<1>3. PICK book : book = Merged(db.book, run.missed)
  OBVIOUS
<1>4. /\ book \in Buffer
      /\ \A id \in Ids : book.fills[id] = db.book.fills[id] + run.missed.fills[id]
      /\ book.last \in {db.book.last, run.missed.last}
  BY <1>2, <1>3, MergedFacts
<1>5. NetBy(orders, book.fills) = NetBy(orders, db.book.fills) + NetBy(orders, run.missed.fills)
  <2>1. \A os : NetBy(os, Merged(db.book, run.missed).fills) =
                  NetBy(os, db.book.fills) + NetBy(os, run.missed.fills)
    BY <1>2, MergedFacts
  <2> QED BY <1>3, <2>1
<1>6. db' = [db EXCEPT !.book = book] /\ run' = [run EXCEPT !.missed = EmptyBuffer]
  BY <1>3 DEF RecordRecovered
<1>7. db' \in Books /\ db'.book = book /\ db'.root = db.root /\ db'.since = db.since
  BY <1>1, <1>4, <1>6 DEF Books
<1>8. /\ run' \in Run /\ run'.fills = {} /\ run'.ledger = run.ledger
      /\ run'.missed.fills = NoFills /\ run'.missed.last = 0 /\ run'.buffer = run.buffer
      /\ run'.resumed = run.resumed /\ run'.quiet = run.quiet /\ run'.rejected = run.rejected
  BY <1>1, <1>6, NothingIsTyped DEF Run
<1>9. ASSUME NEW id \in Ids PROVE Held(id)' = Held(id) /\ db'.book.fills[id] <= Executed(id[2])
  <2>1. /\ Executed(id[2]) \in Nat /\ db.book.fills[id] \in Nat /\ run.missed.fills[id] \in Nat
        /\ run.buffer.fills[id] \in Nat /\ Cardinality(TradesOf(id[2], Taken)) <= Executed(id[2])
        /\ Cardinality(TradesOf(id[2], Taken)) \in Nat
    BY HeldFacts
  <2>2. db.book.fills[id] + run.missed.fills[id] + run.buffer.fills[id] <=
          Cardinality(TradesOf(id[2], Taken))
    BY <1>1 DEF IInv, Backed, Held
  <2>3. /\ db'.book.fills[id] = db.book.fills[id] + run.missed.fills[id]
        /\ run'.missed.fills[id] = 0 /\ run'.buffer.fills[id] = run.buffer.fills[id]
    BY <1>4, <1>7, <1>8 DEF NoFills
  <2>4. Held(id)' = db'.book.fills[id] + run'.missed.fills[id] + run'.buffer.fills[id]
    BY DEF Held
  <2> QED BY <2>1, <2>2, <2>3, <2>4 DEF Held
<1>10. Net(db.book.fills)' + Net(run.missed.fills)' + Net(run.buffer.fills)' =
         Net(db.book.fills) + Net(run.missed.fills) + Net(run.buffer.fills)
  <2>1. /\ NetBy(orders, db.book.fills) \in Int /\ NetBy(orders, run.missed.fills) \in Int
        /\ NetBy(orders, run.buffer.fills) \in Int
    BY <1>1, Parts, NetByType
  <2>2. /\ Net(db.book.fills)' = NetBy(orders, book.fills)
        /\ Net(run.missed.fills)' = 0
        /\ Net(run.buffer.fills)' = NetBy(orders, run.buffer.fills)
    <3>1. orders' = orders
      BY <1>1
    <3> QED BY <3>1, <1>7, <1>8, GivenNext, NetByNothing
  <2> QED BY <1>5, <2>1, <2>2, Given
<1>11. Tracked'
  BY <1>1, AccountStays DEF Tracked, Starting, Trading, InCandle
<1>12. Buffered'
  BY <1>1, <1>8 DEF Buffered
<1>13. Dated'
  <2>1. clock \in Nat /\ db.since <= clock /\ db.book.last <= clock /\ run.missed.last <= clock
        /\ run.buffer.last <= clock
    BY <1>1 DEF IInv, Dated, Typed
  <2>2. db'.book.last <= clock
    BY <1>4, <1>7, <2>1
  <2>3. run'.missed.last <= clock
    BY <1>8, <2>1
  <2> QED BY <1>1, <1>7, <1>8, <2>1, <2>2, <2>3 DEF Dated
<1>14. phase \in Running /\ phase' \in Running
  BY <1>1 DEF Running
<1> QED BY <1>1, <1>7, <1>8, <1>9, <1>10, <1>11, <1>12, <1>13, <1>14, RecordedStep

\* The candle's flush before the strategy runs, and the one after it.
LEMMA FlushStep ==
  ASSUME IInv, FlushCandle \/ EndCandle
  PROVE  IInv'
<1>1. /\ phase \in {"book", "decide"} /\ phase' \in {"decide", "idle"}
      /\ UNCHANGED <<clock, orders, trades, venue>>
      /\ run \in Run /\ db \in Books /\ Typed /\ run.fills = {}
      /\ OwnOpen \subseteq venue.open /\ run.missed.fills = NoFills
  BY DEF FlushCandle, EndCandle, IInv, Typed, Waiting, Buffered, Tracked, Trading, InCandle, exchangeVars
<1>2. PICK new : new = Flushed
  OBVIOUS
<1>3. /\ new \in Books /\ new.since = db.since /\ new.root = db.root /\ new.book.last <= clock
      /\ \A id \in Ids : new.book.fills[id] = db.book.fills[id] + run.buffer.fills[id]
      /\ NetBy(orders, new.book.fills) = NetBy(orders, db.book.fills) + NetBy(orders, run.buffer.fills)
  BY <1>2, FlushedFacts
<1>4. \A id \in Ids : new.book.fills[id] <= Executed(id[2])
  BY <1>1, <1>2, FlushedFacts
<1>5. db' = new \/ db' = [new EXCEPT !.risk = "ok"]
  BY <1>2 DEF FlushCandle, EndCandle
<1>6. db' \in Books /\ db'.book = new.book /\ db'.since = db.since /\ db'.root = db.root
  BY <1>3, <1>5 DEF Books
<1>7. /\ run' \in Run /\ run'.fills = {} /\ run'.ledger = run.ledger
      /\ run'.missed = run.missed /\ run'.buffer.fills = NoFills /\ run'.buffer.last = 0
      /\ run'.resumed = run.resumed /\ run'.quiet = run.quiet /\ run'.rejected = run.rejected
  <2>1. run' = [run EXCEPT !.buffer = EmptyBuffer]
    BY DEF FlushCandle, EndCandle
  <2> QED BY <1>1, <2>1, NothingIsTyped DEF Run
<1>8. ASSUME NEW id \in Ids PROVE Held(id)' = Held(id) /\ db'.book.fills[id] <= Executed(id[2])
  <2>1. /\ db.book.fills[id] \in Nat /\ run.missed.fills[id] \in Nat /\ run.buffer.fills[id] \in Nat
    BY HeldFacts
  <2>2. /\ db'.book.fills[id] = db.book.fills[id] + run.buffer.fills[id]
        /\ run'.missed.fills[id] = run.missed.fills[id] /\ run'.buffer.fills[id] = 0
    BY <1>3, <1>6, <1>7 DEF NoFills
  <2>3. Held(id)' = db'.book.fills[id] + run'.missed.fills[id] + run'.buffer.fills[id]
    BY DEF Held
  <2>4. Held(id)' = Held(id)
    BY <2>1, <2>2, <2>3 DEF Held
  <2> QED BY <1>4, <1>6, <2>4
<1>9. Net(db.book.fills)' + Net(run.missed.fills)' + Net(run.buffer.fills)' =
        Net(db.book.fills) + Net(run.missed.fills) + Net(run.buffer.fills)
  <2>1. /\ NetBy(orders, db.book.fills) \in Int /\ NetBy(orders, run.missed.fills) \in Int
        /\ NetBy(orders, run.buffer.fills) \in Int
    BY <1>1, Parts, NetByType
  <2>2. /\ Net(db.book.fills)' = NetBy(orders, new.book.fills)
        /\ Net(run.missed.fills)' = NetBy(orders, run.missed.fills)
        /\ Net(run.buffer.fills)' = 0
    <3>1. orders' = orders
      BY <1>1
    <3> QED BY <3>1, <1>6, <1>7, GivenNext, NetByNothing
  <2> QED BY <1>3, <2>1, <2>2, Given
<1>10. Tracked'
  BY <1>1, AccountStays DEF Tracked, Starting, Trading, InCandle
<1>11. Buffered'
  BY <1>1, <1>7 DEF Buffered
<1>12. Dated'
  <2>1. clock \in Nat /\ db.since <= clock /\ run.missed.last <= clock
    BY <1>1 DEF IInv, Dated, Typed
  <2>2. run'.buffer.last <= clock
    BY <1>7, <2>1
  <2> QED BY <1>1, <1>3, <1>6, <1>7, <2>1, <2>2 DEF Dated
<1>13. phase \in Running /\ phase' \in Running /\ phase' # "recording" /\ phase' # "poll"
  BY <1>1 DEF Running, Trading, InCandle
<1> QED BY <1>1, <1>6, <1>7, <1>8, <1>9, <1>10, <1>11, <1>12, <1>13, RecordedStep

-----------------------------------------------------------------------------
(***************************************************************************)
(* The reconciliation.                                                     *)
(***************************************************************************)
\* The latest timestamp among some trades.
LEMMA LastTsFacts ==
  ASSUME Typed, Account, NEW ids \in SUBSET (DOMAIN trades)
  PROVE  /\ LastTs(ids) \in Nat /\ LastTs(ids) <= clock
         /\ \A i \in ids : trades[i].ts <= LastTs(ids)
         /\ \A n \in Nat : (\A i \in ids : trades[i].ts <= n) => LastTs(ids) <= n
<1> DEFINE stamps == {trades[i].ts : i \in ids}
           S == {0} \cup stamps
           f == [i \in ids |-> trades[i].ts]
<1>1. /\ Len(trades) \in Nat /\ DOMAIN trades = 1 .. Len(trades) /\ clock \in Nat
      /\ \A i \in DOMAIN trades : trades[i].ts \in Nat
  BY Shape DEF Typed
<1>2. IsFiniteSet(ids)
  BY <1>1, IdsAreFinite
<1>3. IsFiniteSet(stamps)
  <2>1. f \in [ids -> stamps] /\ \A y \in stamps : \E i \in ids : f[i] = y
    OBVIOUS
  <2> HIDE DEF f, stamps
  <2>2. f \in Surjection(ids, stamps)
    BY <2>1, Fun_IsSurj
  <2> QED BY <1>2, <2>2, FS_Surjection
<1>4. S \in SUBSET Int /\ S # {} /\ \A t \in S : t \in Nat
  BY <1>1
<1>5. IsFiniteSet(S)
  <2>1. IsFiniteSet({0})
    BY FS_Singleton
  <2> HIDE DEF stamps
  <2> QED BY <1>3, <2>1, FS_Union
<1>6. LastTs(ids) = Max(S)
  BY DEF LastTs
<1>7. Max(S) \in S /\ \A x \in S : Max(S) >= x
  <2> HIDE DEF S
  <2> QED BY <1>4, <1>5, MaxIs
<1>8. \A i \in ids : trades[i].ts \in S
  OBVIOUS
<1>9. \A n \in Nat : (\A i \in ids : trades[i].ts <= n) => \A x \in S : x <= n
  OBVIOUS
<1> HIDE DEF S
<1>10. LastTs(ids) \in Nat /\ \A i \in ids : trades[i].ts <= LastTs(ids)
  BY <1>1, <1>4, <1>6, <1>7, <1>8
<1>11. \A n \in Nat : (\A i \in ids : trades[i].ts <= n) => LastTs(ids) <= n
  BY <1>6, <1>7, <1>9
<1>12. \A i \in ids : trades[i].ts <= clock
  BY DEF Account
<1> QED BY <1>1, <1>10, <1>11, <1>12

\* The row is claimed; a fresh run roots its chain at what the rows hold.
LEMMA ClaimRowStep ==
  ASSUME IInv, ClaimRow
  PROVE  IInv'
<1>1. /\ phase = "claiming" /\ phase' = "recording"
      /\ UNCHANGED <<clock, orders, trades, run, venue>>
      /\ db \in Books /\ clock \in Nat /\ Typed /\ run.buffer.fills = NoFills
      /\ OwnOpen = {}
  BY DEF ClaimRow, IInv, Typed, Buffered, Tracked, Starting, exchangeVars
<1>2. PICK root : root = IF run.resumed THEN db.root ELSE Net(db.book.fills)
  OBVIOUS
<1>3. PICK since : since = IF run.resumed THEN db.since ELSE clock
  OBVIOUS
<1>4. db' = [db EXCEPT !.row = "running", !.risk = "incomplete", !.since = since, !.root = root]
  BY <1>2, <1>3 DEF ClaimRow
<1>5. /\ Net(db.book.fills) \in Int /\ Net(run.missed.fills) \in Int /\ db.root \in Int
      /\ Net(run.buffer.fills) = 0
  BY <1>1, Parts, NetByType, NetByNothing, Given
<1>6. root \in Int /\ since \in Nat /\ since <= clock
  BY <1>1, <1>2, <1>3, <1>5 DEF Books, IInv, Dated
<1>7. db' \in Books /\ db'.book = db.book /\ db'.root = root /\ db'.since = since
  BY <1>1, <1>4, <1>6 DEF Books
<1>8. Typed' /\ Account' /\ Cursor' /\ Dated'
  BY <1>1, <1>6, <1>7 DEF IInv, Typed, Account, Cursor, Dated, Phases, Starting
<1>9. Tracked' /\ Waiting' /\ Buffered'
  <2>1. Consumed' = Consumed /\ OwnOpen' = OwnOpen
    BY <1>1 DEF Consumed, OwnOpen, OpenIds
  <2> QED BY <1>1, <2>1 DEF IInv, Tracked, Waiting, Buffered, Starting, Trading, InCandle
<1>10. Taken' = Taken
  BY <1>1 DEF Taken, Consumed, Pending
<1>11. Backed'
  BY <1>1, <1>7, <1>10 DEF IInv, Backed, Held, Executed, TradesOf
<1>12. Rooted'
  <2>1. /\ Net(db.book.fills)' = Net(db.book.fills)
        /\ Net(run.missed.fills)' = Net(run.missed.fills)
        /\ Net(run.buffer.fills)' = 0
    BY <1>1, <1>5, <1>7 DEF Net, Units
  <2>2. run.ledger = IF run.resumed THEN Net(db.book.fills) + Net(run.missed.fills) - db.root ELSE 0
    BY <1>1 DEF IInv, Rooted
  <2>3. run.ledger = Net(db.book.fills) + Net(run.missed.fills) + 0 - root
    <3>1. CASE run.resumed
      BY <1>2, <1>5, <2>2, <3>1
    <3>2. CASE ~run.resumed
      <4>1. Net(run.missed.fills) = 0
        BY <3>2, Given, NetByNothing DEF IInv, Buffered
      <4> QED BY <1>2, <1>5, <2>2, <3>2, <4>1
    <3> QED BY <3>1, <3>2
  <2>4. run'.ledger = Net(db.book.fills)' + Net(run.missed.fills)' + Net(run.buffer.fills)' - db'.root
    BY <1>1, <1>7, <2>1, <2>3
  <2> QED BY <1>1, <2>4 DEF Rooted, Trading, InCandle
<1>13. Follows'
  BY <1>1, <1>10 DEF IInv, Follows, NetOf, OnSide, Trading, InCandle
<1> QED BY <1>8, <1>9, <1>11, <1>12, <1>13 DEF IInv

\* The balances agree with the ledger and the recovered fills, or the start
\* is refused.
LEMMA CheckBalancesStep ==
  ASSUME IInv, CheckBalances
  PROVE  IInv'
<1>1. /\ phase = "checking" /\ UNCHANGED <<clock, orders, trades, db>>
      /\ run \in Run /\ venue \in Venue /\ db \in Books /\ clock \in Nat /\ Typed
      /\ run.fills = {} /\ OwnOpen = {} /\ run.buffer.fills = NoFills
  BY DEF CheckBalances, IInv, Typed, Waiting, Buffered, Tracked, Starting, exchangeVars
<1>2. PICK expected : expected = run.ledger + Net(run.missed.fills)
  OBVIOUS
<1>3. PICK quiet : quiet = (Consumed = DOMAIN trades)
  OBVIOUS
<1>4. \/ /\ phase' = "claiming" /\ Holding - expected = 0 /\ venue' = venue
         /\ run' = [run EXCEPT !.ledger = expected, !.quiet = quiet]
      \/ phase' = "down" /\ run' = NoRun /\ venue' = NoVenue
  BY <1>2, <1>3 DEF CheckBalances, BalanceDrift
<1>5. CASE phase' = "down" /\ run' = NoRun /\ venue' = NoVenue
  BY <1>1, <1>5, AccountStays, NothingIsTyped, BooksAreBacked, RestingStep
<1>6. CASE /\ phase' = "claiming" /\ Holding - expected = 0 /\ venue' = venue
           /\ run' = [run EXCEPT !.ledger = expected, !.quiet = quiet]
  <2>1. /\ Net(db.book.fills) \in Int /\ Net(run.missed.fills) \in Int /\ db.root \in Int
        /\ run.ledger \in Int
    BY <1>1, Parts, NetByType, Given
  <2>2. expected \in Int /\ quiet \in BOOLEAN
    BY <1>2, <1>3, <2>1
  <2>3. /\ run' \in Run /\ run'.fills = {} /\ run'.ledger = expected /\ run'.missed = run.missed
        /\ run'.buffer = run.buffer /\ run'.resumed = run.resumed /\ run'.quiet = quiet
    BY <1>1, <1>6, <2>2 DEF Run
  <2>4. Typed' /\ Account' /\ Cursor' /\ Dated'
    BY <1>1, <1>6, <2>3 DEF IInv, Typed, Account, Cursor, Dated, Phases, Starting
  <2>5. Tracked' /\ Waiting' /\ Buffered'
    <3>1. OwnOpen' = OwnOpen
      BY <1>1 DEF OwnOpen, OpenIds
    <3>2. Waiting'
      BY <2>3, FS_EmptySet DEF Waiting
    <3> QED BY <1>1, <1>6, <2>3, <3>1, <3>2 DEF IInv, Tracked, Buffered, Starting, Trading, InCandle
  <2>6. Taken' = Taken /\ Taken = Consumed
    BY <1>1, <1>6, <2>3 DEF Taken, Consumed, Pending
  <2>7. Backed'
    BY <1>1, <2>3, <2>6 DEF IInv, Backed, Held, Executed, TradesOf
  <2>8. Rooted'
    <3>1. /\ Net(db.book.fills)' = Net(db.book.fills)
          /\ Net(run.missed.fills)' = Net(run.missed.fills)
      BY <1>1, <2>3 DEF Net, Units
    <3>2. run.ledger = IF run.resumed THEN Net(db.book.fills) - db.root ELSE 0
      BY <1>1 DEF IInv, Rooted
    <3>3. ~run.resumed => Net(run.missed.fills) = 0
      BY Given, NetByNothing DEF IInv, Buffered
    <3>4. expected = IF run.resumed THEN Net(db.book.fills) + Net(run.missed.fills) - db.root ELSE 0
      BY <1>2, <2>1, <3>2, <3>3
    <3>5. run'.ledger = IF run'.resumed
                        THEN Net(db.book.fills)' + Net(run.missed.fills)' - db'.root ELSE 0
      BY <1>1, <2>3, <3>1, <3>4
    <3> QED BY <1>6, <3>5 DEF Rooted, Trading, InCandle
  <2>9. Follows'
    <3>1. ASSUME quiet PROVE run'.ledger = NetOf(Taken)'
      <4>1. NetOf(Taken)' = NetOf(DOMAIN trades)
        BY <1>1, <1>3, <2>6, <3>1 DEF NetOf, OnSide
      <4>2. NetOf(DOMAIN trades) \in Int
        <5>1. NetOf(Taken) \in Int /\ Taken = DOMAIN trades
          <6>1. Taken = DOMAIN trades
            BY <1>3, <2>6, <3>1
          <6>2. Taken \in SUBSET (1 .. Len(trades)) /\ Len(trades) \in Nat
            BY <1>1, TakenFacts, Shape
          <6>3. NetOfBy(orders, trades, Taken) \in Int
            BY <6>2, TradeSets
          <6> QED BY <6>1, <6>3, Given
        <5> QED BY <5>1
      <4>3. expected = NetOf(DOMAIN trades)
        BY <1>6, <2>2, <4>2 DEF Holding
      <4> QED BY <2>3, <4>1, <4>3
    <3> QED BY <2>3, <3>1 DEF Follows
  <2> QED BY <2>4, <2>5, <2>7, <2>8, <2>9 DEF IInv
<1> QED BY <1>4, <1>5, <1>6

\* What a recovered row holds with what it lacks, its order has executed.
LEMMA MissingFacts ==
  ASSUME IInv, NEW read \in SUBSET (DOMAIN trades), NEW os, os = {trades[i].order : i \in read},
         NEW target \in [os -> Ids], \A o \in os : target[o] \in Targets(o),
         NEW missed, missed = Missing(read, target)
  PROVE  /\ missed \in Buffer /\ missed.last <= clock
         /\ \A id \in Ids : db.book.fills[id] + missed.fills[id] <= Executed(id[2])
<1>1. /\ Typed /\ Account /\ Len(trades) \in Nat /\ DOMAIN trades = 1 .. Len(trades)
      /\ db.book.fills \in [Ids -> Nat] /\ DOMAIN target = os
  BY Shape, Parts DEF IInv
<1> DEFINE lacks(o) == Lacks(o, read, target[o])
           short == {o \in os : lacks(o) > 0}
<1>2. PICK fills : fills = [id \in Ids |-> IF \E o \in short : target[o] = id
                                           THEN lacks(id[2]) ELSE 0]
  OBVIOUS
<1>3. PICK status : status = [o \in Txids |-> IF o \in short /\ target[o][1] = "own"
                                              THEN "filled" ELSE None]
  OBVIOUS
<1>4. PICK last : last = LastTs({i \in read : trades[i].order \in short})
  OBVIOUS
<1>5. missed = [fills |-> fills, status |-> status, last |-> last]
  BY <1>1, <1>2, <1>3, <1>4 DEF Missing
<1>6. status \in [Txids -> Statuses]
  BY <1>3 DEF Statuses
<1>7. last \in Nat /\ last <= clock
  BY <1>1, <1>4, LastTsFacts
<1>8. ASSUME NEW id \in Ids
      PROVE  fills[id] \in Nat /\ db.book.fills[id] + fills[id] <= Executed(id[2])
  <2>1. /\ Executed(id[2]) \in Nat /\ db.book.fills[id] \in Nat /\ db.book.fills[id] <= Executed(id[2])
    BY HeldFacts DEF IInv, Backed
  <2>2. CASE \E o \in short : target[o] = id
    <3>1. PICK o \in short : target[o] = id
      BY <2>2
    <3>2. o \in os /\ id \in Targets(o)
      BY <3>1
    <3>3. id[2] = o
      BY <3>2 DEF Targets, RowsOf
    <3>4. fills[id] = Cardinality(TradesOf(o, read)) - db.book.fills[id] /\ fills[id] > 0
      BY <1>2, <3>1, <3>3 DEF Lacks
    <3>5. /\ Cardinality(TradesOf(o, read)) \in Nat
          /\ Cardinality(TradesOf(o, read)) <= Executed(o)
      <4>1. TradesOf(o, read) = OfOrder(trades, o, read)
        BY DEF TradesOf, OfOrder
      <4>2. Cardinality(OfOrder(trades, o, read)) \in Nat
        BY <1>1, TradeSets
      <4>3. Cardinality(OfOrder(trades, o, read)) <= Cardinality(OfOrder(trades, o, DOMAIN trades))
        BY <1>1, TradesWithin
      <4> QED BY <4>1, <4>2, <4>3, Given
    <3> QED BY <2>1, <3>3, <3>4, <3>5
  <2>3. CASE ~(\E o \in short : target[o] = id)
    <3>1. fills[id] = 0
      BY <1>2, <2>3
    <3> QED BY <2>1, <3>1
  <2> QED BY <2>2, <2>3
<1>9. fills \in [Ids -> Nat]
  BY <1>2, <1>8
<1>10. missed \in Buffer
  BY <1>5, <1>6, <1>7, <1>9 DEF Buffer
<1>11. missed.fills = fills /\ missed.last = last
  BY <1>5
<1> QED BY <1>7, <1>8, <1>10, <1>11

\* The reconciliation reads the trades; the venue's cursor stands behind all.
LEMMA RecoverStep ==
  ASSUME IInv, Recover
  PROVE  IInv'
<1>1. /\ phase = "recovering" /\ phase' = "checking" /\ UNCHANGED <<clock, orders, trades, db>>
      /\ run \in Run /\ db \in Books /\ clock \in Nat /\ Typed /\ Account
      /\ run.fills = {} /\ OwnOpen = {} /\ run.buffer.fills = NoFills /\ run.missed.fills = NoFills
  BY DEF Recover, IInv, Typed, Waiting, Buffered, Tracked, Starting, exchangeVars
<1>2. \A i \in DOMAIN trades : trades[i].ts \in Nat /\ trades[i].ts <= clock /\ i \in Nat
  BY <1>1, Shape DEF Account
<1>3. PICK missed \in Buffer, cursor \in Nat, seen \in SUBSET (DOMAIN trades) :
        /\ run' = [run EXCEPT !.missed = missed]
        /\ venue' = [NoVenue EXCEPT !.cursor = cursor, !.seen = seen]
        /\ missed.last <= clock /\ cursor <= clock
        /\ \A id \in Ids : db.book.fills[id] + missed.fills[id] <= Executed(id[2])
        /\ \A i \in DOMAIN trades : IF i \in seen THEN trades[i].ts <= cursor
                                                  ELSE trades[i].ts < cursor
        /\ ~run.resumed => missed.fills = NoFills
  <2>1. CASE run.resumed
    <3>1. PICK since : since = ReadFrom
      OBVIOUS
    <3>2. PICK read : read = TradesSince(since)
      OBVIOUS
    <3>3. PICK os : os = {trades[i].order : i \in read}
      OBVIOUS
    <3>4. PICK target \in [os -> Ids] :
            /\ \A o \in os : target[o] \in Targets(o)
            /\ run' = [run EXCEPT !.missed = Missing(read, target)]
            /\ venue' = [NoVenue EXCEPT !.cursor = Max({since, LastTs(read)}), !.seen = read]
      BY <2>1, <3>1, <3>2, <3>3 DEF Recover
    <3>5. since \in Nat /\ since <= clock
      <4>1. db.since \in Nat /\ db.book.last \in Nat
        BY <1>1, Parts DEF Books, Buffer
      <4>2. db.since \in Int /\ db.book.last \in Int
        BY <4>1
      <4>3. since \in {db.since, db.book.last}
        BY <3>1, <4>2, MaxOfTwo DEF ReadFrom
      <4> QED BY <4>1, <4>3 DEF IInv, Dated
    <3>6. read \in SUBSET (DOMAIN trades) /\ \A i \in DOMAIN trades : i \in read <=> trades[i].ts >= since
      BY <3>2 DEF TradesSince
    <3>7. /\ LastTs(read) \in Nat /\ LastTs(read) <= clock
          /\ \A i \in read : trades[i].ts <= LastTs(read)
      BY <1>1, <3>6, LastTsFacts
    <3>8. PICK cursor : cursor = Max({since, LastTs(read)})
      OBVIOUS
    <3>9. cursor \in Nat /\ cursor <= clock /\ since <= cursor /\ LastTs(read) <= cursor
      BY <3>5, <3>7, <3>8, MaxOfTwo
    <3>10. \A i \in DOMAIN trades : IF i \in read THEN trades[i].ts <= cursor
                                                  ELSE trades[i].ts < cursor
      BY <1>2, <3>5, <3>6, <3>7, <3>9
    <3>11. PICK missed : missed = Missing(read, target)
      OBVIOUS
    <3>12. /\ missed \in Buffer /\ missed.last <= clock
           /\ \A id \in Ids : db.book.fills[id] + missed.fills[id] <= Executed(id[2])
      BY <3>3, <3>4, <3>6, <3>11, MissingFacts
    <3> QED BY <2>1, <3>4, <3>6, <3>8, <3>9, <3>10, <3>11, <3>12
  <2>2. CASE ~run.resumed
    <3>1. PICK seen : seen = TradesSince(clock)
      OBVIOUS
    <3>2. seen \in SUBSET (DOMAIN trades) /\ \A i \in DOMAIN trades : i \in seen <=> trades[i].ts >= clock
      BY <3>1 DEF TradesSince
    <3>3. venue' = [NoVenue EXCEPT !.cursor = clock, !.seen = seen] /\ run' = run
      BY <2>2, <3>1 DEF Recover
    <3>4. run' = [run EXCEPT !.missed = run.missed] /\ run.missed \in Buffer
      BY <1>1, <3>3, Parts DEF Run
    <3>5. \A i \in DOMAIN trades : IF i \in seen THEN trades[i].ts <= clock ELSE trades[i].ts < clock
      BY <1>1, <1>2, <3>2
    <3>6. run.missed.last <= clock
      BY DEF IInv, Dated
    <3>7. \A id \in Ids : db.book.fills[id] + run.missed.fills[id] <= Executed(id[2])
      <4>1. \A id \in Ids : db.book.fills[id] \in Nat /\ db.book.fills[id] <= Executed(id[2])
        BY HeldFacts DEF IInv, Backed
      <4> QED BY <1>1, <4>1 DEF NoFills
    <3>8. clock \in Nat /\ clock <= clock
      BY <1>1
    <3> USE <3>2, <3>4, <3>8
    <3> WITNESS run.missed \in Buffer, clock \in Nat, seen \in SUBSET (DOMAIN trades)
    <3> QED BY <1>1, <3>2, <3>3, <3>4, <3>5, <3>6, <3>7, <3>8
  <2> QED BY <2>1, <2>2
<1>4. /\ run' \in Run /\ run'.fills = {} /\ run'.ledger = run.ledger /\ run'.missed = missed
      /\ run'.buffer = run.buffer /\ run'.resumed = run.resumed
  BY <1>1, <1>3 DEF Run
<1>5. venue' \in Venue /\ venue'.cursor = cursor /\ venue'.seen = seen
  BY <1>2, <1>3, NothingIsTyped DEF Venue
<1>6. Typed' /\ Account'
  BY <1>1, <1>4, <1>5 DEF Typed, Account, Phases, Starting
<1>7. Cursor' /\ Dated'
  BY <1>1, <1>3, <1>4, <1>5 DEF Cursor, IInv, Dated
<1>8. Tracked' /\ Buffered'
  <2>1. OwnOpen' = OwnOpen
    BY <1>1 DEF OwnOpen, OpenIds
  <2> QED BY <1>1, <1>3, <1>4, <2>1 DEF Tracked, Buffered, Starting, Trading, InCandle
<1>9. Waiting'
  BY <1>4, FS_EmptySet DEF Waiting
<1>10. Taken' = DOMAIN trades
  <2>1. Pending' = {}
    BY <1>4 DEF Pending
  <2>2. Consumed' = DOMAIN trades
    BY <1>1, <1>3, <1>5 DEF Consumed
  <2> QED BY <2>1, <2>2 DEF Taken
<1>11. Backed'
  <2>1. ASSUME NEW id \in Ids
        PROVE  /\ db'.book.fills[id] <= Executed(id[2])'
               /\ Held(id)' <= Cardinality(TradesOf(id[2], Taken))'
    <3>1. /\ Executed(id[2])' = Executed(id[2])
          /\ Cardinality(TradesOf(id[2], Taken))' = Executed(id[2])
      BY <1>1, <1>10 DEF Executed, TradesOf
    <3>2. /\ db.book.fills[id] <= Executed(id[2]) /\ db.book.fills[id] \in Nat
          /\ missed.fills[id] \in Nat /\ db.book.fills[id] + missed.fills[id] <= Executed(id[2])
      BY <1>3, HeldFacts DEF IInv, Backed, Buffer
    <3>3. Held(id)' = db.book.fills[id] + missed.fills[id] + 0
      BY <1>1, <1>4 DEF Held, NoFills
    <3>4. Held(id)' = db.book.fills[id] + missed.fills[id]
      BY <3>2, <3>3
    <3> QED BY <1>1, <3>1, <3>2, <3>4
  <2> QED BY <2>1 DEF Backed
<1>12. Rooted' /\ Follows'
  <2>1. Net(db.book.fills)' = Net(db.book.fills)
    BY <1>1 DEF Net, Units
  <2> QED BY <1>1, <1>4, <2>1 DEF IInv, Rooted, Follows, Trading, InCandle
<1> QED BY <1>6, <1>7, <1>8, <1>9, <1>11, <1>12 DEF IInv

-----------------------------------------------------------------------------
(***************************************************************************)
(* The fills of a candle.                                                  *)
(***************************************************************************)
\* One fill for every order that traded.
OnePerOrder(fills, fresh) ==
  /\ fills \subseteq Fill /\ IsFiniteSet(fills)
  /\ \A f \in fills : /\ f.trades # {} /\ f.trades \subseteq fresh
                      /\ \A i \in f.trades : trades[i].order = f.id[2]
  /\ \A f, g \in fills : f.id[2] = g.id[2] => f = g
  /\ UNION {f.trades : f \in fills} = fresh

\* Grouping the trades of a poll gives such fills.
LEMMA GroupedFacts ==
  ASSUME Typed, Account, NEW fresh \in SUBSET (DOMAIN trades), NEW own
  PROVE  OnePerOrder(Grouped(fresh, own), fresh)
<1>0. PICK fills : fills = Grouped(fresh, own)
  OBVIOUS
<1> DEFINE os == {trades[i].order : i \in fresh}
           fill == [o \in os |-> [id |-> <<IF o \in own THEN "own" ELSE "kraken", o>>,
                                  trades |-> TradesOf(o, fresh)]]
           order == [i \in fresh |-> trades[i].order]
<1>1. /\ Len(trades) \in Nat /\ DOMAIN trades = 1 .. Len(trades) /\ DOMAIN orders \subseteq Txids
  BY Shape
<1>2. IsFiniteSet(fresh) /\ \A i \in fresh : i \in Nat
  <2>1. fresh \in SUBSET (1 .. Len(trades)) /\ Len(trades) \in Nat
    BY <1>1
  <2>2. IsFiniteSet(fresh)
    BY <2>1, IdsAreFinite
  <2> QED BY <2>1, <2>2
<1>3. IsFiniteSet(os)
  <2>1. order \in [fresh -> os] /\ \A y \in os : \E i \in fresh : order[i] = y
    OBVIOUS
  <2> HIDE DEF order, os
  <2>2. order \in Surjection(fresh, os)
    BY <2>1, Fun_IsSurj
  <2> QED BY <1>2, <2>2, FS_Surjection
<1>4. ASSUME NEW o \in os
      PROVE  /\ fill[o] \in Fill /\ fill[o].id[2] = o /\ fill[o].trades = TradesOf(o, fresh)
             /\ TradesOf(o, fresh) # {} /\ TradesOf(o, fresh) \subseteq fresh
             /\ \A i \in TradesOf(o, fresh) : trades[i].order = o
  <2>1. PICK id : id = <<IF o \in own THEN "own" ELSE "kraken", o>>
    OBVIOUS
  <2>2. o \in Txids
    BY <1>1 DEF Account
  <2>3. id \in Ids /\ id[2] = o
    BY <2>1, <2>2 DEF Ids
  <2>4. fill[o] = [id |-> id, trades |-> TradesOf(o, fresh)]
    BY <2>1
  <2>5. /\ TradesOf(o, fresh) # {} /\ TradesOf(o, fresh) \subseteq fresh
        /\ \A i \in TradesOf(o, fresh) : trades[i].order = o
    BY DEF TradesOf
  <2>6. TradesOf(o, fresh) \in SUBSET Nat
    BY <1>2, <2>5
  <2> HIDE DEF fill, os
  <2> QED BY <2>3, <2>4, <2>5, <2>6 DEF Fill
<1>5. \A f \in fills : \E o \in os : f = fill[o]
  BY <1>0 DEF Grouped
<1>6. \A o \in os : fill[o] \in fills
  BY <1>0 DEF Grouped
<1>7. \A i \in fresh : trades[i].order \in os /\ i \in TradesOf(trades[i].order, fresh)
  BY DEF TradesOf
<1>8. DOMAIN fill = os /\ fill = [o \in os |-> fill[o]]
  OBVIOUS
<1> HIDE DEF fill, os, order
<1>9. IsFiniteSet(fills)
  <2>1. fill \in [os -> fills]
    BY <1>6, <1>8
  <2>2. fill \in Surjection(os, fills)
    BY <2>1, <1>5, Fun_IsSurj
  <2> QED BY <1>3, <2>2, FS_Surjection
<1>10. \A f \in fills : /\ f \in Fill /\ f.trades # {} /\ f.trades \subseteq fresh
                        /\ \A i \in f.trades : trades[i].order = f.id[2]
  BY <1>4, <1>5
<1>11. \A f, g \in fills : f.id[2] = g.id[2] => f = g
  BY <1>4, <1>5
<1>12. UNION {f.trades : f \in fills} = fresh
  <2>1. ASSUME NEW i \in fresh PROVE i \in UNION {f.trades : f \in fills}
    <3>1. fill[trades[i].order] \in fills /\ i \in fill[trades[i].order].trades
      BY <1>4, <1>6, <1>7
    <3> QED BY <3>1
  <2> QED BY <2>1, <1>10
<1>13. fills \subseteq Fill
  BY <1>10
<1> QED BY <1>0, <1>9, <1>10, <1>11, <1>12, <1>13 DEF OnePerOrder

\* A poll hands out what came since the cursor, or nothing, and moves the
\* cursor behind it.
LEMMA PolledFacts ==
  ASSUME IInv, NEW fresh,
         fresh = TradesSince(venue.cursor) \ venue.seen \/ fresh = {},
         venue'.cursor = IF fresh = {} THEN venue.cursor ELSE LastTs(fresh),
         venue'.seen = SeenAfter(fresh, LastTs(fresh)), trades' = trades, clock' = clock
  PROVE  /\ fresh \in SUBSET (DOMAIN trades) /\ fresh \cap Consumed = {}
         /\ Consumed' = Consumed \cup fresh /\ Cursor'
         /\ venue'.cursor \in Nat /\ venue'.seen \subseteq DOMAIN trades
<1>1. /\ Typed /\ Account /\ clock \in Nat /\ venue.cursor \in Nat /\ venue.cursor <= clock
      /\ \A i \in venue.seen : i \in DOMAIN trades /\ trades[i].ts <= venue.cursor
  BY Parts DEF IInv, Typed, Cursor
<1>2. \A i \in DOMAIN trades : trades[i].ts \in Nat /\ trades[i].ts <= clock
  BY <1>1, Shape DEF Account
<1>3. /\ fresh \in SUBSET (DOMAIN trades)
      /\ \A i \in fresh : trades[i].ts >= venue.cursor /\ i \notin venue.seen
  BY DEF TradesSince
<1>4. fresh \cap Consumed = {}
  BY <1>1, <1>2, <1>3 DEF Consumed
<1>5. CASE fresh = {}
  <2>1. venue'.cursor = venue.cursor /\ venue'.seen = venue.seen
    BY <1>5 DEF SeenAfter
  <2> QED BY <1>1, <1>3, <1>4, <1>5, <2>1 DEF Consumed, Cursor
<1>6. CASE fresh # {}
  <2>1. fresh = TradesSince(venue.cursor) \ venue.seen
    BY <1>6
  <2>2. PICK newest : newest = LastTs(fresh)
    OBVIOUS
  <2>3. newest \in Nat /\ newest <= clock /\ \A i \in fresh : trades[i].ts <= newest
    BY <1>1, <1>3, <2>2, LastTsFacts
  <2>4. newest >= venue.cursor
    <3>1. PICK i \in fresh : TRUE
      BY <1>6
    <3> QED BY <1>1, <1>2, <1>3, <2>3, <3>1
  <2>5. venue'.cursor = newest
    BY <1>6, <2>2
  <2>6. venue'.seen = IF newest = venue.cursor THEN venue.seen \cup fresh
                      ELSE {i \in fresh : trades[i].ts = newest}
    BY <1>6, <2>2 DEF SeenAfter
  <2>7. \A i \in venue'.seen : i \in DOMAIN trades /\ trades[i].ts <= newest
    BY <1>1, <1>2, <1>3, <2>3, <2>4, <2>6
  <2>8. ASSUME NEW i \in DOMAIN trades
        PROVE  (trades[i].ts < newest \/ i \in venue'.seen) <=> (i \in Consumed \/ i \in fresh)
    <3>1. i \in fresh <=> trades[i].ts >= venue.cursor /\ i \notin venue.seen
      BY <2>1 DEF TradesSince
    <3>2. i \in Consumed <=> trades[i].ts < venue.cursor \/ i \in venue.seen
      BY DEF Consumed
    <3>3. i \in Consumed \/ i \in fresh
      BY <1>1, <1>2, <3>1, <3>2
    <3>4. CASE newest = venue.cursor
      BY <1>1, <1>2, <2>3, <2>6, <3>1, <3>3, <3>4
    <3>5. CASE newest # venue.cursor
      <4>1. newest > venue.cursor
        BY <1>1, <2>3, <2>4, <3>5
      <4>2. CASE i \in fresh
        BY <1>2, <2>3, <2>6, <3>3, <3>5, <4>2
      <4>3. CASE i \notin fresh
        <5>1. trades[i].ts <= venue.cursor
          BY <1>1, <1>2, <3>2, <3>3, <4>3
        <5> QED BY <1>1, <1>2, <2>3, <3>3, <4>1, <5>1
      <4> QED BY <4>2, <4>3
    <3> QED BY <3>4, <3>5
  <2>9. Consumed' = Consumed \cup fresh
    BY <1>3, <2>5, <2>8 DEF Consumed
  <2>10. Cursor'
    BY <2>3, <2>5, <2>7 DEF Cursor
  <2> QED BY <1>3, <1>4, <2>3, <2>5, <2>7, <2>9, <2>10
<1> QED BY <1>5, <1>6

\* A poll: what it hands out waits, and what was taken stays.
LEMMA PollTradesStep ==
  ASSUME IInv, PollTrades
  PROVE  IInv'
<1>1. /\ phase = "poll" /\ phase' = "book" /\ UNCHANGED <<clock, orders, trades, db>>
      /\ run \in Run /\ venue \in Venue /\ db \in Books /\ clock \in Nat /\ Typed /\ Account
      /\ run.fills = {} /\ OwnOpen \subseteq venue.stuck /\ run.missed.fills = NoFills
  BY DEF PollTrades, IInv, Typed, Waiting, Buffered, Tracked, Starting, Trading, InCandle, exchangeVars
<1>2. PICK fresh : /\ fresh = TradesSince(venue.cursor) \ venue.seen \/ fresh = {}
                   /\ Polled(fresh)
  BY DEF PollTrades
<1>3. PICK fills : fills = Grouped(fresh, venue.open)
  OBVIOUS
<1>4. PICK filled : filled = venue.filled \cup
                               {o \in venue.open : \E f \in fills : f.id = <<"own", o>>}
  OBVIOUS
<1>5. PICK buffer : buffer = WithStatus(run.buffer, (venue.open \ venue.stuck) \ filled, "cancelled")
  OBVIOUS
<1>6. run' = [run EXCEPT !.fills = fills, !.buffer = buffer]
  BY <1>2, <1>3, <1>4, <1>5 DEF Polled
<1>7. PICK cursor : cursor = IF fresh = {} THEN venue.cursor ELSE LastTs(fresh)
  OBVIOUS
<1>8. PICK seen : seen = SeenAfter(fresh, LastTs(fresh))
  OBVIOUS
<1>9. venue' = [open |-> venue.stuck, stuck |-> {}, filled |-> FilledAfter(filled),
                cursor |-> cursor, seen |-> seen]
  BY <1>2, <1>3, <1>4, <1>7, <1>8 DEF Polled
<1>10. venue'.open = venue.stuck /\ venue'.cursor = cursor /\ venue'.seen = seen
  BY <1>9
<1>11. /\ fresh \in SUBSET (DOMAIN trades) /\ fresh \cap Consumed = {}
       /\ Consumed' = Consumed \cup fresh /\ Cursor'
       /\ cursor \in Nat /\ seen \subseteq DOMAIN trades
  BY <1>1, <1>2, <1>7, <1>8, <1>10, PolledFacts
<1>12. /\ fills \subseteq Fill /\ IsFiniteSet(fills)
       /\ \A f \in fills : /\ f.trades # {} /\ f.trades \subseteq fresh
                           /\ \A i \in f.trades : trades[i].order = f.id[2]
       /\ \A f, g \in fills : f.id[2] = g.id[2] => f = g
       /\ UNION {f.trades : f \in fills} = fresh
  <2>1. Typed /\ Account /\ fresh \in SUBSET (DOMAIN trades) /\ fills = Grouped(fresh, venue.open)
    BY <1>1, <1>3, <1>11
  <2>2. OnePerOrder(fills, fresh)
    BY <2>1, GroupedFacts
  <2> QED BY <2>2 DEF OnePerOrder
<1>13. buffer \in Buffer /\ buffer.fills = run.buffer.fills /\ buffer.last = run.buffer.last
  BY <1>1, <1>5, WithStatusFacts, Parts DEF Statuses
<1>14. /\ run' \in Run /\ run'.fills = fills /\ run'.ledger = run.ledger /\ run'.missed = run.missed
       /\ run'.buffer = buffer /\ run'.resumed = run.resumed
       /\ run'.quiet = run.quiet /\ run'.rejected = run.rejected
  BY <1>1, <1>6, <1>12, <1>13 DEF Run
<1>15. venue' \in Venue
  <2>1. venue.stuck \subseteq Txids /\ FilledAfter(filled) \subseteq Txids
    BY <1>1 DEF Venue, FilledAfter
  <2>2. seen \subseteq Nat
    BY <1>1, <1>11, Shape
  <2> QED BY <1>9, <1>11, <2>1, <2>2 DEF Venue
<1>16. Typed' /\ Account' /\ Dated' /\ AccountGrows
  BY <1>1, <1>13, <1>14, <1>15 DEF Typed, Account, IInv, Dated, AccountGrows, Phases, Trading, InCandle
<1>17. Tracked'
  <2>1. OwnOpen' = OwnOpen
    BY <1>1 DEF OwnOpen, OpenIds
  <2> QED BY <1>1, <1>10, <2>1 DEF Tracked, Starting
<1>18. Waiting'
  BY <1>1, <1>11, <1>12, <1>14 DEF Waiting
<1>19. Buffered'
  BY <1>1, <1>14 DEF Buffered, Starting
<1>20. Taken' = Taken
  <2>1. Pending' = fresh /\ Pending = {}
    BY <1>1, <1>12, <1>14 DEF Pending
  <2> QED BY <1>11, <2>1 DEF Taken
<1>21. phase \in Running /\ phase' \in Running
  BY <1>1 DEF Running, Trading, InCandle
<1> QED BY <1>1, <1>11, <1>13, <1>14, <1>16, <1>17, <1>18, <1>19, <1>20, <1>21, CalmStep

\* The fill that is booked next is one of those that wait.
LEMMA NextFillFacts ==
  ASSUME IInv, run.fills # {}
  PROVE  NextFill \in run.fills
<1> DEFINE least == [f \in run.fills |-> Min(f.trades)]
           S == {least[f] : f \in run.fills}
<1>1. /\ IsFiniteSet(run.fills) /\ Len(trades) \in Nat
      /\ \A f \in run.fills : f.trades # {} /\ f.trades \in SUBSET (1 .. Len(trades))
  BY TakenFacts, Shape DEF IInv, Waiting
<1>2. ASSUME NEW f \in run.fills PROVE least[f] \in Int
  <2>1. f.trades \in SUBSET Int /\ IsFiniteSet(f.trades) /\ f.trades # {}
    <3>1. f.trades \in SUBSET (1 .. Len(trades)) /\ f.trades # {} /\ Len(trades) \in Nat
      BY <1>1
    <3>2. IsFiniteSet(f.trades) /\ f.trades \in SUBSET Int
      BY <3>1, IdsAreFinite
    <3> QED BY <3>1, <3>2
  <2>2. \E m \in f.trades : \A q \in f.trades : m <= q
    BY <2>1, HasLeast
  <2>3. Min(f.trades) \in f.trades
    BY <2>2 DEF Min
  <2> QED BY <2>1, <2>3
<1>3. S \in SUBSET Int /\ S # {}
  BY <1>2
<1>4. IsFiniteSet(S)
  <2>1. least \in [run.fills -> S] /\ \A y \in S : \E f \in run.fills : least[f] = y
    OBVIOUS
  <2> HIDE DEF least, S
  <2>2. least \in Surjection(run.fills, S)
    BY <2>1, Fun_IsSurj
  <2> QED BY <1>1, <2>2, FS_Surjection
<1>5. PICK m \in S : \A q \in S : m <= q
  <2> HIDE DEF S
  <2> QED BY <1>3, <1>4, HasLeast
<1>6. \E f \in run.fills : \A g \in run.fills : Min(f.trades) <= Min(g.trades)
  BY <1>5
<1> QED BY <1>6 DEF NextFill

\* A row that gains n units.
Gained(buffer, id, n, ts) == [buffer EXCEPT !.fills[id] = @ + n, !.last = Max({@, ts})]

\* It gains them, no other row does, and the position moves with them.
LEMMA GainFacts ==
  ASSUME NEW buffer \in Buffer, NEW id \in Ids, NEW n \in Nat, NEW ts \in Nat, NEW os,
         os[id[2]].side \in {"buy", "sell"},
         NEW new, new = Gained(buffer, id, n, ts)
  PROVE  /\ new \in Buffer /\ new.fills[id] = buffer.fills[id] + n
         /\ \A j \in Ids : j # id => new.fills[j] = buffer.fills[j]
         /\ NetBy(os, new.fills) = NetBy(os, buffer.fills) + SignBy(os, id[2]) * n
         /\ new.last \in {buffer.last, ts}
<1>1. buffer.fills \in [Ids -> Nat] /\ buffer.last \in Nat
  BY DEF Buffer
<1>2. PICK fills : fills = [buffer.fills EXCEPT ![id] = buffer.fills[id] + n]
  OBVIOUS
<1>3. PICK last : last = Max({buffer.last, ts})
  OBVIOUS
<1>4. /\ fills \in [Ids -> Nat] /\ fills[id] = buffer.fills[id] + n
      /\ \A j \in Ids : j # id => fills[j] = buffer.fills[j]
  BY <1>1, <1>2
<1>5. last \in {buffer.last, ts} /\ last \in Nat
  <2>1. buffer.last \in Int /\ ts \in Int
    BY <1>1
  <2>2. last \in {buffer.last, ts}
    BY <1>3, <2>1, MaxOfTwo
  <2> QED BY <1>1, <2>2
<1>6. new = [buffer EXCEPT !.fills = fills, !.last = last]
  BY <1>2, <1>3 DEF Buffer, Gained
<1>7. new \in Buffer /\ new.fills = fills /\ new.last = last
  BY <1>4, <1>5, <1>6 DEF Buffer
<1>8. NetBy(os, fills) = NetBy(os, buffer.fills) + SignBy(os, id[2]) * n
  <2>1. PICK gain : gain = [j \in Ids |-> IF j = id THEN n ELSE 0]
    OBVIOUS
  <2>2. gain \in [Ids -> Nat] /\ NetBy(os, gain) = SignBy(os, id[2]) * n
    BY <2>1, NetByOne
  <2>3. \A j \in Ids : fills[j] = buffer.fills[j] + gain[j]
    BY <1>1, <1>4, <2>1
  <2>4. NetBy(os, fills) = NetBy(os, buffer.fills) + NetBy(os, gain)
    BY <1>1, <1>4, <2>2, <2>3, NetByAdds
  <2> QED BY <2>2, <2>4
<1> QED BY <1>4, <1>5, <1>7, <1>8

\* A fill is booked: the row that gains it and the ledger both follow, or the
\* ledger cannot cover it and neither does.
LEMMA BookStep ==
  ASSUME IInv, Book
  PROVE  IInv'
<1>1. /\ phase = "book" /\ phase' = "book" /\ UNCHANGED <<clock, orders, trades, venue, db>>
      /\ run \in Run /\ venue \in Venue /\ db \in Books /\ clock \in Nat /\ Typed /\ Account
      /\ OwnOpen \subseteq venue.open /\ run.missed.fills = NoFills
      /\ run.buffer \in Buffer /\ run.ledger \in Int
  BY Parts DEF Book, IInv, Typed, Buffered, Tracked, Starting, Trading, InCandle, exchangeVars
<1>2. PICK fill : fill = NextFill
  OBVIOUS
<1>3. /\ fill \in run.fills /\ fill \in Fill /\ fill.trades # {} /\ fill.trades \subseteq Consumed
      /\ \A i \in fill.trades : trades[i].order = fill.id[2]
      /\ \A f \in run.fills : f.id[2] = fill.id[2] => f = fill
      /\ \A f \in run.fills : /\ f.trades \subseteq Consumed
                              /\ \A i \in f.trades : trades[i].order = f.id[2]
  <2>1. run.fills # {}
    BY DEF Book
  <2>2. fill \in run.fills /\ run.fills \subseteq Fill
    BY <1>1, <1>2, <2>1, NextFillFacts, Parts
  <2> QED BY <2>2 DEF IInv, Waiting
<1>4. PICK id : id = fill.id
  OBVIOUS
<1>5. PICK taken : taken = fill.trades
  OBVIOUS
<1>6. PICK o : o = id[2]
  OBVIOUS
<1>7. /\ id \in Ids /\ o \in DOMAIN orders /\ orders[o].side \in {"buy", "sell"}
      /\ taken \in SUBSET (1 .. Len(trades)) /\ taken \in SUBSET (DOMAIN trades) /\ taken # {}
      /\ taken \subseteq Consumed /\ Len(trades) \in Nat
      /\ \A i \in taken : trades[i].order = o
  <2>1. id \in Ids /\ taken # {} /\ taken \subseteq Consumed /\ \A i \in taken : trades[i].order = o
    BY <1>3, <1>4, <1>5, <1>6 DEF Fill
  <2>2. Consumed \in SUBSET (1 .. Len(trades)) /\ Len(trades) \in Nat
        /\ DOMAIN trades = 1 .. Len(trades)
    BY <1>1, TakenFacts, Shape
  <2>3. PICK i \in taken : i \in DOMAIN trades
    BY <2>1, <2>2
  <2>4. o \in DOMAIN orders
    BY <1>1, <2>1, <2>3 DEF Account
  <2>5. orders[o] \in Order
    BY <1>1, <2>4, Shape
  <2> QED BY <2>1, <2>2, <2>4, <2>5 DEF Order
<1>8. PICK size : size = Cardinality(taken)
  OBVIOUS
<1>9. size \in Nat /\ NetOfBy(orders, trades, taken) = SignBy(orders, o) * size
      /\ Cardinality(OfOrder(trades, o, taken)) = size
  BY <1>7, <1>8, TradesOfOne
<1>10. PICK noted : noted = WithStatus(run.buffer, IF id[1] = "own" THEN {o} ELSE {}, "filled")
  OBVIOUS
<1>11. noted \in Buffer /\ noted.fills = run.buffer.fills /\ noted.last = run.buffer.last
  BY <1>1, <1>10, WithStatusFacts DEF Statuses
<1>12. PICK ts : ts = LastTs(taken)
  OBVIOUS
<1>13. ts \in Nat /\ ts <= clock
  BY <1>1, <1>7, <1>12, LastTsFacts
<1>14. PICK booked : booked = Gained(noted, id, size, ts)
  OBVIOUS
<1>15. /\ booked \in Buffer /\ booked.fills[id] = noted.fills[id] + size
       /\ \A j \in Ids : j # id => booked.fills[j] = noted.fills[j]
       /\ NetBy(orders, booked.fills) = NetBy(orders, noted.fills) + SignBy(orders, id[2]) * size
       /\ booked.last \in {noted.last, ts}
  <2>1. /\ noted \in Buffer /\ id \in Ids /\ size \in Nat /\ ts \in Nat
        /\ orders[id[2]].side \in {"buy", "sell"}
    BY <1>6, <1>7, <1>9, <1>11, <1>13
  <2> QED BY <1>14, <2>1, GainFacts
<1>16. SignBy(orders, o) = Sign(o) /\ Sign(o) \in {1, -1}
  BY DEF SignBy, Sign
<1>17. PICK after : after = run.ledger + Sign(o) * size
  OBVIOUS
<1>18. after \in Int
  BY <1>1, <1>9, <1>16, <1>17
<1>19. \/ run' = [run EXCEPT !.fills = @ \ {fill}, !.rejected = TRUE, !.buffer = noted]
       \/ run' = [run EXCEPT !.fills = @ \ {fill}, !.ledger = after, !.buffer = booked]
  BY <1>2, <1>4, <1>5, <1>6, <1>8, <1>10, <1>12, <1>14, <1>17 DEF Book, Gained
<1>20. /\ run' \in Run /\ run'.fills = run.fills \ {fill} /\ run'.missed = run.missed
       /\ run'.resumed = run.resumed /\ run'.quiet = run.quiet
       /\ \/ run'.rejected = TRUE /\ run'.buffer = noted /\ run'.ledger = run.ledger
          \/ run'.rejected = run.rejected /\ run'.buffer = booked /\ run'.ledger = after
  <2>1. CASE run' = [run EXCEPT !.fills = @ \ {fill}, !.rejected = TRUE, !.buffer = noted]
    BY <1>1, <1>11, <2>1 DEF Run
  <2>2. CASE run' = [run EXCEPT !.fills = @ \ {fill}, !.ledger = after, !.buffer = booked]
    BY <1>1, <1>15, <1>18, <2>2 DEF Run
  <2> QED BY <1>19, <2>1, <2>2
<1>21. Typed' /\ Account' /\ Cursor' /\ Consumed' = Consumed
  BY <1>1, <1>20 DEF Typed, Account, IInv, Cursor, Consumed
<1>22. Dated'
  <2>1. run'.buffer.last <= clock
    BY <1>11, <1>13, <1>15, <1>20 DEF IInv, Dated
  <2> QED BY <1>1, <1>20, <2>1 DEF IInv, Dated
<1>23. Tracked' /\ Buffered'
  <2>1. OwnOpen' = OwnOpen
    BY <1>1 DEF OwnOpen, OpenIds
  <2> QED BY <1>1, <1>20, <2>1 DEF Tracked, Buffered, Starting
<1>24. Waiting'
  <2>1. IsFiniteSet(run'.fills)
    BY <1>20, FS_Subset DEF IInv, Waiting
  <2> QED BY <1>1, <1>20, <1>21, <2>1 DEF IInv, Waiting
<1>25. Pending' = Pending \ taken /\ taken \subseteq Pending
  <2>1. \A f \in run.fills : f # fill => f.trades \cap taken = {}
    BY <1>3, <1>4, <1>5, <1>6, <1>7
  <2> QED BY <1>3, <1>5, <1>20, <2>1 DEF Pending
<1>26. Taken' = Taken \cup taken /\ Taken \cap taken = {}
  BY <1>7, <1>21, <1>25 DEF Taken
<1>27. Taken \in SUBSET (1 .. Len(trades)) /\ IsFiniteSet(Taken) /\ IsFiniteSet(taken)
  <2>1. Taken \in SUBSET (1 .. Len(trades))
    BY TakenFacts
  <2> QED BY <1>7, <2>1, IdsAreFinite
<1>28. /\ NetOfBy(orders, trades, Taken') =
            NetOfBy(orders, trades, Taken) + NetOfBy(orders, trades, taken)
       /\ \A p : Cardinality(OfOrder(trades, p, Taken')) =
                   Cardinality(OfOrder(trades, p, Taken)) + Cardinality(OfOrder(trades, p, taken))
  <2>1. IsFiniteSet(Taken) /\ IsFiniteSet(taken)
    BY <1>27
  <2> QED BY <2>1, <1>26, TradesAdd
<1>29. /\ \A p : Cardinality(OfOrder(trades, p, taken)) \in Nat
       /\ NetOfBy(orders, trades, Taken) \in Int
  BY <1>7, <1>27, TradeSets
<1>30. Backed'
  <2>1. ASSUME NEW j \in Ids PROVE Held(j)' <= Cardinality(TradesOf(j[2], Taken))'
    <3>1. /\ Held(j) <= Cardinality(TradesOf(j[2], Taken))
          /\ Cardinality(TradesOf(j[2], Taken)) \in Nat
          /\ db.book.fills[j] \in Nat /\ run.missed.fills[j] \in Nat /\ run.buffer.fills[j] \in Nat
      BY <1>1, HeldFacts DEF IInv, Backed
    <3>2. Cardinality(TradesOf(j[2], Taken))' =
            Cardinality(TradesOf(j[2], Taken)) + Cardinality(OfOrder(trades, j[2], taken))
      <4>1. Cardinality(TradesOf(j[2], Taken))' = Cardinality(OfOrder(trades, j[2], Taken'))
        BY <1>1, GivenNext
      <4> QED BY <4>1, <1>28, Given
    <3>3. Held(j)' = db.book.fills[j] + run.missed.fills[j] + run'.buffer.fills[j]
      BY <1>1, <1>20 DEF Held
    <3>4. run'.buffer.fills[j] <= run.buffer.fills[j] + Cardinality(OfOrder(trades, j[2], taken))
          /\ run'.buffer.fills[j] \in Nat
      <4>1. \/ run'.buffer.fills[j] = run.buffer.fills[j]
            \/ j = id /\ run'.buffer.fills[j] = run.buffer.fills[j] + size
        <5>1. run'.buffer = noted \/ run'.buffer = booked
          BY <1>20
        <5>2. noted.fills[j] = run.buffer.fills[j]
          BY <1>11
        <5>3. j # id => booked.fills[j] = run.buffer.fills[j]
          BY <1>15, <5>2
        <5>4. j = id => booked.fills[j] = run.buffer.fills[j] + size
          BY <1>15, <5>2
        <5> QED BY <5>1, <5>2, <5>3, <5>4
      <4>2. j = id => Cardinality(OfOrder(trades, j[2], taken)) = size
        BY <1>6, <1>9
      <4>3. Cardinality(OfOrder(trades, j[2], taken)) \in Nat
        BY <1>29
      <4> QED BY <1>9, <3>1, <4>1, <4>2, <4>3
    <3>5. Cardinality(OfOrder(trades, j[2], taken)) \in Nat
      BY <1>29
    <3> QED BY <3>1, <3>2, <3>3, <3>4, <3>5 DEF Held
  <2>2. \A j \in Ids : db'.book.fills[j] <= Executed(j[2])'
    BY <1>1 DEF IInv, Backed, Executed, TradesOf
  <2> QED BY <2>1, <2>2 DEF Backed
<1>31. Rooted'
  <2>1. /\ Net(db.book.fills) \in Int /\ Net(run.missed.fills) \in Int /\ Net(run.buffer.fills) \in Int
        /\ db.root \in Int
    BY <1>1, Parts, NetByType, Given
  <2>2. run.ledger = Net(db.book.fills) + Net(run.missed.fills) + Net(run.buffer.fills) - db.root
    BY <1>1 DEF IInv, Rooted, Trading, InCandle
  <2>3. /\ Net(db.book.fills)' = Net(db.book.fills)
        /\ Net(run.missed.fills)' = Net(run.missed.fills)
        /\ Net(run.buffer.fills)' = NetBy(orders, run'.buffer.fills)
    BY <1>1, <1>20, Given, GivenNext
  <2>4. \/ run'.ledger = run.ledger /\ NetBy(orders, run'.buffer.fills) = Net(run.buffer.fills)
        \/ /\ run'.ledger = run.ledger + Sign(o) * size
           /\ NetBy(orders, run'.buffer.fills) = Net(run.buffer.fills) + Sign(o) * size
    BY <1>6, <1>11, <1>15, <1>16, <1>17, <1>20, Given
  <2>5. Sign(o) * size \in Int
    BY <1>9, <1>16
  <2>6. run'.ledger = Net(db.book.fills)' + Net(run.missed.fills)' + Net(run.buffer.fills)' - db'.root
    <3>1. PICK d : d = Sign(o) * size
      OBVIOUS
    <3>2. d \in Int
      BY <2>5, <3>1
    <3> QED BY <1>1, <2>1, <2>2, <2>3, <2>4, <3>1, <3>2
  <2> QED BY <1>1, <2>6 DEF Rooted, Trading, InCandle
<1>32. Follows'
  <2>1. ASSUME run'.quiet, ~run'.rejected PROVE run'.ledger = NetOf(Taken)'
    <3>1. run'.rejected = run.rejected /\ run'.ledger = after
      BY <1>20, <2>1
    <3>2. run.ledger = NetOf(Taken)
      BY <1>1, <1>20, <2>1, <3>1 DEF IInv, Follows, Trading, InCandle
    <3>3. NetOf(Taken)' = NetOfBy(orders, trades, Taken')
      BY <1>1, GivenNext
    <3> QED BY <1>9, <1>16, <1>17, <1>28, <3>1, <3>2, <3>3, Given
  <2> QED BY <2>1 DEF Follows
<1> QED BY <1>21, <1>22, <1>23, <1>24, <1>30, <1>31, <1>32 DEF IInv

-----------------------------------------------------------------------------
(***************************************************************************)
(* The invariant, and what follows from it.                                *)
(***************************************************************************)
\* A step that changes nothing.
LEMMA StutterStep == IInv /\ UNCHANGED vars => IInv'
<1> SUFFICES ASSUME IInv, UNCHANGED vars PROVE IInv'
  OBVIOUS
<1>1. UNCHANGED <<clock, orders, trades, phase, run, venue, db>>
  BY DEF vars, exchangeVars, localVars
<1>2. /\ clock \in Nat /\ clock <= clock /\ trades \in Seq([order : Nat, ts : Nat])
  BY DEF IInv, Typed
<1>3. AccountGrows /\ Account'
  BY <1>1 DEF AccountGrows, IInv, Account
<1> QED BY <1>1, <1>2, <1>3, AccountStays, AccountStep

\* Every step keeps the invariant.
LEMMA NextStep == IInv /\ [Next]_vars => IInv'
<1> SUFFICES ASSUME IInv, [Next]_vars PROVE IInv'
  OBVIOUS
<1>1. CASE ExchangeNext /\ UNCHANGED localVars
  <2>1. CASE Tick
    BY <1>1, <2>1, TickStep
  <2>2. ASSUME NEW o \in DOMAIN orders, Execute(o) PROVE IInv'
    BY <1>1, <2>2, ExecuteStep
  <2>3. ASSUME NEW o \in DOMAIN orders, Land(o) PROVE IInv'
    BY <1>1, <2>3, LandStep
  <2> QED BY <1>1, <2>1, <2>2, <2>3 DEF ExchangeNext
<1>2. CASE Start \/ StartOver \/ Recover \/ CheckBalances \/ ClaimRow \/ RecordRecovered \/ FirstCheckpoint
  BY <1>2, StartStep, StartOverStep, RecoverStep, CheckBalancesStep, ClaimRowStep, RecordRecoveredStep,
     FirstCheckpointStep
<1>3. CASE BeginCandle \/ CancelTracked \/ PollTrades \/ Book \/ FlushCandle \/ Submit \/ EndCandle
  BY <1>3, BeginCandleStep, CancelTrackedStep, PollTradesStep, BookStep, FlushStep, SubmitStep
<1>4. CASE Stop \/ RunFails \/ Sweep \/ Finish \/ Crash \/ ForeignOrder
  BY <1>4, EndingStep, SweepStep, FinishStep, CrashStep, ForeignStep
<1>5. CASE UNCHANGED vars
  BY <1>5, StutterStep
<1> QED BY <1>1, <1>2, <1>3, <1>4, <1>5 DEF Next

\* The inductive invariant holds in every state, for any number of orders,
\* trades, faults and restarts.
THEOREM LiveInvariant == Spec => []IInv
<1> QED BY InitStep, NextStep, PTL DEF Spec

\* "No double orders": what the chain placed and still rests is tracked while
\* a run trades (_cancel_open before it, the open set of KrakenVenue in it).
THEOREM OpenOrdersAreTrackedAlways == Spec => []OpenOrdersAreTracked
<1>1. IInv => OpenOrdersAreTracked
  BY DEF IInv, Tracked, OwnOpen, OpenOrdersAreTracked
<1> QED BY <1>1, LiveInvariant, PTL

\* A complete checkpoint vouches for rows that replay to the ledger.
THEOREM CheckpointMeansRecordedAlways == Spec => []CheckpointMeansRecorded
<1>1. ASSUME IInv PROVE CheckpointMeansRecorded
  <2> SUFFICES ASSUME phase = "idle" PROVE Net(db.book.fills) - db.root = run.ledger
    BY DEF CheckpointMeansRecorded
  <2>1. run.missed.fills = NoFills /\ run.buffer.fills = NoFills
    BY <1>1 DEF IInv, Buffered
  <2>2. Net(run.missed.fills) = 0 /\ Net(run.buffer.fills) = 0
    BY <2>1, Given, NetByNothing
  <2>3. run.ledger = Net(db.book.fills) + Net(run.missed.fills) + Net(run.buffer.fills) - db.root
    BY <1>1 DEF IInv, Rooted, Trading
  <2>4. Net(db.book.fills) \in Int /\ db.root \in Int
    BY <1>1, Parts, NetByType, Given DEF IInv
  <2> QED BY <2>2, <2>3, <2>4
<1> QED BY <1>1, LiveInvariant, PTL

\* The ledger and what waits to be booked are the trades behind the cursor.
THEOREM BooksFollowTheCursorAlways == Spec => []BooksFollowTheCursor
<1>1. ASSUME IInv PROVE BooksFollowTheCursor
  <2> SUFFICES ASSUME phase \in Trading \cup {"claiming", "recording", "checkpoint"},
                      run.quiet, ~run.rejected
               PROVE  run.ledger + NetOf(Pending) = NetOf(Consumed)
    BY DEF BooksFollowTheCursor, Pending
  <2>1. run.ledger = NetOf(Taken)
    BY <1>1 DEF IInv, Follows
  <2>2. /\ Taken \in SUBSET (1 .. Len(trades)) /\ Pending \in SUBSET (1 .. Len(trades))
        /\ Taken \cap Pending = {} /\ Consumed = Taken \cup Pending /\ Len(trades) \in Nat
    BY <1>1, TakenFacts, Shape DEF IInv
  <2>3. IsFiniteSet(Taken) /\ IsFiniteSet(Pending)
    BY <2>2, IdsAreFinite
  <2>4. NetOfBy(orders, trades, Consumed) =
          NetOfBy(orders, trades, Taken) + NetOfBy(orders, trades, Pending)
    <3>1. Consumed = Taken \cup Pending /\ Taken \cap Pending = {}
      BY <2>2
    <3> QED BY <2>3, <3>1, TradesAdd
  <2>5. \A S : NetOf(S) = NetOfBy(orders, trades, S)
    BY DEF NetOf, NetOfBy, OnSide, OnSideBy
  <2> QED BY <2>1, <2>4, <2>5
<1> QED BY <1>1, LiveInvariant, PTL

-----------------------------------------------------------------------------
(***************************************************************************)
(* The rows implement TradeBook.                                           *)
(***************************************************************************)
\* What the orders executed; nothing, where none was placed.
ExecutedBy == [o \in Txids |-> IF o \in DOMAIN orders THEN Executed(o) ELSE 0]

\* It is what module Exchange says of every id an order could have.
LEMMA ExecutedFacts ==
  IInv => /\ ExecutedBy = [o \in Txids |-> Executed(o)]
          /\ \A o \in Txids : Executed(o) \in Nat
<1> SUFFICES ASSUME IInv, NEW o \in Txids
             PROVE  /\ (IF o \in DOMAIN orders THEN Executed(o) ELSE 0) = Executed(o)
                    /\ Executed(o) \in Nat
  BY DEF ExecutedBy
<1>1. PICK id : id = <<"own", o>>
  OBVIOUS
<1>2. id \in Ids /\ id[2] = o
  BY <1>1 DEF Ids
<1>3. Executed(o) \in Nat /\ (Executed(o) > 0 => o \in DOMAIN orders)
  BY <1>2, HeldFacts
<1> QED BY <1>3

\* A flush only adds.
LEMMA MergedGrows ==
  ASSUME NEW book \in Buffer, NEW more \in Buffer, NEW id \in Ids
  PROVE  book.fills[id] <= Merged(book, more).fills[id]
<1>1. book.fills[id] \in Nat /\ more.fills[id] \in Nat
  BY DEF Buffer
<1>2. Merged(book, more).fills[id] = book.fills[id] + more.fills[id]
  BY MergedFacts
<1> QED BY <1>1, <1>2

\* The rows change only by what the recorder adds to them.
LEMMA BooksGrow ==
  ASSUME IInv, Next, NEW id \in Ids
  PROVE  db.book.fills[id] <= db'.book.fills[id]
<1>1. /\ db \in Books /\ db.book \in Buffer /\ run.missed \in Buffer /\ run.buffer \in Buffer
      /\ db.book.fills[id] \in Nat
  BY Parts DEF IInv, Typed
<1>2. ASSUME db'.book = db.book PROVE db.book.fills[id] <= db'.book.fills[id]
  BY <1>1, <1>2
<1>3. ASSUME NEW more \in Buffer, db'.book = Merged(db.book, more)
      PROVE  db.book.fills[id] <= db'.book.fills[id]
  BY <1>1, <1>3, MergedGrows
<1>4. Flushed.book = Merged(db.book, run.buffer)
  BY <1>1 DEF Flushed, Books
<1>5. CASE \/ ExchangeNext /\ UNCHANGED localVars
           \/ Start \/ StartOver \/ Recover \/ CheckBalances \/ CancelTracked \/ PollTrades \/ Book
           \/ Submit \/ Stop \/ RunFails \/ Sweep \/ Crash \/ ForeignOrder
  <2>1. db' = db
    BY <1>5 DEF localVars, Start, StartOver, Recover, CheckBalances, CancelTracked, PollTrades, Book,
                Submit, Stop, RunFails, Sweep, Crash, ForeignOrder
  <2> QED BY <1>2, <2>1
<1>6. CASE ClaimRow \/ FirstCheckpoint \/ BeginCandle
  <2>1. db'.book = db.book
    BY <1>1, <1>6 DEF ClaimRow, FirstCheckpoint, BeginCandle, Books
  <2> QED BY <1>2, <2>1
<1>7. CASE RecordRecovered
  <2>1. db'.book = Merged(db.book, run.missed)
    BY <1>1, <1>7 DEF RecordRecovered, Books
  <2> QED BY <1>1, <1>3, <2>1
<1>8. CASE FlushCandle \/ EndCandle \/ Finish
  <2>1. PICK new : new = Flushed
    OBVIOUS
  <2>2. new \in Books /\ new.book = Merged(db.book, run.buffer)
    BY <1>4, <2>1, FlushedFacts
  <2>3. \/ db' = db \/ db' = new \/ db' = [new EXCEPT !.risk = "ok"]
        \/ db' = [new EXCEPT !.row = run.ending]
    BY <1>8, <2>1 DEF FlushCandle, EndCandle, Finish
  <2>4. db'.book = db.book \/ db'.book = Merged(db.book, run.buffer)
    BY <2>2, <2>3 DEF Books
  <2> QED BY <1>1, <1>2, <1>3, <2>4
<1> QED BY <1>5, <1>6, <1>7, <1>8 DEF Next

\* Trades are the exchange's.
LEMMA OnlyExecuteTrades ==
  ASSUME Next, trades' # trades
  PROVE  \E o \in DOMAIN orders : Execute(o) /\ UNCHANGED localVars
BY DEF Next, ExchangeNext, Tick, Land, exchangeVars, Start, StartOver, Recover, CheckBalances,
       ClaimRow, RecordRecovered, FirstCheckpoint, BeginCandle, CancelTracked, PollTrades, Book, FlushCandle,
       Submit, EndCandle, Stop, RunFails, Sweep, Finish, Crash, ForeignOrder

\* A step of the system executes a unit of an order, records, or leaves both.
LEMMA TradeBookStep ==
  ASSUME IInv, IInv', Next, ExecutedBy' = [o \in Txids |-> Executed(o)'],
         \A o \in Txids : Executed(o)' \in Nat
  PROVE  \/ /\ UNCHANGED ExecutedBy
            /\ DOMAIN db'.book.fills = Ids
            /\ \A r \in Ids : /\ db.book.fills[r] <= db'.book.fills[r]
                              /\ db'.book.fills[r] <= ExecutedBy[r[2]]
         \/ \E o \in Txids : /\ ExecutedBy' = [ExecutedBy EXCEPT ![o] = @ + 1]
                             /\ UNCHANGED db.book.fills
<1>1. /\ Typed /\ Account /\ Typed' /\ Len(trades) \in Nat /\ DOMAIN trades = 1 .. Len(trades)
      /\ DOMAIN orders \subseteq Txids
      /\ ExecutedBy = [o \in Txids |-> Executed(o)] /\ \A o \in Txids : Executed(o) \in Nat
  BY ExecutedFacts, Shape DEF IInv
<1>2. CASE trades' = trades
  <2>1. \A o \in Txids : Executed(o)' = Executed(o)
    BY <1>2 DEF Executed, TradesOf
  <2>2. UNCHANGED ExecutedBy
    BY <1>1, <2>1
  <2>3. DOMAIN db'.book.fills = Ids
    BY <1>1 DEF Typed, Books, Buffer
  <2>4. ASSUME NEW r \in Ids
        PROVE  db.book.fills[r] <= db'.book.fills[r] /\ db'.book.fills[r] <= ExecutedBy[r[2]]
    <3>1. r[2] \in Txids
      BY DEF Ids
    <3>2. ExecutedBy[r[2]] = Executed(r[2])'
      BY <1>1, <2>1, <3>1
    <3>3. db'.book.fills[r] <= Executed(r[2])'
      BY DEF IInv, Backed
    <3> QED BY <3>2, <3>3, BooksGrow
  <2> QED BY <2>2, <2>3, <2>4
<1>3. CASE trades' # trades
  <2>1. PICK o \in DOMAIN orders : Execute(o) /\ UNCHANGED localVars
    BY <1>3, OnlyExecuteTrades
  <2>2. PICK new : new = Len(trades) + 1
    OBVIOUS
  <2>3. /\ DOMAIN trades' = DOMAIN trades \cup {new} /\ new \notin DOMAIN trades
        /\ \A i \in DOMAIN trades : trades'[i] = trades[i]
        /\ trades'[new].order = o
    BY <2>1, <2>2, TradedFacts DEF Execute
  <2>4. ASSUME NEW p \in Txids PROVE Executed(p)' = IF p = o THEN Executed(p) + 1 ELSE Executed(p)
    <3>1. PICK before : before = OfOrder(trades, p, DOMAIN trades)
      OBVIOUS
    <3>2. PICK after : after = OfOrder(trades', p, DOMAIN trades')
      OBVIOUS
    <3>3. IsFiniteSet(before) /\ Executed(p) = Cardinality(before)
      BY <1>1, <3>1, TradeSets, Given
    <3>4. Executed(p)' = Cardinality(after)
      BY <3>2, GivenNext
    <3>5. CASE p = o
      <4>1. after = before \cup {new} /\ new \notin before
        BY <2>3, <3>1, <3>2, <3>5 DEF OfOrder
      <4>2. Cardinality(before \cup {new}) = Cardinality(before) + 1
        BY <3>3, <4>1, FS_AddElement
      <4> QED BY <3>3, <3>4, <3>5, <4>1, <4>2
    <3>6. CASE p # o
      <4>1. after = before
        BY <2>3, <3>1, <3>2, <3>6 DEF OfOrder
      <4> QED BY <3>3, <3>4, <3>6, <4>1
    <3> QED BY <3>5, <3>6
  <2>5. o \in Txids
    BY <1>1
  <2>6. ExecutedBy' = [ExecutedBy EXCEPT ![o] = @ + 1]
    BY <1>1, <2>4, <2>5
  <2>7. UNCHANGED db.book.fills
    BY <2>1 DEF localVars
  <2> QED BY <2>5, <2>6, <2>7
<1> QED BY <1>2, <1>3

\* Whatever crashed, failed or was read twice, no row records more than its
\* order executed and none loses a unit ("a re-run records nothing twice").
THEOREM ImplementsTradeBookAlways == Spec => ImplementsTradeBook
<1>1. Init => Rows_!Init
  <2> SUFFICES ASSUME Init PROVE Rows_!Init
    OBVIOUS
  <2>1. DOMAIN orders = {} /\ db.book.fills = [r \in Ids |-> 0]
    BY NothingIsTyped DEF Init, ExchangeInit, NoFills
  <2> QED BY <2>1 DEF Rows_!Init
<1>2. IInv' => /\ ExecutedBy' = [o \in Txids |-> Executed(o)']
               /\ \A o \in Txids : Executed(o)' \in Nat
  <2>1. IInv' => (/\ ExecutedBy = [o \in Txids |-> Executed(o)]
                  /\ \A o \in Txids : Executed(o) \in Nat)'
    BY ExecutedFacts, PTL
  <2> QED BY <2>1
<1>3. IInv /\ IInv' /\ [Next]_vars =>
        [Rows_!Next]_<<[o \in Txids |-> IF o \in DOMAIN orders THEN Executed(o) ELSE 0],
                       db.book.fills>>
  <2> SUFFICES ASSUME IInv, IInv', [Next]_vars,
                      UNCHANGED <<ExecutedBy, db.book.fills>> => FALSE
               PROVE  Rows_!Next
    BY DEF ExecutedBy
  <2>1. Next
    <3>1. ASSUME UNCHANGED vars PROVE UNCHANGED <<ExecutedBy, db.book.fills>>
      BY <3>1 DEF vars, exchangeVars, localVars, ExecutedBy, Executed, TradesOf
    <3> QED BY <3>1
  <2>2. \/ /\ UNCHANGED ExecutedBy
           /\ DOMAIN db'.book.fills = Ids
           /\ \A r \in Ids : /\ db.book.fills[r] <= db'.book.fills[r]
                             /\ db'.book.fills[r] <= ExecutedBy[r[2]]
        \/ \E o \in Txids : /\ ExecutedBy' = [ExecutedBy EXCEPT ![o] = @ + 1]
                            /\ UNCHANGED db.book.fills
    BY <1>2, <2>1, TradeBookStep
  <2> QED BY <2>2 DEF Rows_!Next, Rows_!Record, Rows_!Execute, ExecutedBy
<1> QED BY <1>1, <1>3, LiveInvariant, PTL DEF Spec, ImplementsTradeBook, Rows_!Spec

=============================================================================
