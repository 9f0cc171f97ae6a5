------------------------ MODULE TradingEngineInvariant ------------------------
(***************************************************************************)
(* An inductive invariant of TradingEngine.  The safety properties of the  *)
(* engine compare the ledger with something that was summed up, counted or *)
(* remembered since the chain began; each part below says what that        *)
(* something is between two steps.                                         *)
(***************************************************************************)
EXTENDS TradingEngine

Sides == {"buy", "sell"}

Position == [size : Int, cost : Int]
Account == [cash : Int, pos : [Pairs -> Position], realized : Int, funded : Int, opening : Int]
RiskState == [halted : BOOLEAN, day : Nat, dayFloor : Int, floor : Int,
              losses : 0 .. MaxLosses - 1, cooldown : 0 .. CooldownCandles]

\* The orders of one pair: a venue is sent no others.
Order(p) == [pair : {p}, side : Sides, size : Nat \ {0}, limit : Nat, stop : Nat, target : Nat,
             id : Nat \X Nat, step : Nat]
Venue(p) == [orders : Seq(Order(p)), protections : Seq(Order(p)), armed : {<<>>}, position : Int]

\* What a venue reports: its fee is never more than the amount.
OrderId == (Nat \X Nat) \cup ({"exit"} \X (Nat \X Nat))
Fill(p) == {f \in [pair : {p}, side : Sides, size : Nat, price : Nat, fee : Nat, order : OrderId,
                   exit : BOOLEAN, of : Order(p)] : f.fee <= Amount(f)}
FillRow == {r \in [pair : Pairs, side : Sides, size : Nat, price : Nat, fee : Nat, step : Nat,
                   pnl : Int] : r.fee <= Amount(r)}

Typed ==
  /\ phase \in {"candle", "decide", "halted", "done", "failed"}
  /\ instrument \in Instruments
  /\ step \in 0 .. MaxSteps /\ restarts \in 0 .. MaxRestarts
  /\ ledger \in Account /\ risk \in RiskState
  /\ venues = [p \in Pairs |-> venues[p]] /\ \A p \in Pairs : venues[p] \in Venue(p)
  /\ closes \in [Pairs -> Nat]
  /\ DOMAIN last \subseteq Pairs /\ \A p \in DOMAIN last : last[p] \in Bars
  /\ recorded \in Seq(FillRow)
  /\ floors \in Seq(Int) /\ Len(floors) <= step

\* A spot account is never overdrawn, what is not held costs nothing, and the
\* accounts add up.
Solvent(l) ==
  /\ instrument = "spot" => l.cash >= 0 /\ \A p \in Pairs : l.pos[p].size >= 0
  /\ \A p \in Pairs : l.pos[p].size = 0 => l.pos[p].cost = 0
Balanced(l) == l.cash + Costs(l) = l.opening + l.realized + l.funded
Sound(l) == l \in Account /\ Solvent(l) /\ Balanced(l)

\* What the rows of a spot chain add up to.
CashFlow(row) == -Direction(row) * Amount(row) - row.fee
UnitFlow(row, p) == IF row.pair = p THEN Direction(row) * row.size ELSE 0
CashFlows(rows) == [i \in DOMAIN rows |-> CashFlow(rows[i])]
UnitFlows(rows, p) == [i \in DOMAIN rows |-> UnitFlow(rows[i], p)]

AddUp(rows, l, now) ==
  /\ \A i \in DOMAIN rows : rows[i].step \in 1 .. now
  /\ instrument = "spot" =>
       /\ l.cash = StartingCash + SumFunction(CashFlows(rows))
       /\ \A p \in Pairs : l.pos[p].size = SumFunction(UnitFlows(rows, p))

\* What the risk manager remembers is what the floors of the chain say.
RailRemembers ==
  /\ floors = <<>> => risk.day = NoDay /\ phase # "decide"
  /\ phase \in {"candle", "decide"} /\ floors # <<>> =>
       /\ risk.day = Day(step)
       /\ risk.floor = floors[Len(floors)]
       /\ risk.dayFloor = DayFloor
       /\ risk.floor - risk.dayFloor > -MaxDailyLoss

\* The losses counted are those since the last win or the last full streak,
\* and a full streak keeps a cooldown running.
Counted(rows, r, now) ==
  /\ \E j \in 0 .. Len(rows), full \in 0 .. Len(rows) :
       /\ LosingRun(rows, j, Len(rows))
       /\ Cardinality({k \in Exits(rows) : j < k}) = full * MaxLosses + r.losses
  /\ \A i \in Exits(rows) : StreakEndsAt(rows, i) =>
       r.cooldown >= CooldownCandles - 1 - (now - rows[i].step)

\* Orders were decided on the last candle or before it.
OrdersAreOld ==
  \A p \in Pairs : \A i \in DOMAIN venues[p].orders :
    venues[p].orders[i].step <= IF phase = "decide" THEN step - 1 ELSE step

IInv ==
  /\ Typed
  /\ Sound(ledger)
  /\ AddUp(recorded, ledger, step)
  /\ phase \in {"candle", "decide"} /\ instrument = "spot" => Counted(recorded, risk, step)
  /\ VenueAgreesWithLedger
  /\ RailRemembers
  /\ OrdersAreOld

=============================================================================
