---------------------------- MODULE RiskManager ----------------------------
(***************************************************************************)
(* The guardrails of risk/manager.py: the daily rail on floor equity, the  *)
(* cooldown after a losing streak, and the assessment of a batch of        *)
(* intents, each against what the ones before it already take.  A resized  *)
(* order is rounded down to whole units.                                   *)
(***************************************************************************)
EXTENDS Ledger

CONSTANTS
  MaxPosition,    \* max_position_quote
  MaxGross,       \* max_gross_exposure_quote
  MaxDailyLoss,   \* max_daily_loss_quote
  MinOrder,       \* min_order_quote
  MaxLosses,      \* max_consecutive_losses
  CooldownCandles,
  CostRate        \* worst-case costs of a buy, in tenths of its amount

ASSUME RiskAssumption ==
  /\ MaxPosition \in Nat /\ MaxGross \in Nat /\ MaxDailyLoss \in Nat
  /\ MinOrder \in Nat \ {0} /\ MaxLosses \in Nat \ {0}
  /\ CooldownCandles \in Nat /\ CostRate \in Nat

NoDay == 0

NewRisk == [halted |-> FALSE, day |-> NoDay, dayFloor |-> 0, floor |-> 0,
            losses |-> 0, cooldown |-> 0]

\* Mutant of Restored: a restart begins a day of its own.
RestoredNoDay(saved) == [saved EXCEPT !.day = NoDay, !.dayFloor = 0, !.floor = 0]

\* RiskManager.restored: the whole state of the checkpoint, on the new limits.
Restored(saved) ==
  [NewRisk EXCEPT !.halted = saved.halted, !.day = saved.day, !.dayFloor = saved.dayFloor,
                  !.floor = saved.floor, !.losses = saved.losses, !.cooldown = saved.cooldown]

\* Cash and each position at the lower of cost and market.
FloorEquity(l, prices) ==
  l.cash + SumFunction([p \in Pairs |-> Least(l.pos[p].cost, Exposure(l, p, prices))])

\* A new day starts at the last observed floor.
RiskOnCandle(r, day, floor) ==
  LET dayFloor == IF day = r.day THEN r.dayFloor ELSE IF r.day = NoDay THEN floor ELSE r.floor
  IN [r EXCEPT !.day = day, !.dayFloor = dayFloor, !.floor = floor,
               !.cooldown = IF @ > 0 THEN @ - 1 ELSE 0,
               !.halted = @ \/ floor - dayFloor <= -MaxDailyLoss]

\* Mutant of NotifyTrade: the streak has to be one longer.
NotifyTradeLate(r, pnl) ==
  CASE pnl = 0 -> r
    [] pnl > 0 -> [r EXCEPT !.losses = 0]
    [] pnl < 0 /\ r.losses < MaxLosses -> [r EXCEPT !.losses = @ + 1]
    [] OTHER -> [r EXCEPT !.losses = 0, !.cooldown = CooldownCandles]

\* A losing streak starts the cooldown.
NotifyTrade(r, pnl) ==
  CASE pnl = 0 -> r
    [] pnl > 0 -> [r EXCEPT !.losses = 0]
    [] pnl < 0 /\ r.losses + 1 < MaxLosses -> [r EXCEPT !.losses = @ + 1]
    [] OTHER -> [r EXCEPT !.losses = 0, !.cooldown = CooldownCandles]

PriceOf(intent, prices) == IF intent.limit > 0 THEN intent.limit ELSE prices[intent.pair]

-----------------------------------------------------------------------------
(* The batch so far: orders approved, cash left, exposure added and units  *)
(* sold per pair, and for a perp the position each pair would have.        *)

NewBatch(l) ==
  [orders |-> <<>>, cash |-> l.cash, added |-> [p \in Pairs |-> 0],
   sold |-> [p \in Pairs |-> 0], resulting |-> [p \in Pairs |-> l.pos[p].size]]

Approved(batch, intent, size) == Append(batch.orders, [intent EXCEPT !.size = size])

\* Mutant of Budget: each intent is judged alone.
BudgetAlone(l, prices, batch, intent) ==
  LET held == [p \in Pairs |-> Exposure(l, p, prices)]
  IN Least(Least(MaxPosition - l.pos[intent.pair].size * PriceOf(intent, prices),
                 MaxGross - SumFunction(held)),
           (10 * l.cash) \div (10 + CostRate))

\* What may still be bought: pair and gross headroom, and cash less costs.
Budget(l, prices, batch, intent) ==
  LET held    == [p \in Pairs |-> Exposure(l, p, prices)]
      inPair  == MaxPosition - l.pos[intent.pair].size * PriceOf(intent, prices)
                   - batch.added[intent.pair]
      inGross == MaxGross - SumFunction(held) - SumFunction(batch.added)
      inCash  == (10 * batch.cash) \div (10 + CostRate)
  IN Least(Least(inPair, inGross), inCash)

AssessBuy(l, r, prices, batch, intent) ==
  LET price  == PriceOf(intent, prices)
      budget == Budget(l, prices, batch, intent)
      size   == IF budget > 0 THEN Least(intent.size, budget \div price) ELSE 0
  IN IF r.cooldown > 0 \/ size * price < MinOrder
     THEN batch
     ELSE [batch EXCEPT !.orders = Approved(batch, intent, size),
                        !.cash = @ - size * price,
                        !.added[intent.pair] = @ + size * price]

AssessSell(l, prices, batch, intent) ==
  LET held == l.pos[intent.pair].size
      size == Least(intent.size, held - batch.sold[intent.pair])
  IN IF size <= 0 \/ (size < held /\ size * PriceOf(intent, prices) < MinOrder)
     THEN batch
     ELSE [batch EXCEPT !.orders = Approved(batch, intent, size),
                        !.sold[intent.pair] = @ + size]

\* A perp is capped on the magnitude it would end with; what reduces it
\* passes the cooldown.
AssessPerp(r, prices, batch, intent) ==
  LET price   == PriceOf(intent, prices)
      current == batch.resulting[intent.pair]
      delta   == Direction(intent) * intent.size
      others  == SumFunctionOnSet([p \in Pairs |-> Abs(batch.resulting[p]) * prices[p]],
                                  Pairs \ {intent.pair})
      cap     == Max({0, Least(MaxPosition, MaxGross - others)}) \div price
      d       == Least(Max({delta, -cap - current}), cap - current)
  IN IF \/ delta * d <= 0
        \/ r.cooldown > 0 /\ Abs(current + d) > Abs(current)
        \/ Abs(d) * price < MinOrder /\ current + d # 0
     THEN batch
     ELSE [batch EXCEPT !.orders = Approved(batch, intent, Abs(d)),
                        !.resulting[intent.pair] = @ + d]

AssessOne(l, r, prices, instrument, batch, intent) ==
  IF PriceOf(intent, prices) = 0 THEN batch
  ELSE IF instrument = "perp" THEN AssessPerp(r, prices, batch, intent)
  ELSE IF intent.side = "buy" THEN AssessBuy(l, r, prices, batch, intent)
  ELSE AssessSell(l, prices, batch, intent)

AssessAll(l, r, prices, instrument, intents) ==
  FoldLeft(LAMBDA batch, intent : AssessOne(l, r, prices, instrument, batch, intent),
           NewBatch(l), intents)

Assess(l, r, prices, instrument, intents) ==
  AssessAll(l, r, prices, instrument, intents).orders

=============================================================================
