--------------------------- MODULE TradingEngine ---------------------------
(***************************************************************************)
(* A simulated run: the loop of core/portfolio_engine.py, which with one   *)
(* pair is the loop of core/engine.py, over the paper venue, the ledger    *)
(* and the risk manager, and the restart of a shadow chain through         *)
(* core/resume.py.  What the database, the supervisor and the pollers do   *)
(* around it is in other modules.                                          *)
(*                                                                         *)
(* The strategy is any choice among Batches, the market any among Candles. *)
(* Only the single-pair engine runs a perp: on pair 1.                     *)
(***************************************************************************)
EXTENDS PaperVenue

CONSTANTS
  StartingCash,
  Instruments,   \* "spot", "perp"
  Candles,       \* the candles each pair may see
  Batches,       \* the sequences of intents a strategy may return
  FundingRates,  \* tenths of the position's value, paid by longs
  StepsPerDay,
  MaxSteps,      \* bound: candles of the chain
  MaxRestarts    \* bound: restarts of the chain

\* What a strategy may ask for: a positive size, and a limit, a stop and a
\* target that are positive where there is one.
Intents == [pair : Pairs, side : {"buy", "sell"}, size : Nat \ {0}, limit : Nat, stop : Nat,
            target : Nat, id : {<<>>}, step : {0}]
Bars == [open : Nat \ {0}, high : Nat \ {0}, low : Nat \ {0}, close : Nat \ {0}]

ASSUME EngineAssumption ==
  /\ StartingCash \in Nat /\ StepsPerDay \in Nat \ {0}
  /\ MaxSteps \in Nat /\ MaxRestarts \in Nat
  /\ Instruments \subseteq {"spot", "perp"}
  /\ \A p \in Pairs : Candles[p] \subseteq Bars
  /\ Batches \subseteq Seq(Intents)
  /\ FundingRates \subseteq Int

VARIABLES
  phase,       \* candle, decide, halted, done or failed
  instrument,
  step,        \* candles so far; the engine's clock
  ledger,
  risk,
  venues,
  closes,      \* last close per pair, 0 before the first
  last,        \* the last candle per pair
  recorded,    \* fills of the chain's rows, each with its step
  floors,      \* floor equity at each close of the chain
  restarts

vars == <<phase, instrument, step, ledger, risk, venues, closes, last, recorded, floors, restarts>>

Day(n) == (n - 1) \div StepsPerDay + 1
FlatAccount == [p \in Pairs |-> Flat]

Init ==
  /\ phase = "candle" /\ step = 0 /\ restarts = 0
  /\ instrument \in Instruments
  /\ ledger = NewLedger(StartingCash, FlatAccount)
  /\ risk = NewRisk
  /\ venues = [p \in Pairs |-> NewVenue]
  /\ closes = [p \in Pairs |-> 0]
  /\ last = <<>>
  /\ recorded = <<>> /\ floors = <<>>

-----------------------------------------------------------------------------
(* The books of a step: the fills of each venue, in order.                 *)

\* Mutant of Row: the fee is not stored.
RowNoFee(fill, at, pnl) == [pair |-> fill.pair, side |-> fill.side, size |-> fill.size,
                            price |-> fill.price, fee |-> 0, step |-> at, pnl |-> pnl]

\* A row of the fills table; Realized is not stored in it and serves the
\* properties.
Row(fill, at, pnl) == [pair |-> fill.pair, side |-> fill.side, size |-> fill.size,
                       price |-> fill.price, fee |-> fill.fee, step |-> at, pnl |-> pnl]

\* A fill the ledger refuses is voided, any other recorded; a closing trade
\* is told to the risk manager.
BookFill(s, fill) ==
  IF ~Accepts(s.ledger, fill, instrument)
  THEN [s EXCEPT !.venues[fill.pair] = Voided(@, fill)]
  ELSE LET pnl == Realized(s.ledger, fill)
       IN [s EXCEPT !.ledger = ApplyFill(@, fill),
                    !.risk = IF fill.side = "sell" \/ (instrument = "perp" /\ pnl # 0)
                             THEN NotifyTrade(@, pnl) ELSE @,
                    !.recorded = Append(@, Row(fill, step + 1, pnl))]

Books == [ledger |-> ledger, risk |-> risk, venues |-> venues, recorded |-> recorded]

BookFills(s, fills) == FoldLeft(BookFill, s, fills)

\* One pair of a step: its venue, then its fills.
StepPair(s, pair, candle) ==
  LET out == VenueOnCandle(s.venues[pair], candle, step + 1)
  IN BookFills([s EXCEPT !.venues[pair] = out.venue], out.fills)

StepBooks(candles) ==
  FoldLeft(LAMBDA s, pair : IF pair \in DOMAIN candles THEN StepPair(s, pair, candles[pair]) ELSE s,
           Books, Walk)

\* The rail of a perp: with no equity left the position is closed at the
\* close, whatever cash there is, and the run halts.
Liquidated(s, prices) ==
  LET pair == CHOOSE p \in Pairs : s.ledger.pos[p].size # 0
      size == s.ledger.pos[pair].size
      fill == [LiquidationFill(pair, size, [close |-> prices[pair]]) EXCEPT
                 !.price = prices[pair], !.fee = (prices[pair] * Abs(size) * TakerFee) \div 10]
  IN IF \A p \in Pairs : s.ledger.pos[p].size = 0 THEN s
     ELSE [s EXCEPT !.ledger = ApplyFill(@, fill),
                    !.recorded = Append(@, Row(fill, step + 1, Realized(s.ledger, fill)))]

Funding(s, prices, rate) ==
  IF instrument # "perp" THEN s
  ELSE [s EXCEPT !.ledger =
          ApplyFunding(@, SumFunction([p \in Pairs |->
                                         -(Exposure(s.ledger, p, prices) * rate) \div 10]))]

\* A step of candles, the books first and the risk checks after.
Candle ==
  /\ phase = "candle" /\ step < MaxSteps
  /\ \E on \in (SUBSET Pairs) \ {{}} :
     \E candles \in {c \in [on -> UNION {Candles[p] : p \in on}] : \A p \in on : c[p] \in Candles[p]},
        rate \in FundingRates :
       LET prices == [p \in Pairs |-> IF p \in on THEN candles[p].close ELSE closes[p]]
           s      == Funding(StepBooks(candles), prices, rate)
           broke  == instrument = "perp" /\ Equity(s.ledger, prices) <= 0
           t      == IF broke THEN Liquidated(s, prices) ELSE s
           floor  == FloorEquity(s.ledger, prices)
           judged == IF broke THEN [s.risk EXCEPT !.halted = TRUE]
                              ELSE RiskOnCandle(s.risk, Day(step + 1), floor)
       IN /\ IF instrument = "perp" THEN on = {1} ELSE rate = 0
          /\ ledger' = t.ledger /\ venues' = t.venues /\ recorded' = t.recorded
          /\ risk' = judged
          /\ closes' = prices
          /\ last' = [p \in DOMAIN last \cup on |-> IF p \in on THEN candles[p] ELSE last[p]]
          /\ floors' = Append(floors, floor)
          /\ phase' = IF judged.halted THEN "halted" ELSE "decide"
  /\ step' = step + 1
  /\ UNCHANGED <<instrument, restarts>>

Placed(orders) ==
  FoldLeft(LAMBDA v, order : [v EXCEPT ![order.pair] = Submitted(@, order)], venues, orders)

\* The strategy's intents, filtered by the risk manager, go to the venues.
Decide ==
  /\ phase = "decide"
  /\ \E intents \in Batches :
       LET orders == Assess(ledger, risk, closes, instrument, intents)
       IN venues' = Placed([i \in DOMAIN orders |->
                              [orders[i] EXCEPT !.step = step, !.id = <<step, i>>]])
  /\ phase' = "candle"
  /\ UNCHANGED <<instrument, step, ledger, risk, closes, last, recorded, floors, restarts>>

\* One pair of the wind-down: what is open is closed at its last close.  The
\* ledger refuses a cover it cannot pay, which ends the wind-down.
WindDown(s, p) ==
  LET size == s.ledger.pos[p].size
      fill == LiquidationFill(p, size, last[p])
      sent == [s EXCEPT !.venues[p] = Track(@, fill)]
      pnl  == Realized(s.ledger, fill)
  IN IF s.failed \/ p \notin DOMAIN last \/ size = 0 THEN s
     ELSE IF ~Accepts(s.ledger, fill, instrument) THEN [sent EXCEPT !.failed = TRUE]
     ELSE [sent EXCEPT !.ledger = ApplyFill(@, fill), !.risk = NotifyTrade(@, pnl),
                       !.recorded = Append(@, Row(fill, step, pnl))]

WoundDown ==
  FoldLeft(WindDown, [failed |-> FALSE, ledger |-> ledger, risk |-> risk, venues |-> venues,
                      recorded |-> recorded], Walk)

\* The end of a backtest; an exception leaves the orders as they are.
EndOfData ==
  /\ phase = "candle" /\ step > 0
  /\ LET out == WoundDown
     IN /\ ledger' = out.ledger /\ risk' = out.risk /\ recorded' = out.recorded
        /\ phase' = IF out.failed THEN "failed" ELSE "done"
        /\ venues' = IF out.failed THEN out.venues
                                   ELSE [p \in Pairs |-> CancelAll(out.venues[p])]
  /\ UNCHANGED <<instrument, step, closes, last, floors, restarts>>

-----------------------------------------------------------------------------
(* A restart of a shadow chain.                                            *)

\* replay_fills: a fill through apply_fill, or an exception.
ReplayFill(s, row) ==
  IF s.ok /\ Accepts(s.ledger, row, "spot")
  THEN [s EXCEPT !.ledger = ApplyFill(@, row)]
  ELSE [s EXCEPT !.ok = FALSE]

ReplaySide(s, rows, at, side) ==
  FoldLeft(LAMBDA t, row : IF row.step = at /\ row.side = side THEN ReplayFill(t, row) ELSE t,
           s, rows)

\* _load_fills: by timestamp, at one timestamp the buys before the sells.
\* Ties among those are broken by a random id, which neither what is accepted
\* nor the cash and the sizes at the end depend on: the rows' order here.
Replay(rows) ==
  FoldLeft(LAMBDA s, at : ReplaySide(ReplaySide(s, rows, at, "buy"), rows, at, "sell"),
           [ok |-> TRUE, ledger |-> NewLedger(StartingCash, FlatAccount)],
           [i \in 1 .. step |-> i])

\* The engine of a new run: with a resume state its ledger opens with the
\* replayed cash and positions, and the checkpoint is restored.
Begin(cash, pos, saved) ==
  /\ ledger' = NewLedger(cash, pos)
  /\ risk' = Restored(saved)
  /\ venues' = [p \in Pairs |-> NewVenue]

\* Stopped between candles and resumed.  A replay the ledger refuses starts a
\* chain of its own.
Restart ==
  /\ phase = "candle" /\ instrument = "spot" /\ step > 0 /\ restarts < MaxRestarts
  /\ restarts' = restarts + 1
  /\ LET replay == Replay(recorded)
     IN IF replay.ok
        THEN /\ Begin(replay.ledger.cash, replay.ledger.pos, risk)
             /\ UNCHANGED <<recorded, floors>>
        ELSE /\ Begin(StartingCash, FlatAccount, NewRisk)
             /\ recorded' = <<>> /\ floors' = <<>>
  /\ UNCHANGED <<phase, instrument, step, closes, last>>

Next == Candle \/ Decide \/ EndOfData \/ Restart

Spec == Init /\ [][Next]_vars

-----------------------------------------------------------------------------
(* Properties.                                                             *)

TypeOK ==
  /\ phase \in {"candle", "decide", "halted", "done", "failed"}
  /\ instrument \in Instruments
  /\ step \in 0 .. MaxSteps /\ restarts \in 0 .. MaxRestarts
  /\ ledger.cash \in Int /\ ledger.pos \in [Pairs -> [size : Int, cost : Int]]
  /\ instrument = "spot" => ledger.cash >= 0 /\ \A p \in Pairs : ledger.pos[p].size >= 0
  /\ risk.halted \in BOOLEAN /\ risk.losses \in 0 .. MaxLosses - 1
  /\ risk.cooldown \in 0 .. CooldownCandles
  /\ \A p \in Pairs : venues[p].armed = <<>> /\ venues[p].position \in Int
  /\ Len(floors) <= step

\* Cash and the cost of what is held are what the run opened with, plus what
\* closing trades realized and funding moved: through partial closes, flips
\* of a perp, voided fills, liquidations and a carry-in.
AccountingIdentity ==
  ledger.cash + Costs(ledger) = ledger.opening + ledger.realized + ledger.funded

\* What the venue takes for its net position is what the ledger holds, whatever
\* fills were voided in whatever order (void_fill, _track_position): by the
\* fills counted, as long as floats hold their sums exactly (module Ledger).
VenueNeverDrifts ==
  phase \in {"candle", "decide"} => \A p \in Pairs : venues[p].position = ledger.pos[p].size

\* The same within one run: a restart brings a new venue to an old position.
VenueAgreesWithLedger == restarts = 0 => VenueNeverDrifts

\* What was decided on this step, per pair.
Pending(p) == {i \in DOMAIN venues[p].orders : venues[p].orders[i].step = step}
OfOrders(p, amount(_)) == [i \in DOMAIN venues[p].orders |-> amount(venues[p].orders[i])]
Cost(p) == OfOrders(p, LAMBDA o : IF o.side = "buy" THEN o.size * PriceOf(o, closes) ELSE 0)
Bought(p) == SumFunctionOnSet(Cost(p), Pending(p))
BoughtUpTo(p, i) == SumFunctionOnSet(Cost(p), {k \in Pending(p) : k <= i})
SoldUnits(p) ==
  SumFunctionOnSet(OfOrders(p, LAMBDA o : IF o.side = "sell" THEN o.size ELSE 0), Pending(p))
Resulting(p) ==
  ledger.pos[p].size + SumFunctionOnSet(OfOrders(p, LAMBDA o : Direction(o) * o.size), Pending(p))
Gross(sizes) == SumFunction([p \in Pairs |-> Abs(sizes[p]) * closes[p]])
Sizes == [p \in Pairs |-> ledger.pos[p].size]

\* "so caps hold across the whole batch, not just per intent" (assess): the
\* orders of one decision together cost no more than the cash, stay inside
\* both caps and sell no more than is held; for a perp the position they
\* lead to stays inside the caps unless it shrinks.
BatchStaysInCaps ==
  phase = "candle" =>
    IF instrument = "spot"
    THEN LET bought == SumFunction([p \in Pairs |-> Bought(p)])
         IN /\ bought <= ledger.cash
            /\ bought > 0 => bought + Gross(Sizes) <= MaxGross
            /\ \A p \in Pairs :
                 /\ SoldUnits(p) <= ledger.pos[p].size
                 /\ \A i \in Pending(p) :
                      LET order == venues[p].orders[i]
                      IN order.side = "buy" =>
                           ledger.pos[p].size * PriceOf(order, closes) + BoughtUpTo(p, i) <= MaxPosition
    ELSE (\A p \in Pairs : \A i \in Pending(p) : venues[p].orders[i].limit = 0) =>
           /\ \A p \in Pairs : Abs(Resulting(p)) * closes[p]
                               <= Max({MaxPosition, Abs(ledger.pos[p].size) * closes[p]})
           /\ Gross([p \in Pairs |-> Resulting(p)]) <= Max({MaxGross, Gross(Sizes)})

\* "the cash budget is deflated by the taker fee + slippage so approved
\* orders are always affordable" (manager.py): all of one decision together.
\* Refuted: a batch's later buys do not see the costs of its earlier ones.
BatchIsAffordable ==
  phase = "candle" /\ instrument = "spot" =>
    SumFunction([p \in Pairs |-> Bought(p)]) * (10 + CostRate) <= 10 * ledger.cash

\* The floor at the last close of an earlier day, or the first of the chain.
FirstStep == step - Len(floors) + 1
DayFloor ==
  LET before == {i \in DOMAIN floors : Day(FirstStep + i - 1) < Day(step)}
  IN floors[IF before = {} THEN 1 ELSE Max(before)]

\* The daily rail: a run that still decides has not lost MaxDailyLoss of
\* floor equity since the last close of the day before, a gap over night and
\* a restart included.
RailHolds ==
  phase = "decide" => floors[Len(floors)] - DayFloor > -MaxDailyLoss

\* "candles to wait after max_consecutive_losses" (RiskConfig): after a
\* streak of losing exits no buy is decided on CooldownCandles - 1 candles.
\* The candle the streak ended on is one of them and the one that takes the
\* counter to 0 trades again, so CooldownCandles - 2 later ones are blocked.
Exits(rows) == {i \in DOMAIN rows : rows[i].pnl # 0}
\* Every exit after j up to i lost; j is a winning one or the chain's start.
LosingRun(rows, j, i) ==
  /\ j # 0 => j \in Exits(rows) /\ rows[j].pnl > 0
  /\ \A k \in Exits(rows) : j < k /\ k <= i => rows[k].pnl < 0
FullStreak(rows, j, i) ==
  /\ LosingRun(rows, j, i)
  /\ Cardinality({k \in Exits(rows) : j < k /\ k <= i}) = MaxLosses
StreakEndsAt(rows, i) == \E j \in 0 .. i - 1 : FullStreak(rows, j, i)
CooldownHolds ==
  phase = "candle" /\ instrument = "spot" =>
    \A i \in Exits(recorded) : StreakEndsAt(recorded, i) /\ step - recorded[i].step < CooldownCandles - 1 =>
      \A p \in Pairs : Bought(p) = 0

\* The cash and the sizes of "the final cash and positions are exactly the
\* recorded truth" (replay_fills): a replay that accepts its fills, in their
\* changed order, ends with the cash and the units of every pair the run has.
\* What the positions cost is another matter: ReplayIsExactly.
ReplayAgrees ==
  instrument = "spot" /\ phase \in {"candle", "decide"} =>
    LET replay == Replay(recorded)
    IN replay.ok => /\ replay.ledger.cash = ledger.cash
                    /\ \A p \in Pairs : replay.ledger.pos[p].size = ledger.pos[p].size

\* All of it: the final cash and positions, their average entry included, "are
\* exactly the recorded truth" (replay_fills).  Refuted: a sell before a buy of
\* one candle is replayed after it, and takes its part of another average.
ReplayIsExactly ==
  instrument = "spot" /\ phase \in {"candle", "decide"} =>
    LET replay == Replay(recorded)
    IN replay.ok => replay.ledger.cash = ledger.cash /\ replay.ledger.pos = ledger.pos

=============================================================================
