----------------------------- MODULE PaperVenue -----------------------------
(***************************************************************************)
(* The simulated venue of one pair (venues/paper.py): what a candle does   *)
(* to the orders submitted on the last one and to the armed protections,   *)
(* and how a fill the ledger refuses is rolled back.                       *)
(*                                                                         *)
(* A candle is a record open, high, low, close.  An order carries a limit, *)
(* a stop and a target, 0 for none, and the step it was decided on.        *)
(***************************************************************************)
EXTENDS RiskManager

CONSTANTS
  TakerFee, MakerFee,  \* tenths of an amount
  Slippage,            \* tenths of a price
  MarketableLimit      \* "maker", "taker" or "skip"

ASSUME VenueAssumption ==
  /\ MarketableLimit \in {"maker", "taker", "skip"}
  /\ TakerFee \in 0 .. 10 /\ MakerFee \in 0 .. 10 /\ Slippage \in 0 .. 10

\* position: the net of the venue's own fills.
NewVenue == [orders |-> <<>>, protections |-> <<>>, armed |-> <<>>, position |-> 0]

Submitted(v, order) == [v EXCEPT !.orders = Append(@, order)]

Slipped(price, side) ==
  LET slip == (price * Slippage) \div 10
  IN IF side = "buy" THEN price + slip ELSE price - slip

MakeFill(order, size, price, rate) ==
  [pair |-> order.pair, side |-> order.side, size |-> size, price |-> price,
   fee |-> (price * size * rate) \div 10, order |-> order.id, exit |-> FALSE, of |-> order]

MarketFill(order, candle) ==
  MakeFill(order, order.size, Slipped(candle.open, order.side), TakerFee)

\* is_marketable_at_posting
Marketable(order, candle) ==
  IF order.side = "buy" THEN order.limit >= candle.open ELSE order.limit <= candle.open

Touched(order, candle) ==
  IF order.side = "buy" THEN candle.low <= order.limit ELSE candle.high >= order.limit

LimitFill(order, candle) ==
  MakeFill(order, order.size,
           IF order.side = "buy" THEN Least(order.limit, candle.open)
                                 ELSE Max({order.limit, candle.open}),
           IF MarketableLimit = "taker" /\ Marketable(order, candle) THEN TakerFee ELSE MakerFee)

\* A limit lives through the candle after its decision, if there is one.
LimitFills(order, candle, step) ==
  /\ step <= order.step + 1
  /\ ~(MarketableLimit = "skip" /\ Marketable(order, candle))
  /\ Touched(order, candle)

-----------------------------------------------------------------------------
(* A candle, folded over the orders and then the protections.  The state   *)
(* of the fold is the venue and the fills so far.                          *)

\* _track_position: flat at any point drops every protection of the pair.
Track(v, fill) ==
  LET position == v.position + Direction(fill) * fill.size
  IN IF position <= 0
     THEN [v EXCEPT !.position = position, !.protections = <<>>, !.armed = <<>>]
     ELSE [v EXCEPT !.position = position]

\* _arm_protection, after the position was tracked.
Arm(v, order) ==
  IF order.side = "buy" /\ (order.stop > 0 \/ order.target > 0)
  THEN [v EXCEPT !.armed = Append(@, order)]
  ELSE v

Filled(s, fill) ==
  [venue |-> Arm(Track(s.venue, fill), fill.of), fills |-> Append(s.fills, fill)]

TryMarket(s, order, candle) ==
  IF order.limit = 0 THEN Filled(s, MarketFill(order, candle)) ELSE s

FillMarkets(s, candle) ==
  FoldLeft(LAMBDA t, order : TryMarket(t, order, candle), s, s.venue.orders)

TryLimit(s, order, candle, step) ==
  IF order.limit > 0 /\ LimitFills(order, candle, step)
  THEN Filled(s, LimitFill(order, candle)) ELSE s

FillLimits(s, candle, step) ==
  FoldLeft(LAMBDA t, order : TryLimit(t, order, candle, step), s, s.venue.orders)

StopHit(order, candle) == order.stop > 0 /\ candle.low <= order.stop
TargetHit(order, candle) == order.target > 0 /\ candle.high >= order.target

\* The exit of an entry: its stop first, for what is left of the position.
ExitFill(v, order, candle) ==
  LET size == Least(order.size, v.position)
      exit == [order EXCEPT !.side = "sell", !.id = <<"exit", order.id>>]
      fill == IF StopHit(order, candle)
              THEN MakeFill(exit, size, Slipped(Least(order.stop, candle.open), "sell"), TakerFee)
              ELSE MakeFill(exit, size, Max({order.target, candle.open}), MakerFee)
  IN [fill EXCEPT !.exit = TRUE, !.of = order]

Fire(s, order, candle) ==
  IF s.venue.position <= 0 THEN s
  ELSE IF StopHit(order, candle) \/ TargetHit(order, candle)
       THEN LET fill == ExitFill(s.venue, order, candle)
            IN [s EXCEPT !.venue = Track(@, fill), !.fills = Append(@, fill)]
       ELSE [s EXCEPT !.kept = Append(@, order)]

FireAll(s, candle) ==
  FoldLeft(LAMBDA t, order : Fire(t, order, candle),
           [venue |-> s.venue, fills |-> s.fills, kept |-> <<>>], s.venue.protections)

\* The loop runs over the protections it started with and keeps the
\* untouched ones; those armed on this candle join for the next.
FireProtections(s, candle) ==
  LET t == FireAll(s, candle)
  IN [venue |-> [t.venue EXCEPT !.protections = t.kept \o t.venue.armed, !.armed = <<>>],
      fills |-> t.fills]

VenueOnCandle(v, candle, step) ==
  LET s == FireProtections(FillLimits(FillMarkets([venue |-> v, fills |-> <<>>], candle),
                                      candle, step),
                           candle)
  IN [s EXCEPT !.venue.orders = <<>>]

Without(orders, id) ==
  FoldLeft(LAMBDA kept, order : IF order.id = id THEN kept ELSE Append(kept, order), <<>>, orders)

\* Mutant of Voided: the net position keeps the voided fill.
VoidedForgets(v, fill) ==
  [v EXCEPT !.protections = Without(@, fill.order)]

\* void_fill: a voided entry loses its protection, a voided exit re-arms it.
Voided(v, fill) ==
  [v EXCEPT !.position = @ - Direction(fill) * fill.size,
            !.protections = IF fill.exit THEN Append(@, fill.of) ELSE Without(@, fill.order)]

\* liquidate: the whole position at the close.
LiquidationFill(pair, size, candle) ==
  LET side == IF size > 0 THEN "sell" ELSE "buy"
  IN [pair |-> pair, side |-> side, size |-> Abs(size), price |-> Slipped(candle.close, side),
      fee |-> (Slipped(candle.close, side) * Abs(size) * TakerFee) \div 10,
      order |-> <<"end", pair>>, exit |-> FALSE, of |-> <<>>]

CancelAll(v) == [v EXCEPT !.orders = <<>>, !.protections = <<>>]

=============================================================================
