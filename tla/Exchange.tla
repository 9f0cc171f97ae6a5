------------------------------ MODULE Exchange ------------------------------
(***************************************************************************)
(* The spot account on Kraken, as venues/kraken_client.py sees it: orders  *)
(* of one pair, the trades they execute, and the base asset held.  It is   *)
(* not part of the repository; what the code relies on is modelled:        *)
(* post-only limits end at their GTD expiry, a cancelled order executes no *)
(* more, a trade names its order and carries a timestamp, trades of one    *)
(* order may share it.                                                     *)
(*                                                                         *)
(* An order's index is its txid, a trade's index its trade id.  A trade    *)
(* executes one unit.  Time is counted in ticks, several to a candle; a    *)
(* tick is longer than CURSOR_MARGIN_MS.                                   *)
(***************************************************************************)
EXTENDS Integers, Sequences, FiniteSets, FiniteSetsExt

CONSTANTS
  MaxOrders,  \* bound: orders ever placed
  MaxTrades,  \* bound: trades ever executed
  MaxClock,   \* bound: ticks
  MaxSize     \* bound: units of one order

ASSUME ExchangeAssumption ==
  MaxOrders \in Nat /\ MaxTrades \in Nat /\ MaxClock \in Nat /\ MaxSize \in Nat \ {0}

VARIABLES
  clock,   \* the exchange's (and the host's) time
  orders,  \* orders by txid
  trades   \* executed trades by id, oldest first

exchangeVars == <<clock, orders, trades>>

Txids == 1 .. MaxOrders
TradeIds == 1 .. MaxTrades
Never == 0

\* origin: placed by the platform and acknowledged, placed but the
\* acknowledgement was lost, or placed by someone else.
ExchangeOrder ==
  [side    : {"buy", "sell"},
   size    : 1 .. MaxSize,
   expires : 0 .. 2 * MaxClock,
   origin  : {"own", "lost", "foreign"},
   state   : {"inflight", "open", "closed"}]

ExchangeTrade == [order : Txids, ts : 0 .. MaxClock]

ExchangeTypeOK ==
  /\ clock \in 0 .. MaxClock
  /\ orders \in Seq(ExchangeOrder) /\ Len(orders) <= MaxOrders
  /\ trades \in Seq(ExchangeTrade) /\ Len(trades) <= MaxTrades

Sign(o) == IF orders[o].side = "buy" THEN 1 ELSE -1
TradesOf(o, ids) == {i \in ids : trades[i].order = o}
Executed(o) == Cardinality(TradesOf(o, DOMAIN trades))

\* What a set of trades moved into the account.
OnSide(side, ids) == {i \in ids : orders[trades[i].order].side = side}
NetOf(ids) == Cardinality(OnSide("buy", ids)) - Cardinality(OnSide("sell", ids))

\* fetch_balances: the base asset held.
Holding == NetOf(DOMAIN trades)

\* fetch_open_order_ids.
OpenIds == {o \in DOMAIN orders : orders[o].state = "open"}

\* fetch_my_trades(pair, since).
TradesSince(ts) == {i \in DOMAIN trades : trades[i].ts >= ts}

Closed(S) ==
  [o \in DOMAIN orders |-> IF o \in S THEN [orders[o] EXCEPT !.state = "closed"] ELSE orders[o]]

NewOrder(side, size, expires, origin, state) ==
  Append(orders, [side |-> side, size |-> size, expires |-> expires,
                  origin |-> origin, state |-> state])

ExchangeInit == clock = 0 /\ orders = <<>> /\ trades = <<>>

\* Time passes; Kraken ends the limits whose GTD expiry has come.
Tick ==
  /\ clock < MaxClock
  /\ clock' = clock + 1
  /\ orders' = Closed({o \in DOMAIN orders :
                         orders[o].expires # Never /\ orders[o].expires <= clock + 1})
  /\ UNCHANGED trades

\* An open order executes one unit; the account never goes short.
Execute(o) ==
  /\ o \in OpenIds
  /\ Len(trades) < MaxTrades
  /\ Holding + Sign(o) >= 0
  /\ trades' = Append(trades, [order |-> o, ts |-> clock])
  /\ orders' = IF Executed(o) + 1 = orders[o].size THEN Closed({o}) ELSE orders
  /\ UNCHANGED clock

\* A placement whose caller stopped waiting arrives.
Land(o) ==
  /\ o \in DOMAIN orders /\ orders[o].state = "inflight"
  /\ orders' = [orders EXCEPT ![o].state = "open"]
  /\ UNCHANGED <<clock, trades>>

ExchangeNext == Tick \/ \E o \in DOMAIN orders : Execute(o) \/ Land(o)

=============================================================================
