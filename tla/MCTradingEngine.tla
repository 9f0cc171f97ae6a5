-------------------------- MODULE MCTradingEngine --------------------------
(***************************************************************************)
(* Small instances of TradingEngine for TLC: a calm candle, a dip that     *)
(* hits stops, a jump beyond the price cushion and a fall.                 *)
(***************************************************************************)
EXTENDS TradingEngine

Bar(o, h, l, c) == [open |-> o, high |-> h, low |-> l, close |-> c]
Calm == Bar(10, 10, 10, 10)
Dip  == Bar(10, 10, 7, 10)
Jump == Bar(14, 15, 14, 14)
Fall == Bar(7, 7, 6, 6)

MCCandles == <<{Dip, Jump, Fall}, {Calm}>>

Intent(pair, side, size, limit, stop, target) ==
  [pair |-> pair, side |-> side, size |-> size, limit |-> limit, stop |-> stop,
   target |-> target, id |-> <<>>, step |-> 0]
Buy(size)  == Intent(1, "buy", size, 0, 0, 0)
Sell(size) == Intent(1, "sell", size, 0, 0, 0)
Guarded(size, stop) == Intent(1, "buy", size, 0, stop, 15)
Limit(side) == Intent(1, side, 1, 8, 0, 0)

Other(side, size) == Intent(2, side, size, 0, 0, 0)

MCBatches == {<<>>, <<Buy(3)>>, <<Guarded(1, 6), Guarded(1, 8)>>, <<Sell(1), Buy(2)>>,
              <<Other("buy", 2), Limit("buy")>>, <<Sell(2)>>}

=============================================================================
