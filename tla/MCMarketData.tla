---------------------------- MODULE MCMarketData ----------------------------
(* Histories whose bursts straddle a page, leave a window empty, repeat a   *)
(* key within a millisecond, or are spread evenly.                          *)
EXTENDS MarketData

Trade(t, k) == [ts |-> t, key |-> k]

MCTapes == {
    <<Trade(1, 1), Trade(2, 1), Trade(2, 2), Trade(2, 1), Trade(3, 1)>>,
    <<Trade(1, 1), Trade(1, 2), Trade(2, 1), Trade(2, 2), Trade(4, 1)>>,
    <<Trade(1, 1), Trade(2, 1), Trade(3, 1), Trade(4, 1)>>,
    <<Trade(1, 1), Trade(4, 1)>>}
=============================================================================
