----------------------------- MODULE MCReports -----------------------------
(***************************************************************************)
(* A small instance of Reports for TLC: a configuration, the same strategy *)
(* at other rates and another strategy; a backtest of each of the first    *)
(* two, one that covers too little of what it was asked for, one too short *)
(* to plan with and one that is a slice of a sweep.                        *)
(***************************************************************************)
EXTENDS Reports

Frozen == [identity |-> "i", rates |-> 1]
Repriced == [identity |-> "i", rates |-> 2]
Another == [identity |-> "j", rates |-> 1]
MCConfigs == {Frozen, Repriced, Another}
MCOriginals == {Frozen}

Backtest == [config |-> Frozen, usable |-> TRUE, requested |-> 4, window |-> 4, snapshots |-> 2,
             completed |-> 2]
MCReferences ==
  {Backtest, [Backtest EXCEPT !.config = Repriced], [Backtest EXCEPT !.requested = 9],
   [Backtest EXCEPT !.window = 3], [Backtest EXCEPT !.usable = FALSE]}

MCReplays ==
  {[gap |-> 0, fills |-> 1, late |-> FALSE, lost |-> {}],
   [gap |-> 1, fills |-> 0, late |-> TRUE,  lost |-> {4}]}

MCMoves == {-1, 2}
MCPeriods == {<<1, 5>>, <<4, 6>>}

=============================================================================
