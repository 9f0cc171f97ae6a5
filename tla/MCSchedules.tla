---------------------------- MODULE MCSchedules -----------------------------
(* A week of three days of eight units; candles of two.                     *)
EXTENDS Schedules

Hours(a, b) == [start |-> a, end |-> b]

\* Two sessions in one candle, a closed day, a session to midnight; the clocks
\* go back within a session, or forward over an opening; an overridden day.
MCPlans == {
    [zone |-> [before |-> 1, after |-> 0, at |-> 12],
     week |-> [d \in 0..2 |-> CASE d = 0 -> <<Hours(3, 4), Hours(4, 6)>>
                                [] d = 1 -> <<Hours(4, 6)>>
                                [] d = 2 -> <<>>],
     overrides |-> [d \in {} |-> <<>>]],
    [zone |-> [before |-> 0, after |-> 1, at |-> 10],
     week |-> [d \in 0..2 |-> IF d = 2 THEN <<Hours(5, 8)>> ELSE <<Hours(2, 4)>>],
     overrides |-> [d \in {1} |-> <<>>]]}

MCTapes == {<<2, 3, 3, 4, 9, 9>>, <<1, 2, 2, 7, 8, 10>>}

=============================================================================
