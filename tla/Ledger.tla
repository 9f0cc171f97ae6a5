------------------------------- MODULE Ledger -------------------------------
(***************************************************************************)
(* The in-memory accounting of a run (ledger/ledger.py): cash, and per     *)
(* pair a signed position with its cost basis.  Money and sizes are whole  *)
(* numbers; the average entry price is kept as the cost of the whole       *)
(* position, so what a partial close takes of it is rounded and nothing    *)
(* is lost to rounding.                                                    *)
(*                                                                         *)
(* A unit is the smallest step of a size.  The code keeps a position and   *)
(* its average entry in float and adds to them as Decimals (apply_fill):   *)
(* while a position has at most 15 significant digits its sums come back   *)
(* as they were, and adding is what it is here.  What a longer position    *)
(* loses to rounding, and that a paper venue, which sums in Decimal, does  *)
(* not lose it, is left out.                                               *)
(***************************************************************************)
EXTENDS Integers, Sequences, FiniteSets, SequencesExt

CONSTANT Pairs

ASSUME PairsAssumption == IsFiniteSet(Pairs) /\ Pairs = 1 .. Cardinality(Pairs)

\* The order an engine walks the pairs in.
Walk == [i \in 1 .. Cardinality(Pairs) |-> i]

Flat == [size |-> 0, cost |-> 0]

Abs(n) == IF n < 0 THEN -n ELSE n
Least(a, b) == IF a < b THEN a ELSE b

Costs(l) == SumFunction([p \in Pairs |-> l.pos[p].cost])

\* A fresh ledger, or one that carries a predecessor's cash and positions in.
NewLedger(cash, pos) ==
  LET l == [cash |-> cash, pos |-> pos, realized |-> 0, funded |-> 0, opening |-> 0]
  IN [l EXCEPT !.opening = cash + Costs(l)]

Direction(f) == IF f.side = "buy" THEN 1 ELSE -1
Amount(f) == f.price * f.size

\* InsufficientFunds and InsufficientPosition.  A perp may go short.
Accepts(l, f, instrument) ==
  IF f.side = "buy" THEN Amount(f) + f.fee <= l.cash
                    ELSE instrument = "perp" \/ f.size <= l.pos[f.pair].size

\* The part of a fill that brings the position nearer to zero, and what that
\* part of the position cost.
Closing(pos, f) == IF pos.size * Direction(f) < 0 THEN Least(f.size, Abs(pos.size)) ELSE 0
Basis(pos, part) ==
  IF part = Abs(pos.size) THEN pos.cost ELSE (pos.cost * part) \div Abs(pos.size)

FeeOf(f, part) == IF part = f.size THEN f.fee ELSE (f.fee * part) \div f.size

\* Mutant of Realized: profit before fees.
RealizedGross(l, f) ==
  LET pos == l.pos[f.pair]
      closing == Closing(pos, f)
  IN -Direction(f) * closing * f.price - Basis(pos, closing)

\* Profit of the closing part: its proceeds less its cost and its fee.
Realized(l, f) ==
  LET pos == l.pos[f.pair]
      closing == Closing(pos, f)
  IN -Direction(f) * closing * f.price - Basis(pos, closing) - FeeOf(f, closing)

ApplyFill(l, f) ==
  LET pos == l.pos[f.pair]
      closing == Closing(pos, f)
      opening == f.size - closing
  IN [l EXCEPT !.cash = @ - Direction(f) * Amount(f) - f.fee,
               !.realized = @ + Realized(l, f),
               !.pos[f.pair] =
                  [size |-> pos.size + Direction(f) * f.size,
                   cost |-> pos.cost - Basis(pos, closing)
                              + Direction(f) * opening * f.price + f.fee - FeeOf(f, closing)]]

ApplyFunding(l, amount) == [l EXCEPT !.cash = @ + amount, !.funded = @ + amount]

Exposure(l, p, prices) == l.pos[p].size * prices[p]

Equity(l, prices) == l.cash + SumFunction([p \in Pairs |-> Exposure(l, p, prices)])

=============================================================================
