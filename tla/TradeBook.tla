----------------------------- MODULE TradeBook -----------------------------
(***************************************************************************)
(* What the books owe the exchange: an order executes units, a row of the  *)
(* books records some of what its order executed, never more, and nothing  *)
(* recorded is ever taken back.  Behind a row there may be crashes, failed *)
(* polls and a reconciliation that reads the same trades again             *)
(* (core/live_reconcile.py: "a re-run records nothing twice").             *)
(***************************************************************************)
EXTENDS Naturals

CONSTANTS Orders, Rows, OrderOf(_)

VARIABLES
  executed,  \* units by order
  recorded   \* units by row

Init == executed = [o \in Orders |-> 0] /\ recorded = [r \in Rows |-> 0]

Execute(o) == executed' = [executed EXCEPT ![o] = @ + 1] /\ UNCHANGED recorded

Record ==
  /\ UNCHANGED executed
  /\ DOMAIN recorded' = Rows
  /\ \A r \in Rows : recorded[r] <= recorded'[r] /\ recorded'[r] <= executed[OrderOf(r)]

Next == Record \/ \E o \in Orders : Execute(o)

Spec == Init /\ [][Next]_<<executed, recorded>>

=============================================================================
