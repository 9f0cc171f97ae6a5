--------------------------- MODULE FeedsInvariant ---------------------------
(***************************************************************************)
(* The inductive invariant behind the safety properties of Feeds: where a  *)
(* candle can be between its poll and the engine, and what the warm-up     *)
(* tail, the joiner's last step and a pair's last step have to do with     *)
(* each other.                                                             *)
(***************************************************************************)
EXTENDS Feeds

Candle == [pair : pairs, ts : Nat]
Step == [ts : Nat, pairs : SUBSET pairs]

Typed ==
  /\ pairs \in Universes
  /\ now \in 1 .. MaxNow /\ faults \in 0 .. MaxFaults
  /\ served \in [pairs -> SUBSET (1 .. now)]
  /\ store \in [pairs -> SUBSET Nat]
  /\ phase \in {"down", "freshening", "streaming"} /\ todo \subseteq pairs
  /\ baseline \in [pairs -> Nat] /\ tail \in [pairs -> Nat] /\ lastTs \in [pairs -> Nat]
  /\ queue \subseteq Candle /\ dropped \subseteq Candle
  /\ pending \in [DOMAIN pending -> [pairs : SUBSET pairs, due : BOOLEAN]]
  /\ DOMAIN pending \subseteq Nat
  /\ round \subseteq DOMAIN pending /\ emitted \in Nat
  /\ step \in Step /\ seen \in Seq(Step)

\* What was polled, stored or is under way, the exchange has served.
Published ==
  /\ \A p \in pairs : store[p] \subseteq served[p]
  /\ \A p \in pairs : baseline[p] \in served[p] \cup {0} /\ lastTs[p] \in served[p] \cup {0}
  /\ \A candle \in queue : candle.ts \in served[candle.pair]
  /\ \A ts \in DOMAIN pending : \A p \in pending[ts].pairs : ts \in served[p]

\* A poller is never behind what it has delivered.
Polled ==
  /\ \A candle \in queue : candle.ts <= baseline[candle.pair]
  /\ \A p \in pairs : tail[p] <= lastTs[p] /\ tail[p] <= baseline[p]

\* The joiner: what waits comes after the last step out, and a round looks at
\* all of it.
Joining ==
  /\ \A ts \in DOMAIN pending : ts > emitted /\ pending[ts].pairs # {}
  /\ round # {} => round = DOMAIN pending
  /\ \A p \in pairs : Joined => lastTs[p] = tail[p] \/ lastTs[p] <= emitted

\* A single pair: what its poller delivered is used before it polls again.
Alone ==
  ~Joined =>
    /\ pending = <<>> /\ dropped = {} /\ round = {}
    /\ \A candle \in queue : candle.ts > lastTs[candle.pair]
    /\ \A p \in pairs : lastTs[p] <= baseline[p]

\* A run starts with nothing under way.
Unstarted ==
  phase = "freshening" =>
    queue = {} /\ pending = <<>> /\ round = {} /\ emitted = 0 /\ step = NoStep

\* The times that any later step comes after, when the warm-ups end together.
Passed(ts) == \A p \in pairs : ts <= tail[p] \/ ts <= IF Joined THEN emitted ELSE lastTs[p]

Even == \A p, q \in pairs : tail[p] = tail[q]

InOrder ==
  Even =>
    /\ \A i, j \in DOMAIN seen : i < j => seen[i].ts < seen[j].ts
    /\ \A i \in DOMAIN seen : Passed(seen[i].ts)
    /\ step # NoStep => Passed(step.ts) /\ \A i \in DOMAIN seen : seen[i].ts < step.ts

IInv == Typed /\ Published /\ Polled /\ Joining /\ Alone /\ Unstarted /\ InOrder /\ NothingLost

=============================================================================
