------------------------------- MODULE Feeds -------------------------------
(***************************************************************************)
(* How candles reach an engine in a shadow run: the store is freshened and *)
(* read for the warm-up (core/runner.py), a poller per pair follows the    *)
(* exchange (data/ingest.py), the joiner of a universe makes steps of      *)
(* their candles, and what is new is stored and handed to the engine       *)
(* (_chain_persist, _chain_persist_universe).                              *)
(*                                                                         *)
(* A candle is its open time; candle t is closed when now >= t.  Waiting   *)
(* is not timed: a poll comes at any time or never, and a grace window     *)
(* that is open may end at any time.                                       *)
(***************************************************************************)
EXTENDS Integers, Sequences, FiniteSetsExt

CONSTANTS
  Universes,  \* the sets of pairs a run may have; a pair is a number
  Warmup,     \* candles preloaded per pair
  Page,       \* KRAKEN_PAGE_SIZE: only the newest candles are served
  ColdWindow, \* candles a poller without a baseline asks for
  Faults,     \* those that happen: "refresh", "hole", "lag", "crash"
  MaxNow,     \* bound: candles
  MaxFaults   \* bound: faults

ASSUME FeedsAssumption ==
  /\ Warmup \in Nat \ {0} /\ Page \in Nat \ {0} /\ ColdWindow \in Nat
  /\ MaxNow \in Nat \ {0} /\ MaxFaults \in Nat
  /\ \A universe \in Universes : universe # {} /\ universe \subseteq Nat /\ IsFiniteSet(universe)
  /\ Faults \subseteq {"refresh", "hole", "lag", "crash"}

VARIABLES
  pairs,     \* the universe of the run
  now,
  served,    \* per pair the candles the exchange has
  store,     \* the candles table, per pair
  phase,     \* down, freshening, streaming
  todo,      \* pairs still to freshen
  baseline,  \* per poller, 0 for none
  tail,      \* warm-up tail per pair, 0 for none
  queue,     \* candles delivered by the pollers; they are taken in order of their times
  pending,   \* candle time -> the pairs that delivered it, and whether it is due
  round,     \* the pending times the joiner still looks at in this round
  emitted,   \* last_emitted
  lastTs,    \* last_ts of _chain_persist(_universe)
  step,      \* the step the engine is processing, or NoStep
  seen,      \* history: the steps the engine processed, oldest first
  dropped,   \* history: candles the joiner refused
  faults     \* history: those so far

vars == <<pairs, now, served, store, phase, todo, baseline, tail, queue, pending, round,
          emitted, lastTs, step, seen, dropped, faults>>
exchange == <<now, served>>
run == <<phase, todo, baseline, tail, queue, pending, round, emitted, lastTs, step, seen, dropped>>

Zero == [p \in pairs |-> 0]
NoStep == [ts |-> 0, pairs |-> {}]
Latest(set) == IF set = {} THEN 0 ELSE Max(set)
Newest(set, n) == {t \in set : Cardinality({u \in set : u > t}) < n}

May(fault) == fault \in Faults /\ faults < MaxFaults /\ faults' = faults + 1

Init ==
  /\ pairs \in Universes
  /\ now = 1 /\ faults = 0
  /\ served = [p \in pairs |-> {1}] /\ store = [p \in pairs |-> {}]
  /\ phase = "down" /\ todo = {}
  /\ baseline = Zero /\ tail = Zero /\ lastTs = Zero
  /\ queue = {} /\ pending = <<>> /\ round = {} /\ emitted = 0
  /\ step = NoStep /\ seen = <<>> /\ dropped = {}

-----------------------------------------------------------------------------
(* The exchange.                                                           *)

\* A candle closes.  A pair without a trade has none, one may come later.
Close ==
  /\ now < MaxNow
  /\ now' = now + 1
  /\ \E missing \in SUBSET pairs :
       /\ IF missing = {} THEN faults' = faults ELSE May("hole") \/ May("lag")
       /\ served' = [p \in pairs |-> IF p \in missing THEN served[p] ELSE served[p] \cup {now'}]
  /\ UNCHANGED <<pairs, store, run>>

\* A candle committed late, before any newer one.
Commit(p) ==
  /\ "lag" \in Faults /\ now \notin served[p]
  /\ served' = [served EXCEPT ![p] = @ \cup {now}]
  /\ UNCHANGED <<pairs, now, store, run, faults>>

\* fetch_candles: what is closed and still served, from a time on.
Fetch(p, since) == {t \in Newest(served[p], Page) : t >= since}

-----------------------------------------------------------------------------
(* The start of a run.                                                     *)

Start ==
  /\ phase = "down"
  /\ phase' = "freshening" /\ todo' = pairs
  /\ baseline' = Zero /\ tail' = Zero /\ lastTs' = Zero
  /\ queue' = {} /\ pending' = <<>> /\ round' = {} /\ emitted' = 0
  /\ step' = NoStep /\ seen' = <<>> /\ dropped' = {}
  /\ UNCHANGED <<pairs, store, exchange, faults>>

\* refresh_recent_candles of the next pair; a failure is passed over.
Refresh ==
  /\ phase = "freshening" /\ todo # {}
  /\ LET p == Min(todo)
     IN /\ todo' = todo \ {p}
        /\ \/ store' = [store EXCEPT ![p] = @ \cup Fetch(p, 0)] /\ faults' = faults
           \/ store' = store /\ May("refresh")
  /\ UNCHANGED <<pairs, exchange, phase, baseline, tail, queue, pending, round, emitted, lastTs,
                 step, seen, dropped>>

WarmCandles(p) == Newest(store[p], Warmup)

\* joined_steps: the union of the times, each with the pairs that have it.
JoinedSteps(candles) ==
  LET times  == UNION {candles[p] : p \in pairs}
      nth(i) == CHOOSE ts \in times : Cardinality({u \in times : u < ts}) = i - 1
  IN [i \in 1 .. Cardinality(times) |->
        [ts |-> nth(i), pairs |-> {p \in pairs : nth(i) \in candles[p]}]]

\* The baseline a poller is seeded with.
Seed(p) == Latest(WarmCandles(p))

\* The warm-up is read in one transaction and walked through before the
\* pollers start.
ReadWarmup ==
  /\ phase = "freshening" /\ todo = {}
  /\ phase' = "streaming"
  /\ tail' = [p \in pairs |-> Latest(WarmCandles(p))]
  /\ lastTs' = tail'
  /\ baseline' = [p \in pairs |-> Seed(p)]
  /\ seen' = JoinedSteps([p \in pairs |-> WarmCandles(p)])
  /\ UNCHANGED <<pairs, store, exchange, todo, queue, pending, round, emitted, step, dropped, faults>>

-----------------------------------------------------------------------------
(* The pollers.                                                            *)

Joined == Cardinality(pairs) > 1

\* Mutant of Since: a window that slides with the clock.
SinceNow(p) == now

\* The first time a poll asks for.
Since(p) ==
  IF baseline[p] > 0 THEN baseline[p] + 1
  ELSE IF now > ColdWindow THEN now - ColdWindow ELSE 1

\* poll_once; all it returns goes into the unbounded queue of the joiner.
\* The poller of a single pair is not resumed before its candles are used.
Poll(p) ==
  /\ phase = "streaming"
  /\ ~Joined => queue = {} /\ step = NoStep
  /\ LET new == {t \in Fetch(p, Since(p)) : t > baseline[p]}
     IN /\ new # {}
        /\ queue' = queue \cup {[pair |-> p, ts |-> t] : t \in new}
        /\ baseline' = [baseline EXCEPT ![p] = Max(new)]
  /\ UNCHANGED <<pairs, store, exchange, phase, todo, tail, pending, round, emitted, lastTs, step,
                 seen, dropped, faults>>

-----------------------------------------------------------------------------
(* The joiner.                                                             *)

\* buffer refuses what is late and keeps the rest by its time.
Late == {candle \in queue : candle.ts <= emitted}

Delivered(ts) == IF ts \in DOMAIN pending THEN pending[ts].pairs ELSE {}

Buffered ==
  LET kept == queue \ Late
  IN [ts \in DOMAIN pending \cup {candle.ts : candle \in kept} |->
        [pairs |-> Delivered(ts) \cup {p \in pairs : [pair |-> p, ts |-> ts] \in kept},
         due   |-> ts \in DOMAIN pending /\ pending[ts].due]]

\* The queue is drained, then the pending times are looked at in order.
Drain ==
  /\ phase = "streaming" /\ Joined
  /\ round = {} /\ step = NoStep
  /\ queue # {} \/ \E ts \in DOMAIN pending : pending[ts].due
  /\ pending' = Buffered /\ dropped' = dropped \cup Late
  /\ round' = DOMAIN Buffered
  /\ queue' = {}
  /\ UNCHANGED <<pairs, store, exchange, phase, todo, baseline, tail, emitted, lastTs, step, seen, faults>>

\* The grace window of a pending step ends.
Expire(ts) ==
  /\ phase = "streaming" /\ ts \in DOMAIN pending /\ ~pending[ts].due
  /\ pending' = [pending EXCEPT ![ts].due = TRUE]
  /\ UNCHANGED <<pairs, store, exchange, phase, todo, baseline, tail, queue, round, emitted, lastTs,
                 step, seen, dropped, faults>>

Ready(ts) == pending[ts].pairs = pairs \/ pending[ts].due

\* Mutants of NextReady: a complete step overtakes one that waits; a step
\* waits for every pair whatever the grace window says.
NextReadyAny == {ts \in round : Ready(ts)}
NextReadyWhole == {ts \in round : ts = Min(round) /\ pending[ts].pairs = pairs}

\* The round ends at the first step that has to wait.
NextReady == {ts \in round : ts = Min(round) /\ Ready(ts)}

\* What is not covered by the warm-up or an earlier step.
FreshPairs(ts, delivered) == {p \in delivered : ts > lastTs[p]}

\* What is new is stored before the engine has it.
Deliver(ts, delivered) ==
  LET fresh == FreshPairs(ts, delivered)
  IN /\ lastTs' = [p \in pairs |-> IF p \in fresh THEN ts ELSE lastTs[p]]
     /\ store' = [p \in pairs |-> IF p \in fresh THEN store[p] \cup {ts} ELSE store[p]]
     /\ step' = IF fresh = {} THEN NoStep ELSE [ts |-> ts, pairs |-> fresh]

Emit ==
  /\ phase = "streaming" /\ step = NoStep /\ round # {}
  /\ IF NextReady = {}
     THEN round' = {} /\ UNCHANGED <<pending, emitted, lastTs, store, step>>
     ELSE LET ts == Min(NextReady)
          IN /\ round' = {t \in round : t > ts}
             /\ pending' = [t \in DOMAIN pending \ {ts} |-> pending[t]]
             /\ emitted' = ts
             /\ Deliver(ts, pending[ts].pairs)
  /\ UNCHANGED <<pairs, exchange, phase, todo, baseline, tail, queue, seen, dropped, faults>>

\* The candles of a single pair need no joiner.
Pass ==
  /\ phase = "streaming" /\ ~Joined /\ step = NoStep
  /\ \E candle \in queue :
       /\ \A other \in queue : candle.ts <= other.ts
       /\ queue' = queue \ {candle}
       /\ Deliver(candle.ts, {candle.pair})
  /\ UNCHANGED <<pairs, exchange, phase, todo, baseline, tail, pending, round, emitted, seen, dropped,
                 faults>>

\* The engine has processed its step and asks for the next.
Process ==
  /\ phase = "streaming" /\ step # NoStep
  /\ seen' = Append(seen, step)
  /\ step' = NoStep
  /\ UNCHANGED <<pairs, store, exchange, phase, todo, baseline, tail, queue, pending, round, emitted,
                 lastTs, dropped, faults>>

\* A failed insert ends the run, so does a crash; the store stays.
Fail ==
  /\ phase # "down" /\ May("crash")
  /\ phase' = "down"
  /\ UNCHANGED <<pairs, store, exchange, todo, baseline, tail, queue, pending, round, emitted, lastTs,
                 step, seen, dropped>>

Stream == (\E p \in pairs : Poll(p)) \/ Drain \/ Emit \/ Pass \/ Process

Next ==
  \/ Close \/ (\E p \in pairs : Commit(p))
  \/ Start \/ Refresh \/ ReadWarmup
  \/ Stream \/ (\E ts \in 1 .. MaxNow : Expire(ts))
  \/ Fail

\* The event loop runs whoever can go on; a grace window ends.
Spec ==
  /\ Init /\ [][Next]_vars
  /\ \A p \in 1 .. 2 : WF_vars(p \in pairs /\ Poll(p))
  /\ WF_vars(Drain) /\ WF_vars(Emit) /\ WF_vars(Pass) /\ WF_vars(Process)
  /\ \A ts \in 1 .. MaxNow : WF_vars(Expire(ts))

-----------------------------------------------------------------------------
(* Properties.                                                             *)

TypeOK ==
  /\ now \in 1 .. MaxNow /\ faults \in 0 .. MaxFaults
  /\ served \in [pairs -> SUBSET (1 .. now)] /\ store \in [pairs -> SUBSET (1 .. now)]
  /\ phase \in {"down", "freshening", "streaming"} /\ todo \subseteq pairs
  /\ baseline \in [pairs -> 0 .. now] /\ lastTs \in [pairs -> 0 .. now]
  /\ \A ts \in DOMAIN pending : ts > emitted /\ pending[ts].pairs # {}
  /\ round \subseteq DOMAIN pending
  /\ ~Joined => pending = <<>> /\ dropped = {}

TimesOf(p) == {seen[i].ts : i \in {j \in DOMAIN seen : p \in seen[j].pairs}}

Rising(times) == \A i, j \in DOMAIN times : i < j => times[i] < times[j]

\* "in timestamp order, like the backtest's joined_steps" (stream): if every
\* pair's warm-up ended at the same candle, the engine sees one step per
\* time, later than the one before, however late or missing a pair is.
StepsRise ==
  (\A p, q \in pairs : tail[p] = tail[q]) => Rising([i \in DOMAIN seen |-> seen[i].ts])

\* "a rewound clock, which engines never do" (DbOrderFlowProvider).  Refuted
\* when the pairs' warm-ups end at different candles: see the README.
ClockNeverRewinds == \A i \in DOMAIN seen : i > 1 => seen[i].ts >= seen[i - 1].ts

\* "A failed poll loses no data" (stream): what the exchange still serves
\* and lies between the warm-up and the baseline is on its way, in a step,
\* or was refused because its step had gone out without it.
NothingLost ==
  phase = "streaming" =>
    \A p \in pairs : tail[p] > 0 => \A t \in Fetch(p, tail[p] + 1) : t <= baseline[p] =>
      \/ [pair |-> p, ts |-> t] \in queue \cup dropped
      \/ t \in DOMAIN pending /\ p \in pending[t].pairs
      \/ t = step.ts /\ p \in step.pairs
      \/ t \in TimesOf(p)

Owed(p, t) == p \in pairs /\ phase = "streaming" /\ tail[p] > 0 /\ t \in Fetch(p, tail[p] + 1)

\* In a run that goes on, a candle after the warm-up reaches the engine or
\* is refused, unless it leaves the served page before it is polled.
CandlesArrive ==
  \A p \in 1 .. 2, t \in 1 .. MaxNow :
    Owed(p, t) ~> ~Owed(p, t) \/ t \in TimesOf(p) \/ [pair |-> p, ts |-> t] \in dropped

=============================================================================
