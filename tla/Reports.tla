------------------------------ MODULE Reports ------------------------------
(***************************************************************************)
(* What is read off the runs of a shadow assignment: a forward trial       *)
(* (api/routes/research.py, report/forward.py), registered on a running    *)
(* chain and judged anew at every request, and the equity curves stitched  *)
(* of several runs (report/equity.py, report/rolling.py).                  *)
(*                                                                         *)
(* The runs, their candles and the research ledger are the environment:    *)
(* how runs come and go is in module Supervisor, how candles come in       *)
(* module Feeds.  A candle lasts Step ticks and its rows carry the time it *)
(* opened.  Money is in whole units.  Left out are the Sharpe gate and the *)
(* notional a position must reach to be counted (completed_positions):     *)
(* every position here is large enough.                                    *)
(***************************************************************************)
EXTENDS Integers, SequencesExt, FiniteSetsExt

CONSTANTS
  Configs,      \* configurations, records [identity, rates]
  Originals,    \* those of them that the first run may have
  References,   \* backtests to plan with, records [config, usable, requested, window,
                \* snapshots, completed]
  Step,         \* ticks per candle
  Capital,      \* capital_eur, the cash a fresh run starts with
  MinPositions, \* min_completed_positions
  MinReference, \* PLAN_MIN_REFERENCE_POSITIONS
  MinWindow,    \* PLAN_MIN_REFERENCE_WINDOW_DAYS
  MinHorizon,   \* PLAN_MIN_HORIZON_DAYS
  MaxHorizon,   \* PLAN_MAX_HORIZON_DAYS
  MinCoverage,  \* min_coverage and PLAN_MIN_WINDOW_COVERAGE, in percent
  MaxDrawdown,  \* max_drawdown_pct
  OuterLoss,    \* outer_loss_eur
  Lots,         \* units a strategy buys
  Moves,        \* what the equity may do on a candle with a position
  Ends,         \* how a run may end: "crash", "stopped", "watchdog", "risk", "failed"
  Periods,      \* periods an attestation or a cost may have, <<from, to>>
  Days,         \* the window of a rolling-origin report
  MinOverlap,   \* MIN_OVERLAP_DAYS
  MinCommon,    \* common observations a comparison needs
  Replays,      \* what a report's backtest may give, records [gap, fills, late, lost]
  Rewinds,      \* whether a restart may process the last candle again (a universe's)
  MaxNow,       \* bound: ticks
  MaxRuns,      \* bound: runs
  MaxLedger     \* bound: rows of the research ledger

ASSUME ReportsAssumption ==
  /\ Capital \in Nat /\ Lots \in Nat \ {0} /\ Moves \subseteq Int
  /\ Step \in Nat \ {0} /\ MinPositions \in Nat \ {0} /\ MinReference \in Nat \ {0}
  /\ MinHorizon \in Nat \ {0}
  /\ Rewinds \in BOOLEAN /\ Originals \subseteq Configs
  /\ Ends \subseteq {"crash", "stopped", "watchdog", "risk", "failed"}
  /\ \A p \in Periods : p[1] \in Nat /\ p[2] \in Nat /\ p[1] <= p[2]
  /\ \A r \in References : r.window \in Nat \ {0} /\ r.completed \in Nat
  /\ \A r \in Replays : r.gap \in -1 .. 1 /\ r.fills \in Nat

None == "none"

VARIABLES
  now,
  alive,    \* the newest run is a process
  runs,     \* the runs table of the assignment, oldest first
  points,   \* equity_snapshots, in the order they were written
  fills,    \* fills, likewise
  order,    \* units of the open order: bought if positive, sold if negative
  ledger,   \* the newest run's units held and equity
  next,     \* when the next candle to process opens
  costs,    \* research_ledger
  trial,    \* the forward_trials row, or NoTrial
  truth     \* history: what happened to the trial, kept apart from the rows

vars == <<now, alive, runs, points, fills, order, ledger, next, costs, trial, truth>>

Halts == {None, "superseded", "stopped", "watchdog", "risk"}
Tip == Last(runs)
NewLedger == [held |-> 0, equity |-> Capital]
NoTrial == [start |-> 0, end |-> 0, root |-> 0, config |-> None]
Registered == trial.root > 0
NoTruth == [frozen |-> TRUE, whole |-> TRUE, clean |-> TRUE, entered |-> 0, completed |-> 0,
            equity |-> Capital]

Init ==
  /\ now = 1 /\ alive = FALSE
  /\ runs = <<>> /\ points = <<>> /\ fills = <<>>
  /\ order = 0 /\ ledger = NewLedger /\ next = 0
  /\ costs = {} /\ trial = NoTrial /\ truth = NoTruth

-----------------------------------------------------------------------------
(* The environment.                                                        *)

InWindow(t) == Registered /\ trial.start <= t /\ t < trial.end

Tick ==
  /\ now < MaxNow
  /\ now' = now + 1
  /\ UNCHANGED <<alive, runs, points, fills, order, ledger, next, costs, trial, truth>>

\* is_resumable: the identity is the predecessor's, whatever the rates are,
\* and it neither failed nor ran into the risk rail.
Resumes(config) ==
  /\ runs # <<>> /\ Tip.config.identity = config.identity
  /\ Tip.status # "failed" /\ Tip.halt # "risk"

\* The last candle again: a pair that missed its grace window delivers it after
\* the restart.  Bound: a restart goes back no further.
Again == IF Rewinds /\ points # <<>> /\ Last(points).ts = next - Step THEN {next - Step} ELSE {}

\* A stale row is superseded first.  The warm-up covers what closed so far,
\* as far as the store was freshened.
StartRun ==
  /\ ~alive /\ Len(runs) < MaxRuns
  /\ \E config \in IF runs = <<>> THEN Originals ELSE Configs :
       LET resumed == Resumes(config)
           stale   == runs # <<>> /\ Tip.status = "running"
           before  == IF stale THEN [runs EXCEPT ![Len(runs)] =
                                       [@ EXCEPT !.status = "halted", !.halt = "superseded", !.ended = now]]
                               ELSE runs
           row     == [config |-> config, started |-> now, ended |-> 0, status |-> "running",
                       halt |-> None, from |-> IF resumed THEN Len(runs) ELSE 0]
       IN /\ runs' = Append(before, row)
          /\ ledger' = IF resumed THEN ledger ELSE NewLedger
          /\ truth' = IF ~InWindow(now) THEN truth
                      ELSE [truth EXCEPT !.frozen = @ /\ config = trial.config,
                                         !.whole = @ /\ resumed]
  /\ next' \in {(now \div Step) * Step} \cup (IF runs = <<>> THEN {} ELSE {next} \cup Again)
  /\ order' = 0 /\ alive' = TRUE
  /\ UNCHANGED <<now, points, fills, costs, trial>>

\* A crash leaves the row as it is; else finish, or the watchdog, ends it.
EndRun ==
  /\ alive
  /\ \E how \in Ends :
       /\ runs' = IF how = "crash" THEN runs
                  ELSE [runs EXCEPT ![Len(runs)] =
                          [@ EXCEPT !.ended = now,
                                    !.status = IF how = "failed" THEN "failed" ELSE "halted",
                                    !.halt = IF how = "failed" THEN None ELSE how]]
       /\ truth' = IF InWindow(now) /\ how \in {"failed", "risk"}
                   THEN [truth EXCEPT !.clean = FALSE] ELSE truth
  /\ alive' = FALSE
  /\ UNCHANGED <<now, points, fills, order, ledger, next, costs, trial>>

\* The ledger of a trial's chain, as the trial promises to judge it: what
\* opened and closed in the window, on candles that were over at its end, by
\* runs that started before it.
Witness(at, held, equity) ==
  IF ~InWindow(at) \/ at + Step > trial.end \/ Tip.started >= trial.end THEN truth
  ELSE [truth EXCEPT
          !.entered = IF ledger.held = 0 /\ held > 0 THEN at ELSE @,
          !.completed = IF ledger.held > 0 /\ held = 0 /\ InWindow(truth.entered) THEN @ + 1 ELSE @,
          !.equity = equity]

\* A candle that closed: the order of the last one fills, the equity moves
\* with what is held, its rows are committed, and the strategy may order.
Candle ==
  /\ alive /\ next + Step <= now
  /\ \E move \in IF ledger.held > 0 \/ order > 0 THEN Moves ELSE {0} :
       LET held   == ledger.held + order
           equity == ledger.equity + move
       IN /\ ledger' = [held |-> held, equity |-> equity]
          /\ points' = Append(points, [run |-> Len(runs), ts |-> next, equity |-> equity])
          /\ fills' = IF order = 0 THEN fills
                      ELSE Append(fills, [run |-> Len(runs), ts |-> next, units |-> order])
          /\ order' \in {0} \cup (IF held = 0 THEN {Lots} ELSE {-u : u \in 1 .. held})
          /\ truth' = Witness(next, held, equity)
  /\ next' = next + Step
  /\ UNCHANGED <<now, alive, runs, costs, trial>>

\* record_cost: a cost, or the attestation that a period has no others; the
\* future cannot be attested.
RecordCost ==
  /\ Cardinality(costs) < MaxLedger
  /\ \E p \in Periods :
       /\ p[2] <= now
       /\ costs' = costs \cup {[kind |-> IF p[1] = p[2] THEN "cost" ELSE "coverage",
                                from |-> p[1], to |-> p[2]]}
  /\ UNCHANGED <<now, alive, runs, points, fills, order, ledger, next, trial, truth>>

-----------------------------------------------------------------------------
(* Planning and registration.                                              *)

CeilDiv(a, b) == (a + b - 1) \div b

\* required_days, with PLAN_MARGIN of three halves.
Required(r) == CeilDiv(3 * MinPositions * r.window, 2 * r.completed)
HorizonOf(r) == Max({Required(r), MinHorizon})

\* trial_plan has no blockers: "usable" says that reference_defects is empty
\* (one completed spot backtest of its own, at no less than today's fees).
Plannable(r) ==
  /\ r.usable
  /\ r.requested > 0 /\ 100 * r.window >= MinCoverage * r.requested
  /\ 100 * r.snapshots * Step >= MinCoverage * r.window
  /\ r.window >= MinWindow
  /\ r.completed >= MinReference
  /\ HorizonOf(r) <= MaxHorizon

\* plan_match_defects is empty: the reference measured this strategy in this
\* market (identity), by this engine at these costs and limits (rates).  A
\* cheaper or a dearer reference is refused alike.
MatchesRun(r, run) ==
  /\ r.config.identity = run.config.identity
  /\ r.config.rates = run.config.rates

\* register_trial: on a running, fresh chain, before its first order.
Register ==
  /\ ~Registered /\ runs # <<>>
  /\ Tip.status = "running" /\ Tip.from = 0
  /\ order = 0 /\ \A i \in DOMAIN fills : fills[i].run # Len(runs)
  /\ \E r \in References :
       /\ Plannable(r) /\ MatchesRun(r, Tip)
       /\ trial' = [start |-> now, end |-> now + HorizonOf(r), root |-> Len(runs),
                    config |-> Tip.config]
  /\ truth' = NoTruth
  /\ UNCHANGED <<now, alive, runs, points, fills, order, ledger, next, costs>>

-----------------------------------------------------------------------------
(* The verdict of a trial, from its rows and the clock.                    *)

Cutoff == Min({now, trial.end})
Relevant == {i \in DOMAIN runs : \/ i = trial.root
                                 \/ trial.start <= runs[i].started /\ runs[i].started < Cutoff}

\* The signature of every run is the trial's.
ConfigFrozen == \A i \in Relevant : runs[i].config = trial.config

Successor(i) == Min({j \in Relevant : j > i})
LedgerContinuous ==
  Min(Relevant) = trial.root /\ \A i \in Relevant \ {Max(Relevant)} : runs[Successor(i)].from = i

EndedInWindow(i) == runs[i].ended = 0 \/ runs[i].ended <= Cutoff

\* A watchdog halt is excused by the run that resumes it.
BadHalt(i) ==
  /\ EndedInWindow(i)
  /\ \/ runs[i].status = "failed"
     \/ runs[i].halt = "risk"
     \/ runs[i].halt = "watchdog" /\ ~\E j \in Relevant : j > i /\ j = Successor(i) /\ runs[j].from = i

Over(row) == row.run \in Relevant /\ trial.start <= row.ts /\ row.ts + Step <= Cutoff

\* Mutant of EarlyFill: only the last fill is looked at.
EarlyFillLatest == fills # <<>> /\ Last(fills).run \in Relevant /\ Last(fills).ts < trial.start

EarlyFill == \E i \in DOMAIN fills : fills[i].run \in Relevant /\ fills[i].ts < trial.start

\* The rows that are judged, by the position they were written at: a candle's
\* rows are written in the order of the candles.
JudgedPoints == {i \in DOMAIN points : Over(points[i])}
JudgedFills == {i \in DOMAIN fills : Over(fills[i])}

\* completed_positions: from flat to flat, and whether it never goes short;
\* every position is taken to reach min_notional.
PositionsOf(rows, judged) ==
  FoldLeft(LAMBDA s, i :
             IF i \notin judged \/ ~s.valid THEN s
             ELSE IF s.held + rows[i].units < 0 THEN [s EXCEPT !.valid = FALSE]
             ELSE [s EXCEPT !.held = @ + rows[i].units,
                            !.count = IF s.held > 0 /\ s.held + rows[i].units = 0 THEN @ + 1 ELSE @],
           [held |-> 0, count |-> 0, valid |-> TRUE],
           [i \in DOMAIN rows |-> i])
Completed == PositionsOf(fills, JudgedFills)

\* Two rows for one candle: it was processed again after a restart.
Overlapping == \E i, j \in JudgedPoints : i # j /\ points[i].ts = points[j].ts

\* Enough candles, and no hole longer than two of them.
Covered ==
  LET times == {points[i].ts + Step : i \in JudgedPoints}
      edges == {trial.start, Cutoff} \cup times
  IN /\ 100 * Cardinality(times) * Step >= MinCoverage * Max({Cutoff - trial.start, 1})
     /\ \A a \in edges \ {Cutoff} : \E b \in edges : a < b /\ b <= a + 2 * Step

Values == {Capital} \cup {points[i].equity : i \in JudgedPoints}

\* The equity at the newest judged candle.
Closing ==
  IF JudgedPoints = {} THEN Capital
  ELSE points[CHOOSE i \in JudgedPoints : \A j \in JudgedPoints : points[j].ts <= points[i].ts].equity

\* From the highest equity so far, the capital included.
DrawdownExceeded ==
  \E i \in JudgedPoints :
    LET before == {j \in JudgedPoints : points[j].ts <= points[i].ts}
        peak   == Max({Capital} \cup {points[j].equity : j \in before})
    IN 100 * (peak - points[i].equity) > MaxDrawdown * peak

\* Mutant of CostsCovered: where the last attestation ends is all it looks at.
CostsCoveredAtLast == \E row \in costs : row.kind = "coverage" /\ row.to >= Cutoff

\* costs_covered: the attestations, taken by their start, reach the cutoff
\* before one of them leaves a gap to those before it.
CostsCovered ==
  LET rows == {row \in costs : row.kind = "coverage"}
      reach(row) == Max({trial.start} \cup {r.to : r \in {r \in rows : r.from < row.from}})
      gapless(row) == \A r \in rows : r.from <= row.from => r.from <= reach(r)
  IN \E row \in rows : gapless(row) /\ Max({trial.start, row.to}) >= Cutoff

Expense == Cardinality({row \in costs : row.kind = "cost" /\ trial.start <= row.from /\ row.from < Cutoff})

Invalid ==
  \/ ~ConfigFrozen \/ ~LedgerContinuous
  \/ \E i \in Relevant : BadHalt(i)
  \/ EarlyFill \/ ~Completed.valid \/ Overlapping
  \/ \E value \in Values : value <= 0

Passes ==
  /\ Covered /\ CostsCovered
  /\ Completed.count >= MinPositions
  /\ ~DrawdownExceeded
  /\ \A value \in Values : value >= Capital - OuterLoss
  /\ Closing - Capital - Expense > 0

\* evaluate
Verdict ==
  IF ~Registered THEN None
  ELSE IF Invalid THEN "invalidated"
  ELSE IF now < trial.end THEN "collecting"
  ELSE IF Passes THEN "review_required" ELSE "insufficient_evidence"

-----------------------------------------------------------------------------
(* Equity curves.                                                          *)

Rows(i) == FoldLeft(LAMBDA rows, p : IF p.run = i THEN Append(rows, p) ELSE rows, <<>>, points)

\* Mutant of Kept: the earlier run's points stay.
KeptAll(curve, from) == curve

\* Where runs overlap, the later one wins.
Kept(curve, from) ==
  FoldLeft(LAMBDA kept, p : IF p.ts < from THEN Append(kept, p) ELSE kept, <<>>, curve)

\* One curve of several runs: a fresh ledger is moved onto the end of what
\* is there, a resumed one is taken as it is.
Stitched(order_) ==
  FoldLeft(LAMBDA curve, i :
             IF Rows(i) = <<>> THEN curve
             ELSE LET rows   == Rows(i)
                      kept   == Kept(curve, rows[1].ts)
                      offset == IF kept # <<>> /\ runs[i].from = 0
                                THEN Last(kept).equity - rows[1].equity ELSE 0
                  IN kept \o [k \in DOMAIN rows |-> [rows[k] EXCEPT !.equity = @ + offset]],
           <<>>, order_)

\* stitch_equity: every run of the strategy.
AccountCurve == Stitched([i \in DOMAIN runs |-> i])

\* _chain_rows: the newest run and those it resumes, root first.
ChainOf[i \in 0 .. Len(runs)] == IF i = 0 THEN <<>> ELSE Append(ChainOf[runs[i].from], i)
ChainCurve == Stitched(ChainOf[Len(runs)])

-----------------------------------------------------------------------------
(* The rolling-origin report of an assignment: its chain against a backtest *)
(* that replays it from its origin.  What the backtest gives is a           *)
(* parameter: whether its Sharpe is below, within or above the tolerance    *)
(* of the chain's, its fills in the window, whether it begins late for want *)
(* of candles, and the candle times it has no equity for.                   *)

Chain == ChainOf[Len(runs)]

\* compare_window: the report's window, or the chain's life if that is shorter.
CompareFrom == Max({now - Days, runs[Head(Chain)].started})
Window == CompareFrom .. now - 1

Windowed == LET window == Window IN SelectSeq(ChainCurve, LAMBDA p : p.ts \in window)
WindowFills ==
  LET window == Window
      chain  == Range(Chain)
  IN {i \in DOMAIN fills : fills[i].run \in chain /\ fills[i].ts \in window}

\* has_min_coverage: the span is at least half of the overlap.
HalfCovers(curve) == 2 * (Last(curve).ts - Head(curve).ts) >= now - CompareFrom

\* A chain that its own rows let be judged: enough of them, and the equity of
\* the run it began with, which no later one can make up for.
OriginTimes ==
  LET origin == Head(Chain)
  IN {points[k].ts : k \in {k \in DOMAIN points : points[k].run = origin}}
OriginObserved == OriginTimes # {}
ShadowSuffices(curve) ==
  /\ OriginObserved
  /\ now - CompareFrom >= Max({Step, MinOverlap})
  /\ Len(curve) >= 2 /\ HalfCovers(curve)

\* Mutant of FeesDiffer: the newest run is all that is looked at.
FeesDifferNow(config) == Tip.config.rates # config.rates

\* A backtest at one schedule cannot replay a chain that ran on several, not
\* even before the window.
FeesDiffer(config) == \E i \in Range(Chain) : runs[i].config.rates # config.rates

\* The candles a backtest from the chain's first decision up to now records.
ReplayFrom == Min(OriginTimes)
Replayed(replay) ==
  LET from == ReplayFrom IN
  {t \in from .. now : /\ (t - from) % Step = 0 /\ t + Step <= now
                       /\ t \notin replay.lost /\ (replay.late => t > from)}

\* aligned_comparison, on the times both sides observed.
Comparable(curve, replay) ==
  LET shadow == {curve[i].ts : i \in DOMAIN curve}
      other  == Replayed(replay) \cap Window
      common == shadow \cap other
  IN /\ Cardinality(common) >= MinCommon
     /\ 2 * Cardinality(common) >= Cardinality(shadow \cup other)
     /\ 2 * (Max(common) - Min(common)) >= now - CompareFrom
     /\ \A i \in DOMAIN curve : curve[i].ts \in common => curve[i].equity > 0

\* A replay that starts later may have missed the signal behind a position.
ReachesOrigin(replay) == Replayed(replay) # {} /\ Min(Replayed(replay)) = ReplayFrom

\* verdict_for: fill counts first, then the Sharpes.
VerdictFor(replay) ==
  LET shadow == Cardinality(WindowFills)
  IN IF \/ (shadow = 0) # (replay.fills = 0)
        \/ Max({shadow, replay.fills}) > 2 * Min({shadow, replay.fills})
     THEN "diverges"
     ELSE IF replay.gap < 0 THEN "lags" ELSE IF replay.gap > 0 THEN "leads" ELSE "tracks"

\* _assignment_entry, for the configuration the assignment has now.
RollingVerdict(config, replay) ==
  IF /\ runs # <<>> /\ ~FeesDiffer(config)
     /\ LET curve == Windowed
        IN ShadowSuffices(curve) /\ ReachesOrigin(replay) /\ Comparable(curve, replay)
  THEN VerdictFor(replay) ELSE "unknown"

-----------------------------------------------------------------------------
Next == Tick \/ StartRun \/ EndRun \/ Candle \/ RecordCost \/ Register

Spec == Init /\ [][Next]_vars

-----------------------------------------------------------------------------
(* Properties.                                                             *)

TypeOK ==
  /\ now \in 1 .. MaxNow /\ alive \in BOOLEAN
  /\ \A i \in DOMAIN runs : /\ runs[i].from \in {0, i - 1} /\ runs[i].halt \in Halts
                            /\ runs[i].ended # 0 <=> runs[i].status # "running"
  /\ \A i \in DOMAIN points : points[i].run \in DOMAIN runs /\ points[i].ts + Step <= now
  /\ ledger.held >= 0 /\ ledger.held + order >= 0
  /\ Registered => trial.root \in DOMAIN runs /\ trial.end >= trial.start + MinHorizon

\* "Each later run must resume the prior ledger and retain the frozen
\* trading configuration. Missing evidence fails closed." (forward.py): a
\* trial comes up for review only if its window is over and in all of it no
\* run failed, no ledger was new and no configuration another; enough
\* positions were opened and closed inside it, every tick of it is attested,
\* and the equity at the last candle its runs recorded in it, less what
\* research cost, is a profit.
PassIsEarned ==
  Verdict = "review_required" =>
    /\ now >= trial.end
    /\ truth.frozen /\ truth.whole /\ truth.clean
    /\ truth.completed >= MinPositions
    /\ truth.equity - Capital >
         Cardinality({row \in costs : row.kind = "cost" /\ InWindow(row.from)})
    /\ \A t \in trial.start .. trial.end - 1 :
         \E row \in costs : row.kind = "coverage" /\ row.from <= t /\ t < row.to

\* An invalidated trial stays so, whatever is run, stopped, put back or
\* recorded afterwards: only the successor of a watchdog halt can lift it.
WatchdogTip == Relevant # {} /\ runs[Max(Relevant)].halt = "watchdog"
InvalidStaysInvalid ==
  [][Registered /\ Verdict = "invalidated" /\ ~WatchdogTip => Verdict' = "invalidated"]_vars

\* The curve of a resume chain never goes back in time and shows at each
\* candle the equity its newest recording has: restarts, reprocessed candles
\* and gaps leave no offset behind.
ChainCurveIsTrue ==
  runs # <<>> =>
    LET curve == ChainCurve
        chain == Range(ChainOf[Len(runs)])
    IN /\ \A i \in 1 .. Len(curve) - 1 : curve[i].ts < curve[i + 1].ts
       /\ \A i \in DOMAIN curve :
            LET same == {k \in DOMAIN points : points[k].ts = curve[i].ts /\ points[k].run \in chain}
            IN curve[i].equity = points[Max(same)].equity

\* A rolling-origin report judges a chain only against a backtest that began
\* where the chain did and at its fees: every run of the chain, back to the one
\* it began with and however far before the window, was charged the rates the
\* backtest charges, and no candle the chain recorded or traded on lies before
\* the backtest's first.  It says nothing of candles inside: the code asks for
\* half of the window's in common (rolling.py:247) and for none before the
\* window, so the replay may miss one the chain traded on; nor does the code
\* compare the slippage the runs were configured with (rolling.py:668).
RollingJudgesOneAccount ==
  \A config \in Configs, replay \in Replays :
    RollingVerdict(config, replay) # "unknown" =>
      /\ \A i \in Range(Chain) : runs[i].config.rates = config.rates
      /\ \A k \in DOMAIN points :
           points[k].run \in Range(Chain) => points[k].ts >= Min(Replayed(replay))
      /\ \A k \in DOMAIN fills :
           fills[k].run \in Range(Chain) => fills[k].ts > Min(Replayed(replay))

\* "giving one continuous account-level series" (report/equity.py): between
\* two points the curve moves as the ledger did, and not at all where a
\* fresh ledger takes over.
AccountCurveIsContinuous ==
  LET curve == AccountCurve IN
  \A i \in 1 .. Len(curve) - 1 :
    LET a == curve[i]
        b == curve[i + 1]
        recorded(p) == CHOOSE k \in DOMAIN points : points[k].run = p.run /\ points[k].ts = p.ts
        moved == points[recorded(b)].equity - points[recorded(a)].equity
    IN a.run = b.run \/ runs[b.run].from = a.run => b.equity - a.equity = moved

=============================================================================
