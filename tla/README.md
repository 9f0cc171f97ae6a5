# A verification development for kaupo

kaupo runs trading strategies: in shadow (paper venue, live candles) and live
(real orders on Kraken). This directory holds TLA+ models of its core, checked
by TLC on small instances, and theorems about them checked by TLAPS for every
value of the constants. Paths below are relative to the repository root.

Contents: [the system](#the-system) · [plan](#plan) ·
[the supervisor and the life of a run](#the-supervisor-and-the-life-of-a-run) ·
[live trading](#live-trading) · [the trading engine](#the-trading-engine) ·
[candle feeds](#candle-feeds) · [backtest jobs](#backtest-jobs) ·
[reports and forward trials](#reports-and-forward-trials) · [market data](#market-data) ·
[schedules](#schedules) · [runs](#runs) ·
[what TLC found](#disagreements-between-the-code-and-its-text) ·
[proofs](#proofs) · [not modelled](#not-modelled)

## The system

| Component | Source | State it keeps | Operations | Talks to | What is hard | What makes it correct |
|---|---|---|---|---|---|---|
| Supervisor | `core/supervisor.py` | `live`, `killed`, `backoff` dicts and watchdog markers, all in memory | pass: reap, list, watchdog, refresh killed, plan; orphan halt at start; graceful stop | DB, run tasks (stop event, `cancel()`) | API calls and tasks interleave at every `await`; hung tasks; restarts forget memory | one trader per assignment; desired state is reached; a killed run stays down |
| Run tasks | `core/runner.py`, `core/live_runner.py`, `core/engine.py`, `core/portfolio_engine.py`, `core/recorder.py`, `core/notify.py` | ledger, risk state, venue, recorder buffer in memory; `runs`, `fills`, `orders`, `signals`, equity in the DB | prepare, claim the slot, candle (venue fills, flush, risk, probe, strategy, checkpoint), wind down, audit | supervisor, venue, DB | crash or cancellation between a fill and its commit; buffered writes; late wind-down | what is committed is what happened, or the row says it is not known |
| Resume chain | `core/resume.py` | `runs.resumed_from`, `runs.risk_state` | choose a predecessor, refuse, replay its chain's fills | DB | reads a row another task may still write | a successor's ledger is its chain's recorded fills; no row is resumed twice |
| Assignments, settings, control API | `api/routes/assignments.py`, `settings.py`, `data.py`; `data/assignments.py`, `data/settings.py` | `run_assignments`, `settings`, `control_events` | create, update, disable; switch the settings; kill, pause, resume for one or all runs | DB | commands race the end of the run they address | a command takes effect, or a newer one replaces it |
| Live venue | `venues/kraken_live.py`, `kraken_client.py` | open orders, trade cursor, ids seen at the cursor | submit, on_candle (prune, cancel, poll trades, adopt, finalize), cancel_all | Kraken | ambiguous timeouts, failed polls, late trades, partial fills | every exchange trade enters the ledger once |
| Live reconciliation | `core/live_reconcile.py`, `core/live_runner.py` | none of its own | cancel open orders, recover missed trades, check drift, refuse | Kraken, DB | cursor boundary, restart between recovery and record | the run starts from the account's truth or not at all |
| Ledger | `ledger/ledger.py` | cash, positions, fees, funding | apply fill (spot, perp), funding, equity | engine, resume | order of fills within one timestamp, replay | cash and positions are conserved; an accepted replay gives the same cash and units |
| Risk manager | `risk/manager.py` | day floor, loss streak, cooldown, halted | assess a batch, observe equity and closes, checkpoint, restore | engine | a batch judged intent by intent against one state | no batch exceeds the caps; a halt survives a restart |
| Paper venue | `venues/paper.py` | pending orders, armed protections | submit, on_candle, void_fill | engine | stop and limit in one candle, rollback of a refused fill | one exit per position; a void fill leaves no trace |
| Pollers and joiner | `data/ingest.py`, `core/runner.py` | baseline, retry delay; a queue of candles per pair | poll, back off, backfill; join universe steps | exchanges, engines | gaps, late pairs, retries | no candle skipped, duplicated or reordered |
| Backtest jobs | `data/backtest_jobs.py`, `core/backtest_worker.py`, `api/routes/backtests.py` | `backtest_jobs` rows | enqueue with eviction, claim (skip locked), finish, fail stale | DB, workers | two workers, restart while running, eviction of a running job | a job is run by one worker and ends once |
| Market data | rest of `data/`, `core/book_collector.py`, `core/funding.py`, `core/orderflow.py`, `core/positioning.py` | time series tables | fetch, parse, upsert, page | exchanges | page boundaries, partial failure | series without holes |
| Schedules | `market_calendar.py` | none | session and due-time arithmetic | pollers | holidays, daylight saving | agrees with the calendar |
| Reports, forward trials | `report/` | trial rows | stitch chain equity, verdicts, daily report | DB | chains with gaps and overlaps | a stitched curve is the chain's |
| Backtests, sweeps | `backtest/` | none | simulate, sweep, plan folds, metrics | engine, ledger | numeric | no look-ahead |
| xStocks tools | `venues/xstocks_*` | none | compare exchange exports | files | - | - |
| Research API, SDK, CLI, config, DB schema, web UI | `api/routes/research.py`, `experiments.py`, `research/`, `sdk/`, `cli/`, `config.py`, `db/`, `src/ui` | experiment rows | validate, sandbox, wire, display | - | - | - |

All Python paths are under `src/kaupo/`. How they interact: the API only writes
rows; the supervisor polls `run_assignments` and turns rows into asyncio tasks
of its own process; a task owns its run row from its claim to its wind-down,
except that the supervisor's marker, the orphan halt and a successor's claim
may rewrite the row's status; control commands reach a task through
`DbControlProbe`, which polls `control_events` once per candle. The database is
the only thing that survives the process.

## Plan

| # | Modules | What | Status |
|---|---|---|---|
| 1 | `Supervisor`, `SupervisorInvariant`, `MCSupervisor`, `LedgerChain` | supervisor, tasks, resume chain, control API, crashes; its refinement | done |
| 1p | `SupervisorProofs` | type correctness, inductive invariant, every safety and action property, refinement | done |
| 2 | `Exchange`, `LiveTrading`, `TradeBook` (abstract: a row records some of what its order executed, never more) | order and trade life against an exchange that times out, answers late and fills partially; crash and reconcile | done |
| 3 | `Ledger`, `RiskManager`, `PaperVenue`, `TradingEngine` (their composition) | fills, replay order within a timestamp, batch assessment, protections and rollback, restart | done |
| 4 | `BacktestJobs` | admission, queue, two workers, sweeps and stability windows, eviction, restart | done |
| 5 | `Feeds` | warm-up, pollers, the joiner of per-pair streams | done |
| 6 | `Calendar`, `Schedules` | open time, watchdog, daily report, daily valuations, xStocks import | done |
| 7 | `Reports` | forward trials, stitched curves, the rolling report | done |
| 8 | `MarketData` | paged backfills, retention, rollups, providers | done |
| 9 | `BacktestJobsProofs`, `LiveTradingProofs`, `MarketDataProofs`, `FeedsProofs`, over `DataLemmas` | every safety and action property of 2, 4, 5 and 8, but for the disagreements, and the refinement of `TradeBook` | done |
| 10 | `TradingEngineInvariant`, `TradingEngineProofs` | every property of 3: the accounts, the rail, the cooldown, the caps, the replay | done |
| 11 | `ReportsInvariant`, `ReportsProofs` | every property of 7 but the disagreement: the rolling report, the stitched curve of a resume chain, the verdicts of trials | done |
| 12 | proofs about `Schedules` | see below | left |

Left to prove: the calendar arithmetic of `Schedules` ([why](#only-model-checked)). No module declares a
RECURSIVE operator: recursion is written as recursive functions and folds, so
that any of them can be proved about.

How the modules relate: `Supervisor` starts and ends runs; what a run does
between its claim and its wind-down is `TradingEngine` for a shadow run and
`LiveTrading` for a live one; the candles it consumes come from `Feeds`, the
other series from `MarketData`, its trading hours from `Calendar`; what is read
off its rows afterwards is `Reports` and `Schedules`. `TradingEngine` composes
`Ledger`, `RiskManager` and `PaperVenue`, `LiveTrading` composes the platform with
`Exchange`, `Schedules` the watchdog, the report and the import over `Calendar`.
Where one module needs another as its environment it takes it abstractly and
says so in its head (a rewound clock in `MarketData` is what `Feeds` shows to be
possible; `Reports` takes any sequence of runs that `Supervisor` allows).

## The supervisor and the life of a run

`Supervisor.tla` models one supervisor process, its run tasks, the database and
the operators.

State and code:

| Variable | Code |
|---|---|
| `assignments` | rows of `run_assignments`: `enabled`, configuration, `updated_at` as a counter |
| `settings` | the slot the `shadow_*` settings name |
| `runs` | rows of `runs` in order of `started_at`; a row has its assignment, configuration, `status`, `metrics.halt_reason`, the halt event of the audit log, `risk_state` (the incomplete marker, a checkpoint, a checkpoint with `halted`), `resumed_from`, the number of its recorded fills, and the newest control event addressed to it since it started |
| `pc`, `rows` | where the pass is between its awaits, and the assignments it listed |
| `live`, `killed`, `backoff`, `markers` | the dicts of `run_supervisor` and its pending `_mark_watchdog_stopped` tasks |
| `tasks` | run tasks: the stage of `run_shadow`/`run_live` and `Engine.run`, stop event, cancellation not delivered yet, staleness, what `prepare_resume` answered, the recorder's buffer |
| `spent` | commands and faults used; bounds only |

Three columns are histories that no code reads: `carried` (what the successor's
ledger was rebuilt from), `cause` (how the engine ended) and `held` (killed and
not released). Properties compare them with what the code does read. A stop
wins over a kill in `classify_end`, so a run that a stop is on its way to when
the kill acts (`StopOnItsWay`: its stop event is set, its row was edited, or the
pass under way has listed an older row) is not held.

A **configuration** is a slot (strategy, pair, timeframe, mode), parameters
and fees. The three parts are kept apart because the code compares them
differently: supersession by slot, resumability by slot and parameters
(`config_hash`), restarts by everything.

Actions follow the awaits of the code, where other coroutines run:

- **API**: `UpdateAssignment`, `PutSettings` (with `_notify_shadow_runs` and
  `_sync_primary_assignment` in one transaction), `Control` (one run or all).
  A command for all runs also reaches a task whose probe exists while its row
  does not (`early`).
- **Task**: `PrepareResume` (supersede, then carry, start fresh, refuse, or give up a
  chain that cannot be rebuilt),
  `BuildEngine` (the probe's construction), `ClaimSlot` (row and supersession,
  one transaction), `FirstCheckpoint` (with the fills a live reconciliation
  recovered), `BeginCandle` (the incomplete marker commits, then fills enter the
  buffer), `FlushCandle`, `EndCandle` (risk rail, probe, strategy, complete
  checkpoint), `SeeStop`, `WindDown` (buffer, then status; either can fail),
  `RecordHalt`, `TakeCancel`.
- **Supervisor**: `Reap`, `ListAssignments`, `Watch`, `RefreshKilled`, `Plan`,
  `BackoffExpires`, `MarkWatchdogStopped`, `Shutdown`, `Exit`, `Boot`.
- **Faults**, all counted by `spent.faults`: `Crash` at any moment; `Stall` (the
  watchdog's staleness, of a task that may still move); `StartFails`,
  `RunFails` (strategy, candle timeout, stream, database); lost writes of
  `WindDown` and of the audit event; `replay`, a chain that `prepare_resume` finds
  resumable and cannot rebuild (a row or the starting cash is missing, or the replay
  raises InsufficientFunds or InsufficientPosition, `core/resume.py:357`): the run
  then starts at its starting cash with only a warning. An interrupted `record_risk` leaves its
  checkpoint in the recorder's buffer, from where the wind-down may commit it
  (`Owed`): the model keeps that.

The recorder's buffer holds at most one fill per candle (`buffered \in 0 .. 1`):
what matters to the properties is whether a committed row misses a fill, not
how many. Recorded fills of a row are a count: replay order within a row
belongs to the ledger module. The strategy version is constant, so
`_same_strategy` is true.

`LedgerChain.tla` is the abstract specification: books that record fills, each
starting fresh or succeeding one earlier book whose line it was built from, and
no record in a book that has a successor. `ImplementsLedgerChain` says that
`Supervisor` under the mapping `Books` (a row's `resumed_from`, replayed base and
recorded fills) is such a system.

### Properties

| Property | What it says | Why it could be wrong |
|---|---|---|
| `OneTrader` | an assignment never has two tasks that go on trading | the watchdog frees a place before its task is over |
| `OneRunningRow` | one running row per slot of an assignment | claims, late wind-downs and markers write status in any order |
| `LedgerContinuity` | a successor's ledger equals its chain's recorded fills, now and later | a predecessor may still be winding down |
| `ImplementsLedgerChain` | books that record fills and are succeeded at most once (so no row has two successors): `Supervisor` implements them | markers, orphan halts and supersession rewrite the status that resumability reads |
| `RiskHaltNotResumed` | a run stopped by the risk rail is never resumed | status, halt reason and audit event can be lost or rewritten; only the checkpoint tells |
| `KilledNotResumed` | nor is one stopped by a kill or a switch | the audit event is all that tells it from a graceful stop |
| `KilledStaysDown` | a killed run stays down until a resume or an update of its row | the decision is taken from the latest command, later, in memory |
| `TradingRowIsRunning` | while no task hangs, the row that the API takes for an assignment's live run (`_live_run_ids`, `LiveRunId`) is that of the run that trades, and says running: commands and switches reach it | claims, lost status writes, late wind-downs and crashes write that row |
| `NoSilentReset` | a crashed or stopped chain that can be rebuilt is resumed or refused, never restarted at the starting cash | every writer of a row can make it unresumable |
| `DesiredIsReached`, `StopIsHonoured`, `KillTakesEffect` | an enabled assignment comes back to trading, a disabled one stops, a kill ends trading | backoffs, killed entries, watchdog and stops interplay |

## Live trading

`Exchange.tla` is the account on Kraken and is not part of the repository: orders
of one pair that rest, execute one unit at a time, expire at their GTD time or are
cancelled; trades that name their order and carry a timestamp that several may
share; holdings. It also places orders of its own origin ("foreign": a human, or
an order whose placement timed out). `LiveTrading.tla` is the platform.

| Variable | Code |
|---|---|
| `phase` | where `run_live` (`core/live_runner.py`) or `Engine.run` stands; each value is an await |
| `run` | the process: ledger position, whether it resumed, recovered fills (`missed`), polled fills, the recorder's buffer |
| `venue` | `KrakenVenue`: tracked orders (`open`), those whose cancel failed (`stuck`), those filled, `_trades_cursor_ms` and the ids seen at it |
| `db` | fills per order row, order statuses, the checkpoint, the chain's root |

- **Start**: `Start`, `StartOver` (a chain that cannot be rebuilt), `Recover`
  (`reconcile_live`: cancel what rests, read trades since
  the cursor `ReadFrom`, attribute each to its row or to a synthetic
  `kraken-<txid>` one), `CheckBalances` (`BalanceDrift`, refuse or go on), `ClaimRow`,
  `RecordRecovered`, `FirstCheckpoint`.
- **Candle**: `BeginCandle`, `CancelTracked`, `PollTrades`, `Book`, `FlushCandle`, `Submit`
  (with `SizeForExchange`: floor to the lot, the notional ceiling, the minimum;
  an order below it is skipped and stays in the books as rejected), `EndCandle`.
- **End**: `Stop`, `RunFails`, `Sweep` (`cancel_all`), `Finish`, `Crash`.
- **Faults**: crash, a failed candle, a failed database write, cancel or poll, an
  ambiguous submission (the exchange may have taken it), a foreign trade, a chain
  that cannot be rebuilt.

| Property | What it says | Why it could be wrong |
|---|---|---|
| `BooksFollowTheCursor` | the run's ledger is what the trades up to the cursor add up to | ties at the cursor, polls that fail after a cancel, trades adopted late |
| `OpenOrdersAreTracked` | every order of its own that rests is tracked by the run that trades | ambiguous submissions, failed cancels, restarts |
| `CheckpointMeansRecorded` | between candles, when the checkpoint is complete, the ledger is the net of what the chain's rows record | the candle fails between the venue and the commit; a restart counts from the chain's root |
| `ImplementsTradeBook` | no row records more than its order executed, and none loses a unit | reconciliation and a late poll read the same trades |

Refuted and kept as a definition: `RecoveryRecordsNothingTwice`, after
`_recover_missed`'s "That makes a re-run a no-op". When a txid has both a row of its
own and a synthetic one (the order's audit event was lost and later written),
the recovery counts only the row it attributes to. Reproduce it with `MaxOrders
2, MaxTrades 2, MaxClock 3, MaxSize 2, Period 1`, `Faults {"poll"}`, `MaxFaults 1`. Also
met: the docstring at `venues/kraken_live.py:598` says a partially filled order is
FILLED, while `cancel_all` records it cancelled; an unrelated trade between the
trade read and the balance read can mask a drift (`run.quiet` says when there
was none).

Orders are limits. A market order (`venues/kraken_live.py:200`) is submitted by the
same code without an expiry and does not rest; it is left out.

Bounds: two orders and three trades give a partial fill, a tie and a second
order; two faults a failure during the recovery from another; three ticks a
candle, its successor and one restart. Money is the base position: cash
moves with the same fills and the quote check of the drift with it.

## The trading engine

`Ledger`, `RiskManager` and `PaperVenue` are pure: records and operators
(`Accepts`, `ApplyFill`, `ApplyFunding`; `RiskOnCandle`, `NotifyTrade`, `Assess`,
`Restored`; `Submitted`, `VenueOnCandle`, `Voided`) named after the methods they model.
`TradingEngine` runs them over the steps of a universe: `Candle` is one turn of
`PortfolioEngine.run` up to the strategy (`StepBooks`: the fills of all venues in pair order,
each booked or voided by `BookFill`; then funding, closes, valuation, rail), `Decide` the
strategy's batch through the risk manager to the venues (`Placed`), `EndOfData` the
liquidation (`WoundDown`), `Restart` a successor that replays the recorded rows
(`Replay`, buys before sells of one timestamp) and restores the risk state
(`Restored`). Every walk over pairs, fills, intents or rows is a fold over a sequence,
as the code loops. Money and
sizes are in whole units; what a partial close takes of the cost is rounded and never
lost. The code adds sizes up as Decimals but keeps each sum of the ledger in a float
(`ledger/ledger.py:130`): up to 15 significant digits that changes nothing.

| Property | What it says | Why it could be wrong |
|---|---|---|
| `AccountingIdentity` | cash and the cost of what is held are the opening plus realized and funding | partial closes, flips of a perp, fees, voided fills |
| `VenueAgreesWithLedger` | venue and ledger count the same fills, while one run lasts | a refused fill is undone after others were built on it |
| `BatchStaysInCaps` | the orders of one decision together respect the caps and the cash | each intent is judged alone against a running budget |
| `RailHolds` | a run that decides has not lost the day's limit since the day before, over a gap and a restart | the floor is carried in the checkpoint |
| `CooldownHolds` | after a losing streak no buy is decided for the cooldown | the streak ends in the middle of a step with other fills |
| `ReplayAgrees` | a replay that accepts its fills gives the run's cash and units (not their average entry) | it changes their order |

Refuted and kept as definitions: `ReplayIsExactly`
([disagreement 5](#disagreements-between-the-code-and-its-text)), `VenueNeverDrifts` (the
venue's docstring says venue and ledger "never drift apart": after a restart the
venue starts at zero), and `BatchIsAffordable` (`risk/manager.py:7`: the cash budget is deflated for costs per
intent, and `assess` deducts only size times price, so two buys of one batch can
together cost more than the cash; the second fill is then voided).

Bounds: two pairs, four steps in two days, one restart and candles that dip, jump and
fall: the smallest with a batch over two pairs, a day change, a streak
within a day and a fill on both sides of a restart.

## Candle feeds

`Feeds.tla` follows a shadow run from its warm-up to its steps: `Start`, `Refresh`
(`refresh_recent_candles`, paged), `ReadWarmup` (the tails, and the engine's joined
warm-up steps); then per pair `Poll` (`LiveCandlePoller`: cold window, cursor
`baseline`, closed candles only), `Drain`, `Expire` and `Emit` (the joiner: buffer,
grace window, late candles refused) and `Pass`/`Process` (what is new is stored and
handed to the engine). The queue is a set: within one drain the order of the candles does
not matter, since a step is assembled by its time. The environment publishes candles (`Close`, `Commit`) and
injects a failed freshening, a hole, a lagging answer or a crash.

| Property | What it says | Why it could be wrong |
|---|---|---|
| `StepsRise` | with even warm-up tails the engine sees one step per time, in order | a late pair completes an earlier step while a later one is due |
| `NothingLost` | what the exchange serves between warm-up and cursor is on its way, in a step, or refused | cursors advance before the queue is consumed |
| `CandlesArrive` | a served candle reaches the engine or is refused, or leaves the served page first | pages, cold windows and grace windows interplay |

Fairness: polls and the coroutines of the streams run again and again (the event
loop and the poll interval), and a grace window ends. None for the exchange.

Refuted and kept: `ClockNeverRewinds` (`core/orderflow.py:233` says engines never
rewind the clock: with uneven warm-up tails the first streamed step of the
shorter pair lies behind the other's warm-up). Also met: between the joiner's
yields a later time can become due and go out partial although its missing
candle is queued (`core/runner.py:439`); the poller's docstring promises "at most
the latest closed candle" and its first poll returns the cold window
(`data/ingest.py:229`); a late candle the joiner drops is never stored; a candle
that closes between two pairs' freshenings makes one time appear twice.

## Backtest jobs

`BacktestJobs.tla`: callers of `POST /backtests` (`CheckCapacity` takes the advisory lock
and counts, `Submit` inserts and commits, `Refuse`), administrators who bypass the
limit, and workers (`Boot`, `FailStaleRunning`, `EvictFinished`, `ClaimNextQueued` with SKIP
LOCKED, `CommitClaim`, then one `RunSucceeds` or `RunFails` per point of the
plan, `BuildFails`, `Mark`), with `Stop` and `Crash`. Fairness: a worker that can go on
does, and its container restarts it.

| Property | What it says | Why it could be wrong |
|---|---|---|
| `ResearchBounded` | pending research jobs stay within the ceiling | count and insert race |
| `ResultIsWhole` | no point runs twice; a completed job names its own runs, all of them and in order | two claims, a crash, points that fail |
| `FinishedIsFinal` | a finished job stays as shown until evicted; only finished ones are | a restarted worker, eviction by age |
| `JobsFinish` | every submitted job ends | the worker that held it dies |

One worker process is deployed. With `Overlap = FALSE` a worker does not start while
another executes: `fail_stale_running` would fail that one's job, since it takes every
running row for a dead worker's. Workers that have started compete for jobs freely.
Also met: eviction goes by `created_at`, so a job that waited longer than the TTL
is gone as soon as it finishes; an open end date is resolved when the job runs,
not when it is submitted; `validate_sweep_keys` looks at the first point only.

## Reports and forward trials

`Reports.tla`: the environment starts, ends and rewinds runs (`StartRun`, `EndRun`,
`Candle`) and writes the research ledger (`RecordCost`); `Register` is
`register_trial` with the plan (`Plannable`, from `trial_plan`) and its match with
the run (`MatchesRun`, from `plan_match_defects`). `Verdict` is `evaluate`, recomputed from
the rows at every state as the API does on every request; `truth` is a history
of what really happened in the window, which no report reads. `AccountCurve` and
`ChainCurve` are the two stitchings, `RollingVerdict` the comparison of an
assignment with its replay. A restart may process the last recorded candle again
(`Again`: in a universe, a pair that missed its grace window delivers it to the
successor) and goes back no further; that a pair misses several candles in a row,
the freshening before the restart fails to fetch them and the successor then polls
them is left out.

| Property | What it says | Why it could be wrong |
|---|---|---|
| `PassIsEarned` | a trial up for review ran unbroken, frozen, clean, covered, attested and profitable in fact | the verdict is inferred from rows written before, during and after |
| `InvalidStaysInvalid` | an invalid trial stays so, but for a watchdog halt that is then resumed | rows arrive late; windows end; candles are reprocessed |
| `ChainCurveIsTrue` | a chain's curve is in time order and shows the newest recording of each candle | overlaps, restarts |
| `RollingJudgesOneAccount` | a rolling verdict means one fee schedule along the whole chain and a replay that begins no later than the chain | checks look at windows |

`AccountCurveIsContinuous` is refuted: run `equity_jump`, below. Also met: a trial
registered between a candle's close and its poll makes its own first fill
"pre-registration activity"; a reprocessed candle yields "overlapping equity
snapshots"; a watchdog halt invalidates a trial until its successor starts;
resumption ignores rates, risk limits and the engine version, which the trial's
signature includes, so a resumed run can end a trial.

`PassIsEarned` compares a trial that comes up for review with `truth`: one
configuration and one ledger all through the window, no failed run or risk halt in
it, positions and profit as credited. `RollingJudgesOneAccount` bounds where the
replay begins and what it was charged. It says nothing of candles inside: the code
asks for half of the window's in common (`report/rolling.py:247`) and for none before
it, so a replay may lack a candle the chain traded on; nor does the code compare
the slippage that runs and replay were configured with (`report/rolling.py:668`).
`Completed` leaves out the least notional a position must reach to count
(`report/forward.py:108`); every position of the model is taken to reach it.

Bounds: a window of five ticks over candles of two, two runs and two ledger rows: a
trial with a restart inside it and an attestation in two pieces. Research costs, which
`Expense` deducts, are recorded in neither instance; `PassesAreEarned` covers them. Runs end by a crash,
a watchdog halt or a failure, may be repriced, and may be replaced by a fresh run of
another identity; references are good, of another price, incomplete, too short
(`MinWindow`) or a slice of a sweep. `equity_jump` has
three runs, because the jump needs a rebased one and its resumed successor.

## Market data

`MarketData.tla` follows one series at a time from the exchange's history (`tape`) to a
strategy's view: `StartIngest`, one action per turn of a backfill loop
(`BackfillTrades` for Kraken's inclusive cursor and Binance's windows;
`BackfillCandles`, `BackfillFunding`, `BackfillOpenInterest`), `FailIngest`, `CollectBook`,
`ImportArchive`, `EndIngest` (with pruning), `ReadRollup` and `WriteRollup` (two
commands at once), `Update` (the providers) and `NewRun`.

| Property | What it says | Why it could be wrong |
|---|---|---|
| `BackfillLeavesNoGap` | a backfill that ends has stored what the exchange had published of its range | bursts on a page boundary, inclusive cursors, empty windows |
| `ViewIsTheTable` | a provider shows the table as of the clock | an incremental cache, late rows, a cap, a rewound clock |
| `BasisIsKept` | a day's session basis survives every later rollup | two rollups race |

`BackfillLeavesNoGap` states its two exceptions: Binance's pages restart one
millisecond past the last row (`data/ingest.py:221`), and the loop ends once that
reaches the end of the range, so a burst of one millisecond can be cut there.
Histories are tapes (`IsTape`): in the exchange's order, and where a full page of
prints has one millisecond, one of them repeats none before the page. A page that only repeated
rows the table has would read as the live edge and end a Kraken backfill early;
with a page of 1,000 prints that takes a burst nobody has seen. What the job is
asked for (`Asked`) is what the exchange had published by the end of its range. Also met: rows that land behind `refresh_window` never reach a
running provider (the history `late`); the cap can cut the oldest order-flow
bucket; a rollup repeated after pruning overwrites a permanent row with fewer
trades; two racing rollups can put an older basis over a newer one; a failed
ingest skips pruning.

## Schedules

`Calendar.tla` is `TradingSchedule.open_elapsed` with zones, overrides and expansion to
candles, and the daily sampling and coverage built on it. `Schedules.tla` has two
parts that never meet, chosen by Init. Part `run`: `StartRow`, `Observe`, `Watch` (the
watchdog's staleness), `EditSchedule`; `InactivityReason` is the daily report's account
of a silent day. Part `import`: `StartImport`, `ImportPage` (paged trades with overlap,
candles committed in batches), `EndImport`, `FailImport`, and the refresh
(`RefreshFetch`, `RefreshCheck`).

| Property | What it says | Why it could be wrong |
|---|---|---|
| `StallIsToldFromClosure` | the watchdog sees a missed scheduled candle and no other; behind a snapshot outside the hours, two of them | candles shared by sessions, midnight, a change of the clocks |
| `ClosureIsProven` | a silent day is put down to a closure only if it was one under the schedule of the time, with no open candle missed before it; one, behind a snapshot outside the hours | edits are not versioned |
| `DailyValuesAreObserved` | daily values exist exactly when no scheduled bar is missing | coverage at the ends of the range |
| `CandlesAreWhole` | a stored candle has each of its trades once | page overlap, batches, failures between pages |

They compare the arithmetic of `open_elapsed` with a reference that asks of every
instant whether a session holds it (`OpenAt`). Two of them have an exception, `Unseen`: after
a last snapshot outside the hours one missed candle is not enough
([disagreement 8](#disagreements-between-the-code-and-its-text)). `DailyEquity` takes values
that pass the input checks of `daily_equity` (`backtest/sampling.py:24`), and
`InactivityReason` a day with a row of the assignment to judge
(`report/daily.py:82` answers other reasons without evidence). Also met: where the clocks go back
over midnight, a session ending at 24:00 could be under-counted (the zones explored
have no such change); a page full of prints of one time raises "cursor did not
advance"; the OHLC endpoint serves a bounded number of periods, so an old gap stays
`missing`; a quiet scheduled bucket makes the watchdog restart a healthy run.

## Runs

| Run | Instance | Shows | States |
|---|---|---|---|
| `control` | kill and resume, two edits, two parameter sets, 3 rows | `KilledStaysDown`, `KilledNotResumed` hold when nothing fails | 840 thousand |
| `config` | two slots (one not startable here), two fees, two edits or settings switches, one crash or graceful stop, failed start or candle, lost status write or chain that cannot be rebuilt, 3 rows | `OneRunningRow`, `TradingRowIsRunning`, `NoSilentReset` under reconfiguration | 2.1 million |
| `faults` | all six kinds of fault, any two of them, 3 rows of one fill | money and identity properties, refinement | 180 thousand |
| `live` | an edit, a kill (addressed or broadcast), a crash or stall, 4 rows, fairness | liveness of the supervisor | 200 thousand |
| `live_trading` | 2 orders, 3 trades, 3 ticks, any two of eight kinds of fault | the books of a live run, refinement of `TradeBook` | 1.7 million |
| `trading_engine` | 2 pairs, spot and perp, 4 steps, 1 restart | accounting, venue, risk, replay | 140 thousand |
| `feeds` | 1 or 2 pairs, 4 candles, one fault, fairness | order, completeness and arrival of candles | 48 thousand |
| `backtest_jobs` | 2 callers, 2 workers, 2 jobs (sweep, stability), 1 crash, fairness | the queue and its results | 480 thousand |
| `reports` | 2 runs, 3 configurations, 6 ticks, 5 reference backtests, 2 ledger rows | trials, curves, rolling verdict | 1.6 million |
| `market_data` | 8 series, 4 histories, 5 ticks | backfills, providers, rollups | 660 thousand |
| `schedules` | 3-day weeks of 8 units, a change of the clocks each way, 1 edit | calendar, watchdog, report, import | 750 thousand |
| `equity_jump` | 3 runs, no trial | the disagreement below | violated |

The four `Supervisor` runs use one assignment and two tasks (a replacement and a
predecessor that is still there; a third would need two hung tasks), with the
tasks symmetric except under liveness. Three rows are a predecessor, its
successor and the next one: the shortest chain whose middle row is both. Two
faults suffice for a failure during the recovery from another; the inductive
invariant is proved for any number. When rows run out, `ClaimSlot` is disabled and
the liveness properties say so (`Len(runs) = MaxRuns`). The supervisor never
deadlocks: `Boot` and the passes are always possible, and deadlock is checked in
its runs; the other modules stop when their clock, their data or their jobs run
out. With one assignment TLC does not see two rows of `run_assignments` interact;
they do only through `Plan`'s choice of tasks and the switch of `PutSettings`, and the
theorems cover any number. The bounds of the other modules are argued in their
sections.

Fairness of the supervisor (`Fairness`): the passes of the loop, `Boot` (the container
restarts the process) and `Exit` (the container runtime kills what hangs), the expiry of
backoffs, markers whose task is over, and the steps of tasks that do not hang.
A stalled task has none: it may hang forever, cancelled or not, which is what
the watchdog is for. No fairness is given to API calls, commands and faults.
`DesiredIsReached` excuses what the code excuses on purpose: disabled, not
startable here, killed, or a chain that `prepare_resume` refuses; and one thing
it does not: a first start that hangs before any row exists
(`HungBeforeAnyRow`), which `_stalled_runs` skips.

Each property of a passing run has a mutant: a definition of the model changed the way
a plausible bug would change the code, under which TLC finds the property
violated in the same instance. They stand before the definition they replace, with
the comment "Mutant".

## Disagreements between the code and its text

**The account curve jumps** (`equity_jump`). `report/equity.py:8` promises "one continuous
account-level series". A fresh run's points are rebased onto the end of the
curve, a resumed run's are not (`report/equity.py:101`), although the ledger it resumes
may belong to a run that was rebased: a failed run, its fresh successor and
that one's resumed successor give a curve that jumps back by the offset at the
second seam.

Eight more. TLC finds each of the first six and the last in the instance named;
they are not runs of the project.

1. **A restart forgets the killed runs** (`KilledStaysDown` in the `control` instance with
   `Faults = {"crash"}`, `MaxFaults = 1`). `killed` is a dict of the process
   (`core/supervisor.py:528`). `core/supervisor.py:12` promises that a killed run
   stays down until a resume command or an update of its row; after a restart it
   is started.
2. **A pause hides a kill** (`KilledStaysDown` with `Commands = {"kill", "pause"}`).
   `_reap_finished` (`core/supervisor.py:465`) reads only the latest command of the ended
   run: a pause issued after the probe acted on the kill and before the reap makes
   the end a crash, restarted after the backoff.
3. **The watchdog's marker makes a killed run resumable** (`KilledNotResumed` with
   `Faults = {"stall"}`). `_mark_watchdog_stopped` (`core/supervisor.py:438`) overwrites
   the newest row whatever its status, and `is_resumable` accepts that reason;
   `README.md:108` says a killed run's successor starts fresh.
4. **The marker halts the replacement's row** (`TradingRowIsRunning` in the `control`
   instance with `Faults = {"stall"}`, which is why the property says "while no task
   hangs"). When the cancelled task ends after its replacement's claim, the newest row
   is the replacement's: it trades with status `halted`, is not listed as live, and
   misses the switch of `PUT /settings`. The comment at `core/supervisor.py:550`
   expects only that the hung run stays silent.
5. **A replay changes average entries** (`ReplayIsExactly` in the `trading_engine`
   instance). `core/resume.py:170` calls the replayed cash and positions "exactly the
   recorded truth". Fills of one timestamp are replayed buys first: after 3 bought at 7,
   a candle that sells 1 and buys 1 at 10 leaves another average entry than the run
   had, and later realized profit, on which the losing streak counts, depends on it.
6. **A replay may refuse what the run accepted** (`Replay(recorded).ok` in the same
   instance). When the sale of such a candle pays for its purchase, buys first runs out of
   cash: `prepare_resume` catches InsufficientFunds (`core/resume.py:368`), logs a
   warning and starts the run at its starting cash, although `README.md:108` says that
   the new run resumes the old one. In `Supervisor` and `LiveTrading` this is the fault
   `replay`.
7. **Venue and ledger part on long sizes.** `venues/paper.py:270` says that the two
   "never drift apart on fractional sizes". The venue sums Decimals; the ledger turns each
   sum into a float (`ledger/ledger.py:131`). Sizes whose sums have more than 15
   significant digits, which a size computed as cash divided by price has, come out
   differently in the last digit. The models add whole numbers and do not show it.
8. **One candle is not missed behind a snapshot outside the hours**
   (`StallIsToldFromClosure` and `ClosureIsProven` in the `schedules` instance with
   `Unseen` 0). `candle_due` (`market_calendar.py:95`) wants two candles of open time since
   the snapshot's candle. When that one is open, the first of them is its own; when it is
   outside the hours, which `docs/trading-schedules.md` lets pollers accept, the first is a
   missed one. So the watchdog notices the second missed candle only, and a final
   candle missed there is reported as a closure, where the same document says it
   "remains inactive".

Also met in the supervisor: a kill for all runs that falls between the
probe's creation and the row's start ends the run, which the supervisor then
restarts, because it counts commands from the row's start; a process that
crashes between a killed run's final status and its audit event leaves a row that
resumes (against `core/resume.py:19`); a watchdog restart inside a candle is
refused for its incomplete checkpoint although the marker's docstring
(`core/supervisor.py:429`) means it to resume; the watchdog does not cancel a
stalled task of a disabled assignment; `README.md:108` predates the risk
checkpoint: a risk-halted chain is refused, not started fresh; `_live_run_ids`
also matches rows from before the configuration carried an assignment id, by
their market, which `LiveRunId` leaves out.

## Proofs

Assumptions: the named ASSUME of each module, which TLC evaluates in every run.
`SupervisorAssumption`: the primary assignment exists, `None` is no task, there is
a configuration, and the bounds are naturals. `JobsAssumption`: `None` is no caller
and no worker, a plan has a point, bounds are naturals. `ExchangeAssumption` and
`LiveAssumption`: the same kind, and the notional ceiling fits the order sizes of the
instance. `MarketDataAssumption`: a page holds a row, a candle and a day have a length, a
print has finitely many possible keys, histories are tapes (see
[market data](#market-data)). `FeedsAssumption`: universes are finite and not empty, a warm-up and
a page hold a candle, the bounds are naturals. `PairsAssumption`: the pairs are numbered.
`EngineAssumption`: the opening cash is a natural, a day has a candle, prices are positive,
batches are sequences of orders of at least a unit. `RiskAssumption`: the limits are
naturals, the smallest order and the losing streak are not empty. `VenueAssumption`: fees
and slippage are at most the price. `ReportsAssumption`: a candle has a length, the gates
are naturals, a trial lasts at least a day, a backtest that can be planned with has a window. Nothing else is assumed, except where a theorem names a
hypothesis; the sets of assignments, slots, tasks, callers, workers, faults and
histories are any. Each inductive invariant is in a module of its own, without
proofs, so that TLC can check it as an invariant of a run's instance, which was
done before each was proved; the runs check the properties.

| Module | Contents |
|---|---|
| `DataLemmas` | greatest and least element of a finite set of integers, what `Max` and `Min` of the community modules return, members of every rank; induction over numbers (`Climbing`) and over finite sets by size (`Growing`); a function on `1 .. n` is a sequence, replacing one row of a table; folds: the recursion behind `FoldLeft` has a solution (`FoldExists`), and what every element keeps the fold keeps (`FoldKeeps`) |
| `SupervisorProofs` | the newest of a set of rows exists; resume chains, defined as least closed sets, are closed, least, stable under new rows, and unfold at their tip; then the invariant lemma by lemma: first the two shapes of a step (a task moves or writes its own row; columns the invariant does not read), then one lemma per action, `InitStep`, `NextStep`; theorems `Invariant`, `TypeCorrect`, `OneTraderAlways`, `ChainIsALineAlways`, `LedgerContinuityAlways`, `RiskHaltNotResumedAlways`; every step maps to a step of `LedgerChain` or a stutter, theorem `Refinement`; how runs end, theorems `EndsInvariant`, `OneRunningRowAlways`, `NoSilentResetAlways`, `TradingRowIsRunningAlways`, `KilledNotResumedAlways`, `KilledStaysDownAlways` |
| `LiveTradingProofs` | theorems `LiveInvariant`, `OpenOrdersAreTrackedAlways`, `CheckpointMeansRecordedAlways`, `BooksFollowTheCursorAlways`, `ImplementsTradeBookAlways` |
| `TradingEngineProofs` | sums over pairs and rows; what one fill does to a ledger, a venue and the risk manager; one lemma per fold; one per action; theorems `Inductive`, `Types`, `AccountsAddUp`, `FillsAreCountedAlike`, `DailyRail`, `ReplayKeepsCashAndUnits`, `BatchesStayInCaps`, `CooldownIsKept` |
| `BacktestJobsProofs` | theorems `JobsInvariant`, `TypeOKAlways`, `ResearchBoundedAlways`, `ResultIsWholeAlways`, `FinishedIsFinalAlways` |
| `MarketDataProofs` | theorems `MarketDataInvariantAlways`, `TypeOKAlways`, `BackfillLeavesNoGapAlways`, `ViewIsTheTableAlways`, `BasisIsKeptAlways` |
| `FeedsProofs` | theorems `FeedsInvariantAlways`, `TypeOKAlways`, `StepsRiseAlways`, `NothingLostAlways` |
| `ReportsProofs` | one lemma per action, resume chains, the folds of a curve and of a trial's positions; what the rows of a trial tell, lemma by lemma; theorems `RecordsAreInOrder`, `JudgesOneAccount`, `CurveIsTrue`, `TrialsAreTold`, `PassesAreEarned`, `InvalidIsFinal` |

### The supervisor

`SupervisorInvariant.tla` states the inductive invariant `IInv`, because none of
the safety properties is inductive. To know that a step does not change what a
successor was built from (`LedgerContinuity`) one must know that no task will
write a fill to a row that was resumed. That needs, in turn:

- `Ownership`: every task is in `live` or has a marker, and a task with a marker is
  cancelled or past its loop. So two live tasks of one assignment are one.
- `RowHeld`: a task has a row of its own assignment from its claim on, and no
  other task has it.
- `Marked`: fills wait in the buffer only under the incomplete marker; a checkpoint
  an interrupted write left behind never covers fills that are still buffered;
  a risk halt is in the row from the moment the engine sees it (`HaltStands`).
- `Quiet(p)`: whoever still holds row `p` records no fill any more, and its cause is not
  the risk rail. `Succession` says every resumed row is quiet and `carried` equals
  the replay; `Prepared` says the same of a task that has prepared and not
  claimed, and that its predecessor has no successor yet.
- `ChainIsALine`, which joins the invariant.

The heart is `PredecessorIsQuiet`: when `prepare_resume` answers a row, that row's
checkpoint is complete, so by `Marked` no fill is buffered, and its task, if
there still is one, has been popped and cancelled by `Ownership`. It has no successor
yet, because a successor would be a newer ended row of the same slot.

On top of it, `EndInv` is about how runs end. Its parts hold under different
faults, and each says which in its hypothesis:

- `OneRunningRow` is inductive with `IInv`: a claim supersedes what runs in its slot,
  and a late wind-down or marker never writes "running".
- `Recorded` (all faults): what is written of an end is what the engine ended for: a
  row says failed only of a failure or a cancellation, is audited only with its
  cause, and has a halt reason only when halted. `NoSilentReset` follows: what
  supersession, marker and wind-down leave of a crash or a graceful stop reads as
  resumable, so `prepare_resume` carries it or refuses it, unless the chain cannot
  be rebuilt: that step counts as a fault of its own, which the
  property names.
- `InFront` (`NothingHangs`: no stall): a task's row is its assignment's newest
  and runs while it trades. A stall is excluded because the marker halts the newest
  row (disagreement 4).
- `KillIsWritten` (`EndsAreWritten`: candles and starts may fail, nothing else does):
  a killed row is halted and audited, or its task has still to do so; nobody
  has prepared to resume it. A crash between the final status and its audit event, or a lost
  one, makes a killed row look like a graceful stop, a marker like a hung run
  (disagreement 3).
- `KillHolds` (`KillIsHeard`: only kill and resume, addressed to one run, and no
  crash, shutdown, stall or lost status): a held row is the newest, its assignment still wants it, in
  the table and in what the pass has listed, and its task or its entry in
  `killed` holds it. A restart forgets `killed` (disagreement 1) and a later
  command takes the kill's place (disagreement 2).

### Live trading

`Taken` is the set of trades behind the venue's cursor that no longer wait to be
booked. `Backed` says that no row holds more, recorded, recovered and buffered
together, than its order has in `Taken`; `Follows` that the ledger is what
`Taken` adds up to; `Rooted` that the ledger is what the chain's rows and the
two buffers add up to since its root. They need `Cursor` (what the venue remembers
lies at or before its cursor, so a tie is read again and recognized), `Waiting` (a poll's
fills are of consumed trades, one per order), `Buffered` (in which phases a
buffer is empty) and `Dated` (no chain and no recorded fill is of the future, so a restart's
cursor is not either).
`Tracked` says in each phase which orders may still execute. The hard steps are
`Recover`, which attributes missed trades to rows with two possible ids, and
`PollTrades` at a tie. `ImplementsTradeBook` maps the recorded
fills of an order's two possible rows to rows of `TradeBook`: they only grow, and by
`Backed` a commit never takes one past what its order executed.

### The trading engine

`IInv` of `TradingEngineInvariant.tla` compares the ledger with what was summed up, counted
or remembered since the chain began:

- `Sound(ledger)`: the account adds up (`Balanced`, which is `AccountingIdentity`), and is `Solvent`:
  spot cash and positions are never negative, and what is not held costs nothing.
  A full close must give the whole cost back, whatever was rounded before; without
  `Solvent` a fill the ledger accepts could leave a cost behind on nothing.
- `AddUp`: cash and units of a spot chain are sums over its recorded rows. It is why a
  replay may reorder them.
- `VenueAgreesWithLedger`: inductive once a candle is followed fill by fill. A venue reports
  all fills of a candle before the first is booked, so the venue is ahead by the
  fills still to book, and a refused one takes just its own away (`Voided`).
- `RailRemembers`: day, day floor and last floor in the risk manager are those of the
  floors of the chain, and a run that still decides is inside the limit; a restart
  carries them over (`Restored`).
- `Counted`: since some row the losses counted and the full streaks are all exits, and a full
  streak keeps the cooldown running for as many steps as are left of it.
- `OrdersAreOld`: orders that wait were decided before, so what a decision adds is all
  that is pending of its step.

The folds are met by one instance of `DataLemmas` for an operator that stands for all of
them: a fold's captured values carry its name, and `FoldOp` looks the name up. One lemma
per fold (`MarketsKeep` to `StepsKeep`) then says that what each element keeps the
whole walk keeps.
`ReplayKeepsCashAndUnits` follows a replay timestamp by timestamp, buys and then sells: every
row is met once, so the sums of `AddUp` are the same in any order, and an accepted
replay ends with them.
`BatchesStayInCaps` is about a step: what the intents of a batch approved so far
adds up to stays inside the budget that `Assess` keeps, for each of its three branches,
and the pending orders are that batch. `CooldownIsKept` is proved with it.

### Backtest jobs

`Locked` and `Room`: the request that was counted holds the lock until it commits,
and while one does there is room for its job; `ResearchBounded` follows. For
`ResultIsWhole` a worker's notes must agree with its job's runs after every
prefix of the plan (`Shown(kind, n, ...)`), and no job may be executed twice
(`Apart`), which rests on the claim: a row being claimed is queued, and only its
worker has it. `FinishedIsFinalAlways` has the hypothesis `~Overlap`, the compose file's single
worker: `AloneInv` adds that what a starting worker found running is
executed by nobody.

### Market data

Between two pages of a backfill, `KrakenPaged`, `BinancePaged` and `PointsPaged` say what of the
range is already stored, up to the cursor or the next request, and that the last page's tail lies in
one millisecond; each page extends it, and at the end it is `BackfillLeavesNoGap`.
A refresh of a provider reads the newest rows of a window and keeps older
ones; `ViewIsFull` says what the view may lack that the next refresh does not read
(rows older than a full view), `PrunedIsOlder` that a row the table has lost is
older than any it has, so that the cap drops it first. Rows that land behind
the window are the history `late`, which the property excepts.

### Candle feeds

`NothingLost` joins the invariant; `Accounted(p, t)` names the places a polled candle can be,
and each action moves candles between them. It needs to know that a candle is
never taken for covered when it leaves the joiner or the queue. With several pairs, what waits
comes after the joiner's last step and a pair's last step is its warm-up tail
or not after the joiner's (`Joining`), so a pending candle past the tail is fresh. With
one pair there is no joiner: what its poller delivered lies past its last step, as the
poller is not resumed before its candles are used (`Alone`). A poll skips nothing because
a seeded poller asks from its baseline on, and the exchange serves late commits
only above the newest candle it has (`Published`, `ExchangeStep`).
For `StepsRise`, `InOrder` says that every step seen has `Passed`: it lies at or before each pair's
warm-up tail, or at or before what has gone out since. A fresh candle lies after
both when the tails are even, and with uneven ones only after its own pair's: the
hypothesis is what `ClockNeverRewinds` lacks.

### Reports

`Inductive` of `ReportsInvariant.tla` has four parts: `Typed`; `PointsInOrder` (points are recorded run
by run, and within a run later candles only; over a restart a candle may repeat but
none goes back); `NextIsNew` (the newest run has not recorded the candle it will process);
`FillsAreSignalled` (a fill has an earlier candle of its run, because a restart drops the open
order). `ChainsAre` shows by induction over the runs that the recursion of `ChainOf` has a
solution and that a chain is rising, begins with its only fresh run and ends with
the run it is of.
`JudgesOneAccount`: the replay begins at the earliest point of the chain's first run; by
`PointsInOrder` no later run has an earlier one, and by `FillsAreSignalled` every fill lies after
it.
`CurveIsTrue`: `Rows` and `Kept` select in order (`Sifted`); along the chain, the curve so far shows
the newest recording by the runs joined so far (`IsCurve`), and joining the next run
keeps it (`Joined`): what is kept lies before its first row, and its rows were written
after all of theirs. Only the first run of a chain is fresh, and before it the curve is
empty, so nothing is ever moved.

`PassesAreEarned`: `Judging` says what the rows of a trial still tell of `truth` once its
window is over. A fault in the window has left a run that shows it
(`FaultsAreTold`); the fills that will be judged fold to the positions the ledger
went through (`PositionsAreTold`, by following the fold of `Positions` fill by fill, `PathIs`);
the newest judged point has the ledger's equity (`EquityIsTold`). The rows are
described as they will be judged in the end (`FinalRuns`, `FinalPoints`, `FinalFills`), because
what is judged grows while the window is open: a run that starts late in it
brings points that were not relevant before. When the window is over the two
agree (`JudgedFinally`), and `JudgingEarns` reads each clause off the verdict.
`InvalidIsFinal` is the converse: no row is lost or changed (`RowsStay`), what is judged
only grows (`JudgedGrows`), and each ground of an invalid trial, taken one by one, stays.

### Only model-checked

- `StallIsToldFromClosure`, `ClosureIsProven`, `DailyValuesAreObserved`, `CandlesAreWhole`: they compare sums of open
  time over zones, overrides and changes of the clock with a reference over every
  instant, and what they rest on is arithmetic with quotients and remainders of
  constants that are parameters, where the provers find no steps.
- Liveness under fairness is out of TLAPS's reach: `DesiredIsReached`, `StopIsHonoured`,
  `KillTakesEffect`, `CandlesArrive`, `JobsFinish`.
- Without the theorems' hypotheses `TradingRowIsRunning`, `KilledNotResumed`, `KilledStaysDown` and
  `FinishedIsFinal` are false, as the disagreements and the section on backtest jobs say.

## Not modelled

- Two supervisors at once (an overlapping deploy): the repository starts one.
- The strategy version in `is_resumable`; alerts and the digest of `core/notify.py`.
- Values of market data, parsing of answers, and the static providers of a backtest.
- In live trading: market orders, the paging of the trades request, the quote balance,
  the checks of the API key. The exchange is modelled from how `venues/kraken_client.py` uses it.
- What floats lose of a position of more than 15 digits (disagreement 7).
- A stability job whose range has fewer microseconds than windows.
- The input checks of the daily sampling, and the daily report's answers without
  evidence.
- In the reports: the Sharpe gate, the least notional of a counted position, slippage, benchmarks, the weekly rows, chains whose ancestors
  are gone. A halt's audit event is written with its row; how it can be lost is in
  `Supervisor`.
- The numeric parts of the backtests (metrics), the experiments API and the research
  sandbox, the xStocks account tools (comparisons of exported files), the strategy
  SDK, the CLI's wiring, the schema and the web interface: no state of their own or
  no interleaving to check.
