----------------------------- MODULE Schedules ------------------------------
(***************************************************************************)
(* An instrument that trades by a schedule (xStocks), in two parts that    *)
(* share only the clock and the schedule.  "run": a shadow run's snapshots *)
(* under the supervisor's watchdog, the operator's edits of the schedule,  *)
(* the daily report's account of a silent day and the daily valuations.    *)
(* "import": the reconstruction of candles from paged trades               *)
(* (data/xstocks.py) and the scheduled refresh with its coverage           *)
(* (data/xstocks_refresh.py).                                              *)
(*                                                                         *)
(* An assignment of the "run" part has a schedule, is enabled and keeps    *)
(* its market, and a run row ends only when its task is replaced: the      *)
(* daily report's answers for the other cases (no_schedule_evidence,       *)
(* assignment_mismatch, a row that is not running and has no end), which   *)
(* all leave the day inactive, are left out.  A candle's volume is its     *)
(* number of trades.                                                       *)
(***************************************************************************)
EXTENDS Calendar

CONSTANTS
    Parts,       \* the parts explored
    Plans,       \* the schedules, each with its zone
    Tapes,       \* the instrument's trades: sequences of times, the index is the id
    Grace,       \* WATCHDOG_GRACE
    CloseGrace,  \* CLOSE_GRACE
    Page,        \* trades of a page
    Recent,      \* periods the OHLC endpoint serves
    Batch,       \* candles of a commit
    Span,       \* "days" of a refresh
    MaxNow,      \* bound on the clock
    MaxEdits,    \* bound on edits
    None

VARIABLES
    part, now,
    eras,    \* the assignment's schedules, each with the time it was set
    task,    \* when the supervisor started the run's task
    row,     \* when the latest run row was started
    snaps,   \* opening times of that row's equity snapshots
    tape,
    stored,  \* the candles table, by opening time
    imp,     \* the import in progress
    report   \* the last refresh

vars == <<part, now, eras, task, row, snaps, tape, stored, imp, report>>

Time    == 0..MaxNow
Buckets == {t \in Time : t % Candle = 0}

schedule  == eras[Len(eras)].schedule
updatedAt == eras[Len(eras)].at

NoImport == [phase |-> "idle", first |-> 0, stop |-> 0, cursor |-> 0, previous |-> {}, rows |-> <<>>]
NoReport == [status |-> "none", start |-> 0, end |-> 0]

TypeOK ==
    /\ part \in Parts /\ now \in Time /\ task \in Time /\ row \in Time
    /\ snaps \subseteq Buckets
    /\ \A i \in DOMAIN eras : eras[i].at \in Time /\ eras[i].schedule \in Plans
    /\ imp.phase \in {"idle", "page", "done"} /\ imp.previous \subseteq DOMAIN tape
    /\ report.status \in {"none", "error", "fetched", "complete", "scheduled_closed",
                          "missing", "schedule_mismatch"}

Init ==
    /\ part \in Parts
    /\ \E s \in Plans : eras = <<[at |-> 0, schedule |-> s]>>
    /\ IF part = "import" THEN tape \in Tapes ELSE tape = <<>>
    /\ now = 1 /\ task = 0 /\ row = 0 /\ snaps = {}
    /\ stored = [b \in Buckets |-> None]
    /\ imp = NoImport /\ report = NoReport

-----------------------------------------------------------------------------
(* The run and its watchdog.                                               *)

\* staleness_reference: a row older than the task is the predecessor's.
Preparing == row < task
Reference == IF Preparing THEN task ELSE IF snaps # {} THEN Max(snaps) ELSE row

\* watchdog_is_stale; a task that prepares its run is on wall time.
Stale == IF Preparing THEN now - Reference > 2 * Candle + Grace
                      ELSE CandleDue(schedule, Reference, now, Grace)

StartRow ==
    /\ part = "run" /\ Preparing
    /\ row' = now /\ snaps' = {}
    /\ UNCHANGED <<part, now, eras, task, tape, stored, imp, report>>

\* A candle that closed after the start is processed; any may be missing.
Observe ==
    /\ part = "run" /\ ~Preparing
    /\ \E b \in Buckets :
           /\ b + Candle <= now /\ b + Candle > row /\ \A p \in snaps : p < b
           /\ snaps' = snaps \cup {b}
    /\ UNCHANGED <<part, now, eras, task, row, tape, stored, imp, report>>

\* The supervisor cancels the task; the one it starts prepares a new run.
Watch ==
    /\ part = "run" /\ Stale
    /\ task' = now
    /\ UNCHANGED <<part, now, eras, row, snaps, tape, stored, imp, report>>

\* PUT /assignments/{id}; what else it changes is in Supervisor.
EditSchedule ==
    /\ part = "run" /\ Len(eras) <= MaxEdits
    /\ \E s \in Plans \ {schedule} : eras' = Append(eras, [at |-> now, schedule |-> s])
    /\ UNCHANGED <<part, now, task, row, snaps, tape, stored, imp, report>>

Silent(start, end) == \A p \in snaps : p \notin start..(end - 1)
Before(start)      == {p \in snaps : p < start}

\* Mutant: an edit between the last snapshot and the day is overlooked.
InactivityReasonLater(start, end) ==
    IF Preparing /\ task < end THEN "run_stopped"
    ELSE IF Before(start) = {} THEN "no_prior_snapshot"
    ELSE IF updatedAt > start THEN "assignment_changed_since_evidence"
    ELSE IF OpenElapsed(schedule, start, end, Candle) > 0 THEN "market_was_open"
    ELSE IF CandleDue(schedule, Max(Before(start)), end, Grace) THEN "stale_before_closure"
    ELSE "scheduled_closure"

\* _inactivity_reason of the latest row's run, for a day without snapshots and
\* an enabled assignment that has a schedule and still matches the run.
InactivityReason(start, end) ==
    IF Preparing /\ task < end THEN "run_stopped"
    ELSE IF Before(start) = {} THEN "no_prior_snapshot"
    ELSE IF updatedAt > Min({start, Max(Before(start))}) THEN "assignment_changed_since_evidence"
    ELSE IF OpenElapsed(schedule, start, end, Candle) > 0 THEN "market_was_open"
    ELSE IF CandleDue(schedule, Max(Before(start)), end, Grace) THEN "stale_before_closure"
    ELSE "scheduled_closure"

-----------------------------------------------------------------------------
(* The import of candles from trades.                                      *)

\* The exchange pages from a time on, inclusively, and returns that of the
\* page's last trade as the next cursor.
TradePage(cursor) ==
    LET out == {i \in DOMAIN tape : tape[i] <= now /\ tape[i] >= cursor}
    IN  {i \in out : Cardinality({j \in out : j <= i}) <= Page}

Of(rows, b) == SelectSeq(rows, LAMBDA i : Bucket(tape[i]) = b)
BucketsOf(rows) == {Bucket(tape[rows[i]]) : i \in DOMAIN rows}

\* A candle: its volume, its first and its last trade.
CandleOf(trades) == [volume |-> Len(trades), open |-> trades[1], close |-> trades[Len(trades)]]

Upserted(rows, bs) ==
    [b \in Buckets |-> IF b \in bs THEN CandleOf(Of(rows, b)) ELSE stored[b]]

\* Boundary buckets the request cuts are excluded, and those not closed yet.
StartImport ==
    /\ part = "import" /\ imp.phase = "idle"
    /\ \E start, end \in Time :
           LET first == Ceil(start, Candle)
               stop  == Floor(Min({end, now - CloseGrace}), Candle)
           IN  /\ start < end /\ first < stop
               /\ imp' = [NoImport EXCEPT !.phase = "page", !.first = first, !.stop = stop,
                                          !.cursor = first - 1]
    /\ UNCHANGED <<part, now, eras, task, row, snaps, tape, stored, report>>

\* Mutant: the page's overlap with the one before is not removed.
UniqueAll(page) == page

\* A trade is told by its id.
Unique(page) == page \ imp.previous

\* The trades of a page the import takes, behind those not committed yet.
Taken(page) ==
    imp.rows \o SetToSortSeq({i \in Unique(page) : tape[i] \in imp.first..(imp.stop - 1)}, <)

\* Past the range, or at the end of the history: the last bucket is whole.
EndImport ==
    /\ imp.phase = "page"
    /\ LET page == TradePage(imp.cursor)
           rows == Taken(page)
       IN  /\ \/ page = {}
              \/ \E i \in Unique(page) : tape[i] >= imp.stop
              \/ page # {} /\ Unique(page) = {} /\ tape[Max(page)] = imp.cursor
           /\ stored' = Upserted(rows, BucketsOf(rows))
           /\ imp' = [imp EXCEPT !.phase = "done", !.rows = <<>>]
    /\ UNCHANGED <<part, now, eras, task, row, snaps, tape, report>>

\* The buckets before the last one, in whole batches.
Committable(rows) ==
    LET complete == BucketsOf(rows) \ {Bucket(tape[rows[Len(rows)]])}
        whole    == (Cardinality(complete) \div Batch) * Batch
    IN  {b \in complete : Cardinality({c \in complete : c <= b}) <= whole}

ImportPage ==
    /\ imp.phase = "page"
    /\ LET page == TradePage(imp.cursor)
           rows == Taken(page)
           out  == Committable(rows)
       IN  /\ page # {} /\ \A i \in Unique(page) : tape[i] < imp.stop
           /\ tape[Max(page)] > imp.cursor
           /\ stored' = Upserted(rows, out)
           /\ imp' = [imp EXCEPT !.cursor = tape[Max(page)], !.previous = page,
                                 !.rows = SelectSeq(rows, LAMBDA i : Bucket(tape[i]) \notin out)]
    /\ UNCHANGED <<part, now, eras, task, row, snaps, tape, report>>

\* A request fails, or the cursor did not advance over new trades.
FailImport ==
    /\ imp.phase \in {"page", "done"}
    /\ imp' = NoImport
    /\ UNCHANGED <<part, now, eras, task, row, snaps, tape, stored, report>>

Served == {b \in Buckets : /\ b + Candle + CloseGrace <= now
                           /\ b >= Bucket(now) - Recent * Candle
                           /\ \E i \in DOMAIN tape : Bucket(tape[i]) = b}

\* refresh_xstocks fetches the recent candles, whatever the schedule says,
RefreshFetch ==
    /\ part = "import" /\ report.status # "fetched"
    /\ LET end   == Floor(now - CloseGrace, Candle)
           start == end - Span
       IN  \/ /\ stored' = Upserted([i \in DOMAIN tape |-> i], Served \cap (start..(end - 1)))
              /\ report' = [status |-> "fetched", start |-> start, end |-> end]
           \/ /\ report' = [status |-> "error", start |-> start, end |-> end]
              /\ UNCHANGED stored
    /\ UNCHANGED <<part, now, eras, task, row, snaps, tape, imp>>

\* and compares what the table then holds with the schedule.
RefreshCheck ==
    /\ report.status = "fetched"
    /\ report' = [report EXCEPT !.status =
           Coverage(schedule, {b \in Buckets : stored[b] # None /\ b \in report.start..(report.end - 1)},
                    report.start, report.end)]
    /\ UNCHANGED <<part, now, eras, task, row, snaps, tape, stored, imp>>

Tick ==
    /\ now < MaxNow
    /\ now' = now + 1
    /\ UNCHANGED <<part, eras, task, row, snaps, tape, stored, imp, report>>

Next ==
    \/ StartRow \/ Observe \/ Watch \/ EditSchedule
    \/ StartImport \/ ImportPage \/ EndImport \/ FailImport
    \/ RefreshFetch \/ RefreshCheck
    \/ Tick

Spec == Init /\ [][Next]_vars

-----------------------------------------------------------------------------
(* Properties.                                                             *)

\* An instant is open when a session of some local day holds it.
OpenAt(s, u) ==
    \E d \in -1..(Day(MaxNow) + 1) : \E i \in DOMAIN SessionsOf(s, d) :
        /\ Boundary(s.zone, d * DayLen + SessionsOf(s, d)[i].start, FALSE) <= u
        /\ u < Boundary(s.zone, d * DayLen + SessionsOf(s, d)[i].end, TRUE)

OpenBucket(s, b) == \E u \in b..(b + Candle - 1) : OpenAt(s, u)

\* Scheduled candles after "from" that should have been delivered by t.
Owed(s, from, t) == {b \in Buckets : b > from /\ b + Candle + Grace <= t /\ OpenBucket(s, b)}

\* Candles owed after the one at b that candle_due does not see: none after an
\* open one, the first after one outside the hours.
Unseen(s, b) == IF OpenBucket(s, b) THEN 0 ELSE 1

\* A closure, a change of the clocks or two sessions in one candle never make
\* the watchdog take a run that has all its candles for a stalled one, and a
\* run is stale exactly from the delivery of the candle after its last snapshot
\* on.  Behind a snapshot outside the hours, which the pollers accept and an
\* edit can bring about, that candle alone is not enough: candle_due counts two
\* candles of open time from the snapshot's on, so it takes a second one.
StallIsToldFromClosure ==
    part = "run" /\ ~Preparing =>
        /\ Stale => \E b \in Buckets : b + Candle > Reference /\ b \notin snaps
                                       /\ b + Candle + Grace <= now /\ OpenBucket(schedule, b)
        /\ snaps # {} => (Stale <=> Cardinality(Owed(schedule, Max(snaps), now))
                                      > Unseen(schedule, Max(snaps)))
        /\ Cardinality(Owed(schedule, Reference, now)) >= 2 => Stale

\* The schedule in force at an instant.
InForce(u) == eras[Max({i \in DOMAIN eras : eras[i].at <= u})].schedule

\* "A later edit must not retroactively excuse an outage": a silent day is put
\* down to a closure only if the schedules in force at the time had no open
\* candle that day and the last snapshot was the last one owed before it.  After
\* a last snapshot outside the hours one open candle may have been missed and
\* the day still count as a closure, which docs/trading-schedules.md ("a missing
\* final Friday candle remains inactive") does not say.
ClosureIsProven ==
    part = "run" =>
        \A d \in 0..(Day(now) - 1) :
            LET start == d * DayLen
                end   == start + DayLen
                prev  == Max(Before(start))
            IN  Silent(start, end) /\ InactivityReason(start, end) = "scheduled_closure" =>
                    /\ \A u \in start..(end - 1) : ~OpenAt(InForce(u), u)
                    /\ Cardinality({b \in Buckets : /\ b > prev /\ b + Candle + Grace <= end
                                                    /\ OpenBucket(InForce(b), b)})
                         <= Unseen(InForce(prev), prev)

\* "Carry observed closing valuations across closures, never across missing
\* bars": daily values exist exactly when there is a midnight and no scheduled
\* candle is missing up to the last one, and each is the newest observation;
\* valued as of now, or as of the last close where no end is given.
DailyValuesAreObserved ==
    part = "run" /\ snaps # {} => \A end \in {now, Max(snaps) + Candle} :
        LET values  == DailyEquity(schedule, snaps, end)
            last    == Floor(end, DayLen)
            missing == {b \in Buckets : b > Min(snaps) /\ b < last /\ b \notin snaps
                                        /\ OpenBucket(schedule, b)}
        IN  /\ (DOMAIN values # {}) <=> (Min(snaps) + Candle <= last /\ missing = {})
            /\ \A m \in DOMAIN values :
                   /\ values[m] \in snaps /\ values[m] + Candle <= m
                   /\ \A p \in snaps : p + Candle <= m => p <= values[m]

Whole(b) == Of([i \in DOMAIN tape |-> i], b)

\* A candle in the table has every trade of its bucket once, whichever pages
\* they came on, whatever failed or ran at the same time; an import that ended
\* has left none out, and a refresh that says "complete" had all of its
\* schedule's candles.
CandlesAreWhole ==
    part = "import" =>
        /\ \A b \in Buckets : stored[b] # None => Whole(b) # <<>> /\ stored[b] = CandleOf(Whole(b))
        /\ imp.phase = "done" =>
               \A b \in Buckets : b \in imp.first..(imp.stop - 1) /\ Whole(b) # <<>> => stored[b] # None
        /\ report.status = "complete" =>
               \A b \in Buckets : b \in report.start..(report.end - 1) /\ OpenBucket(schedule, b) =>
                   stored[b] # None

=============================================================================
