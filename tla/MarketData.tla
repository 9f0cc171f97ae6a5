----------------------------- MODULE MarketData -----------------------------
(***************************************************************************)
(* The stores behind a strategy's order-flow, funding and positioning      *)
(* views, from the exchange to the strategy: the paged backfills of        *)
(* data/ingest.py, the tables and their retention pruning (data/trades.py, *)
(* book.py, funding.py, open_interest.py, futures_metrics.py), the top of  *)
(* book collector, the daily rollup, and the providers of core/orderflow,  *)
(* core/funding and core/positioning that an engine refreshes at a candle. *)
(*                                                                         *)
(* The series live in tables of their own and never meet, so a behaviour   *)
(* follows one of them, picked by Init as "feed".  A row is its time and   *)
(* the rest of its key (price, size and side of a tick; the exchange's     *)
(* clients give ticks no trade_id).  The exchange's whole history is       *)
(* "tape"; the clock says how much of it is out.                           *)
(***************************************************************************)
EXTENDS Integers, Sequences, FiniteSets, FiniteSetsExt

CONSTANTS
    Feeds,          \* the series explored
    Tapes,          \* the histories explored: sequences of rows, oldest first
    Keys,           \* what tells two rows of one instant apart
    MaxNow,         \* bound on the clock
    Page,           \* rows one request returns
    PageWindow,     \* trades_page_window of the Binance client
    Lookback,       \* --days of an ingest command
    Retention,      \* trades_retention_days, book_retention_days
    RefreshWindow,  \* DbOrderFlowProvider.refresh_window
    Cap,            \* rows a provider keeps
    DayLen, Candle, \* lengths of a day and of a candle
    Rollups,        \* orderflow-rollup commands: "cron" and an operator's
    Bases,          \* trading schedules a rollup can be given
    None

VARIABLES
    feed, tape, now,
    store,   \* the rows of the series' table
    job,     \* the ingest command or the collector cycle in progress
    eng,     \* the engine's virtual clock at its last update
    cache,   \* the provider's rows
    late,    \* rows that reached the table behind the provider's window
    daily,   \* orderflow_daily, by day
    rolls    \* each rollup between its reads and its commit

vars == <<feed, tape, now, store, job, eng, cache, late, daily, rolls>>

Ticks  == {"kraken", "binance"}
Polled == {"book", "rollup"}  \* the book seen by its provider, and by the rollup
Points == {"candles", "funding", "open_interest"}
Time   == 0..MaxNow
Day(t) == t \div DayLen
Row    == [ts : Time, key : Keys]
At(t)  == [ts |-> t, key |-> CHOOSE k \in Keys : TRUE]  \* a row its time identifies

Aggregate == [count : Nat, basis : Bases \cup {None}]
Reads     == [day : 0..Day(MaxNow), count : Nat, basis : Bases \cup {None}]

\* A history is in the exchange's order.  A full page of prints of one
\* millisecond has one that none before it repeats: a page of Kraken's holds
\* 1,000 prints.
IsTape(h) ==
    /\ h \in Seq([ts : 1..MaxNow, key : Keys])
    /\ \A i, j \in DOMAIN h : i < j => h[i].ts <= h[j].ts
    /\ \A i \in DOMAIN h : i + Page - 1 \in DOMAIN h /\ h[i + Page - 1].ts = h[i].ts =>
           \E k \in i..(i + Page - 1) : \A j \in 1..i : h[k] # h[j]

ASSUME MarketDataAssumption ==
    /\ Feeds \subseteq Ticks \cup Polled \cup Points \cup {"metrics"}
    /\ MaxNow \in Nat \ {0} /\ Page \in Nat \ {0} /\ PageWindow \in Nat \ {0}
    /\ Lookback \in Nat /\ Retention \in Nat /\ RefreshWindow \in Nat /\ Cap \in Nat
    /\ DayLen \in Nat \ {0} /\ Candle \in Nat \ {0}
    /\ IsFiniteSet(Keys) /\ Keys # {}
    /\ None \notin Bases \cup Aggregate \cup Reads
    /\ \A h \in Tapes : IsTape(h)

Idle == [phase |-> "idle", start |-> 0, end |-> 0, since |-> 0, cursor |-> 0, last |-> 0, tail |-> {}]
\* Rows are dated from 1 on, so a cursor or a last time of 0 is the code's None.

TypeOK ==
    /\ feed \in Feeds /\ tape \in Tapes \cup {<<>>} /\ now \in Time /\ eng \in Time
    /\ store \subseteq Row /\ cache \subseteq Row /\ late \subseteq Row
    /\ Cardinality(cache) <= Cap
    /\ job.phase \in {"idle", "page", "done"} /\ job.tail \subseteq Row
    /\ \A d \in DOMAIN daily : daily[d] = None \/ daily[d].basis \in Bases \cup {None}

\* The points of a series are this far apart, at least.
Step == IF feed = "candles" THEN Candle ELSE 1

Init ==
    /\ feed \in Feeds
    /\ IF feed \in Ticks \cup Points
       THEN tape \in {h \in Tapes : feed \in Points =>
                         \A i, j \in DOMAIN h : i < j => h[i].ts + Step <= h[j].ts}
       ELSE tape = <<>>
    /\ now = 1 /\ eng = 0
    /\ store = {} /\ cache = {} /\ late = {}
    /\ job = Idle
    /\ daily = [d \in 0..Day(MaxNow) |-> None]
    /\ rolls = [p \in Rollups |-> None]

-----------------------------------------------------------------------------
(* The exchange's answers, as positions of the tape.                       *)

\* A candle is served only once it has closed.
Published(t) == {i \in DOMAIN tape : tape[i].ts + (IF feed = "candles" THEN Candle ELSE 0) <= t}
Out == Published(now)

FirstPage(S) == {i \in S : Cardinality({j \in S : j <= i}) <= Page}

\* Kraken pages from its own cursor, inclusively; "since" seeds the first page.
KrakenPage(since, cursor) ==
    FirstPage({i \in Out : IF cursor = 0 THEN tape[i].ts >= since ELSE i >= cursor})

\* Binance answers from "since" and never past its window.
WindowPage(since) == FirstPage({i \in Out : tape[i].ts \in since..(since + PageWindow - 1)})

PointPage(since) == FirstPage({i \in Out : tape[i].ts >= since})

-----------------------------------------------------------------------------
(* Ingest commands and the collector.                                      *)

\* ON CONFLICT DO NOTHING.  "late" is the model's own note of what a provider
\* reading from its newest row less the window cannot come to see.
Stored(rows) ==
    /\ store' = store \cup rows
    /\ late' = late \cup {r \in rows \ store :
                   feed # "rollup" /\ \E c \in cache : r.ts < c.ts - RefreshWindow}

StartIngest ==
    /\ job.phase = "idle" /\ feed \in Ticks \cup Points
    /\ LET start == Max({1, now - Lookback})
       IN  /\ start < now
           /\ job' = [Idle EXCEPT !.phase = "page", !.start = start, !.end = now, !.since = start]
    /\ UNCHANGED <<feed, tape, now, store, eng, cache, late, daily, rolls>>

Finish == job' = [job EXCEPT !.phase = "done"] /\ UNCHANGED <<store, late>>

\* Mutant: the page boundary's rows told apart by their time alone.
FreshByTime(batch) == {i \in batch : tape[i].ts \notin {r.ts : r \in job.tail}}

\* The rows of a page not served before: the page boundary's are, by the
\* inclusive cursor.
Fresh(batch) == {i \in batch : tape[i] \notin job.tail}

Boundary(new) == {tape[i] : i \in {j \in new : tape[j].ts = tape[Max(new)].ts}}

\* One turn of the backfill's loop: ask, then skip an empty window, stop at
\* the live edge, or commit the page and move on.
BackfillTrades ==
    /\ job.phase = "page" /\ feed \in Ticks
    /\ LET page   == IF feed = "kraken" THEN KrakenPage(job.since, job.cursor)
                                        ELSE WindowPage(job.since)
           cursor == IF feed = "kraken" /\ page # {} THEN Max(page) ELSE 0
           batch  == {i \in page : tape[i].ts < job.end}
           new    == Fresh(batch)
           last   == tape[Max(new)].ts
           moved  == job.cursor # 0 /\ cursor # 0 /\ cursor # job.cursor
       IN  \/ job.since >= job.end /\ Finish
           \/ /\ job.since < job.end /\ page = {}
              /\ feed = "binance" /\ job.since + PageWindow < job.end
              /\ job' = [job EXCEPT !.since = @ + PageWindow, !.cursor = cursor]
              /\ UNCHANGED <<store, late>>
           \/ /\ job.since < job.end /\ batch = {}
              /\ page = {} => feed # "binance" \/ job.since + PageWindow >= job.end
              /\ Finish
           \/ job.since < job.end /\ batch # {} /\ new = {} /\ Finish
           \/ /\ job.since < job.end /\ new # {}
              /\ \/ last <= job.last /\ ~moved /\ Finish
                 \/ /\ last > job.last \/ moved
                    /\ Stored({tape[i] : i \in new})
                    /\ job' = [job EXCEPT !.last = last, !.tail = Boundary(new),
                                          !.since = last + 1, !.cursor = cursor]
    /\ UNCHANGED <<feed, tape, now, eng, cache, daily, rolls>>

\* ON CONFLICT DO UPDATE: the time identifies a point, a later answer for it
\* replaces its value (values are left out here).
StoredPoints(rows) ==
    /\ store' = {r \in store : \A s \in rows : s.ts # r.ts} \cup rows
    /\ UNCHANGED late

\* The loop the three point series share; "step" is how far past the last
\* row the next request starts.
PagePoints(step) ==
    LET batch == {i \in PointPage(job.since) : tape[i].ts < job.end}
        last  == tape[Max(batch)].ts
    IN  /\ job.phase = "page"
        /\ \/ (job.since >= job.end \/ batch = {}) /\ Finish
           \/ job.since < job.end /\ batch # {} /\ last <= job.last /\ Finish
           \/ /\ job.since < job.end /\ batch # {} /\ last > job.last
              /\ StoredPoints({tape[i] : i \in batch})
              /\ job' = [job EXCEPT !.last = last, !.since = last + step]
        /\ UNCHANGED <<feed, tape, now, eng, cache, daily, rolls>>

BackfillCandles      == feed = "candles"       /\ PagePoints(Candle)
BackfillFunding      == feed = "funding"       /\ PagePoints(1)
BackfillOpenInterest == feed = "open_interest" /\ PagePoints(1)

\* A request or the process fails: the pages committed so far stay, and the
\* pruning that would have followed does not happen.
FailIngest ==
    /\ job.phase = "page"
    /\ job' = Idle
    /\ UNCHANGED <<feed, tape, now, store, eng, cache, late, daily, rolls>>

StoredBook(t) == Stored({At(t)})

\* A pair's poll fails, has no usable quote, or lands under the ticker's
\* time; a second poll of one time is dropped, whatever it quotes.
CollectBook ==
    /\ job.phase = "idle" /\ feed \in Polled
    /\ \/ UNCHANGED <<store, late>>
       \/ \E t \in (now - 1)..now : t > 0 /\ StoredBook(t)
    /\ job' = [Idle EXCEPT !.phase = "done"]
    /\ UNCHANGED <<feed, tape, now, eng, cache, daily, rolls>>

\* The archive's files of closed days; a file that fails is skipped.  A row of
\* this series is dated by its day.
ImportArchive ==
    /\ job.phase = "idle" /\ feed = "metrics"
    /\ \E days \in SUBSET (0..(Day(now) - 1)) :
           StoredPoints({At(d) : d \in days})
    /\ UNCHANGED <<feed, tape, now, job, eng, cache, daily, rolls>>

\* Ticks and snapshots are pruned after the ingest, in a transaction and at a
\* time of its own.
PruneTicks == feed \in Ticks  /\ store' = {r \in store : r.ts >= now - Retention}
PruneBook  == feed \in Polled /\ store' = {r \in store : r.ts >= now - Retention}
EndPoints  == feed \in Points /\ UNCHANGED store

EndIngest ==
    /\ job.phase = "done"
    /\ PruneTicks \/ PruneBook \/ EndPoints
    /\ job' = Idle
    /\ UNCHANGED <<feed, tape, now, eng, cache, late, daily, rolls>>

-----------------------------------------------------------------------------
(* The permanent daily aggregate.                                          *)

OfDay(d) == {r \in store : Day(r.ts) = d}

\* The reads of a rollup: the day's rows, and the basis recorded for the day
\* unless the command brings one.
RollUp(d, basis) ==
    [day |-> d, count |-> Cardinality(OfDay(d)),
     basis |-> IF basis = None /\ daily[d] # None THEN daily[d].basis ELSE basis]

\* Cron rolls up yesterday without a schedule; an operator names a day, and a
\* schedule or none.
ReadRollup(p) ==
    /\ feed = "rollup" /\ rolls[p] = None
    /\ \E d \in 0..Day(now), b \in Bases \cup {None} :
           /\ p = "cron" => d = Day(now) - 1 /\ b = None
           /\ rolls' = [rolls EXCEPT ![p] = RollUp(d, b)]
    /\ UNCHANGED <<feed, tape, now, store, job, eng, cache, late, daily>>

\* Mutant: a rollup without a basis overwrites the recorded one.
UpsertedWhole(roll, old) == [count |-> roll.count, basis |-> roll.basis]

\* The new aggregate, over a row that may have been written since the reads.
Upserted(roll, old) ==
    [count |-> roll.count,
     basis |-> IF roll.basis = None /\ old # None THEN old.basis ELSE roll.basis]

WriteRollup(p) ==
    /\ rolls[p] # None
    /\ daily' = [daily EXCEPT ![rolls[p].day] = Upserted(rolls[p], @)]
    /\ rolls' = [rolls EXCEPT ![p] = None]
    /\ UNCHANGED <<feed, tape, now, store, job, eng, cache, late>>

-----------------------------------------------------------------------------
(* The providers.                                                          *)

\* What ORDER BY ts DESC LIMIT n may return: rows of one time are in no order.
Newest(rows, n) ==
    {c \in SUBSET rows : /\ Cardinality(c) = Min({n, Cardinality(rows)})
                         /\ \A r \in rows \ c, s \in c : r.ts <= s.ts}

\* The table a provider reads.
Table   == IF feed = "rollup" THEN {At(d) : d \in {e \in DOMAIN daily : daily[e] # None}} ELSE store
UpTo(t) == {r \in Table : r.ts <= t}

\* Mutant: the cache extended from its newest row, without the window.
RefreshedForward(t) ==
    LET top == Max({r.ts : r \in cache})
    IN  IF cache = {} THEN Newest(UpTo(t), Cap)
        ELSE Newest(cache \cup {r \in UpTo(t) : r.ts > top}, Cap)

\* Read again from the newest cached row less the window, and put the answer
\* over the cache's tail; read anew at first and when the clock was rewound.
Refreshed(t) ==
    LET top   == Max({r.ts : r \in cache})
        start == top - RefreshWindow
    IN  IF cache = {} \/ top > t THEN Newest(UpTo(t), Cap)
        ELSE Newest({r \in cache : r.ts < start} \cup {r \in UpTo(t) : r.ts >= start}, Cap)

RefreshTicks(t) == feed \in Ticks /\ cache' \in Refreshed(t)
RefreshBook(t)  == feed = "book"  /\ cache' \in Refreshed(t)

\* The others are read in full, up to the clock; daily rows only for the days
\* closed by then.
LatestPoints(t) == Newest(UpTo(t), Cap)
LatestDays(t)   == Newest(UpTo(Day(t) - 1), Cap)

LoadFunding(t)      == feed = "funding"       /\ cache' \in LatestPoints(t)
LoadOpenInterest(t) == feed = "open_interest" /\ cache' \in LatestPoints(t)
LoadMetrics(t)      == feed = "metrics"       /\ cache' \in LatestDays(t)
LoadDaily(t)        == feed = "rollup"        /\ cache' \in LatestDays(t)

\* The engine updates its providers at a candle, before the strategy runs.
\* Its clock may step back (an uneven warm-up, see Feeds).
Update ==
    \E t \in Max({0, eng - 1})..now :
        /\ eng' = t
        /\ \/ RefreshTicks(t) \/ RefreshBook(t)
           \/ LoadFunding(t) \/ LoadOpenInterest(t) \/ LoadMetrics(t) \/ LoadDaily(t)
        /\ UNCHANGED <<feed, tape, now, store, job, late, daily, rolls>>

\* A restarted run builds new providers.
NewRun ==
    /\ feed # "candles" /\ cache # {}
    /\ cache' = {} /\ late' = {}
    /\ UNCHANGED <<feed, tape, now, store, job, eng, daily, rolls>>

\* ctx.tick_flow: the completed candles of the cached ticks, by start.
TickFlow(rows, t) ==
    LET starts == {b \in {(r.ts \div Candle) * Candle : r \in rows} : b + Candle <= t}
    IN  [b \in starts |-> {r \in rows : (r.ts \div Candle) * Candle = b}]

Tick ==
    /\ now < MaxNow
    /\ now' = now + 1
    /\ UNCHANGED <<feed, tape, store, job, eng, cache, late, daily, rolls>>

Next ==
    \/ StartIngest \/ FailIngest \/ EndIngest
    \/ BackfillTrades \/ BackfillCandles \/ BackfillFunding \/ BackfillOpenInterest
    \/ CollectBook \/ ImportArchive
    \/ \E p \in Rollups : ReadRollup(p) \/ WriteRollup(p)
    \/ Update \/ NewRun \/ Tick

Spec == Init /\ [][Next]_vars

-----------------------------------------------------------------------------
(* Properties.                                                             *)

Asked == {tape[i] : i \in {j \in Published(job.end) : tape[j].ts \in job.start..(job.end - 1)}}

\* A backfill that ends without an error has left no gap: every row of the
\* range the exchange had published when it began is in the table, whatever
\* page boundary it fell on.  Two exceptions are the code's own: Binance's pages
\* restart a millisecond past the last row, and the loop ends once that
\* reaches the end of the range, so a burst can be cut there; a row missing
\* then still has a stored row of its own millisecond.
BackfillLeavesNoGap ==
    job.phase = "done" /\ feed \notin Polled =>
        \A r \in Asked \ store : /\ feed = "binance" \/ r.ts = job.end - 1
                                 /\ \E s \in store : s.ts = r.ts

\* What a strategy sees at a candle is the table as of the clock: nothing
\* later than the clock, every row up to it that did not land behind the
\* refresh window, unless the view is full and newer; and each order-flow
\* candle but the view's oldest counts all of its ticks.
ViewIsTheTable ==
    [][Update =>
          LET clock == IF feed \in {"metrics", "rollup"} THEN Day(eng') - 1 ELSE eng'
              flow  == TickFlow(cache', eng')
              due   == {r \in Table \ late : r.ts <= clock}
          IN  /\ \A r \in cache' : r.ts <= clock
              /\ \A r \in due \ cache' : /\ Cardinality(cache') = Cap
                                         /\ \A c \in cache' : c.ts >= r.ts
              /\ feed \in Ticks => \A b \in DOMAIN flow :
                     \/ b = Min(DOMAIN flow)
                     \/ {r \in due : (r.ts \div Candle) * Candle = b} \subseteq flow[b]
      ]_vars

\* The session basis recorded for a day outlives every later rollup that
\* brings none, even one that read the day before the basis was recorded.
BasisIsKept ==
    [][\A d \in DOMAIN daily :
          daily[d] # None /\ daily[d].basis # None => daily'[d] # None /\ daily'[d].basis # None]_vars

=============================================================================
