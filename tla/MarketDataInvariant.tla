------------------------- MODULE MarketDataInvariant -------------------------
(***************************************************************************)
(* The inductive invariant behind the safety properties of MarketData:     *)
(* what a backfill between two pages has already put into the table, and   *)
(* what a provider's rows and the table have to do with each other between *)
(* two refreshes.                                                          *)
(***************************************************************************)
EXTENDS MarketData

Job ==
  [phase : {"idle", "page", "done"}, start : Nat, end : Nat, since : Nat, cursor : Nat,
   last : Nat, tail : SUBSET Row]

Typed ==
  /\ feed \in Feeds /\ tape \in Tapes \cup {<<>>}
  /\ now \in Time /\ eng \in Time /\ eng <= now
  /\ store \subseteq Row /\ cache \subseteq Row /\ late \subseteq Row
  /\ Cardinality(cache) <= Cap
  /\ daily \in [0..Day(MaxNow) -> {None} \cup Aggregate]
  /\ rolls \in [Rollups -> {None} \cup Reads]
  /\ job \in Job

Spaced == feed \in Points => \A i, j \in DOMAIN tape : i < j => tape[i].ts + Step <= tape[j].ts

Ranged ==
  /\ feed = "metrics" => job.phase = "idle"
  /\ feed \in Polled => job.phase # "page"
  /\ job.phase # "idle" /\ feed \in Ticks \cup Points =>
         1 <= job.start /\ job.start < job.end /\ job.end <= now /\ job.start <= job.since

InRange(i) == tape[i].ts \in job.start..(job.end - 1)

\* Kraken's pages have filled the table up to the cursor; the tail was served
\* up to there, in the last row's millisecond.
KrakenPaged ==
  feed = "kraken" /\ job.phase = "page" =>
      \/ job.cursor = 0 /\ job.since = job.start /\ job.last = 0 /\ job.tail = {}
      \/ /\ job.cursor \in Out
         /\ \A i \in 1..job.cursor : InRange(i) => tape[i] \in store
         /\ \A r \in job.tail : r.ts = job.last /\ \E j \in 1..job.cursor : r = tape[j]
         /\ job.since = job.last + 1 /\ job.start <= job.last /\ job.last < job.end
         /\ job.last <= tape[job.cursor].ts
         /\ \E s \in store : s.ts = job.last

\* Binance's have left a row of each millisecond before the next request.
BinancePaged ==
  feed = "binance" /\ job.phase = "page" =>
      /\ job.cursor = 0 /\ job.last < job.since
      /\ \A r \in job.tail : r.ts < job.since
      /\ \A i \in Published(job.end) : InRange(i) /\ tape[i].ts < job.since =>
             \E s \in store : s.ts = tape[i].ts

PointsPaged ==
  feed \in Points /\ job.phase = "page" =>
      /\ job.last < job.since
      /\ \A i \in Published(job.end) : InRange(i) /\ tape[i].ts < job.since => tape[i] \in store

\* A row that the next refresh will not read again is missing only from a full
\* view, all of it newer.
Refreshable == feed \in Ticks \cup {"book"}

ViewIsFull ==
  Refreshable =>
      \A r \in (store \ late) \ cache :
          (\E c \in cache : r.ts < c.ts - RefreshWindow) =>
              Cardinality(cache) = Cap /\ \A c \in cache : c.ts >= r.ts

\* A row the table has lost is older than any it still has, but for those the
\* next refresh reads.
PrunedIsOlder ==
  Refreshable =>
      \A r \in store \ late, c \in cache \ store :
          (\E d \in cache : r.ts < d.ts - RefreshWindow) => r.ts > c.ts

IInv ==
  /\ Typed /\ Spaced /\ Ranged
  /\ KrakenPaged /\ BinancePaged /\ PointsPaged
  /\ BackfillLeavesNoGap
  /\ ViewIsFull /\ PrunedIsOlder
=============================================================================
