---------------------------- MODULE LiveTrading ----------------------------
(***************************************************************************)
(* A live run and its restarts against the account of module Exchange:     *)
(* run_live (core/live_runner.py), the reconciliation before it            *)
(* (core/live_reconcile.py), KrakenVenue (venues/kraken_live.py), the      *)
(* candle loop of core/engine.py as far as live trading goes, and the rows *)
(* the recorder keeps.                                                     *)
(*                                                                         *)
(* Money is the base position: cash moves with the same fills.  One run    *)
(* lives at a time (module Supervisor); what it lacks here is the config   *)
(* of the chain, which never changes.  Orders are limits that expire with  *)
(* their candle; market orders, which carry no expiry and do not rest, are *)
(* left out.                                                               *)
(***************************************************************************)
EXTENDS Exchange

CONSTANTS
  Period,    \* ticks per candle
  Lot,       \* a unit of the exchange, in what the strategy asks for
  Ceiling,   \* the notional ceiling of an order, in the same
  Minimum,   \* the exchange's minimum, in units
  Faults,    \* which of FaultKinds may happen
  MaxFaults  \* bound: how many do

FaultKinds == {"crash", "fail", "db", "cancel", "poll", "ambiguous", "foreign", "replay"}

ASSUME LiveAssumption ==
  /\ Period \in Nat \ {0} /\ Lot \in Nat \ {0} /\ Ceiling \in Nat /\ Minimum \in Nat
  /\ Ceiling \div Lot <= MaxSize
  /\ Faults \subseteq FaultKinds /\ MaxFaults \in Nat

None == "none"

\* A row of the orders table: one the platform placed, under its own id, or
\* the synthetic kraken-<txid> (unattributed_order_id).
Ids == {"own", "kraken"} \X Txids

VARIABLES
  phase,   \* where run_live or Engine.run stands
  run,     \* the process: ledger, recovered and polled fills, recorder buffer
  venue,   \* KrakenVenue: tracked orders and the trade cursor
  db,      \* orders, fills and the run row
  spent    \* faults so far

localVars == <<phase, run, venue, db, spent>>
vars == <<exchangeVars, localVars>>

Starting == {"recovering", "checking", "claiming", "recording", "checkpoint"}
InCandle == {"cancel", "poll", "book", "flush", "decide"}
Trading  == {"idle"} \cup InCandle
Phases   == {"down", "sweep", "finish"} \cup Starting \cup Trading

NoFills == [id \in Ids |-> 0]
NoStatus == [o \in Txids |-> None]
EmptyBuffer == [fills |-> NoFills, status |-> NoStatus, last |-> 0]
NoRun == [ledger |-> 0, resumed |-> FALSE, quiet |-> TRUE, candle |-> 0, missed |-> EmptyBuffer,
          fills |-> {}, rejected |-> FALSE, buffer |-> EmptyBuffer, ending |-> "stopped"]
NoVenue == [open |-> {}, stuck |-> {}, filled |-> {}, cursor |-> 0, seen |-> {}]

Statuses == {None, "open", "filled", "cancelled"}
Buffers == [fills : [Ids -> 0 .. MaxTrades], status : [Txids -> Statuses], last : 0 .. MaxClock]

TypeOK ==
  /\ ExchangeTypeOK
  /\ phase \in Phases
  /\ run.ledger \in Int /\ run.candle \in 0 .. MaxClock
  /\ run.resumed \in BOOLEAN /\ run.quiet \in BOOLEAN /\ run.rejected \in BOOLEAN
  /\ run.missed \in Buffers /\ run.buffer \in Buffers
  /\ \A f \in run.fills : f.id \in Ids /\ f.trades \subseteq TradeIds /\ f.trades # {}
  /\ run.ending \in {"stopped", "failed"}
  /\ venue \in [open : SUBSET Txids, stuck : SUBSET Txids, filled : SUBSET Txids,
                cursor : 0 .. MaxClock, seen : SUBSET TradeIds]
  /\ venue.filled \subseteq venue.open /\ venue.stuck \subseteq venue.open
  /\ db.row \in {None, "running", "stopped", "failed"} /\ db.risk \in {"incomplete", "ok"}
  /\ db.since \in 0 .. MaxClock /\ db.root \in Int
  /\ db.book \in Buffers
  /\ spent \in 0 .. MaxFaults

-----------------------------------------------------------------------------
(* Fills and rows.                                                         *)

\* The units a book of fills bought or sold, and the position they add up to.
Units(side, fills) ==
  UNION {{id} \X (1 .. fills[id]) :
           id \in {id \in Ids : fills[id] > 0 /\ orders[id[2]].side = side}}
Net(fills) == Cardinality(Units("buy", fills)) - Cardinality(Units("sell", fills))

LastTs(ids) == Max({0} \cup {trades[i].ts : i \in ids})

\* One transaction of DbRecorder.flush: fills are added, orders upserted.
Merged(book, more) ==
  [fills  |-> [id \in Ids |-> book.fills[id] + more.fills[id]],
   status |-> [o \in Txids |-> IF more.status[o] = None THEN book.status[o] ELSE more.status[o]],
   last   |-> Max({book.last, more.last})]

\* Mutant of Flushed: the orders are written, the fills are not.
FlushedOrders == [db EXCEPT !.book = Merged(@, [run.buffer EXCEPT !.fills = NoFills])]

Flushed == [db EXCEPT !.book = Merged(@, run.buffer)]

WithStatus(buffer, S, status) ==
  [buffer EXCEPT !.status = [o \in Txids |-> IF o \in S THEN status ELSE @[o]]]

\* The fills of one poll, grouped by exchange order, oldest trade first.
Grouped(ids, own) ==
  {[id |-> <<IF o \in own THEN "own" ELSE "kraken", o>>, trades |-> TradesOf(o, ids)] :
     o \in {trades[i].order : i \in ids}}
NextFill == CHOOSE f \in run.fills : \A g \in run.fills : Min(f.trades) <= Min(g.trades)

-----------------------------------------------------------------------------
(* Starting: prepare_resume, reconcile_live, the row's claim.              *)

Fault(kind) == kind \in Faults /\ spent < MaxFaults /\ spent' = spent + 1

\* _call: no attempt of an exchange call was answered.  A cancel may have been
\* applied all the same; a placement is attempted once, for the same reason.
CallFails(kind) == kind \in {"cancel", "poll", "ambiguous"} /\ Fault(kind)

\* Mutant of CancelOpen: a cancel that fails is passed over.
CancelOpenLenient ==
  /\ phase' = "recovering"
  /\ \/ orders' = Closed(OpenIds) /\ UNCHANGED spent
     \/ CallFails("cancel") /\ \E S \in SUBSET OpenIds : orders' = Closed(S)

\* _cancel_open: every order open for the pair; one that cannot be cancelled
\* ends the start.
CancelOpen ==
  \/ orders' = Closed(OpenIds) /\ phase' = "recovering" /\ UNCHANGED spent
  \/ /\ CallFails("cancel")
     /\ \E S \in SUBSET OpenIds : orders' = Closed(S)
     /\ phase' = "down"

\* A stopped or superseded row with a complete checkpoint is resumed, an
\* incomplete one refuses every start, after a failed one the run is fresh.
Start ==
  /\ phase = "down"
  /\ db.row = None \/ db.risk = "ok"
  /\ LET resumed == db.row \in {"running", "stopped"}
     IN run' = [NoRun EXCEPT !.resumed = resumed,
                             !.ledger = IF resumed THEN Net(db.book.fills) - db.root ELSE 0]
  /\ CancelOpen
  /\ UNCHANGED <<clock, trades, venue, db>>

\* The chain cannot be rebuilt: it misses a row or its starting cash, or its
\* replay is refused.  prepare_resume warns, and the run is fresh.
StartOver ==
  /\ phase = "down"
  /\ db.row \in {"running", "stopped"} /\ db.risk = "ok"
  /\ Fault("replay")
  /\ run' = NoRun
  /\ orders' = Closed(OpenIds) /\ phase' = "recovering"
  /\ UNCHANGED <<clock, trades, venue, db>>

\* The order row a txid belongs to.  Both its own row and the synthetic one
\* may carry it; the query then returns them in no set order.
RowsOf(o) == {id \in Ids : id[2] = o /\ IF id[1] = "own" THEN db.book.status[o] # None
                                                         ELSE db.book.fills[id] > 0}
Targets(o) == IF RowsOf(o) = {} THEN {<<"kraken", o>>} ELSE RowsOf(o)

\* Mutant of Lacks: what the row has is not taken off.
LacksAll(o, ids, id) == Cardinality(TradesOf(o, ids))

\* What row id lacks of order o's trades among those read.
Lacks(o, ids, id) == Cardinality(TradesOf(o, ids)) - db.book.fills[id]

\* What the books lack of the trades read, per order row.
Missing(ids, target) ==
  LET lacks(o) == Lacks(o, ids, target[o])
      short == {o \in DOMAIN target : lacks(o) > 0}
  IN [fills  |-> [id \in Ids |-> IF \E o \in short : target[o] = id THEN lacks(id[2]) ELSE 0],
      status |-> [o \in Txids |-> IF o \in short /\ target[o][1] = "own" THEN "filled" ELSE None],
      last   |-> LastTs({i \in ids : trades[i].order \in short})]

\* The chain's root, or the newest fill any live run recorded if it is later.
ReadFrom == Max({db.since, db.book.last})

Recover ==
  /\ phase = "recovering"
  /\ phase' = "checking"
  /\ IF run.resumed
     THEN LET since == ReadFrom
              read  == TradesSince(since)
              os    == {trades[i].order : i \in read}
          IN \E target \in [os -> Ids] :
               /\ \A o \in os : target[o] \in Targets(o)
               /\ run' = [run EXCEPT !.missed = Missing(read, target)]
               /\ venue' = [NoVenue EXCEPT !.cursor = Max({since, LastTs(read)}), !.seen = read]
     ELSE /\ venue' = [NoVenue EXCEPT !.cursor = clock, !.seen = TradesSince(clock)]
          /\ UNCHANGED run
  /\ UNCHANGED <<exchangeVars, db, spent>>

\* The recovered fills in txid order never sell what the ledger lacks.
Affordable ==
  \A o \in Txids :
    run.ledger + Net([id \in Ids |-> IF id[2] <= o THEN run.missed.fills[id] ELSE 0]) >= 0

\* The trades the venue's cursor stands behind.
Consumed == {i \in DOMAIN trades : trades[i].ts < venue.cursor \/ i \in venue.seen}

\* balance_drift: what the account holds beyond the books.
BalanceDrift(expected) == Holding - expected

\* _check_drift and _apply_recovered, or ReconciliationRefused.  The trades
\* were read before the balances; quiet says that none came between.
CheckBalances ==
  /\ phase = "checking"
  /\ LET expected == run.ledger + Net(run.missed.fills)
     IN IF BalanceDrift(expected) = 0 /\ Affordable
        THEN phase' = "claiming" /\ run' = [run EXCEPT !.ledger = expected,
                                                       !.quiet = Consumed = DOMAIN trades]
        ELSE phase' = "down" /\ run' = NoRun
  /\ venue' = IF phase' = "down" THEN NoVenue ELSE venue
  /\ UNCHANGED <<exchangeVars, db, spent>>

\* DbRecorder.start: the row, running and with an incomplete checkpoint.  A
\* fresh run roots a new chain.
ClaimRow ==
  /\ phase = "claiming"
  /\ phase' = "recording"
  /\ db' = [db EXCEPT !.row = "running", !.risk = "incomplete",
                      !.since = IF run.resumed THEN @ ELSE clock,
                      !.root = IF run.resumed THEN @ ELSE Net(db.book.fills)]
  /\ UNCHANGED <<exchangeVars, run, venue, spent>>

\* _ReconciledRecorder.start writes the recovered orders and fills.
RecordRecovered ==
  /\ phase = "recording"
  /\ phase' = "checkpoint"
  /\ db' = [db EXCEPT !.book = Merged(@, run.missed)]
  /\ run' = [run EXCEPT !.missed = EmptyBuffer]
  /\ UNCHANGED <<exchangeVars, venue, spent>>

FirstCheckpoint ==
  /\ phase = "checkpoint"
  /\ phase' = "idle"
  /\ db' = [db EXCEPT !.risk = "ok"]
  /\ run' = [run EXCEPT !.candle = clock \div Period]
  /\ UNCHANGED <<exchangeVars, venue, spent>>

-----------------------------------------------------------------------------
(* A candle.                                                               *)

\* A closed candle arrives; the incomplete checkpoint is committed first.
\* What _prune_orders leaves of the order maps are the tracked orders.
BeginCandle ==
  /\ phase = "idle" /\ clock \div Period > run.candle
  /\ phase' = "cancel"
  /\ run' = [run EXCEPT !.candle = clock \div Period]
  /\ db' = [db EXCEPT !.risk = "incomplete"]
  /\ UNCHANGED <<exchangeVars, venue, spent>>

\* _cancel_tracked: a cancel reported as failed leaves its order tracked and
\* may have been applied.
CancelTracked ==
  /\ phase = "cancel"
  /\ phase' = "poll"
  /\ \/ orders' = Closed(venue.open) /\ UNCHANGED <<venue, spent>>
     \/ /\ CallFails("cancel")
        /\ \E stuck \in (SUBSET venue.open) \ {{}} :
             /\ venue' = [venue EXCEPT !.stuck = stuck]
             /\ \E applied \in SUBSET stuck : orders' = Closed((venue.open \ stuck) \cup applied)
  /\ UNCHANGED <<clock, trades, run, db>>

\* Mutant of SeenAfter: only this poll's trades at the cursor are kept.
SeenAfterLatest(fresh, newest) == {i \in fresh : trades[i].ts = newest}

\* The trades at the cursor that were handed out.
SeenAfter(fresh, newest) ==
  IF fresh = {} THEN venue.seen
  ELSE IF newest = venue.cursor THEN venue.seen \cup fresh
  ELSE {i \in fresh : trades[i].ts = newest}

\* _prune_orders: what is remembered of the orders still tracked.
FilledAfter(filled) == filled \cap venue.stuck

\* _poll_trades, _fills_from and _finalize.
Polled(fresh) ==
  LET fills   == Grouped(fresh, venue.open)
      filled  == venue.filled \cup {o \in venue.open : \E f \in fills : f.id = <<"own", o>>}
      retired == (venue.open \ venue.stuck) \ filled
      newest  == LastTs(fresh)
  IN /\ run' = [run EXCEPT !.fills = fills, !.buffer = WithStatus(@, retired, "cancelled")]
     /\ venue' = [open   |-> venue.stuck,
                  stuck  |-> {},
                  filled |-> FilledAfter(filled),
                  cursor |-> IF fresh = {} THEN venue.cursor ELSE newest,
                  seen   |-> SeenAfter(fresh, newest)]

PollTrades ==
  /\ phase = "poll"
  /\ phase' = "book"
  /\ \/ Polled(TradesSince(venue.cursor) \ venue.seen) /\ UNCHANGED spent
     \/ CallFails("poll") /\ Polled({})
  /\ UNCHANGED <<exchangeVars, db>>

\* One fill of the poll: applied to the ledger and recorded, or voided when
\* the ledger cannot cover it.  Its order row is recorded as filled.
Book ==
  /\ phase = "book" /\ run.fills # {}
  /\ LET fill  == NextFill
         o     == fill.id[2]
         size  == Cardinality(fill.trades)
         after == run.ledger + Sign(o) * size
         noted == WithStatus(run.buffer, IF fill.id[1] = "own" THEN {o} ELSE {}, "filled")
     IN run' = IF after < 0
               THEN [run EXCEPT !.fills = @ \ {fill}, !.rejected = TRUE, !.buffer = noted]
               ELSE [run EXCEPT !.fills = @ \ {fill}, !.ledger = after,
                                !.buffer = [noted EXCEPT !.fills[fill.id] = @ + size,
                                                         !.last = Max({@, LastTs(fill.trades)})]]
  /\ UNCHANGED <<exchangeVars, phase, venue, db, spent>>

\* The fills and the equity snapshot are committed before the strategy runs.
FlushCandle ==
  /\ phase = "book" /\ run.fills = {}
  /\ phase' = "decide"
  /\ db' = Flushed
  /\ run' = [run EXCEPT !.buffer = EmptyBuffer]
  /\ UNCHANGED <<exchangeVars, venue, spent>>

\* _size_for_exchange: clamped to the ceiling, rounded down to whole lots, and
\* none below the minimum.
SizeForExchange(wanted) ==
  LET lots == Min({wanted, Ceiling}) \div Lot
  IN IF lots < Minimum THEN 0 ELSE lots

\* KrakenVenue.submit of a limit: it ends two periods after the open of the
\* candle it was decided on.  A skipped order never reaches the exchange and
\* its row is rejected.  A placement that timed out may rest on the exchange,
\* or arrive there later; the platform holds it for rejected too.
Submit ==
  /\ phase = "decide"
  /\ Len(orders) < MaxOrders
  /\ LET expires == (run.candle + 1) * Period
         o == Len(orders) + 1
     IN /\ expires > clock
        /\ \E side \in {"buy", "sell"}, wanted \in 1 .. Ceiling + 1 :
             LET size == SizeForExchange(wanted)
             IN /\ size > 0
                /\ side = "sell" => wanted <= run.ledger * Lot
                /\ \/ /\ orders' = NewOrder(side, size, expires, "own", "open")
                      /\ venue' = [venue EXCEPT !.open = @ \cup {o}]
                      /\ run' = [run EXCEPT !.buffer = WithStatus(@, {o}, "open")]
                      /\ UNCHANGED spent
                   \/ /\ CallFails("ambiguous")
                      /\ \E state \in {"inflight", "open"} :
                           orders' = NewOrder(side, size, expires, "lost", state)
                      /\ UNCHANGED <<venue, run>>
  /\ UNCHANGED <<clock, trades, phase, db>>

\* The complete checkpoint is committed with the orders of the candle.
EndCandle ==
  /\ phase = "decide"
  /\ phase' = "idle"
  /\ db' = [Flushed EXCEPT !.risk = "ok"]
  /\ run' = [run EXCEPT !.buffer = EmptyBuffer]
  /\ UNCHANGED <<exchangeVars, venue, spent>>

-----------------------------------------------------------------------------
(* The end of a run.                                                       *)

\* The stop event, seen between candles.
Stop ==
  /\ phase = "idle"
  /\ phase' = "sweep"
  /\ run' = [run EXCEPT !.ending = "stopped"]
  /\ UNCHANGED <<exchangeVars, venue, db, spent>>

\* An exception, the candle watchdog or a cancellation at any await.
RunFails ==
  /\ phase \in {"checkpoint", "idle", "cancel", "book", "decide"}
  /\ Fault("fail")
  /\ phase' = "sweep"
  /\ run' = [run EXCEPT !.ending = "failed", !.fills = {}]
  /\ UNCHANGED <<exchangeVars, venue, db>>

\* cancel_all: what is tracked, then whatever is open for the pair.  Every
\* tracked order is reported cancelled and recorded so.
Sweep ==
  /\ phase = "sweep"
  /\ phase' = "finish"
  /\ run' = [run EXCEPT !.buffer = WithStatus(@, venue.open, "cancelled")]
  /\ venue' = [venue EXCEPT !.open = {}, !.stuck = {}, !.filled = {}]
  /\ \/ orders' = Closed(OpenIds \cup venue.open) /\ UNCHANGED spent
     \/ /\ CallFails("cancel")
        /\ \E S \in SUBSET OpenIds : orders' = Closed(S)
  /\ UNCHANGED <<clock, trades, db>>

\* finish flushes, then ends the row; either may fail and is only logged.
Finish ==
  /\ phase = "finish"
  /\ phase' = "down"
  /\ \/ db' = [Flushed EXCEPT !.row = run.ending] /\ UNCHANGED spent
     \/ Fault("db") /\ db' \in {db, Flushed}
  /\ run' = NoRun /\ venue' = NoVenue
  /\ UNCHANGED exchangeVars

\* The process dies: memory is gone, rows and orders stay.
Crash ==
  /\ phase # "down"
  /\ Fault("crash")
  /\ phase' = "down" /\ run' = NoRun /\ venue' = NoVenue
  /\ UNCHANGED <<exchangeVars, db>>

\* Somebody else trades the pair on the account.
ForeignOrder ==
  /\ Fault("foreign")
  /\ Len(orders) < MaxOrders
  /\ \E side \in {"buy", "sell"}, size \in 1 .. MaxSize :
       orders' = NewOrder(side, size, Never, "foreign", "open")
  /\ UNCHANGED <<clock, trades, phase, run, venue, db>>

Init ==
  /\ ExchangeInit
  /\ phase = "down" /\ run = NoRun /\ venue = NoVenue /\ spent = 0
  /\ db = [row |-> None, risk |-> "ok", since |-> 0, root |-> 0, book |-> EmptyBuffer]

Next ==
  \/ ExchangeNext /\ UNCHANGED localVars
  \/ Start \/ StartOver \/ Recover \/ CheckBalances \/ ClaimRow \/ RecordRecovered \/ FirstCheckpoint
  \/ BeginCandle \/ CancelTracked \/ PollTrades \/ Book \/ FlushCandle \/ Submit \/ EndCandle
  \/ Stop \/ RunFails \/ Sweep \/ Finish \/ Crash \/ ForeignOrder

Spec == Init /\ [][Next]_vars

-----------------------------------------------------------------------------
(* Properties.                                                             *)

\* A running venue has handed out exactly the trades before its cursor and
\* those it remembers at it, whatever timed out, tied or failed on the way:
\* the ledger is what they add up to, unless a trade fell between the two
\* reads of the reconciliation or a fill did not fit the ledger.
BooksFollowTheCursor ==
  phase \in Trading \cup {"claiming", "recording", "checkpoint"} /\ run.quiet /\ ~run.rejected =>
    run.ledger + NetOf(UNION {f.trades : f \in run.fills}) = NetOf(Consumed)

\* "No double orders" (live_reconcile.py): while a run trades, every order
\* it placed, or a predecessor did, that still rests is tracked; only an
\* order whose placement timed out is not.
OpenOrdersAreTracked ==
  phase \in Trading => {o \in OpenIds : orders[o].origin = "own"} \subseteq venue.open

\* A complete checkpoint vouches for the rows: the chain's recorded fills
\* replay to the ledger the run holds.
CheckpointMeansRecorded ==
  phase = "idle" => Net(db.book.fills) - db.root = run.ledger

\* The rows of the database implement TradeBook: whatever crashed, failed or
\* was read twice, no row records more than its order executed and none
\* loses a unit.
Rows_ == INSTANCE TradeBook WITH
  Orders   <- Txids,
  Rows     <- Ids,
  OrderOf  <- LAMBDA id : id[2],
  executed <- [o \in Txids |-> IF o \in DOMAIN orders THEN Executed(o) ELSE 0],
  recorded <- db.book.fills
ImplementsTradeBook == Rows_!Spec

\* "That makes a re-run a no-op and leaves no trade behind"
\* (_recover_missed): what the reconciliation wants to add to the books of
\* an order, and what they hold, never exceed what it executed.  Refuted when
\* a txid has both a row of its own and a synthetic one: see the README.
RecoveryRecordsNothingTwice ==
  phase = "checking" =>
    \A o \in DOMAIN orders :
      LET of(book) == book.fills[<<"own", o>>] + book.fills[<<"kraken", o>>]
      IN of(db.book) + of(run.missed) <= Executed(o)

=============================================================================
