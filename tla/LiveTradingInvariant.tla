------------------------ MODULE LiveTradingInvariant ------------------------
(***************************************************************************)
(* The inductive invariant behind the safety properties of LiveTrading.    *)
(*                                                                         *)
(* Its heart is Taken, the trades behind the venue's cursor that are no    *)
(* longer waiting to be booked: a row never holds more than its order has  *)
(* in Taken, and the ledger is what Taken adds up to.                      *)
(***************************************************************************)
EXTENDS LiveTrading

Order ==
  [side : {"buy", "sell"}, size : Int, expires : Int, origin : {"own", "lost", "foreign"},
   state : {"inflight", "open", "closed"}]

Buffer == [fills : [Ids -> Nat], status : [Txids -> Statuses], last : Nat]
Fill == [id : Ids, trades : SUBSET Nat]

Run ==
  [ledger : Int, resumed : BOOLEAN, quiet : BOOLEAN, candle : Int, missed : Buffer,
   fills : SUBSET Fill, rejected : BOOLEAN, buffer : Buffer, ending : {"stopped", "failed"}]

Venue ==
  [open : SUBSET Txids, stuck : SUBSET Txids, filled : SUBSET Txids, cursor : Nat,
   seen : SUBSET Nat]

Books ==
  [row : {None, "running", "stopped", "failed"}, risk : {"incomplete", "ok"}, since : Nat,
   root : Int, book : Buffer]

Typed ==
  /\ clock \in Nat
  /\ orders \in Seq(Order) /\ Len(orders) <= MaxOrders
  /\ trades \in Seq([order : Nat, ts : Nat])
  /\ phase \in Phases /\ run \in Run /\ venue \in Venue /\ db \in Books

\* A trade is of an order that was placed; only a lost one is in flight.
Account ==
  /\ \A i \in DOMAIN trades : trades[i].order \in DOMAIN orders /\ trades[i].ts <= clock
  /\ \A o \in DOMAIN orders : orders[o].state = "inflight" => orders[o].origin = "lost"

OwnOpen == {o \in OpenIds : orders[o].origin = "own"}

\* What may still execute is tracked, and what is kept over a poll is stuck.
Tracked ==
  /\ phase \in Starting => OwnOpen = {}
  /\ phase \in Trading => OwnOpen \subseteq venue.open
  /\ phase = "poll" => OwnOpen \subseteq venue.stuck

\* What the venue remembers lies at or before its cursor.
Cursor ==
  /\ venue.cursor <= clock
  /\ \A i \in venue.seen : i \in DOMAIN trades /\ trades[i].ts <= venue.cursor

\* No chain, and no fill of its rows, is of the future.
Dated ==
  /\ db.since <= clock /\ db.book.last <= clock
  /\ run.missed.last <= clock /\ run.buffer.last <= clock

\* The fills of a poll: one per order, of trades behind the cursor.
Waiting ==
  /\ phase # "book" => run.fills = {}
  /\ IsFiniteSet(run.fills)
  /\ \A f \in run.fills :
       /\ f.trades # {} /\ f.trades \subseteq Consumed
       /\ \A i \in f.trades : trades[i].order = f.id[2]
  /\ \A f, g \in run.fills : f.id[2] = g.id[2] => f = g

Buffered ==
  /\ phase \in Starting \cup {"down", "idle"} => run.buffer.fills = NoFills
  /\ phase \notin {"checking", "claiming", "recording"} => run.missed.fills = NoFills
  /\ ~run.resumed => run.missed.fills = NoFills

Pending == UNION {f.trades : f \in run.fills}
Taken == Consumed \ Pending

\* What a row holds or is about to hold, its order has executed.
Held(id) == db.book.fills[id] + run.missed.fills[id] + run.buffer.fills[id]

Backed ==
  /\ \A id \in Ids : db.book.fills[id] <= Executed(id[2])
  /\ phase \notin {"down", "recovering"} =>
       \A id \in Ids : Held(id) <= Cardinality(TradesOf(id[2], Taken))

\* What the ledger rests on: the rows of the chain, and what is to be added.
Rooted ==
  /\ phase \in {"recovering", "checking"} =>
       run.ledger = IF run.resumed THEN Net(db.book.fills) - db.root ELSE 0
  /\ phase = "claiming" =>
       run.ledger = IF run.resumed THEN Net(db.book.fills) + Net(run.missed.fills) - db.root ELSE 0
  /\ phase \in {"recording", "checkpoint"} \cup Trading =>
       run.ledger = Net(db.book.fills) + Net(run.missed.fills) + Net(run.buffer.fills) - db.root

\* And what it follows.
Follows ==
  phase \in {"claiming", "recording", "checkpoint"} \cup Trading /\ run.quiet /\ ~run.rejected =>
    run.ledger = NetOf(Taken)

IInv ==
  /\ Typed /\ Account /\ Tracked /\ Cursor /\ Dated
  /\ Waiting /\ Buffered /\ Backed /\ Rooted /\ Follows

=============================================================================
