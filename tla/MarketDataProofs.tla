-------------------------- MODULE MarketDataProofs --------------------------
(***************************************************************************)
(* Proofs about MarketData, for any series, page, window, retention and    *)
(* capacity: the inductive invariant of MarketDataInvariant and what       *)
(* follows from it.                                                        *)
(***************************************************************************)
EXTENDS MarketDataInvariant, DataLemmas

-----------------------------------------------------------------------------
(***************************************************************************)
(* Rows, days and tapes.                                                   *)
(***************************************************************************)
\* There are finitely many rows.
LEMMA RowFinite == IsFiniteSet(Row)
<1> DEFINE P == Time \X Keys
           f == [p \in P |-> [ts |-> p[1], key |-> p[2]]]
<1>1. IsFiniteSet(P)
  <2>1. 0 \in Int /\ MaxNow \in Int
    BY MarketDataAssumption
  <2>2. IsFiniteSet(Time)
    BY <2>1, FS_Interval DEF Time
  <2> QED BY <2>2, FS_Product, MarketDataAssumption
<1>2. f \in Surjection(P, Row)
  <2>1. f \in [P -> Row]
    BY DEF Row
  <2>2. \A r \in Row : \E p \in P : f[p] = r
    <3> TAKE r \in Row
    <3>1. <<r.ts, r.key>> \in P
      BY DEF Row
    <3>2. f[<<r.ts, r.key>>] = r
      BY <3>1 DEF Row
    <3> QED BY <3>1, <3>2
  <2> QED BY <2>1, <2>2, Fun_IsSurj
<1> QED BY <1>1, <1>2, FS_Surjection

\* So every set of rows is finite, and has a natural number of members.
LEMMA RowsFinite ==
  ASSUME NEW S \in SUBSET Row
  PROVE  IsFiniteSet(S) /\ Cardinality(S) \in Nat
BY RowFinite, FS_Subset, FS_CardinalityType

\* Quotients keep the order of times.
LEMMA QuotientsInOrder ==
  ASSUME NEW n \in Nat \ {0}, NEW a \in Nat, NEW b \in Nat, a <= b
  PROVE  a \div n \in Nat /\ b \div n \in Nat /\ a \div n <= b \div n
<1>1. PICK q \in Nat, r \in Nat : a \div n = q /\ a = q * n + r /\ r < n
  OBVIOUS
<1>2. PICK u \in Nat, v \in Nat : b \div n = u /\ b = u * n + v /\ v < n
  OBVIOUS
<1>3. q <= u
  <2>1. SUFFICES ASSUME u + 1 <= q PROVE FALSE
    BY <1>1, <1>2
  <2>2. (u + 1) * n <= q * n
    BY <1>1, <1>2, <2>1
  <2>3. (u + 1) * n = u * n + n
    BY <1>2
  <2> QED BY <1>1, <1>2, <2>2, <2>3
<1> QED BY <1>1, <1>2, <1>3

\* The day of a time is a natural number, no later than the time.
LEMMA DayIs ==
  ASSUME NEW t \in Nat
  PROVE  /\ Day(t) \in Nat /\ Day(t) <= t
         /\ \A s \in Nat : t <= s => Day(t) <= Day(s)
<1>1. DayLen \in Nat \ {0}
  BY MarketDataAssumption
<1>2. Day(t) \in Nat /\ Day(t) <= t
  BY <1>1 DEF Day
<1>3. \A s \in Nat : t <= s => Day(t) <= Day(s)
  BY <1>1, QuotientsInOrder DEF Day
<1> QED BY <1>2, <1>3

\* Rounding down to a multiple of a candle keeps the order of times.
LEMMA RoundedInOrder ==
  ASSUME NEW a \in Nat, NEW b \in Nat, a <= b
  PROVE  (a \div Candle) * Candle <= (b \div Candle) * Candle /\ (a \div Candle) * Candle \in Nat
<1>1. Candle \in Nat \ {0}
  BY MarketDataAssumption
<1>2. a \div Candle \in Nat /\ b \div Candle \in Nat /\ a \div Candle <= b \div Candle
  BY <1>1, QuotientsInOrder
<1> QED BY <1>1, <1>2

\* The row that a time identifies.
LEMMA AtIsRow ==
  ASSUME NEW t \in Time
  PROVE  At(t) \in Row /\ At(t).ts = t
<1>1. (CHOOSE k \in Keys : TRUE) \in Keys
  BY MarketDataAssumption
<1> QED BY <1>1 DEF At, Row

\* What an exchange's history is.
LEMMA TapeIs ==
  ASSUME Typed
  PROVE  /\ IsTape(tape)
         /\ DOMAIN tape = 1..Len(tape) /\ Len(tape) \in Nat
         /\ \A i \in DOMAIN tape : tape[i] \in Row /\ tape[i].ts \in 1..MaxNow
         /\ \A i, j \in DOMAIN tape : i <= j => tape[i].ts <= tape[j].ts
<1>1. IsTape(tape)
  <2>1. CASE tape \in Tapes
    BY <2>1, MarketDataAssumption
  <2>2. CASE tape = <<>>
    <3>1. tape \in Seq([ts : 1..MaxNow, key : Keys]) /\ DOMAIN tape = {}
      BY <2>2, EmptySeq, LenProperties
    <3> QED BY <3>1 DEF IsTape
  <2> QED BY <2>1, <2>2 DEF Typed
<1>2. tape \in Seq([ts : 1..MaxNow, key : Keys])
  BY <1>1 DEF IsTape
<1>3. DOMAIN tape = 1..Len(tape) /\ Len(tape) \in Nat
  BY <1>2, LenProperties
<1>4. \A i \in DOMAIN tape : tape[i] \in [ts : 1..MaxNow, key : Keys]
  BY <1>2, <1>3, ElementOfSeq
<1>5. \A r \in [ts : 1..MaxNow, key : Keys] : r \in Row /\ r.ts \in 1..MaxNow
  BY MarketDataAssumption DEF Row, Time
<1>6. \A i, j \in DOMAIN tape : i <= j => tape[i].ts <= tape[j].ts
  <2> TAKE i, j \in DOMAIN tape
  <2>1. i \in Nat /\ j \in Nat /\ tape[i].ts \in Nat /\ tape[j].ts \in Nat
    BY <1>3, <1>4
  <2>2. i < j => tape[i].ts <= tape[j].ts
    BY <1>1 DEF IsTape
  <2> QED BY <2>1, <2>2
<1> QED BY <1>1, <1>3, <1>4, <1>5, <1>6

-----------------------------------------------------------------------------
(***************************************************************************)
(* Pages.                                                                  *)
(***************************************************************************)
\* A page takes from the front.
LEMMA PageIsFront ==
  ASSUME NEW n \in Nat, NEW S \in SUBSET (1..n)
  PROVE  /\ FirstPage(S) \subseteq S
         /\ IsFiniteSet(FirstPage(S)) /\ FirstPage(S) \in SUBSET Int
         /\ \A i \in FirstPage(S), j \in S : j <= i => j \in FirstPage(S)
         /\ S # {} => FirstPage(S) # {}
         /\ \A lo \in Nat : (\A i \in S : lo <= i) =>
                \A i \in S : i <= lo + Page - 1 => i \in FirstPage(S)
<1>0. Page \in Nat \ {0}
  BY MarketDataAssumption
<1>1. IsFiniteSet(S) /\ S \in SUBSET Int
  BY IdsAreFinite
<1>2. FirstPage(S) \subseteq S
  BY DEF FirstPage
<1>3. IsFiniteSet(FirstPage(S)) /\ FirstPage(S) \in SUBSET Int
  BY <1>1, <1>2, FS_Subset
<1>4. \A i \in S : IsFiniteSet({k \in S : k <= i}) /\ Cardinality({k \in S : k <= i}) \in Nat
  BY <1>1, FS_Subset, FS_CardinalityType
<1>5. \A i \in FirstPage(S), j \in S : j <= i => j \in FirstPage(S)
  <2> SUFFICES ASSUME NEW i \in FirstPage(S), NEW j \in S, j <= i
               PROVE  j \in FirstPage(S)
    OBVIOUS
  <2>1. {k \in S : k <= j} \in SUBSET {k \in S : k <= i}
    <3>1. \A k \in S : k \in Int
      BY <1>1
    <3>2. i \in Int /\ j \in Int
      BY <1>2, <3>1
    <3>3. \A k \in S : k <= j => k <= i
      BY <3>1, <3>2
    <3> QED BY <3>3
  <2>2. Cardinality({k \in S : k <= j}) <= Cardinality({k \in S : k <= i})
    BY <1>2, <1>4, <2>1, FS_Subset
  <2>3. Cardinality({k \in S : k <= i}) <= Page
    BY DEF FirstPage
  <2>4. Cardinality({k \in S : k <= j}) <= Page
    <3>1. i \in S
      BY <1>2
    <3>2. Cardinality({k \in S : k <= i}) \in Nat /\ Cardinality({k \in S : k <= j}) \in Nat
      BY <1>4, <3>1
    <3> QED BY <1>0, <2>2, <2>3, <3>2
  <2> QED BY <2>4 DEF FirstPage
<1>6. \A lo \in Nat : (\A i \in S : lo <= i) => \A i \in S : i <= lo + Page - 1 => i \in FirstPage(S)
  <2> SUFFICES ASSUME NEW lo \in Nat, \A i \in S : lo <= i, NEW i \in S, i <= lo + Page - 1
               PROVE  i \in FirstPage(S)
    OBVIOUS
  <2>1. {k \in S : k <= i} \in SUBSET (lo..i) /\ lo \in Int /\ i \in Int
    <3>1. i \in Int /\ lo \in Int /\ \A k \in S : k \in Int /\ lo <= k
      BY <1>1
    <3>2. \A k \in S : k <= i => k \in lo..i
      BY <3>1
    <3> QED BY <3>1, <3>2
  <2>2. IsFiniteSet(lo..i) /\ Cardinality(lo..i) = IF lo > i THEN 0 ELSE i - lo + 1
    BY <2>1, FS_Interval
  <2>3. Cardinality({k \in S : k <= i}) <= Cardinality(lo..i)
    BY <2>1, <2>2, FS_Subset
  <2>4. Cardinality({k \in S : k <= i}) <= Page
    <3>1. Cardinality({k \in S : k <= i}) \in Nat
      BY <1>4
    <3>2. Cardinality(lo..i) <= Page /\ Cardinality(lo..i) \in Nat
      BY <1>0, <2>1, <2>2
    <3> QED BY <1>0, <2>3, <3>1, <3>2
  <2> QED BY <2>4 DEF FirstPage
<1>7. S # {} => FirstPage(S) # {}
  <2> SUFFICES ASSUME S # {} PROVE FirstPage(S) # {}
    OBVIOUS
  <2>1. PICK m \in S : \A q \in S : m <= q
    BY <1>1, HasLeast
  <2>2. m \in Nat /\ m <= m + Page - 1
    BY <1>0
  <2>3. m \in FirstPage(S)
    BY <1>6, <2>1, <2>2
  <2> QED BY <2>3
<1> QED BY <1>2, <1>3, <1>5, <1>6, <1>7

-----------------------------------------------------------------------------
(***************************************************************************)
(* Views.                                                                  *)
(***************************************************************************)
\* What a limited read in descending order returns.
LEMMA NewestIs ==
  ASSUME NEW rows \in SUBSET Row, NEW view \in Newest(rows, Cap)
  PROVE  /\ view \subseteq rows /\ Cardinality(view) <= Cap
         /\ \A r \in rows \ view : Cardinality(view) = Cap /\ \A s \in view : s.ts >= r.ts
         /\ \A full \in SUBSET rows : Cardinality(full) = Cap => Cardinality(view) = Cap
<1>1. Cap \in Nat /\ Cardinality(rows) \in Nat /\ IsFiniteSet(rows)
  BY RowsFinite, MarketDataAssumption
<1>2. /\ view \subseteq rows
      /\ Cardinality(view) = Min({Cap, Cardinality(rows)})
      /\ \A r \in rows \ view, s \in view : r.ts <= s.ts
  BY DEF Newest
<1>3. Cardinality(view) = IF Cap <= Cardinality(rows) THEN Cap ELSE Cardinality(rows)
  <2>1. Cap \in Int /\ Cardinality(rows) \in Int
    BY <1>1
  <2> QED BY <1>2, <2>1, MinOfTwo
<1>4. Cardinality(view) <= Cap
  BY <1>1, <1>3
<1>5. ASSUME NEW r \in rows \ view
      PROVE  Cardinality(view) = Cap /\ \A s \in view : s.ts >= r.ts
  <2>1. Cardinality(view) # Cardinality(rows)
    BY <1>1, <1>2, FS_Subset
  <2>2. Cardinality(view) = Cap
    BY <1>3, <2>1
  <2>3. \A s \in view : s.ts \in Nat /\ r.ts \in Nat
    BY <1>2, MarketDataAssumption DEF Row, Time
  <2>4. \A s \in view : s.ts >= r.ts
    BY <1>2, <2>3
  <2> QED BY <2>2, <2>4
<1>6. ASSUME NEW full \in SUBSET rows, Cardinality(full) = Cap
      PROVE  Cardinality(view) = Cap
  <2>1. Cardinality(full) <= Cardinality(rows)
    BY <1>1, FS_Subset
  <2> QED BY <1>3, <1>6, <2>1
<1> QED BY <1>2, <1>4, <1>5, <1>6

\* The table a provider reads holds rows.
LEMMA TableIsRows ==
  ASSUME Typed
  PROVE  Table \in SUBSET Row
<1>1. CASE feed = "rollup"
  <2>1. \A d \in DOMAIN daily : d \in Time
    <3>1. DOMAIN daily = 0..Day(MaxNow)
      BY DEF Typed
    <3>2. MaxNow \in Nat /\ Day(MaxNow) \in Nat /\ Day(MaxNow) <= MaxNow
      BY DayIs, MarketDataAssumption
    <3> QED BY <3>1, <3>2 DEF Time
  <2>2. \A d \in DOMAIN daily : At(d) \in Row
    BY <2>1, AtIsRow
  <2> QED BY <1>1, <2>2 DEF Table
<1>2. CASE feed # "rollup"
  BY <1>2 DEF Table, Typed
<1> QED BY <1>1, <1>2

\* A view read anew is what the table has up to then.
LEMMA ReadAnew ==
  ASSUME Typed, NEW t \in Int, NEW view \in Newest(UpTo(t), Cap)
  PROVE  /\ view \subseteq Table /\ Cardinality(view) <= Cap
         /\ \A r \in view : r.ts <= t
         /\ \A r \in Table \ view : r.ts <= t => Cardinality(view) = Cap /\ \A s \in view : s.ts >= r.ts
<1>1. UpTo(t) \in SUBSET Row /\ \A r \in Row : r \in UpTo(t) <=> r \in Table /\ r.ts <= t
  BY TableIsRows DEF UpTo
<1>2. /\ view \subseteq UpTo(t) /\ Cardinality(view) <= Cap
      /\ \A r \in UpTo(t) \ view : Cardinality(view) = Cap /\ \A s \in view : s.ts >= r.ts
  BY <1>1, NewestIs
<1> QED BY <1>1, <1>2, TableIsRows

\* A refresh of an order-flow or book view: nothing past the clock, every row
\* up to it unless the view is full and newer, and of the rows the table has
\* lost only old ones.
LEMMA RefreshedIs ==
  ASSUME Typed, Refreshable, ViewIsFull, PrunedIsOlder,
         NEW t \in Time, NEW view \in Refreshed(t)
  PROVE  /\ view \subseteq Row /\ Cardinality(view) <= Cap
         /\ \A r \in view : r.ts <= t
         /\ \A r \in (store \ late) \ view : r.ts <= t =>
                Cardinality(view) = Cap /\ \A s \in view : s.ts >= r.ts
         /\ \A r \in store \ late, x \in view \ store : r.ts > x.ts
<1>0. /\ RefreshWindow \in Nat /\ Cap \in Nat /\ t \in Int
      /\ store \in SUBSET Row /\ cache \in SUBSET Row
      /\ \A r \in Row : r.ts \in Nat
      /\ Table = store /\ Table \in SUBSET Row
  BY TableIsRows, MarketDataAssumption
     DEF Time, Row, Typed, Refreshable, Table, Ticks
<1>1. CASE view \in Newest(UpTo(t), Cap)
  BY <1>0, <1>1, ReadAnew
<1>2. PICK top : top = Max({r.ts : r \in cache})
  OBVIOUS
<1>3. ASSUME view \notin Newest(UpTo(t), Cap)
      PROVE  /\ view \subseteq Row /\ Cardinality(view) <= Cap
             /\ \A r \in view : r.ts <= t
             /\ \A r \in (store \ late) \ view : r.ts <= t =>
                    Cardinality(view) = Cap /\ \A s \in view : s.ts >= r.ts
             /\ \A r \in store \ late, x \in view \ store : r.ts > x.ts
  <2>1. /\ cache # {} /\ ~(top > t)
        /\ view \in Newest({r \in cache : r.ts < top - RefreshWindow}
                           \cup {r \in UpTo(t) : r.ts >= top - RefreshWindow}, Cap)
    BY <1>2, <1>3 DEF Refreshed
  <2>2. /\ \A c \in cache : c.ts <= top
        /\ \E d \in cache : d.ts = top
        /\ top \in Nat
    <3>1. {r.ts : r \in cache} \in SUBSET Nat /\ {r.ts : r \in cache} # {}
      BY <1>0, <2>1
    <3>2. MaxNow \in Nat /\ \A n \in {r.ts : r \in cache} : n <= MaxNow
      BY <1>0, MarketDataAssumption DEF Row, Time
    <3>3. IsFiniteSet({r.ts : r \in cache})
      BY <3>1, <3>2, FS_BoundedSetOfNaturals
    <3>4. {r.ts : r \in cache} \in SUBSET Int
      BY <3>1
    <3>5. top \in {r.ts : r \in cache} /\ \A n \in {r.ts : r \in cache} : top >= n
      BY <1>2, <3>1, <3>3, <3>4, MaxIs
    <3> QED BY <1>0, <3>1, <3>5
  <2>3. PICK start \in Int : start = top - RefreshWindow /\ start <= top
    BY <1>0, <2>2
  <2>4. PICK rows \in SUBSET Row :
          /\ view \in Newest(rows, Cap)
          /\ \A r \in Row : r \in rows <=> \/ r \in cache /\ r.ts < start
                                           \/ r \in store /\ r.ts <= t /\ r.ts >= start
    <3>1. PICK rows : rows = {r \in cache : r.ts < top - RefreshWindow}
                             \cup {r \in UpTo(t) : r.ts >= top - RefreshWindow}
      OBVIOUS
    <3>2. \A r \in Row : r \in rows <=> \/ r \in cache /\ r.ts < start
                                        \/ r \in store /\ r.ts <= t /\ r.ts >= start
      BY <1>0, <2>3, <3>1 DEF UpTo
    <3>3. rows \in SUBSET Row
      BY <1>0, <3>1 DEF UpTo
    <3> QED BY <2>1, <3>1, <3>2, <3>3
  <2>5. /\ view \subseteq rows /\ Cardinality(view) <= Cap
        /\ \A r \in rows \ view : Cardinality(view) = Cap /\ \A s \in view : s.ts >= r.ts
        /\ \A full \in SUBSET rows : Cardinality(full) = Cap => Cardinality(view) = Cap
    BY <2>4, NewestIs
  <2>6. \A r \in view : r.ts <= t
    BY <1>0, <2>1, <2>2, <2>3, <2>4, <2>5
  <2>7. ASSUME NEW r \in (store \ late) \ view, r.ts <= t
        PROVE  Cardinality(view) = Cap /\ \A s \in view : s.ts >= r.ts
    <3>1. CASE r \in rows
      BY <2>5, <3>1
    <3>2. ASSUME r \notin rows
          PROVE  Cardinality(view) = Cap /\ \A s \in view : s.ts >= r.ts
      <4>1. r \in Row /\ r.ts < start /\ r \notin cache
        BY <1>0, <2>3, <2>4, <2>7, <3>2
      <4>2. \E d \in cache : r.ts < d.ts - RefreshWindow
        BY <2>2, <2>3, <4>1
      <4>3. Cardinality(cache) = Cap /\ \A c \in cache : c.ts >= r.ts
        BY <4>1, <4>2, <2>7 DEF ViewIsFull
      <4>4. \A c \in cache \ store : r.ts > c.ts
        BY <4>2, <2>7 DEF PrunedIsOlder
      <4>5. cache \subseteq store
        BY <1>0, <4>1, <4>3, <4>4
      <4>6. cache \in SUBSET rows
        BY <1>0, <2>1, <2>2, <2>3, <2>4, <4>5
      <4>7. Cardinality(view) = Cap
        BY <2>5, <4>3, <4>6
      <4>8. \A s \in view : s.ts >= r.ts
        BY <1>0, <2>3, <2>4, <2>5, <4>1, <4>3
      <4> QED BY <4>7, <4>8
    <3> QED BY <3>1, <3>2
  <2>8. ASSUME NEW r \in store \ late, NEW x \in view \ store
        PROVE  r.ts > x.ts
    <3>1. x \in cache \ store /\ x.ts < start
      BY <2>4, <2>5
    <3>2. CASE r.ts < start
      BY <2>2, <2>3, <3>1, <3>2 DEF PrunedIsOlder
    <3>3. CASE r.ts >= start
      BY <1>0, <2>3, <3>1, <3>3
    <3> QED BY <1>0, <2>3, <3>2, <3>3
  <2> QED BY <2>4, <2>5, <2>6, <2>7, <2>8
<1> QED BY <1>1, <1>3

-----------------------------------------------------------------------------
(***************************************************************************)
(* Backfills.                                                              *)
(***************************************************************************)
\* What the table may still lack when a backfill ends.
NoGap ==
  \A r \in Asked \ store : /\ feed = "binance" \/ r.ts = job.end - 1
                           /\ \E s \in store : s.ts = r.ts

\* What a turn of a backfill's loop has to keep.
Backfilled ==
  /\ job \in Job /\ store \subseteq Row /\ late \subseteq Row
  /\ Ranged /\ KrakenPaged /\ BinancePaged /\ PointsPaged /\ BackfillLeavesNoGap
  /\ ViewIsFull /\ PrunedIsOlder

\* What has been published stays published, in the tape's order.
LEMMA PublishedIs ==
  ASSUME Typed
  PROVE  /\ Out \subseteq DOMAIN tape
         /\ \A e \in Nat : e <= now => Published(e) \subseteq Out
         /\ \A e \in Nat : Published(e) \subseteq DOMAIN tape
         /\ \A i \in Out, j \in DOMAIN tape : j <= i => j \in Out
<1>1. /\ now \in Nat /\ Candle \in Nat
      /\ \A i \in DOMAIN tape : tape[i].ts \in Nat
      /\ \A i, j \in DOMAIN tape : i <= j => tape[i].ts <= tape[j].ts
  BY TapeIs, MarketDataAssumption DEF Typed, Time
<1>2. PICK lag \in Nat : lag = IF feed = "candles" THEN Candle ELSE 0
  BY <1>1
<1>3. \A e \in Nat : Published(e) = {i \in DOMAIN tape : tape[i].ts + lag <= e}
  BY <1>2 DEF Published
<1>4. Out = {i \in DOMAIN tape : tape[i].ts + lag <= now}
  BY <1>1, <1>3 DEF Out
<1>5. \A e \in Nat : e <= now => Published(e) \subseteq Out
  BY <1>1, <1>2, <1>3, <1>4
<1>6. \A i \in Out, j \in DOMAIN tape : j <= i => j \in Out
  BY <1>1, <1>2, <1>4
<1> QED BY <1>3, <1>4, <1>5, <1>6

\* A page of published rows: what it leaves out comes after it.
LEMMA PageOf ==
  ASSUME Typed, NEW S \in SUBSET Out, NEW page, page = FirstPage(S)
  PROVE  /\ page \subseteq S /\ page \subseteq DOMAIN tape
         /\ IsFiniteSet(page) /\ page \in SUBSET Int
         /\ \A i \in page : tape[i] \in Row /\ tape[i].ts \in 1..MaxNow
         /\ \A j \in S : j \in page \/ (page # {} /\ \A i \in page : i < j)
<1>1. DOMAIN tape = 1..Len(tape) /\ Len(tape) \in Nat /\ S \in SUBSET (1..Len(tape))
  BY TapeIs, PublishedIs
<1>2. /\ page \subseteq S /\ IsFiniteSet(page) /\ page \in SUBSET Int
      /\ \A i \in page, j \in S : j <= i => j \in page
      /\ S # {} => page # {}
  BY <1>1, PageIsFront
<1>3. \A j \in S : j \in page \/ (page # {} /\ \A i \in page : i < j)
  <2> SUFFICES ASSUME NEW j \in S, j \notin page
               PROVE  page # {} /\ \A i \in page : i < j
    OBVIOUS
  <2>1. \A i \in page : ~(j <= i) /\ i \in Int /\ j \in Int
    BY <1>1, <1>2
  <2> QED BY <1>2, <2>1
<1>4. \A i \in page : tape[i] \in Row /\ tape[i].ts \in 1..MaxNow
  BY <1>1, <1>2, TapeIs
<1> QED BY <1>1, <1>2, <1>3, <1>4

\* The last of some rows of a page, as BackfillTrades and PagePoints name it.
LEMMA LastOf ==
  ASSUME Typed, NEW new \in SUBSET (DOMAIN tape), IsFiniteSet(new), new # {}
  PROVE  /\ Max(new) \in new
         /\ tape[Max(new)].ts \in 1..MaxNow
         /\ \A i \in new : i <= Max(new) /\ tape[i].ts <= tape[Max(new)].ts
<1>1. DOMAIN tape = 1..Len(tape) /\ Len(tape) \in Nat /\ new \in SUBSET Int
  BY TapeIs
<1>2. Max(new) \in new /\ \A i \in new : Max(new) >= i
  BY <1>1, MaxIs
<1>3. \A i \in new : i <= Max(new)
  BY <1>1, <1>2
<1> QED BY <1>2, <1>3, TapeIs

\* Rows put into the table do not disturb what is known of the views.
LEMMA StoredKeepsViews ==
  ASSUME Typed, ViewIsFull, PrunedIsOlder, NEW rows \in SUBSET Row, Stored(rows),
         UNCHANGED <<feed, cache>>
  PROVE  /\ ViewIsFull' /\ PrunedIsOlder'
         /\ store' = store \cup rows /\ store' \subseteq Row /\ late' \subseteq Row
<1>1. /\ store' = store \cup rows
      /\ late' = late \cup {r \in rows \ store :
                   feed # "rollup" /\ \E c \in cache : r.ts < c.ts - RefreshWindow}
  BY DEF Stored
<1>2. Refreshable => feed # "rollup"
  BY DEF Refreshable, Ticks
<1>3. ViewIsFull'
  BY <1>1, <1>2 DEF ViewIsFull, Refreshable
<1>4. PrunedIsOlder'
  BY <1>1, <1>2 DEF PrunedIsOlder, Refreshable
<1>5. store' \subseteq Row /\ late' \subseteq Row
  BY <1>1 DEF Typed
<1> QED BY <1>1, <1>3, <1>4, <1>5

\* A backfill ends with the table it has.
LEMMA Finished ==
  ASSUME Typed, ViewIsFull, PrunedIsOlder, Ranged, job.phase = "page", Finish, NoGap,
         UNCHANGED <<feed, tape, now, cache>>
  PROVE  Backfilled'
<1>1. /\ job' = [job EXCEPT !.phase = "done"] /\ UNCHANGED <<store, late>>
      /\ job \in Job
  BY DEF Finish, Typed
<1>2. /\ job' \in Job /\ job'.phase = "done" /\ job'.end = job.end
      /\ job'.start = job.start /\ job'.since = job.since
  BY <1>1 DEF Job
<1>3. Ranged'
  BY <1>2 DEF Ranged
<1>4. KrakenPaged' /\ BinancePaged' /\ PointsPaged'
  BY <1>2 DEF KrakenPaged, BinancePaged, PointsPaged
<1>5. Asked' = Asked
  BY <1>2 DEF Asked, Published
<1>6. BackfillLeavesNoGap'
  BY <1>1, <1>2, <1>5 DEF BackfillLeavesNoGap, NoGap
<1>7. ViewIsFull' /\ PrunedIsOlder'
  BY <1>1 DEF ViewIsFull, PrunedIsOlder, Refreshable
<1>8. store' \subseteq Row /\ late' \subseteq Row
  BY <1>1 DEF Typed
<1> QED BY <1>2, <1>3, <1>4, <1>6, <1>7, <1>8 DEF Backfilled

\* What an end without a gap takes, seen from the positions of the tape.
LEMMA NoGapIf ==
  ASSUME Typed, Ranged, job.phase = "page", feed \in Ticks \cup Points,
         \A i \in Published(job.end) : InRange(i) /\ tape[i] \notin store =>
             /\ feed = "binance" \/ tape[i].ts = job.end - 1
             /\ \E s \in store : s.ts = tape[i].ts
  PROVE  NoGap
BY DEF NoGap, Asked, InRange

\* A turn of Kraken's loop: the page starts at the cursor and leaves nothing
\* out before its end, so the table holds all that was asked for up to the next
\* cursor.
LEMMA KrakenStep ==
  ASSUME IInv, feed = "kraken", BackfillTrades
  PROVE  Backfilled'
<1>1. PICK page : page = KrakenPage(job.since, job.cursor)
  OBVIOUS
<1>2. PICK cursor : cursor = IF page # {} THEN Max(page) ELSE 0
  OBVIOUS
<1>3. PICK batch : batch = {i \in page : tape[i].ts < job.end}
  OBVIOUS
<1>4. PICK new : new = Fresh(batch)
  OBVIOUS
<1>5. PICK last : last = tape[Max(new)].ts
  OBVIOUS
<1>6. PICK moved : moved = (job.cursor # 0 /\ cursor # 0 /\ cursor # job.cursor)
  OBVIOUS
<1>7. /\ job.phase = "page" /\ UNCHANGED <<feed, tape, now, eng, cache, daily, rolls>>
      /\ \/ job.since >= job.end /\ Finish
         \/ job.since < job.end /\ batch = {} /\ Finish
         \/ job.since < job.end /\ batch # {} /\ new = {} /\ Finish
         \/ /\ job.since < job.end /\ new # {}
            /\ \/ last <= job.last /\ ~moved /\ Finish
               \/ /\ last > job.last \/ moved
                  /\ Stored({tape[i] : i \in new})
                  /\ job' = [job EXCEPT !.last = last, !.tail = Boundary(new),
                                        !.since = last + 1, !.cursor = cursor]
  BY <1>1, <1>2, <1>3, <1>4, <1>5, <1>6 DEF BackfillTrades
<1>8. /\ Typed /\ Ranged /\ KrakenPaged /\ ViewIsFull /\ PrunedIsOlder
      /\ job \in Job /\ job.start \in Nat /\ job.end \in Nat /\ job.since \in Nat
      /\ job.cursor \in Nat /\ job.last \in Nat /\ job.tail \subseteq Row
      /\ 1 <= job.start /\ job.start < job.end /\ job.end <= now /\ job.start <= job.since
      /\ feed \in Ticks
  BY <1>7 DEF IInv, Typed, Job, Ranged, Ticks
<1>9. /\ DOMAIN tape = 1..Len(tape) /\ Len(tape) \in Nat /\ IsTape(tape)
      /\ \A i \in DOMAIN tape : tape[i] \in Row /\ tape[i].ts \in Nat
      /\ \A i, j \in DOMAIN tape : i <= j => tape[i].ts <= tape[j].ts
  BY <1>8, TapeIs
<1>10. PICK S \in SUBSET Out :
         /\ page = FirstPage(S)
         /\ \A i \in Out : i \in S <=> IF job.cursor = 0 THEN tape[i].ts >= job.since ELSE i >= job.cursor
  BY <1>1 DEF KrakenPage
<1>11. /\ Out \subseteq DOMAIN tape /\ Published(job.end) \subseteq Out
       /\ \A i \in Out, j \in DOMAIN tape : j <= i => j \in Out
  BY <1>8, PublishedIs
<1>12. /\ page \subseteq S /\ page \subseteq DOMAIN tape
       /\ IsFiniteSet(page) /\ page \in SUBSET Int
       /\ \A j \in S : j \in page \/ (page # {} /\ \A i \in page : i < j)
  BY <1>8, <1>10, PageOf
<1>13. /\ new \subseteq batch /\ \A i \in batch : i \in new \/ tape[i] \in job.tail
       /\ batch \subseteq page /\ new \subseteq DOMAIN tape /\ IsFiniteSet(new)
  <2>1. new \subseteq batch /\ \A i \in batch : i \in new \/ tape[i] \in job.tail
    BY <1>4 DEF Fresh
  <2>2. batch \subseteq page
    BY <1>3
  <2> QED BY <1>12, <2>1, <2>2, FS_Subset
\* Either no page came yet, or the table is filled up to the cursor.
<1>14. ASSUME job.cursor = 0
       PROVE  job.since = job.start /\ job.last = 0 /\ job.tail = {}
  BY <1>7, <1>8, <1>11, <1>14, <1>9 DEF KrakenPaged
<1>15. ASSUME job.cursor # 0
       PROVE  /\ job.cursor \in Out /\ job.cursor \in page
              /\ \A i \in 1..job.cursor : InRange(i) => tape[i] \in store
              /\ \A r \in job.tail : r.ts = job.last /\ \E j \in 1..job.cursor : r = tape[j]
              /\ job.since = job.last + 1 /\ job.start <= job.last /\ job.last < job.end
              /\ job.last <= tape[job.cursor].ts
              /\ \E s \in store : s.ts = job.last
              /\ \A i \in Out : job.cursor <= i /\ i <= job.cursor + Page - 1 => i \in page
  <2>1. /\ job.cursor \in Out
        /\ \A i \in 1..job.cursor : InRange(i) => tape[i] \in store
        /\ \A r \in job.tail : r.ts = job.last /\ \E j \in 1..job.cursor : r = tape[j]
        /\ job.since = job.last + 1 /\ job.start <= job.last /\ job.last < job.end
        /\ job.last <= tape[job.cursor].ts
        /\ \E s \in store : s.ts = job.last
    BY <1>7, <1>8, <1>15 DEF KrakenPaged
  <2>2. \A i \in Out : i \in S <=> job.cursor <= i
    BY <1>8, <1>9, <1>10, <1>11, <1>15
  <2>3. \A i \in Out : job.cursor <= i /\ i <= job.cursor + Page - 1 => i \in page
    <3>1. S \in SUBSET (1..Len(tape))
      BY <1>9, <1>11
    <3>2. \A i \in S : job.cursor <= i
      BY <2>2
    <3>3. \A i \in S : i <= job.cursor + Page - 1 => i \in FirstPage(S)
      BY <1>8, <1>9, <3>1, <3>2, PageIsFront
    <3> QED BY <1>10, <2>2, <3>3
  <2>4. job.cursor \in page
    <3>1. Page \in Nat \ {0}
      BY MarketDataAssumption
    <3>2. job.cursor <= job.cursor /\ job.cursor <= job.cursor + Page - 1
      BY <1>8, <3>1
    <3> QED BY <2>1, <2>3, <3>2
  <2> QED BY <2>1, <2>3, <2>4
\* The ends of the loop.
<1>16. ASSUME Finish, NoGap PROVE Backfilled'
  BY <1>7, <1>8, <1>16, Finished
<1>17. ASSUME \A i \in Published(job.end) : InRange(i) /\ tape[i] \notin store =>
                 tape[i].ts = job.end - 1 /\ \E s \in store : s.ts = tape[i].ts
       PROVE  NoGap
  BY <1>7, <1>8, <1>17, NoGapIf
\* Of what was asked for, the table lacks only rows past the cursor.
<1>18. ASSUME NEW i \in Published(job.end), InRange(i), tape[i] \notin store
       PROVE  /\ i \in S /\ i \in DOMAIN tape /\ i \in Int
              /\ tape[i].ts \in Nat /\ job.start <= tape[i].ts /\ tape[i].ts < job.end
              /\ job.cursor # 0 => job.cursor < i
  <2>1. i \in Out /\ i \in DOMAIN tape /\ i \in 1..Len(tape) /\ tape[i].ts \in Nat
    BY <1>9, <1>11, <1>18
  <2>2. job.start <= tape[i].ts /\ tape[i].ts < job.end
    BY <1>8, <1>18, <2>1 DEF InRange
  <2>3. job.cursor # 0 => job.cursor < i
    BY <1>8, <1>15, <1>18, <1>9, <2>1
  <2>4. i \in S
    BY <1>8, <1>10, <1>14, <2>1, <2>2, <2>3
  <2> QED BY <1>9, <2>1, <2>2, <2>3, <2>4
<1>19. ASSUME job.since >= job.end PROVE NoGap
  <2>1. job.cursor # 0
    BY <1>8, <1>14, <1>19
  <2>2. job.last = job.end - 1 /\ job.last <= tape[job.cursor].ts
    BY <1>8, <1>15, <1>19, <2>1
  <2>3. ASSUME NEW i \in Published(job.end), InRange(i), tape[i] \notin store
        PROVE  tape[i].ts = job.end - 1 /\ \E s \in store : s.ts = tape[i].ts
    <3>1. tape[job.cursor].ts <= tape[i].ts
      BY <1>8, <1>9, <1>11, <1>15, <1>18, <2>1, <2>3
    <3>2. job.cursor \in DOMAIN tape /\ tape[job.cursor].ts \in Nat
      BY <1>9, <1>11, <1>15, <2>1
    <3>3. tape[i].ts = job.end - 1
      BY <1>8, <1>18, <2>2, <2>3, <3>1, <3>2
    <3> QED BY <1>15, <2>1, <2>2, <3>3
  <2> QED BY <1>17, <2>3
<1>20. ASSUME batch = {} PROVE NoGap
  <2>1. ASSUME NEW i \in Published(job.end), InRange(i), tape[i] \notin store PROVE FALSE
    <3>1. i \in S /\ tape[i].ts < job.end /\ i \in DOMAIN tape
      BY <1>18, <2>1
    <3>2. i \notin page
      BY <1>3, <1>20, <3>1
    <3>3. PICK j \in page : j < i
      BY <1>12, <3>1, <3>2
    <3>4. j \in DOMAIN tape /\ j <= i
      BY <1>9, <1>12, <3>1, <3>3
    <3>5. tape[j].ts < job.end
      BY <1>8, <1>9, <3>1, <3>4
    <3> QED BY <1>3, <1>20, <3>5
  <2> QED BY <1>17, <2>1
<1>21. ASSUME batch # {}, new = {} PROVE NoGap
  <2>1. ASSUME NEW i \in Published(job.end), InRange(i), tape[i] \notin store PROVE FALSE
    <3>1. \A j \in batch : tape[j] \in job.tail
      BY <1>13, <1>21
    <3>2. job.cursor # 0
      BY <1>14, <1>21, <3>1
    <3>3. /\ i \in S /\ i \in DOMAIN tape /\ i \in Int /\ tape[i].ts \in Nat
          /\ tape[i].ts < job.end /\ job.start <= tape[i].ts /\ job.cursor < i
      BY <1>18, <2>1, <3>2
    <3>4. i \notin page
      <4>1. SUFFICES ASSUME i \in page PROVE FALSE
        OBVIOUS
      <4>2. tape[i] \in job.tail
        BY <1>3, <3>1, <3>3, <4>1
      <4>3. PICK j \in 1..job.cursor : tape[i] = tape[j]
        BY <1>15, <3>2, <4>2
      <4>4. InRange(j)
        BY <2>1, <4>3 DEF InRange
      <4> QED BY <1>15, <2>1, <3>2, <4>3, <4>4
    <3>5. Page \in Nat \ {0} /\ job.cursor \in Nat
      BY <1>8, MarketDataAssumption
    <3>6. i > job.cursor + Page - 1
      BY <1>10, <1>15, <3>2, <3>3, <3>4, <3>5
    <3>7. \A k \in job.cursor..(job.cursor + Page - 1) :
             k \in page /\ k \in DOMAIN tape /\ tape[k] \in job.tail
      <4> TAKE k \in job.cursor..(job.cursor + Page - 1)
      <4>1. k \in Int /\ job.cursor <= k /\ k <= job.cursor + Page - 1 /\ k < i /\ k \in DOMAIN tape
        BY <1>9, <3>2, <3>3, <3>5, <3>6
      <4>2. k \in Out
        BY <1>10, <1>11, <3>3, <4>1
      <4>3. k \in page
        BY <1>15, <3>2, <4>1, <4>2
      <4>4. tape[k].ts < job.end
        BY <1>8, <1>9, <3>3, <4>1
      <4> QED BY <1>3, <3>1, <4>1, <4>3, <4>4
    <3>8. /\ job.cursor \in job.cursor..(job.cursor + Page - 1)
          /\ job.cursor + Page - 1 \in job.cursor..(job.cursor + Page - 1)
      BY <3>5
    <3>9. tape[job.cursor].ts = job.last /\ tape[job.cursor + Page - 1].ts = job.last
      BY <1>15, <3>2, <3>7, <3>8
    <3>10. PICK k \in job.cursor..(job.cursor + Page - 1) : \A j \in 1..job.cursor : tape[k] # tape[j]
      BY <1>9, <3>7, <3>8, <3>9 DEF IsTape
    <3> QED BY <1>15, <3>2, <3>7, <3>10
  <2> QED BY <1>17, <2>1
<1>22. ASSUME new # {}
       PROVE  /\ Max(new) \in new /\ last \in Nat /\ last < job.end /\ job.start <= last
              /\ \A i \in new : i <= Max(new)
              /\ cursor \in page /\ cursor \in Nat \ {0} /\ \A i \in page : i <= cursor
              /\ job.cursor # 0 => job.cursor <= cursor /\ job.last <= last
  <2>1. /\ Max(new) \in new /\ last \in 1..MaxNow /\ MaxNow \in Nat
        /\ \A i \in new : i <= Max(new)
    BY <1>5, <1>8, <1>13, <1>22, LastOf, MarketDataAssumption
  <2>2. page # {}
    BY <1>13, <1>22
  <2>3. cursor \in page /\ \A i \in page : cursor >= i
    BY <1>2, <1>12, <2>2, MaxIs
  <2>4. cursor \in Nat \ {0} /\ \A i \in page : i <= cursor
    BY <1>9, <1>12, <2>3
  <2>5. last < job.end
    BY <1>3, <1>5, <1>13, <2>1
  <2>6. Max(new) \in S /\ Max(new) \in Out /\ Max(new) \in DOMAIN tape
    BY <1>10, <1>12, <1>13, <2>1
  <2>7. job.cursor # 0 => job.cursor <= cursor /\ job.last <= last
    <3> SUFFICES ASSUME job.cursor # 0 PROVE job.cursor <= cursor /\ job.last <= last
      OBVIOUS
    <3>1. job.cursor <= cursor
      BY <1>15, <2>4
    <3>2. job.cursor <= Max(new) /\ job.cursor \in DOMAIN tape
      BY <1>8, <1>9, <1>10, <1>11, <1>15, <2>6
    <3>3. tape[job.cursor].ts <= last /\ tape[job.cursor].ts \in Nat
      BY <1>5, <1>9, <2>6, <3>2
    <3> QED BY <1>8, <1>15, <2>1, <3>1, <3>3
  <2>8. job.start <= last
    <3>1. CASE job.cursor = 0
      BY <1>5, <1>8, <1>9, <1>10, <1>14, <2>6, <3>1
    <3>2. CASE job.cursor # 0
      BY <1>8, <1>15, <2>1, <2>7, <3>2
    <3> QED BY <3>1, <3>2
  <2> QED BY <2>1, <2>3, <2>4, <2>5, <2>7, <2>8
<1>23. ASSUME new # {}, last <= job.last, ~moved PROVE NoGap
  <2>1. job.cursor # 0 /\ cursor = job.cursor
    <3>1. last \in 1..MaxNow /\ MaxNow \in Nat
      BY <1>5, <1>8, <1>13, <1>23, LastOf, MarketDataAssumption
    <3>2. job.cursor # 0
      BY <1>8, <1>14, <1>23, <3>1
    <3> QED BY <1>6, <1>22, <1>23, <3>2
  <2>2. ASSUME NEW i \in Published(job.end), InRange(i), tape[i] \notin store PROVE FALSE
    <3>1. i \in S /\ i \in DOMAIN tape /\ i \in Int /\ job.cursor < i
      BY <1>18, <2>1, <2>2
    <3>2. Page \in Nat \ {0} /\ job.cursor \in Nat /\ job.cursor \in DOMAIN tape
      BY <1>8, <1>11, <1>15, <2>1, MarketDataAssumption
    <3>3. CASE Page = 1
      <4>1. job.cursor..(job.cursor + Page - 1) = {job.cursor} /\ job.cursor + Page - 1 = job.cursor
        BY <3>2, <3>3
      <4>2. \A j \in 1..job.cursor : tape[job.cursor] # tape[j]
        BY <1>9, <3>2, <4>1 DEF IsTape
      <4> QED BY <1>9, <3>2, <4>2
    <3>4. CASE Page # 1
      <4>1. job.cursor + 1 \in DOMAIN tape /\ job.cursor + 1 <= i /\ job.cursor + 1 \in Int
        BY <1>9, <3>1, <3>2
      <4>2. job.cursor + 1 \in Out
        BY <1>10, <1>11, <3>1, <4>1
      <4>3. job.cursor <= job.cursor + 1 /\ job.cursor + 1 <= job.cursor + Page - 1
        BY <3>2, <3>4
      <4>4. job.cursor + 1 \in page
        BY <1>15, <2>1, <4>2, <4>3
      <4> QED BY <1>22, <1>23, <2>1, <3>2, <4>4
    <3> QED BY <3>3, <3>4
  <2> QED BY <1>17, <2>2
\* The page committed.
<1>24. ASSUME new # {}, Stored({tape[i] : i \in new}),
              job' = [job EXCEPT !.last = last, !.tail = Boundary(new),
                                 !.since = last + 1, !.cursor = cursor]
       PROVE  Backfilled'
  <2>1. PICK rows \in SUBSET Row : rows = {tape[i] : i \in new} /\ Stored(rows)
    BY <1>9, <1>13, <1>24
  <2>2. /\ ViewIsFull' /\ PrunedIsOlder'
        /\ store' = store \cup rows /\ store' \subseteq Row /\ late' \subseteq Row
    BY <1>7, <1>8, <2>1, StoredKeepsViews
  <2>3. PICK tail \in SUBSET Row :
          /\ tail = Boundary(new)
          /\ \A r \in tail : r.ts = last /\ \E i \in new : r = tape[i]
    <3>1. PICK tail : tail = {tape[i] : i \in {j \in new : tape[j].ts = last}}
      OBVIOUS
    <3>2. tail = Boundary(new)
      BY <1>5, <3>1 DEF Boundary
    <3>3. \A r \in tail : r.ts = last /\ \E i \in new : r = tape[i]
      BY <3>1
    <3>4. \A i \in new : tape[i] \in Row
      BY <1>9, <1>13
    <3> QED BY <3>2, <3>3, <3>4
  <2>4. /\ job' \in Job /\ job'.phase = "page" /\ job'.start = job.start /\ job'.end = job.end
        /\ job'.last = last /\ job'.since = last + 1 /\ job'.cursor = cursor /\ job'.tail = tail
    <3>1. job' = [job EXCEPT !.last = last, !.tail = tail, !.since = last + 1, !.cursor = cursor]
      BY <1>24, <2>3
    <3>2. last \in Nat /\ last + 1 \in Nat /\ cursor \in Nat /\ tail \in SUBSET Row
      BY <1>22, <1>24
    <3> QED BY <1>7, <1>8, <3>1, <3>2 DEF Job
  <2>5. Ranged'
    BY <1>7, <1>8, <1>22, <1>24, <2>4 DEF Ranged, Polled, Ticks
  <2>6. \A i \in 1..cursor : InRange(i) => tape[i] \in store'
    <3> SUFFICES ASSUME NEW i \in 1..cursor, InRange(i) PROVE tape[i] \in store'
      OBVIOUS
    <3>1. /\ cursor \in Out /\ cursor \in Nat /\ i \in DOMAIN tape /\ i \in Int /\ i <= cursor
          /\ i \in Out
      BY <1>9, <1>10, <1>11, <1>12, <1>22, <1>24
    <3>2. job.start <= tape[i].ts /\ tape[i].ts < job.end /\ tape[i].ts \in Nat
      BY <1>8, <1>9, <3>1 DEF InRange
    <3>3. CASE i \in 1..job.cursor
      <4>1. job.cursor # 0
        BY <3>3
      <4>2. tape[i] \in store
        BY <1>15, <3>3, <4>1
      <4> QED BY <2>2, <4>2
    <3>4. CASE i \notin 1..job.cursor
      <4>1. i \in S
        BY <1>8, <1>10, <1>14, <3>1, <3>2, <3>4
      <4>2. i \in page
        <5>1. ~(cursor < i)
          BY <3>1
        <5> QED BY <1>12, <1>22, <1>24, <4>1, <5>1
      <4>3. i \in batch
        BY <1>3, <3>2, <4>2
      <4>4. CASE i \in new
        BY <2>1, <2>2, <4>4
      <4>5. CASE i \notin new
        <5>1. tape[i] \in job.tail
          BY <1>13, <4>3, <4>5
        <5>2. job.cursor # 0
          BY <1>14, <5>1
        <5>3. PICK j \in 1..job.cursor : tape[i] = tape[j]
          BY <1>15, <5>1, <5>2
        <5>4. InRange(j)
          BY <5>3 DEF InRange
        <5>5. tape[i] \in store
          BY <1>15, <5>2, <5>3, <5>4
        <5> QED BY <2>2, <5>5
      <4> QED BY <4>4, <4>5
    <3> QED BY <3>3, <3>4
  <2>7. \A i : InRange(i)' <=> InRange(i)
    BY <1>7, <2>4 DEF InRange
  <2>8. \A r \in tail : r.ts = last /\ \E j \in 1..cursor : r = tape[j]
    <3>1. \A i \in new : i \in 1..cursor
      BY <1>9, <1>13, <1>22, <1>24
    <3> QED BY <2>3, <3>1
  <2>9. Max(new) \in new /\ tape[Max(new)] \in store' /\ tape[Max(new)].ts = last
    BY <1>5, <1>22, <1>24, <2>1, <2>2
  <2>10. last <= tape[cursor].ts
    BY <1>5, <1>9, <1>12, <1>13, <1>22, <1>24
  <2>11. Out' = Out /\ cursor \in Out
    BY <1>7, <1>10, <1>12, <1>22, <1>24 DEF Out, Published
  <2>12. KrakenPaged'
    BY <1>7, <1>22, <1>24, <2>4, <2>6, <2>7, <2>8, <2>9, <2>10, <2>11 DEF KrakenPaged
  <2>13. BinancePaged' /\ PointsPaged' /\ BackfillLeavesNoGap'
    BY <1>7, <1>8, <2>4 DEF BinancePaged, PointsPaged, BackfillLeavesNoGap, Ticks, Points
  <2> QED BY <2>2, <2>4, <2>5, <2>12, <2>13 DEF Backfilled
<1> QED BY <1>7, <1>16, <1>19, <1>20, <1>21, <1>23, <1>24

\* A turn of Binance's loop: an empty window has nothing to give, and a page
\* ends in a millisecond of which it stores a row.
LEMMA BinanceStep ==
  ASSUME IInv, feed = "binance", BackfillTrades
  PROVE  Backfilled'
<1>1. PICK page : page = WindowPage(job.since)
  OBVIOUS
<1>2. PICK batch : batch = {i \in page : tape[i].ts < job.end}
  OBVIOUS
<1>3. PICK new : new = Fresh(batch)
  OBVIOUS
<1>4. PICK last : last = tape[Max(new)].ts
  OBVIOUS
<1>5. /\ job.phase = "page" /\ UNCHANGED <<feed, tape, now, eng, cache, daily, rolls>>
      /\ \/ job.since >= job.end /\ Finish
         \/ /\ job.since < job.end /\ page = {}
            /\ job' = [job EXCEPT !.since = job.since + PageWindow, !.cursor = 0]
            /\ UNCHANGED <<store, late>>
         \/ /\ job.since < job.end /\ batch = {}
            /\ page = {} => job.since + PageWindow >= job.end
            /\ Finish
         \/ job.since < job.end /\ batch # {} /\ new = {} /\ Finish
         \/ /\ job.since < job.end /\ new # {}
            /\ \/ last <= job.last /\ Finish
               \/ /\ last > job.last
                  /\ Stored({tape[i] : i \in new})
                  /\ job' = [job EXCEPT !.last = last, !.tail = Boundary(new),
                                        !.since = last + 1, !.cursor = 0]
  BY <1>1, <1>2, <1>3, <1>4 DEF BackfillTrades
<1>6. /\ Typed /\ Ranged /\ BinancePaged /\ ViewIsFull /\ PrunedIsOlder
      /\ job \in Job /\ job.start \in Nat /\ job.end \in Nat /\ job.since \in Nat
      /\ job.last \in Nat /\ job.tail \subseteq Row
      /\ 1 <= job.start /\ job.start < job.end /\ job.end <= now /\ job.start <= job.since
      /\ feed \in Ticks /\ PageWindow \in Nat \ {0} /\ now \in Nat
  BY <1>5, MarketDataAssumption DEF IInv, Typed, Job, Ranged, Ticks, Time
<1>7. /\ DOMAIN tape = 1..Len(tape) /\ Len(tape) \in Nat
      /\ \A i \in DOMAIN tape : tape[i] \in Row /\ tape[i].ts \in Nat
      /\ \A i, j \in DOMAIN tape : i <= j => tape[i].ts <= tape[j].ts
  BY <1>6, TapeIs
<1>8. PICK S \in SUBSET Out :
        /\ page = FirstPage(S)
        /\ \A i \in Out : i \in S <=> tape[i].ts \in job.since..(job.since + PageWindow - 1)
  <2>1. PICK S : S = {i \in Out : tape[i].ts \in job.since..(job.since + PageWindow - 1)}
    OBVIOUS
  <2>2. page = FirstPage(S)
    BY <1>1, <2>1 DEF WindowPage
  <2>3. S \in SUBSET Out
    BY <2>1
  <2>4. \A i \in Out : i \in S <=> tape[i].ts \in job.since..(job.since + PageWindow - 1)
    BY <2>1
  <2> QED BY <2>2, <2>3, <2>4
<1>9. Out \subseteq DOMAIN tape /\ Published(job.end) \subseteq Out
  BY <1>6, PublishedIs
<1>10. /\ page \subseteq S /\ page \subseteq DOMAIN tape
       /\ IsFiniteSet(page) /\ page \in SUBSET Int
       /\ \A j \in S : j \in page \/ (page # {} /\ \A i \in page : i < j)
  BY <1>6, <1>8, PageOf
<1>11. /\ \A r \in job.tail : r.ts < job.since
       /\ job.last < job.since
       /\ \A i \in Published(job.end) : InRange(i) /\ tape[i].ts < job.since =>
              \E s \in store : s.ts = tape[i].ts
  BY <1>5, <1>6 DEF BinancePaged
<1>12. \A i \in page : /\ i \in DOMAIN tape /\ tape[i].ts \in Nat
                       /\ job.since <= tape[i].ts /\ tape[i].ts <= job.since + PageWindow - 1
  BY <1>6, <1>7, <1>8, <1>9, <1>10
\* A window starts past the last tail, so all of the batch is new.
<1>13. new = batch /\ batch \subseteq page /\ new \subseteq DOMAIN tape /\ IsFiniteSet(new)
  <2>1. batch \subseteq page
    BY <1>2
  <2>2. \A i \in batch : tape[i] \notin job.tail
    BY <1>6, <1>11, <1>12, <2>1
  <2>3. new = batch
    BY <1>3, <2>2 DEF Fresh
  <2> QED BY <1>10, <2>1, <2>3, FS_Subset
<1>14. ASSUME Finish, NoGap PROVE Backfilled'
  BY <1>5, <1>6, <1>14, Finished
<1>15. ASSUME \A i \in Published(job.end) : InRange(i) => \E s \in store : s.ts = tape[i].ts
       PROVE  NoGap
  BY <1>5, <1>6, <1>15, NoGapIf
<1>16. ASSUME NEW i \in Published(job.end), InRange(i)
       PROVE  /\ i \in Out /\ i \in DOMAIN tape /\ i \in Int /\ tape[i].ts \in Nat
              /\ job.start <= tape[i].ts /\ tape[i].ts < job.end
  BY <1>6, <1>7, <1>9, <1>16 DEF InRange
\* Nothing in the window before its end means nothing there at all.
<1>17. ASSUME batch = {}, NEW i \in Published(job.end), InRange(i), job.since <= tape[i].ts
       PROVE  page = {} /\ tape[i].ts >= job.since + PageWindow
  <2>1. /\ i \in Out /\ i \in DOMAIN tape /\ i \in Int /\ tape[i].ts \in Nat /\ tape[i].ts < job.end
    BY <1>16, <1>17
  <2>2. i \notin page
    BY <1>2, <1>17, <2>1
  <2>3. ASSUME NEW j \in page PROVE j < i
    <3>1. /\ j \in DOMAIN tape /\ tape[j].ts \in Nat /\ tape[j].ts >= job.end
          /\ job.since <= tape[j].ts /\ tape[j].ts <= job.since + PageWindow - 1
      BY <1>2, <1>6, <1>12, <1>17
    <3>2. i \in S
      BY <1>6, <1>8, <1>17, <2>1, <3>1
    <3> QED BY <1>10, <2>2, <3>2
  <2>4. page = {}
    <3>1. SUFFICES ASSUME NEW j \in page PROVE FALSE
      OBVIOUS
    <3>2. j \in DOMAIN tape /\ j <= i /\ tape[j].ts \in Nat
      BY <1>7, <1>12, <2>1, <2>3
    <3>3. tape[j].ts < job.end
      BY <1>6, <1>7, <2>1, <3>2
    <3> QED BY <1>2, <1>17, <3>3
  <2>5. i \notin S
    BY <1>10, <2>2, <2>4
  <2> QED BY <1>6, <1>8, <1>17, <2>1, <2>4, <2>5
<1>18. ASSUME job.since >= job.end PROVE NoGap
  <2>1. ASSUME NEW i \in Published(job.end), InRange(i) PROVE \E s \in store : s.ts = tape[i].ts
    BY <1>6, <1>11, <1>16, <1>18, <2>1
  <2> QED BY <1>15, <2>1
<1>19. ASSUME batch = {}, page = {} => job.since + PageWindow >= job.end PROVE NoGap
  <2>1. ASSUME NEW i \in Published(job.end), InRange(i) PROVE \E s \in store : s.ts = tape[i].ts
    <3>1. tape[i].ts \in Nat /\ tape[i].ts < job.end
      BY <1>16, <2>1
    <3>2. tape[i].ts < job.since
      BY <1>6, <1>17, <1>19, <2>1, <3>1
    <3> QED BY <1>11, <2>1, <3>2
  <2> QED BY <1>15, <2>1
\* A new row lies past the last one.
<1>20. ASSUME new # {}
       PROVE  /\ Max(new) \in new /\ Max(new) \in DOMAIN tape
              /\ last \in Nat /\ last < job.end /\ job.since <= last /\ job.last < last
              /\ last <= job.since + PageWindow - 1
              /\ \A i \in new : tape[i].ts <= last
  <2>1. /\ Max(new) \in new /\ last \in 1..MaxNow /\ MaxNow \in Nat
        /\ \A i \in new : tape[i].ts <= last
    BY <1>4, <1>6, <1>13, <1>20, LastOf, MarketDataAssumption
  <2>2. last < job.end /\ job.since <= last /\ last <= job.since + PageWindow - 1
    BY <1>2, <1>4, <1>12, <1>13, <2>1
  <2> QED BY <1>6, <1>11, <1>13, <2>1, <2>2
\* Going past an empty window.
<1>21. ASSUME page = {}, job' = [job EXCEPT !.since = job.since + PageWindow, !.cursor = 0],
              UNCHANGED <<store, late>>
       PROVE  Backfilled'
  <2>1. /\ job' \in Job /\ job'.phase = "page" /\ job'.start = job.start /\ job'.end = job.end
        /\ job'.last = job.last /\ job'.since = job.since + PageWindow /\ job'.cursor = 0
        /\ job'.tail = job.tail
    <3>1. job.since + PageWindow \in Nat
      BY <1>6
    <3> QED BY <1>5, <1>6, <1>21, <3>1 DEF Job
  <2>2. Ranged'
    BY <1>5, <1>6, <2>1 DEF Ranged, Polled, Ticks
  <2>3. \A i : InRange(i)' <=> InRange(i)
    BY <1>5, <2>1 DEF InRange
  <2>4. Published(job.end)' = Published(job.end)
    BY <1>5, <2>1 DEF Published
  <2>5. ASSUME NEW i \in Published(job.end), InRange(i), tape[i].ts < job.since + PageWindow
        PROVE  \E s \in store : s.ts = tape[i].ts
    <3>1. batch = {}
      BY <1>2, <1>21
    <3>2. tape[i].ts \in Nat
      BY <1>16, <2>5
    <3>3. tape[i].ts < job.since
      BY <1>6, <1>17, <2>5, <3>1, <3>2
    <3> QED BY <1>11, <2>5, <3>3
  <2>6. \A r \in job.tail : r.ts < job.since + PageWindow
    <3>1. \A r \in job.tail : r.ts \in Nat
      BY <1>6, MarketDataAssumption DEF Row, Time
    <3> QED BY <1>6, <1>11, <3>1
  <2>7. job.last < job.since + PageWindow
    BY <1>6, <1>11
  <2>8. BinancePaged'
    BY <1>5, <1>21, <2>1, <2>3, <2>4, <2>5, <2>6, <2>7 DEF BinancePaged
  <2>9. KrakenPaged' /\ PointsPaged' /\ BackfillLeavesNoGap'
    BY <1>5, <1>6, <2>1 DEF KrakenPaged, PointsPaged, BackfillLeavesNoGap, Ticks, Points
  <2>10. ViewIsFull' /\ PrunedIsOlder'
    BY <1>5, <1>6, <1>21 DEF ViewIsFull, PrunedIsOlder, Refreshable
  <2>11. store' \subseteq Row /\ late' \subseteq Row
    BY <1>6, <1>21 DEF Typed
  <2> QED BY <2>1, <2>2, <2>8, <2>9, <2>10, <2>11 DEF Backfilled
\* The page committed.
<1>22. ASSUME new # {}, Stored({tape[i] : i \in new}),
              job' = [job EXCEPT !.last = last, !.tail = Boundary(new),
                                 !.since = last + 1, !.cursor = 0]
       PROVE  Backfilled'
  <2>1. PICK rows \in SUBSET Row : rows = {tape[i] : i \in new} /\ Stored(rows)
    BY <1>7, <1>13, <1>22
  <2>2. /\ ViewIsFull' /\ PrunedIsOlder'
        /\ store' = store \cup rows /\ store' \subseteq Row /\ late' \subseteq Row
    BY <1>5, <1>6, <2>1, StoredKeepsViews
  <2>3. PICK tail \in SUBSET Row : tail = Boundary(new) /\ \A r \in tail : r.ts = last
    <3>1. PICK tail : tail = {tape[i] : i \in {j \in new : tape[j].ts = last}}
      OBVIOUS
    <3>2. tail = Boundary(new)
      BY <1>4, <3>1 DEF Boundary
    <3>3. \A r \in tail : r.ts = last
      BY <3>1
    <3>4. \A r \in tail : \E i \in new : r = tape[i]
      BY <3>1
    <3>5. \A i \in new : tape[i] \in Row
      BY <1>7, <1>13
    <3> QED BY <3>2, <3>3, <3>4, <3>5
  <2>4. /\ job' \in Job /\ job'.phase = "page" /\ job'.start = job.start /\ job'.end = job.end
        /\ job'.last = last /\ job'.since = last + 1 /\ job'.cursor = 0 /\ job'.tail = tail
    <3>1. job' = [job EXCEPT !.last = last, !.tail = tail, !.since = last + 1, !.cursor = 0]
      BY <1>22, <2>3
    <3>2. last \in Nat /\ last + 1 \in Nat /\ tail \in SUBSET Row
      BY <1>20, <1>22
    <3> QED BY <1>5, <1>6, <3>1, <3>2 DEF Job
  <2>5. Ranged'
    BY <1>5, <1>6, <1>20, <1>22, <2>4 DEF Ranged, Polled, Ticks
  <2>6. \A i : InRange(i)' <=> InRange(i)
    BY <1>5, <2>4 DEF InRange
  <2>7. Published(job.end)' = Published(job.end)
    BY <1>5, <2>4 DEF Published
  <2>8. ASSUME NEW i \in Published(job.end), InRange(i), tape[i].ts < last + 1
        PROVE  \E s \in store' : s.ts = tape[i].ts
    <3>1. /\ i \in Out /\ i \in DOMAIN tape /\ i \in Int /\ tape[i].ts \in Nat
          /\ tape[i].ts < job.end /\ tape[i].ts <= last
      BY <1>16, <1>20, <1>22, <2>8
    <3>2. CASE tape[i].ts < job.since
      BY <1>11, <2>2, <2>8, <3>2
    <3>3. CASE ~(tape[i].ts < job.since)
      <4>1. i \in S
        BY <1>6, <1>8, <1>20, <1>22, <3>1, <3>3
      <4>2. CASE i \in page
        <5>1. i \in new
          BY <1>2, <1>13, <3>1, <4>2
        <5>2. tape[i] \in store'
          BY <2>1, <2>2, <5>1
        <5> QED BY <5>2
      <4>3. CASE i \notin page
        <5>1. Max(new) < i /\ Max(new) \in DOMAIN tape /\ Max(new) \in Int
          BY <1>7, <1>10, <1>13, <1>20, <1>22, <4>1, <4>3
        <5>2. last <= tape[i].ts
          BY <1>4, <1>7, <3>1, <5>1
        <5>3. tape[i].ts = last
          BY <1>20, <1>22, <3>1, <5>2
        <5>4. tape[Max(new)] \in store' /\ tape[Max(new)].ts = last
          BY <1>4, <1>20, <1>22, <2>1, <2>2
        <5> QED BY <5>3, <5>4
      <4> QED BY <4>2, <4>3
    <3> QED BY <3>2, <3>3
  <2>9. last < last + 1 /\ \A r \in tail : r.ts < last + 1
    BY <1>20, <1>22, <2>3
  <2>10. BinancePaged'
    BY <1>5, <2>4, <2>6, <2>7, <2>8, <2>9 DEF BinancePaged
  <2>11. KrakenPaged' /\ PointsPaged' /\ BackfillLeavesNoGap'
    BY <1>5, <1>6, <2>4 DEF KrakenPaged, PointsPaged, BackfillLeavesNoGap, Ticks, Points
  <2> QED BY <2>2, <2>4, <2>5, <2>10, <2>11 DEF Backfilled
<1>23. new # {} => ~(last <= job.last)
  BY <1>6, <1>20
<1> QED BY <1>5, <1>13, <1>14, <1>18, <1>19, <1>21, <1>22, <1>23

\* A turn of the loop of the point series: the next request starts no further
\* past the last row than the points are apart.
LEMMA PointsStep ==
  ASSUME IInv, feed \in Points, PagePoints(Step)
  PROVE  Backfilled'
<1>1. PICK step : step = Step
  OBVIOUS
<1>2. PICK page : page = PointPage(job.since)
  OBVIOUS
<1>3. PICK batch : batch = {i \in page : tape[i].ts < job.end}
  OBVIOUS
<1>4. PICK last : last = tape[Max(batch)].ts
  OBVIOUS
<1>5. /\ job.phase = "page" /\ UNCHANGED <<feed, tape, now, eng, cache, daily, rolls>>
      /\ \/ (job.since >= job.end \/ batch = {}) /\ Finish
         \/ job.since < job.end /\ batch # {} /\ last <= job.last /\ Finish
         \/ /\ job.since < job.end /\ batch # {} /\ last > job.last
            /\ StoredPoints({tape[i] : i \in batch})
            /\ job' = [job EXCEPT !.last = last, !.since = last + step]
  BY <1>1, <1>2, <1>3, <1>4 DEF PagePoints
<1>6. /\ Typed /\ Ranged /\ PointsPaged /\ ViewIsFull /\ PrunedIsOlder
      /\ job \in Job /\ job.start \in Nat /\ job.end \in Nat /\ job.since \in Nat
      /\ job.last \in Nat
      /\ 1 <= job.start /\ job.start < job.end /\ job.end <= now /\ job.start <= job.since
      /\ feed \notin Ticks /\ feed \notin Polled /\ now \in Nat
  BY <1>5 DEF IInv, Typed, Job, Ranged, Ticks, Points, Polled, Time
<1>7. /\ DOMAIN tape = 1..Len(tape) /\ Len(tape) \in Nat
      /\ \A i \in DOMAIN tape : tape[i] \in Row /\ tape[i].ts \in Nat
  BY <1>6, TapeIs
<1>8. step \in Nat \ {0} /\ \A i, j \in DOMAIN tape : i < j => tape[i].ts + step <= tape[j].ts
  BY <1>1, MarketDataAssumption DEF IInv, Spaced, Step
<1>9. PICK S \in SUBSET Out :
        /\ page = FirstPage(S)
        /\ \A i \in Out : i \in S <=> tape[i].ts >= job.since
  <2>1. PICK S : S = {i \in Out : tape[i].ts >= job.since}
    OBVIOUS
  <2>2. page = FirstPage(S)
    BY <1>2, <2>1 DEF PointPage
  <2>3. S \in SUBSET Out
    BY <2>1
  <2>4. \A i \in Out : i \in S <=> tape[i].ts >= job.since
    BY <2>1
  <2> QED BY <2>2, <2>3, <2>4
<1>10. Out \subseteq DOMAIN tape /\ Published(job.end) \subseteq Out
  BY <1>6, PublishedIs
<1>11. /\ page \subseteq S /\ page \subseteq DOMAIN tape
       /\ IsFiniteSet(page) /\ page \in SUBSET Int
       /\ \A j \in S : j \in page \/ (page # {} /\ \A i \in page : i < j)
  BY <1>6, <1>9, PageOf
<1>12. /\ job.last < job.since
       /\ \A i \in Published(job.end) : InRange(i) /\ tape[i].ts < job.since => tape[i] \in store
  BY <1>5, <1>6 DEF PointsPaged
<1>13. batch \subseteq page /\ batch \subseteq DOMAIN tape /\ IsFiniteSet(batch)
  <2>1. batch \subseteq page
    BY <1>3
  <2> QED BY <1>11, <2>1, FS_Subset
<1>14. ASSUME Finish, NoGap PROVE Backfilled'
  BY <1>5, <1>6, <1>14, Finished
<1>15. ASSUME \A i \in Published(job.end) : InRange(i) => tape[i] \in store
       PROVE  NoGap
  BY <1>5, <1>6, <1>15, NoGapIf
<1>16. ASSUME NEW i \in Published(job.end), InRange(i)
       PROVE  /\ i \in Out /\ i \in DOMAIN tape /\ i \in Int /\ tape[i].ts \in Nat
              /\ job.start <= tape[i].ts /\ tape[i].ts < job.end
  BY <1>6, <1>7, <1>10, <1>16 DEF InRange
\* What the batch leaves out of the range comes after all of it.
<1>17. ASSUME NEW i \in Published(job.end), InRange(i), job.since <= tape[i].ts, i \notin batch
       PROVE  batch # {} /\ \A j \in batch : j < i
  <2>1. /\ i \in Out /\ i \in DOMAIN tape /\ i \in Int /\ tape[i].ts \in Nat /\ tape[i].ts < job.end
    BY <1>16, <1>17
  <2>2. i \in S /\ i \notin page
    BY <1>3, <1>9, <1>17, <2>1, <1>6
  <2>3. page # {} /\ \A j \in page : j < i
    BY <1>11, <2>2
  <2>4. PICK j \in page : j < i
    BY <2>3
  <2>5. j \in DOMAIN tape /\ tape[j].ts \in Nat /\ tape[j].ts + step <= tape[i].ts
    BY <1>7, <1>8, <1>11, <2>1, <2>4
  <2>6. tape[j].ts < job.end
    BY <1>6, <1>8, <2>1, <2>5
  <2> QED BY <1>3, <1>13, <2>3, <2>6
<1>18. ASSUME job.since >= job.end \/ batch = {} PROVE NoGap
  <2>1. ASSUME NEW i \in Published(job.end), InRange(i) PROVE tape[i] \in store
    <3>1. tape[i].ts \in Nat /\ tape[i].ts < job.end
      BY <1>16, <2>1
    <3>2. tape[i].ts < job.since
      BY <1>6, <1>17, <1>18, <2>1, <3>1
    <3> QED BY <1>12, <2>1, <3>2
  <2> QED BY <1>15, <2>1
<1>19. ASSUME batch # {}
       PROVE  /\ Max(batch) \in batch /\ Max(batch) \in DOMAIN tape
              /\ last \in Nat /\ last < job.end /\ job.since <= last /\ job.last < last
  <2>1. Max(batch) \in batch /\ last \in 1..MaxNow /\ MaxNow \in Nat
    BY <1>4, <1>6, <1>13, <1>19, LastOf, MarketDataAssumption
  <2>2. last < job.end /\ job.since <= last
    BY <1>3, <1>4, <1>9, <1>10, <1>11, <1>13, <2>1
  <2> QED BY <1>6, <1>12, <1>13, <2>1, <2>2
<1>20. batch # {} => ~(last <= job.last)
  BY <1>6, <1>19
\* The page committed.
<1>21. ASSUME batch # {}, StoredPoints({tape[i] : i \in batch}),
              job' = [job EXCEPT !.last = last, !.since = last + step]
       PROVE  Backfilled'
  <2>1. /\ store' = {r \in store : \A i \in batch : tape[i].ts # r.ts} \cup {tape[i] : i \in batch}
        /\ late' = late
    BY <1>21 DEF StoredPoints
  <2>2. store' \subseteq Row /\ late' \subseteq Row
    BY <1>6, <1>7, <1>13, <2>1 DEF Typed
  <2>3. /\ job' \in Job /\ job'.phase = "page" /\ job'.start = job.start /\ job'.end = job.end
        /\ job'.last = last /\ job'.since = last + step
    <3>1. last \in Nat /\ last + step \in Nat
      BY <1>8, <1>19, <1>21
    <3> QED BY <1>5, <1>6, <1>21, <3>1 DEF Job
  <2>4. Ranged'
    BY <1>5, <1>6, <1>8, <1>19, <1>21, <2>3 DEF Ranged, Polled, Points
  <2>5. \A i : InRange(i)' <=> InRange(i)
    BY <1>5, <2>3 DEF InRange
  <2>6. Published(job.end)' = Published(job.end)
    BY <1>1, <1>5, <2>3 DEF Published
  <2>7. ASSUME NEW i \in Published(job.end), InRange(i), tape[i].ts < last + step
        PROVE  tape[i] \in store'
    <3>1. /\ i \in DOMAIN tape /\ i \in Int /\ tape[i].ts \in Nat
      BY <1>16, <2>7
    <3>2. CASE i \in batch
      BY <2>1, <3>2
    <3>3. CASE i \notin batch
      <4>1. ~(job.since <= tape[i].ts)
        <5>1. SUFFICES ASSUME job.since <= tape[i].ts PROVE FALSE
          OBVIOUS
        <5>2. Max(batch) < i /\ Max(batch) \in DOMAIN tape
          BY <1>17, <1>19, <1>21, <2>7, <3>3, <5>1
        <5>3. last + step <= tape[i].ts
          BY <1>4, <1>8, <3>1, <5>2
        <5> QED BY <1>8, <1>19, <1>21, <2>7, <3>1, <5>3
      <4>2. tape[i] \in store
        BY <1>6, <1>12, <2>7, <3>1, <4>1
      <4>3. \A j \in batch : tape[j].ts # tape[i].ts
        <5> TAKE j \in batch
        <5>1. j \in DOMAIN tape /\ j \in Int /\ i # j /\ tape[j].ts \in Nat
          BY <1>7, <1>13, <3>3
        <5>2. (i < j => tape[i].ts + step <= tape[j].ts) /\ (j < i => tape[j].ts + step <= tape[i].ts)
          BY <1>8, <3>1, <5>1
        <5> QED BY <1>8, <3>1, <5>1, <5>2
      <4> QED BY <2>1, <4>2, <4>3
    <3> QED BY <3>2, <3>3
  <2>8. last < last + step
    BY <1>8, <1>19, <1>21
  <2>9. PointsPaged'
    BY <1>5, <2>3, <2>5, <2>6, <2>7, <2>8 DEF PointsPaged
  <2>10. KrakenPaged' /\ BinancePaged' /\ BackfillLeavesNoGap'
    BY <1>5, <1>6, <2>3 DEF KrakenPaged, BinancePaged, BackfillLeavesNoGap, Ticks
  <2>11. ViewIsFull' /\ PrunedIsOlder'
    BY <1>5, <1>6 DEF ViewIsFull, PrunedIsOlder, Refreshable, Points, Ticks
  <2> QED BY <2>2, <2>3, <2>4, <2>9, <2>10, <2>11 DEF Backfilled
<1> QED BY <1>5, <1>14, <1>18, <1>20, <1>21

-----------------------------------------------------------------------------
(***************************************************************************)
(* The invariant is kept.                                                  *)
(***************************************************************************)
\* The names of the series, and an idle job.
LEMMA Names ==
  /\ Ticks \cap Polled = {} /\ Ticks \cap Points = {} /\ Polled \cap Points = {}
  /\ "metrics" \notin Ticks \cup Polled \cup Points
  /\ "book" \in Polled /\ "rollup" \in Polled /\ "candles" \in Points
  /\ "kraken" \in Ticks /\ "binance" \in Ticks /\ "rollup" # "book"
  /\ Idle \in Job /\ [Idle EXCEPT !.phase = "done"] \in Job
  /\ Idle.phase = "idle" /\ [Idle EXCEPT !.phase = "done"].phase = "done"
<1>1. /\ Ticks \cap Polled = {} /\ Ticks \cap Points = {} /\ Polled \cap Points = {}
      /\ "metrics" \notin Ticks \cup Polled \cup Points
      /\ "book" \in Polled /\ "rollup" \in Polled /\ "candles" \in Points
      /\ "kraken" \in Ticks /\ "binance" \in Ticks /\ "rollup" # "book"
  BY DEF Ticks, Polled, Points
<1>2. Idle \in Job /\ Idle.phase = "idle"
  BY DEF Idle, Job
<1>3. [Idle EXCEPT !.phase = "done"] \in Job /\ [Idle EXCEPT !.phase = "done"].phase = "done"
  BY DEF Idle, Job
<1> QED BY <1>1, <1>2, <1>3

\* The invariant holds at the start.
LEMMA InitInv == Init => IInv
<1> SUFFICES ASSUME Init PROVE IInv
  OBVIOUS
<1>1. /\ feed \in Feeds /\ now = 1 /\ eng = 0
      /\ store = {} /\ cache = {} /\ late = {} /\ job = Idle
      /\ daily = [d \in 0..Day(MaxNow) |-> None]
      /\ rolls = [p \in Rollups |-> None]
  BY DEF Init
<1>2. tape \in Tapes \cup {<<>>}
  BY DEF Init
<1>3. Spaced
  BY DEF Init, Spaced, Step
<1>4. Typed
  <2>1. now \in Time /\ eng \in Time /\ eng <= now
    BY <1>1, MarketDataAssumption DEF Time
  <2>2. Cardinality(cache) <= Cap
    BY <1>1, FS_EmptySet, MarketDataAssumption
  <2>3. daily \in [0..Day(MaxNow) -> {None} \cup Aggregate]
    BY <1>1
  <2>4. rolls \in [Rollups -> {None} \cup Reads]
    BY <1>1
  <2> QED BY <1>1, <1>2, <2>1, <2>2, <2>3, <2>4, Names DEF Typed
<1>5. job.phase = "idle"
  BY <1>1, Names
<1>6. Ranged /\ KrakenPaged /\ BinancePaged /\ PointsPaged /\ BackfillLeavesNoGap
  BY <1>5, Names DEF Ranged, KrakenPaged, BinancePaged, PointsPaged, BackfillLeavesNoGap
<1>7. ViewIsFull /\ PrunedIsOlder
  BY <1>1 DEF ViewIsFull, PrunedIsOlder
<1> QED BY <1>3, <1>4, <1>6, <1>7 DEF IInv

\* A turn of a backfill keeps it.
LEMMA BackfillInv ==
  ASSUME IInv, BackfillTrades \/ BackfillCandles \/ BackfillFunding \/ BackfillOpenInterest
  PROVE  IInv'
<1>1. UNCHANGED <<feed, tape, now, eng, cache, daily, rolls>>
  BY DEF BackfillTrades, BackfillCandles, BackfillFunding, BackfillOpenInterest, PagePoints
<1>2. Backfilled'
  <2>1. CASE BackfillTrades
    <3>1. feed = "kraken" \/ feed = "binance"
      BY <2>1 DEF BackfillTrades, Ticks
    <3> QED BY <2>1, <3>1, KrakenStep, BinanceStep
  <2>2. CASE BackfillCandles \/ BackfillFunding \/ BackfillOpenInterest
    <3>1. feed \in Points /\ PagePoints(Step)
      BY <2>2 DEF BackfillCandles, BackfillFunding, BackfillOpenInterest, Points, Step
    <3> QED BY <3>1, PointsStep
  <2> QED BY <2>1, <2>2
<1>3. Typed'
  BY <1>1, <1>2 DEF IInv, Typed, Backfilled
<1>4. Spaced'
  BY <1>1 DEF IInv, Spaced, Step
<1> QED BY <1>2, <1>3, <1>4 DEF IInv, Backfilled

\* So does a start of one.
LEMMA StartIngestInv ==
  ASSUME IInv, StartIngest
  PROVE  IInv'
<1>1. PICK start : start = Max({1, now - Lookback})
  OBVIOUS
<1>2. /\ job.phase = "idle" /\ feed \in Ticks \cup Points /\ start < now
      /\ job' = [Idle EXCEPT !.phase = "page", !.start = start, !.end = now, !.since = start]
      /\ UNCHANGED <<feed, tape, now, store, eng, cache, late, daily, rolls>>
  BY <1>1 DEF StartIngest
<1>3. now \in Nat /\ start \in Nat /\ 1 <= start
  <2>1. now \in Nat /\ Lookback \in Nat
    BY MarketDataAssumption DEF IInv, Typed, Time
  <2>2. 1 \in Int /\ now - Lookback \in Int
    BY <2>1
  <2>3. start \in {1, now - Lookback} /\ start >= 1
    BY <1>1, <2>2, MaxOfTwo
  <2> QED BY <2>1, <2>2, <2>3
<1>4. /\ job' \in Job /\ job'.phase = "page" /\ job'.start = start /\ job'.end = now
      /\ job'.since = start /\ job'.cursor = 0 /\ job'.last = 0 /\ job'.tail = {}
  BY <1>2, <1>3 DEF Idle, Job
<1>5. Typed'
  BY <1>2, <1>4 DEF IInv, Typed
<1>6. Spaced'
  BY <1>2 DEF IInv, Spaced, Step
<1>7. Ranged'
  BY <1>2, <1>3, <1>4, Names DEF Ranged
<1>8. KrakenPaged' /\ BackfillLeavesNoGap'
  BY <1>4 DEF KrakenPaged, BackfillLeavesNoGap
<1>9. \A i \in DOMAIN tape : InRange(i)' => ~(tape[i].ts < start)
  <2>1. \A i \in DOMAIN tape : tape[i].ts \in Nat
    BY TapeIs DEF IInv
  <2> QED BY <1>2, <1>3, <1>4, <2>1 DEF InRange
<1>10. Published(job.end)' \subseteq DOMAIN tape
  BY <1>2 DEF Published
<1>11. BinancePaged' /\ PointsPaged'
  BY <1>2, <1>3, <1>4, <1>9, <1>10 DEF BinancePaged, PointsPaged
<1>12. ViewIsFull' /\ PrunedIsOlder'
  BY <1>2 DEF IInv, ViewIsFull, PrunedIsOlder, Refreshable
<1> QED BY <1>5, <1>6, <1>7, <1>8, <1>11, <1>12 DEF IInv

\* And its failure.
LEMMA FailIngestInv ==
  ASSUME IInv, FailIngest
  PROVE  IInv'
<1>1. /\ job' = Idle /\ job'.phase = "idle" /\ Idle \in Job
      /\ UNCHANGED <<feed, tape, now, store, eng, cache, late, daily, rolls>>
  BY Names DEF FailIngest
<1>2. Typed' /\ Spaced'
  BY <1>1 DEF IInv, Typed, Spaced, Step
<1>3. Ranged' /\ KrakenPaged' /\ BinancePaged' /\ PointsPaged' /\ BackfillLeavesNoGap'
  BY <1>1, Names DEF Ranged, KrakenPaged, BinancePaged, PointsPaged, BackfillLeavesNoGap
<1>4. ViewIsFull' /\ PrunedIsOlder'
  BY <1>1 DEF IInv, ViewIsFull, PrunedIsOlder, Refreshable
<1> QED BY <1>2, <1>3, <1>4 DEF IInv

\* And its end: what is pruned is older than what is kept.
LEMMA EndIngestInv ==
  ASSUME IInv, EndIngest
  PROVE  IInv'
<1>1. /\ job' = Idle /\ job'.phase = "idle" /\ Idle \in Job
      /\ UNCHANGED <<feed, tape, now, eng, cache, late, daily, rolls>>
      /\ \/ store' = {r \in store : r.ts >= now - Retention}
         \/ store' = store
  BY Names DEF EndIngest, PruneTicks, PruneBook, EndPoints
<1>2. store' \subseteq store
  BY <1>1
<1>3. Typed' /\ Spaced'
  BY <1>1, <1>2 DEF IInv, Typed, Spaced, Step
<1>4. Ranged' /\ KrakenPaged' /\ BinancePaged' /\ PointsPaged' /\ BackfillLeavesNoGap'
  BY <1>1, Names DEF Ranged, KrakenPaged, BinancePaged, PointsPaged, BackfillLeavesNoGap
<1>5. ViewIsFull'
  BY <1>1, <1>2 DEF IInv, ViewIsFull, Refreshable
<1>6. \A r \in store', c \in store : c \notin store' => r.ts > c.ts
  <2>1. now \in Nat /\ Retention \in Nat /\ \A r \in store : r.ts \in Nat
    BY MarketDataAssumption DEF IInv, Typed, Row, Time
  <2> QED BY <1>1, <2>1
<1>7. PrunedIsOlder'
  BY <1>1, <1>2, <1>6 DEF IInv, PrunedIsOlder, Refreshable
<1> QED BY <1>3, <1>4, <1>5, <1>7 DEF IInv

\* A cycle of the collector keeps it.
LEMMA CollectBookInv ==
  ASSUME IInv, CollectBook
  PROVE  IInv'
<1>1. /\ job' \in Job /\ job'.phase = "done" /\ feed \in Polled
      /\ UNCHANGED <<feed, tape, now, eng, cache, daily, rolls>>
      /\ \/ UNCHANGED <<store, late>>
         \/ \E t \in (now - 1)..now : t > 0 /\ Stored({At(t)})
  BY Names DEF CollectBook, StoredBook
<1>2. ViewIsFull' /\ PrunedIsOlder' /\ store' \subseteq Row /\ late' \subseteq Row
  <2>1. CASE UNCHANGED <<store, late>>
    BY <1>1, <2>1 DEF IInv, Typed, ViewIsFull, PrunedIsOlder, Refreshable
  <2>2. CASE \E t \in (now - 1)..now : t > 0 /\ Stored({At(t)})
    <3>1. PICK t \in (now - 1)..now : t > 0 /\ Stored({At(t)})
      BY <2>2
    <3>2. t \in Time
      BY <3>1, MarketDataAssumption DEF IInv, Typed, Time
    <3>3. PICK rows : rows = {At(t)}
      OBVIOUS
    <3>4. rows \in SUBSET Row /\ Stored(rows)
      BY <3>1, <3>2, <3>3, AtIsRow
    <3> QED BY <1>1, <3>4, StoredKeepsViews DEF IInv
  <2> QED BY <1>1, <2>1, <2>2
<1>3. Typed' /\ Spaced'
  BY <1>1, <1>2 DEF IInv, Typed, Spaced, Step
<1>4. Ranged' /\ KrakenPaged' /\ BinancePaged' /\ PointsPaged' /\ BackfillLeavesNoGap'
  BY <1>1, Names DEF Ranged, KrakenPaged, BinancePaged, PointsPaged, BackfillLeavesNoGap
<1> QED BY <1>2, <1>3, <1>4 DEF IInv

\* And an import of archived days.
LEMMA ImportArchiveInv ==
  ASSUME IInv, ImportArchive
  PROVE  IInv'
<1>1. PICK days \in SUBSET (0..(Day(now) - 1)) : StoredPoints({At(d) : d \in days})
  BY DEF ImportArchive
<1>2. /\ job.phase = "idle" /\ feed = "metrics"
      /\ UNCHANGED <<feed, tape, now, job, eng, cache, daily, rolls>>
  BY DEF ImportArchive
<1>3. store' \subseteq Row /\ late' \subseteq Row
  <2>1. \A d \in days : d \in Time
    <3>1. now \in Nat /\ now <= MaxNow /\ MaxNow \in Nat
      BY MarketDataAssumption DEF IInv, Typed, Time
    <3>2. Day(now) \in Nat /\ Day(now) <= now
      BY <3>1, DayIs
    <3> QED BY <3>1, <3>2 DEF Time
  <2>2. \A d \in days : At(d) \in Row
    BY <2>1, AtIsRow
  <2> QED BY <1>1, <2>2 DEF StoredPoints, IInv, Typed
<1>4. Typed' /\ Spaced'
  BY <1>2, <1>3 DEF IInv, Typed, Spaced, Step
<1>5. Ranged' /\ KrakenPaged' /\ BinancePaged' /\ PointsPaged' /\ BackfillLeavesNoGap'
  BY <1>2, Names DEF Ranged, KrakenPaged, BinancePaged, PointsPaged, BackfillLeavesNoGap
<1>6. ViewIsFull' /\ PrunedIsOlder'
  BY <1>2, Names DEF ViewIsFull, PrunedIsOlder, Refreshable
<1> QED BY <1>4, <1>5, <1>6 DEF IInv

\* What every step keeps that leaves the table and the job alone.
LEMMA TableAndJobKept ==
  ASSUME IInv, Typed', ViewIsFull', PrunedIsOlder', now' >= now,
         UNCHANGED <<feed, tape, store, job>>
  PROVE  IInv'
<1>1. now \in Nat /\ now' \in Nat /\ job \in Job /\ job.end \in Nat
  BY MarketDataAssumption DEF IInv, Typed, Time, Job
<1>2. Spaced'
  BY DEF IInv, Spaced, Step
<1>3. Ranged'
  BY <1>1 DEF IInv, Ranged
<1>4. Published(job.end)' = Published(job.end) /\ Asked' = Asked /\ \A i : InRange(i)' <=> InRange(i)
  BY DEF Published, Asked, InRange
<1>5. Out \subseteq Out'
  <2>1. PICK lag \in Nat : lag = IF feed = "candles" THEN Candle ELSE 0
    BY MarketDataAssumption
  <2>2. Out = {i \in DOMAIN tape : tape[i].ts + lag <= now}
    BY <2>1 DEF Out, Published
  <2>3. Out' = {i \in DOMAIN tape : tape[i].ts + lag <= now'}
    BY <2>1 DEF Out, Published
  <2>4. \A i \in DOMAIN tape : tape[i].ts \in Nat
    BY TapeIs DEF IInv
  <2> QED BY <1>1, <2>1, <2>2, <2>3, <2>4
<1>6. KrakenPaged'
  BY <1>4, <1>5 DEF IInv, KrakenPaged
<1>7. BinancePaged' /\ PointsPaged'
  BY <1>4 DEF IInv, BinancePaged, PointsPaged
<1>8. BackfillLeavesNoGap'
  BY <1>4 DEF IInv, BackfillLeavesNoGap
<1> QED BY <1>2, <1>3, <1>6, <1>7, <1>8 DEF IInv

\* A rollup reads the count and the basis of a day.
LEMMA ReadRollupInv ==
  ASSUME IInv, NEW p \in Rollups, ReadRollup(p)
  PROVE  IInv'
<1>1. PICK d \in 0..Day(now), b \in Bases \cup {None} : rolls' = [rolls EXCEPT ![p] = RollUp(d, b)]
  BY DEF ReadRollup
<1>2. UNCHANGED <<feed, tape, now, store, job, eng, cache, late, daily>>
  BY DEF ReadRollup
<1>3. /\ now \in Nat /\ MaxNow \in Nat /\ now <= MaxNow /\ store \in SUBSET Row
      /\ daily \in [0..Day(MaxNow) -> {None} \cup Aggregate]
      /\ rolls \in [Rollups -> {None} \cup Reads]
  BY MarketDataAssumption DEF IInv, Typed, Time
<1>4. d \in 0..Day(MaxNow)
  <2>1. Day(now) \in Nat /\ Day(MaxNow) \in Nat /\ Day(now) <= Day(MaxNow)
    BY <1>3, DayIs
  <2> QED BY <2>1
<1>5. Cardinality(OfDay(d)) \in Nat
  <2>1. OfDay(d) \in SUBSET Row
    BY <1>3 DEF OfDay
  <2> QED BY <2>1, RowsFinite
<1>6. RollUp(d, b) \in Reads
  <2>1. daily[d] # None => daily[d].basis \in Bases \cup {None}
    BY <1>3, <1>4 DEF Aggregate
  <2> QED BY <1>4, <1>5, <2>1 DEF RollUp, Reads
<1>7. rolls' \in [Rollups -> {None} \cup Reads]
  BY <1>1, <1>3, <1>6
<1>8. Typed'
  BY <1>2, <1>7 DEF IInv, Typed
<1>9. ViewIsFull' /\ PrunedIsOlder'
  BY <1>2 DEF IInv, ViewIsFull, PrunedIsOlder, Refreshable
<1> QED BY <1>2, <1>3, <1>8, <1>9, TableAndJobKept

\* What a rollup writes, and where.
LEMMA WrittenIs ==
  ASSUME IInv, NEW p \in Rollups, WriteRollup(p)
  PROVE  /\ rolls[p] \in Reads /\ rolls[p].day \in 0..Day(MaxNow)
         /\ daily' = [daily EXCEPT ![rolls[p].day] = Upserted(rolls[p], daily[rolls[p].day])]
         /\ Upserted(rolls[p], daily[rolls[p].day]) \in Aggregate
<1>1. /\ daily \in [0..Day(MaxNow) -> {None} \cup Aggregate]
      /\ rolls \in [Rollups -> {None} \cup Reads]
  BY DEF IInv, Typed
<1>2. rolls[p] \in Reads
  BY <1>1 DEF WriteRollup
<1>3. PICK d \in 0..Day(MaxNow) : d = rolls[p].day
  BY <1>2 DEF Reads
<1>4. /\ rolls[p].count \in Nat /\ rolls[p].basis \in Bases \cup {None}
      /\ daily[d] # None => daily[d].basis \in Bases \cup {None}
  BY <1>1, <1>2, <1>3 DEF Reads, Aggregate
<1>5. Upserted(rolls[p], daily[d]) \in Aggregate
  BY <1>4 DEF Upserted, Aggregate
<1>6. daily' = [daily EXCEPT ![rolls[p].day] = Upserted(rolls[p], daily[rolls[p].day])]
  BY DEF WriteRollup
<1> QED BY <1>2, <1>3, <1>5, <1>6

\* A rollup's commit keeps the invariant.
LEMMA WriteRollupInv ==
  ASSUME IInv, NEW p \in Rollups, WriteRollup(p)
  PROVE  IInv'
<1>1. /\ rolls' = [rolls EXCEPT ![p] = None]
      /\ UNCHANGED <<feed, tape, now, store, job, eng, cache, late>>
  BY DEF WriteRollup
<1>2. /\ daily \in [0..Day(MaxNow) -> {None} \cup Aggregate]
      /\ rolls \in [Rollups -> {None} \cup Reads] /\ now \in Nat
  BY MarketDataAssumption DEF IInv, Typed, Time
<1>3. daily' \in [0..Day(MaxNow) -> {None} \cup Aggregate]
  BY <1>2, WrittenIs
<1>4. rolls' \in [Rollups -> {None} \cup Reads]
  BY <1>1, <1>2
<1>5. Typed'
  BY <1>1, <1>3, <1>4 DEF IInv, Typed
<1>6. ViewIsFull' /\ PrunedIsOlder'
  BY <1>1 DEF IInv, ViewIsFull, PrunedIsOlder, Refreshable
<1> QED BY <1>1, <1>2, <1>5, <1>6, TableAndJobKept

\* The engine's clock at an update.
LEMMA UpdateClock ==
  ASSUME IInv, Update
  PROVE  /\ eng' \in Time /\ eng' <= now' /\ Day(eng') - 1 \in Int
         /\ \/ Refreshable /\ cache' \in Refreshed(eng')
            \/ /\ feed \in {"funding", "open_interest"} /\ cache' \in Newest(UpTo(eng'), Cap)
            \/ /\ feed \in {"metrics", "rollup"} /\ cache' \in Newest(UpTo(Day(eng') - 1), Cap)
         /\ UNCHANGED <<feed, tape, now, store, job, late, daily, rolls>>
<1>1. PICK t \in Max({0, eng - 1})..now :
        /\ eng' = t
        /\ \/ RefreshTicks(t) \/ RefreshBook(t)
           \/ LoadFunding(t) \/ LoadOpenInterest(t) \/ LoadMetrics(t) \/ LoadDaily(t)
        /\ UNCHANGED <<feed, tape, now, store, job, late, daily, rolls>>
  BY DEF Update
<1>2. eng \in Nat /\ now \in Nat /\ MaxNow \in Nat /\ now <= MaxNow
  BY MarketDataAssumption DEF IInv, Typed, Time
<1>3. PICK from : from = Max({0, eng - 1})
  OBVIOUS
<1>4. from \in Int /\ from >= 0
  <2>1. 0 \in Int /\ eng - 1 \in Int
    BY <1>2
  <2>2. from \in {0, eng - 1} /\ from >= 0
    BY <1>3, <2>1, MaxOfTwo
  <2> QED BY <2>1, <2>2
<1>5. t \in Nat /\ t <= now /\ t \in Time
  BY <1>1, <1>2, <1>3, <1>4 DEF Time
<1>6. Day(t) \in Nat
  BY <1>5, DayIs
<1>7. \/ Refreshable /\ cache' \in Refreshed(t)
      \/ feed \in {"funding", "open_interest"} /\ cache' \in Newest(UpTo(t), Cap)
      \/ feed \in {"metrics", "rollup"} /\ cache' \in Newest(UpTo(Day(t) - 1), Cap)
  BY <1>1 DEF RefreshTicks, RefreshBook, LoadFunding, LoadOpenInterest, LoadMetrics, LoadDaily,
              LatestPoints, LatestDays, Refreshable
<1> QED BY <1>1, <1>5, <1>6, <1>7

\* What a view shows after an update, as a strategy relies on it.
LEMMA ViewShows ==
  ASSUME IInv, Update,
         NEW clock, clock = IF feed \in {"metrics", "rollup"} THEN Day(eng') - 1 ELSE eng'
  PROVE  /\ cache' \subseteq Row /\ Cardinality(cache') <= Cap
         /\ clock \in Int
         /\ \A r \in cache' : r.ts <= clock
         /\ \A r \in (Table \ late) \ cache' : r.ts <= clock =>
                Cardinality(cache') = Cap /\ \A s \in cache' : s.ts >= r.ts
         /\ Refreshable => \A r \in store \ late, x \in cache' \ store : r.ts > x.ts
<1>1. /\ eng' \in Time /\ eng' \in Int /\ Day(eng') - 1 \in Int
      /\ Typed /\ ViewIsFull /\ PrunedIsOlder /\ Table \in SUBSET Row
  BY UpdateClock, TableIsRows, MarketDataAssumption DEF IInv, Time
<1>2. clock \in Int
  BY <1>1
<1>3. CASE Refreshable /\ cache' \in Refreshed(eng')
  <2>1. clock = eng' /\ Table = store
    BY <1>3 DEF Refreshable, Ticks, Table
  <2> QED BY <1>1, <1>2, <1>3, <2>1, RefreshedIs
<1>4. CASE ~Refreshable /\ cache' \in Newest(UpTo(clock), Cap)
  BY <1>1, <1>2, <1>4, ReadAnew
<1>5. /\ feed \in {"funding", "open_interest"} => ~Refreshable /\ clock = eng'
      /\ feed \in {"metrics", "rollup"} => ~Refreshable /\ clock = Day(eng') - 1
  BY DEF Refreshable, Ticks
<1> QED BY <1>3, <1>4, <1>5, UpdateClock

\* An update keeps the invariant.
LEMMA UpdateInv ==
  ASSUME IInv, Update
  PROVE  IInv'
<1>1. PICK clock : clock = IF feed \in {"metrics", "rollup"} THEN Day(eng') - 1 ELSE eng'
  OBVIOUS
<1>2. /\ eng' \in Time /\ eng' <= now' /\ UNCHANGED <<feed, tape, now, store, job, late, daily, rolls>>
  BY UpdateClock
<1>3. /\ cache' \subseteq Row /\ Cardinality(cache') <= Cap
      /\ \A r \in cache' : r.ts <= clock
      /\ \A r \in (Table \ late) \ cache' : r.ts <= clock =>
             Cardinality(cache') = Cap /\ \A s \in cache' : s.ts >= r.ts
      /\ Refreshable => \A r \in store \ late, x \in cache' \ store : r.ts > x.ts
  BY <1>1, ViewShows
<1>4. Typed'
  BY <1>2, <1>3 DEF IInv, Typed
<1>5. ViewIsFull'
  <2> SUFFICES ASSUME Refreshable, NEW r \in (store \ late) \ cache',
                      NEW c \in cache', r.ts < c.ts - RefreshWindow
               PROVE  Cardinality(cache') = Cap /\ \A s \in cache' : s.ts >= r.ts
    BY <1>2 DEF ViewIsFull, Refreshable
  <2>1. /\ r.ts \in Nat /\ c.ts \in Nat /\ RefreshWindow \in Nat
        /\ clock = eng' /\ eng' \in Nat /\ Table = store
    BY <1>1, <1>2, <1>3, MarketDataAssumption DEF IInv, Typed, Row, Time, Refreshable, Ticks, Table
  <2>2. r.ts <= clock
    BY <1>3, <2>1
  <2> QED BY <1>3, <2>1, <2>2
<1>6. PrunedIsOlder'
  BY <1>2, <1>3 DEF PrunedIsOlder, Refreshable
<1>7. now' >= now
  BY <1>2, MarketDataAssumption DEF IInv, Typed, Time
<1> QED BY <1>2, <1>4, <1>5, <1>6, <1>7, TableAndJobKept

\* A restarted run keeps it.
LEMMA NewRunInv ==
  ASSUME IInv, NewRun
  PROVE  IInv'
<1>1. /\ cache' = {} /\ late' = {}
      /\ UNCHANGED <<feed, tape, now, store, job, eng, daily, rolls>>
  BY DEF NewRun
<1>2. Typed' /\ now' >= now
  BY <1>1, FS_EmptySet, MarketDataAssumption DEF IInv, Typed, Time
<1>3. ViewIsFull' /\ PrunedIsOlder'
  BY <1>1 DEF ViewIsFull, PrunedIsOlder
<1> QED BY <1>1, <1>2, <1>3, TableAndJobKept

\* And so does the clock.
LEMMA TickInv ==
  ASSUME IInv, Tick
  PROVE  IInv'
<1>1. /\ now < MaxNow /\ now' = now + 1
      /\ UNCHANGED <<feed, tape, store, job, eng, cache, late, daily, rolls>>
  BY DEF Tick
<1>2. now \in Nat /\ eng \in Nat /\ eng <= now /\ MaxNow \in Nat
  BY MarketDataAssumption DEF IInv, Typed, Time
<1>3. now' >= now /\ eng' <= now' /\ now' \in Time
  BY <1>1, <1>2 DEF Time
<1>4. Typed'
  BY <1>1, <1>3 DEF IInv, Typed
<1>5. ViewIsFull' /\ PrunedIsOlder'
  BY <1>1 DEF IInv, ViewIsFull, PrunedIsOlder, Refreshable
<1> QED BY <1>1, <1>3, <1>4, <1>5, TableAndJobKept

\* The invariant holds in every reachable state.
THEOREM MarketDataInvariantAlways == Spec => []IInv
<1>1. Init => IInv
  BY InitInv
<1>2. IInv /\ [Next]_vars => IInv'
  <2> SUFFICES ASSUME IInv, [Next]_vars PROVE IInv'
    OBVIOUS
  <2>1. CASE StartIngest \/ FailIngest \/ EndIngest
    BY <2>1, StartIngestInv, FailIngestInv, EndIngestInv
  <2>2. CASE BackfillTrades \/ BackfillCandles \/ BackfillFunding \/ BackfillOpenInterest
    BY <2>2, BackfillInv
  <2>3. CASE CollectBook \/ ImportArchive
    BY <2>3, CollectBookInv, ImportArchiveInv
  <2>4. CASE \E p \in Rollups : ReadRollup(p) \/ WriteRollup(p)
    BY <2>4, ReadRollupInv, WriteRollupInv
  <2>5. CASE Update \/ NewRun \/ Tick
    BY <2>5, UpdateInv, NewRunInv, TickInv
  <2>6. CASE UNCHANGED vars
    <3>1. Typed' /\ ViewIsFull' /\ PrunedIsOlder' /\ now' >= now
      BY <2>6, MarketDataAssumption
         DEF vars, IInv, Typed, ViewIsFull, PrunedIsOlder, Refreshable, Time
    <3> QED BY <2>6, <3>1, TableAndJobKept DEF vars
  <2> QED BY <2>1, <2>2, <2>3, <2>4, <2>5, <2>6 DEF Next
<1> QED BY <1>1, <1>2, PTL DEF Spec

-----------------------------------------------------------------------------
(***************************************************************************)
(* What follows.                                                           *)
(***************************************************************************)
\* Every variable stays within its type.
THEOREM TypeOKAlways == Spec => []TypeOK
<1>1. IInv => TypeOK
  <2> SUFFICES ASSUME IInv PROVE TypeOK
    OBVIOUS
  <2>1. /\ daily \in [0..Day(MaxNow) -> {None} \cup Aggregate] /\ job \in Job
    BY DEF IInv, Typed
  <2>2. \A d \in DOMAIN daily : daily[d] = None \/ daily[d].basis \in Bases \cup {None}
    BY <2>1 DEF Aggregate
  <2>3. job.phase \in {"idle", "page", "done"} /\ job.tail \subseteq Row
    BY <2>1 DEF Job
  <2> QED BY <2>2, <2>3 DEF IInv, Typed, TypeOK
<1> QED BY <1>1, MarketDataInvariantAlways, PTL

\* A backfill that ends without an error has left no gap, but for a burst cut
\* at the end of its range or by Binance's paging (data/ingest.py).
THEOREM BackfillLeavesNoGapAlways == Spec => []BackfillLeavesNoGap
<1>1. IInv => BackfillLeavesNoGap
  BY DEF IInv
<1> QED BY <1>1, MarketDataInvariantAlways, PTL

\* The oldest candle of a flow.
LEMMA OldestCandle ==
  ASSUME NEW rows \in SUBSET Row, NEW t \in Nat, NEW flow, flow = TickFlow(rows, t),
         NEW b \in DOMAIN flow
  PROVE  /\ Min(DOMAIN flow) \in Nat /\ b \in Nat /\ Min(DOMAIN flow) <= b
         /\ \E r \in rows : Min(DOMAIN flow) = (r.ts \div Candle) * Candle
         /\ \A r \in rows : (r.ts \div Candle) * Candle = b => r \in flow[b]
<1>1. PICK starts : starts = {c \in {(r.ts \div Candle) * Candle : r \in rows} : c + Candle <= t}
  OBVIOUS
<1>2. /\ DOMAIN flow = starts
      /\ \A c \in starts : flow[c] = {r \in rows : (r.ts \div Candle) * Candle = c}
  BY <1>1 DEF TickFlow
<1>3. Candle \in Nat /\ \A r \in rows : r.ts \in Nat
  BY MarketDataAssumption DEF Row, Time
<1>4. \A r \in rows : (r.ts \div Candle) * Candle \in Nat
  <2> TAKE r \in rows
  <2>1. r.ts \in Nat /\ r.ts <= r.ts
    BY <1>3
  <2> QED BY <2>1, RoundedInOrder
<1>5. \A c \in starts : c \in Nat /\ c <= t /\ \E r \in rows : c = (r.ts \div Candle) * Candle
  <2> TAKE c \in starts
  <2>1. PICK r \in rows : c = (r.ts \div Candle) * Candle
    BY <1>1
  <2>2. c + Candle <= t
    BY <1>1
  <2> QED BY <1>3, <1>4, <2>1, <2>2
<1>6. IsFiniteSet(starts) /\ starts \in SUBSET Int
  <2>1. starts \in SUBSET Nat /\ \A c \in starts : c <= t
    BY <1>5
  <2> QED BY <2>1, FS_BoundedSetOfNaturals
<1>7. b \in starts /\ Min(starts) \in starts /\ Min(starts) <= b
  BY <1>2, <1>6, MinIs
<1> QED BY <1>2, <1>5, <1>7

\* What a strategy sees at a candle is the table as of the clock, but for rows
\* that landed behind the refresh window and rows older than a full view
\* (core/orderflow.py, core/funding.py, core/positioning.py).
THEOREM ViewIsTheTableAlways == Spec => ViewIsTheTable
<1>1. ASSUME IInv, Update
      PROVE  LET clock == IF feed \in {"metrics", "rollup"} THEN Day(eng') - 1 ELSE eng'
                 flow  == TickFlow(cache', eng')
                 due   == {r \in Table \ late : r.ts <= clock}
             IN  /\ \A r \in cache' : r.ts <= clock
                 /\ \A r \in due \ cache' : /\ Cardinality(cache') = Cap
                                            /\ \A c \in cache' : c.ts >= r.ts
                 /\ feed \in Ticks => \A b \in DOMAIN flow :
                        \/ b = Min(DOMAIN flow)
                        \/ {r \in due : (r.ts \div Candle) * Candle = b} \subseteq flow[b]
  <2>1. PICK clock : clock = IF feed \in {"metrics", "rollup"} THEN Day(eng') - 1 ELSE eng'
    OBVIOUS
  <2>2. PICK due : due = {r \in Table \ late : r.ts <= clock}
    OBVIOUS
  <2>3. PICK flow : flow = TickFlow(cache', eng')
    OBVIOUS
  <2>4. /\ cache' \in SUBSET Row
        /\ \A r \in cache' : r.ts <= clock
        /\ \A r \in (Table \ late) \ cache' : r.ts <= clock =>
               Cardinality(cache') = Cap /\ \A s \in cache' : s.ts >= r.ts
    BY <1>1, <2>1, ViewShows
  <2>5. \A r \in due \ cache' : Cardinality(cache') = Cap /\ \A c \in cache' : c.ts >= r.ts
    BY <2>2, <2>4
  <2>6. ASSUME NEW b \in DOMAIN flow, b # Min(DOMAIN flow),
               NEW r \in due, (r.ts \div Candle) * Candle = b
        PROVE  r \in flow[b]
    <3>1. eng' \in Nat
      BY <1>1, UpdateClock, MarketDataAssumption DEF Time
    <3>2. /\ Min(DOMAIN flow) \in Nat /\ b \in Nat /\ Min(DOMAIN flow) <= b
          /\ \E c \in cache' : Min(DOMAIN flow) = (c.ts \div Candle) * Candle
          /\ \A c \in cache' : (c.ts \div Candle) * Candle = b => c \in flow[b]
      <4>1. PICK rows \in SUBSET Row, t \in Nat : rows = cache' /\ t = eng'
        BY <2>4, <3>1
      <4>2. flow = TickFlow(rows, t)
        BY <2>3, <4>1
      <4>3. /\ Min(DOMAIN flow) \in Nat /\ b \in Nat /\ Min(DOMAIN flow) <= b
            /\ \E c \in rows : Min(DOMAIN flow) = (c.ts \div Candle) * Candle
            /\ \A c \in rows : (c.ts \div Candle) * Candle = b => c \in flow[b]
        BY <4>2, OldestCandle
      <4> QED BY <4>1, <4>3
    <3>3. SUFFICES ASSUME r \notin cache' PROVE FALSE
      BY <2>6, <3>2
    <3>4. PICK c \in cache' : Min(DOMAIN flow) = (c.ts \div Candle) * Candle
      BY <3>2
    <3>5. c.ts >= r.ts /\ c \in Row /\ r \in Row
      BY <1>1, <2>2, <2>4, <2>5, <2>6, <3>3, TableIsRows DEF IInv
    <3>6. c.ts \in Nat /\ r.ts \in Nat /\ r.ts <= c.ts
      BY <3>5, MarketDataAssumption DEF Row, Time
    <3>7. (r.ts \div Candle) * Candle <= (c.ts \div Candle) * Candle
      BY <3>6, RoundedInOrder
    <3>8. b <= Min(DOMAIN flow)
      BY <2>6, <3>4, <3>7
    <3> QED BY <2>6, <3>2, <3>8
  <2>7. \A b \in DOMAIN flow :
           \/ b = Min(DOMAIN flow)
           \/ {r \in due : (r.ts \div Candle) * Candle = b} \subseteq flow[b]
    BY <2>6
  <2> QED BY <2>1, <2>2, <2>3, <2>4, <2>5, <2>7
<1> QED BY <1>1, MarketDataInvariantAlways, PTL DEF Spec, ViewIsTheTable

\* The session basis recorded for a day outlives every later rollup
\* (data/orderflow_daily.py).
THEOREM BasisIsKeptAlways == Spec => BasisIsKept
<1>1. ASSUME IInv, [Next]_vars, NEW d \in DOMAIN daily, daily[d] # None, daily[d].basis # None
      PROVE  daily'[d] # None /\ daily'[d].basis # None
  <2>1. CASE UNCHANGED daily
    BY <1>1, <2>1
  <2>2. ASSUME NEW p \in Rollups, WriteRollup(p)
        PROVE  daily'[d] # None /\ daily'[d].basis # None
    <3>1. PICK day : day = rolls[p].day
      OBVIOUS
    <3>2. PICK new : new = Upserted(rolls[p], daily[day])
      OBVIOUS
    <3>3. daily' = [daily EXCEPT ![day] = new] /\ new \in Aggregate
      BY <1>1, <2>2, <3>1, <3>2, WrittenIs
    <3>4. CASE d = day
      <4>1. daily'[d] = new
        BY <1>1, <3>3, <3>4
      <4>2. new # None
        BY <3>3, MarketDataAssumption
      <4>3. new.basis # None
        BY <1>1, <3>2, <3>4 DEF Upserted
      <4> QED BY <4>1, <4>2, <4>3
    <3>5. CASE d # day
      <4>1. daily'[d] = daily[d]
        BY <1>1, <3>3, <3>5
      <4> QED BY <1>1, <4>1
    <3> QED BY <3>4, <3>5
  <2>3. \/ UNCHANGED daily
        \/ \E p \in Rollups : WriteRollup(p)
    BY <1>1 DEF Next, vars, StartIngest, FailIngest, EndIngest, BackfillTrades, BackfillCandles,
                BackfillFunding, BackfillOpenInterest, PagePoints, CollectBook, ImportArchive,
                ReadRollup, Update, NewRun, Tick
  <2> QED BY <2>1, <2>2, <2>3
<1>2. IInv /\ [Next]_vars =>
        [\A d \in DOMAIN daily :
            daily[d] # None /\ daily[d].basis # None => daily'[d] # None /\ daily'[d].basis # None]_vars
  BY <1>1
<1> QED BY <1>2, MarketDataInvariantAlways, PTL DEF Spec, BasisIsKept

=============================================================================
