---------------------------- MODULE FeedsProofs ----------------------------
(***************************************************************************)
(* Proofs about Feeds, for every universe, warm-up, page, number of        *)
(* candles and of faults: IInv is inductive, and no candle is lost and no  *)
(* step goes back.                                                         *)
(***************************************************************************)
EXTENDS FeedsInvariant, DataLemmas

-----------------------------------------------------------------------------
(***************************************************************************)
(* Candles.                                                                *)
(***************************************************************************)
\* The latest of a finite set of candles.
LEMMA LatestIs ==
  ASSUME NEW S \in SUBSET Nat, IsFiniteSet(S)
  PROVE  Latest(S) \in S \cup {0} /\ Latest(S) \in Nat /\ \A t \in S : t <= Latest(S)
<1>1. CASE S = {}
  BY <1>1 DEF Latest
<1>2. CASE S # {}
  <2>1. S \in SUBSET Int
    OBVIOUS
  <2>2. Max(S) \in S /\ \A x \in S : Max(S) >= x
    BY <1>2, <2>1, MaxIs
  <2>3. Latest(S) = Max(S)
    BY <1>2 DEF Latest
  <2> QED BY <2>2, <2>3
<1> QED BY <1>1, <1>2

\* A newer candle can only push others off the served page.
LEMMA NewerPushes ==
  ASSUME NEW S, IsFiniteSet(S), NEW new, NEW n \in Nat
  PROVE  Newest(S \cup {new}, n) \subseteq Newest(S, n) \cup {new}
<1> SUFFICES ASSUME NEW t \in Newest(S \cup {new}, n), t # new PROVE t \in Newest(S, n)
  OBVIOUS
<1> DEFINE old == {u \in S : u > t}
           all == {u \in S \cup {new} : u > t}
<1>1. IsFiniteSet(S \cup {new})
  BY FS_AddElement
<1>2. IsFiniteSet(all)
  BY <1>1, FS_Subset
<1>3. Cardinality(old) <= Cardinality(all) /\ Cardinality(all) \in Nat /\ Cardinality(old) \in Nat
  <2>1. old \in SUBSET all
    OBVIOUS
  <2> HIDE DEF old, all
  <2> QED BY <1>2, <2>1, FS_Subset, FS_CardinalityType
<1>4. t \in S /\ Cardinality(all) < n
  BY DEF Newest
<1>5. Cardinality(old) < n
  <2> HIDE DEF old, all
  <2> QED BY <1>3, <1>4
<1> QED BY <1>4, <1>5 DEF Newest

\* What the invariant says of numbers and sets.
LEMMA Facts ==
  ASSUME Typed, Published
  PROVE  /\ now \in Nat
         /\ \A p \in pairs : /\ served[p] \in SUBSET (1 .. now) /\ IsFiniteSet(served[p])
                             /\ store[p] \in SUBSET served[p]
                             /\ baseline[p] \in 0 .. now /\ lastTs[p] \in 0 .. now
                             /\ tail[p] \in Nat
         /\ \A candle \in queue : /\ candle.pair \in pairs /\ candle.ts \in 1 .. now
                                  /\ candle = [pair |-> candle.pair, ts |-> candle.ts]
<1>1. now \in Nat
  BY DEF Typed
<1>2. \A p \in pairs : served[p] \in SUBSET (1 .. now) /\ IsFiniteSet(served[p])
  BY <1>1, IdsAreFinite DEF Typed
<1>3. \A p \in pairs : /\ store[p] \in SUBSET served[p]
                       /\ baseline[p] \in 0 .. now /\ lastTs[p] \in 0 .. now
                       /\ tail[p] \in Nat
  BY <1>1, <1>2 DEF Typed, Published
<1>4. \A candle \in queue : /\ candle.pair \in pairs /\ candle.ts \in 1 .. now
                            /\ candle = [pair |-> candle.pair, ts |-> candle.ts]
  BY <1>2 DEF Typed, Published, Candle
<1> QED BY <1>1, <1>2, <1>3, <1>4

\* The warm-up of a pair.
LEMMA WarmFacts ==
  ASSUME Typed, Published, NEW p \in pairs
  PROVE  /\ WarmCandles(p) \in SUBSET served[p]
         /\ Latest(WarmCandles(p)) \in served[p] \cup {0} /\ Latest(WarmCandles(p)) \in Nat
         /\ \A t \in WarmCandles(p) : t \in Nat /\ t <= Latest(WarmCandles(p))
<1>1. WarmCandles(p) \in SUBSET served[p] /\ WarmCandles(p) \in SUBSET (1 .. now) /\ now \in Nat
  BY Facts DEF WarmCandles, Newest
<1>2. IsFiniteSet(WarmCandles(p)) /\ WarmCandles(p) \in SUBSET Nat
  <2>1. IsFiniteSet(WarmCandles(p))
    BY <1>1, IdsAreFinite
  <2> QED BY <2>1, <1>1
<1> HIDE DEF WarmCandles
<1> QED BY <1>1, <1>2, LatestIs

\* A lone pair is the only one.
LEMMA LonePair ==
  ASSUME Typed, ~Joined, NEW p \in pairs, NEW q \in pairs
  PROVE  p = q
<1>1. IsFiniteSet(pairs)
  BY FeedsAssumption DEF Typed
<1>2. IsFiniteSet(pairs \ {p}) /\ Cardinality(pairs \ {p}) = Cardinality(pairs) - 1
  BY <1>1, FS_RemoveElement
<1>3. Cardinality(pairs) \in Nat /\ Cardinality(pairs \ {p}) \in Nat
  BY <1>1, <1>2, FS_CardinalityType
<1>4. Cardinality(pairs \ {p}) = 0
  BY <1>2, <1>3 DEF Joined
<1>5. pairs \ {p} = {}
  BY <1>2, <1>4, FS_EmptySet
<1> QED BY <1>5

\* Where a candle that was polled can be.
Accounted(p, t) ==
  \/ [pair |-> p, ts |-> t] \in queue \cup dropped
  \/ t \in DOMAIN pending /\ p \in pending[t].pairs
  \/ t = step.ts /\ p \in step.pairs
  \/ t \in TimesOf(p)

\* A step that polls nothing loses nothing when it keeps what is accounted for.
LEMMA NothingLostKept ==
  ASSUME NothingLost, UNCHANGED <<pairs, phase, served, tail, baseline>>,
         phase = "streaming" =>
           \A p \in pairs, t \in Nat : t > tail[p] /\ Accounted(p, t) => Accounted(p, t)',
         Typed
  PROVE  NothingLost'
<1> SUFFICES ASSUME phase' = "streaming",
                    NEW p \in pairs', tail'[p] > 0,
                    NEW t \in Fetch(p, tail[p] + 1)', t <= baseline'[p]
             PROVE  Accounted(p, t)'
  BY DEF NothingLost, Accounted
<1>1. t \in Fetch(p, tail[p] + 1)
  BY DEF Fetch, Newest
<1>2. Accounted(p, t)
  BY <1>1 DEF NothingLost, Accounted
<1>3. t \in Nat /\ t > tail[p]
  BY <1>1 DEF Fetch, Newest, Typed
<1> QED BY <1>2, <1>3

\* The order of the steps rests on the tails and on what has gone out.
LEMMA InOrderKept ==
  ASSUME InOrder, UNCHANGED <<pairs, tail, lastTs, emitted, step, seen>>
  PROVE  InOrder'
BY DEF InOrder, Even, Passed, Joined

-----------------------------------------------------------------------------
(***************************************************************************)
(* The exchange, the start of a run and its end.                           *)
(***************************************************************************)
\* Nothing is stored, polled or seen at first.
LEMMA InitStep == Init => IInv
<1> SUFFICES ASSUME Init PROVE IInv
  OBVIOUS
<1>1. /\ pairs \in Universes /\ now = 1 /\ faults = 0
      /\ served = [p \in pairs |-> {1}] /\ store = [p \in pairs |-> {}]
      /\ phase = "down" /\ todo = {}
      /\ baseline = [p \in pairs |-> 0] /\ tail = [p \in pairs |-> 0]
      /\ lastTs = [p \in pairs |-> 0]
      /\ queue = {} /\ DOMAIN pending = {} /\ pending = <<>> /\ round = {} /\ emitted = 0
      /\ step = NoStep /\ seen = <<>> /\ dropped = {}
  BY DEF Init, Zero
<1>2. Typed
  BY <1>1, FeedsAssumption DEF Typed, Step, NoStep
<1>3. Published /\ Polled /\ Joining /\ Alone /\ Unstarted /\ NothingLost
  BY <1>1 DEF Published, Polled, Joining, Alone, Unstarted, NothingLost
<1>4. InOrder
  BY <1>1 DEF InOrder
<1> QED BY <1>2, <1>3, <1>4 DEF IInv

\* The exchange has more of some pairs, all of it newer than what was polled.
LEMMA ExchangeStep ==
  ASSUME IInv, UNCHANGED <<pairs, store, run>>, now' \in now .. MaxNow, faults' \in 0 .. MaxFaults,
         NEW new \in SUBSET pairs,
         \A p \in new : now' \notin served[p],
         served' = [p \in pairs |-> IF p \in new THEN served[p] \cup {now'} ELSE served[p]]
  PROVE  IInv'
<1> USE DEF IInv
<1>1. now \in Nat /\ now' \in Nat /\ now <= now'
  BY Facts, FeedsAssumption
<1>2. \A p \in pairs : /\ served[p] \in SUBSET (1 .. now) /\ IsFiniteSet(served[p])
                       /\ served'[p] \in SUBSET (1 .. now') /\ served[p] \subseteq served'[p]
  <2>1. \A p \in pairs : served[p] \in SUBSET (1 .. now) /\ IsFiniteSet(served[p])
    BY Facts
  <2>2. 1 .. now \subseteq 1 .. now' /\ now' \in 1 .. now'
    BY <1>1 DEF Typed
  <2> QED BY <2>1, <2>2
<1>3. Typed'
  <2>1. served' \in [pairs -> SUBSET (1 .. now')] /\ now' \in 1 .. MaxNow
    BY <1>1, <1>2 DEF Typed
  <2>2. UNCHANGED <<pairs, store, phase, todo, baseline, tail, queue, pending, round, emitted, lastTs,
                    step, seen, dropped>>
    BY DEF run
  <2>3. Typed
    OBVIOUS
  <2> QED BY <2>1, <2>2, <2>3 DEF Typed, Candle, Step
<1>4. Published'
  <2>1. UNCHANGED <<pairs, store, baseline, lastTs, queue, pending>>
    BY DEF run
  <2>2. \A candle \in queue : candle.pair \in pairs
    BY Facts
  <2>3. \A ts \in DOMAIN pending : pending[ts].pairs \subseteq pairs
    BY DEF Typed
  <2> QED BY <1>2, <2>1, <2>2, <2>3 DEF Published
<1>5. Polled' /\ Joining' /\ Alone' /\ Unstarted'
  BY DEF Polled, Joining, Alone, Unstarted, Joined, run
<1>6. InOrder'
  BY InOrderKept DEF run
<1>7. NothingLost'
  <2> SUFFICES ASSUME phase = "streaming", NEW p \in pairs, tail[p] > 0,
                      NEW t \in Fetch(p, tail[p] + 1)', t <= baseline[p]
               PROVE  Accounted(p, t)
    BY DEF NothingLost, Accounted, run, TimesOf
  <2>1. t \in Newest(served'[p], Page) /\ t >= tail[p] + 1 /\ t \in served'[p]
    BY DEF Fetch, Newest, run
  <2>2. t \in served[p]
    <3>1. baseline[p] \in served[p] \cup {0} /\ \A u \in served[p] : u <= now
      BY <1>2, <1>1 DEF Published
    <3>2. CASE p \in new
      <4>1. t # now'
        <5>1. baseline[p] # now'
          BY <3>1, <3>2, <1>1 DEF Typed
        <5>2. baseline[p] \in 0 .. now
          BY Facts
        <5> QED BY <5>1, <5>2, <1>1
      <4> QED BY <3>2, <4>1, <2>1
    <3> QED BY <3>2, <2>1
  <2>3. t \in Newest(served[p], Page)
    <3>1. CASE p \in new
      <4>1. served'[p] = served[p] \cup {now'} /\ t # now'
        BY <2>2, <3>1
      <4>2. Page \in Nat
        BY FeedsAssumption
      <4> QED BY <1>2, <4>1, <4>2, <2>1, NewerPushes
    <3>2. CASE p \notin new
      BY <3>2, <2>1
    <3> QED BY <3>1, <3>2
  <2> QED BY <2>1, <2>3 DEF NothingLost, Accounted, Fetch
<1> QED BY <1>3, <1>4, <1>5, <1>6, <1>7

\* A candle closes, with or without a pair.
LEMMA CloseStep ==
  ASSUME IInv, Close
  PROVE  IInv'
<1>1. PICK missing \in SUBSET pairs :
        /\ \/ faults' = faults
           \/ faults < MaxFaults /\ faults' = faults + 1
        /\ served' = [p \in pairs |-> IF p \in missing THEN served[p] ELSE served[p] \cup {now'}]
  BY DEF Close, May
<1>2. /\ now < MaxNow /\ now' = now + 1 /\ UNCHANGED <<pairs, store, run>>
  BY DEF Close
<1>3. /\ now' \in now .. MaxNow /\ faults' \in 0 .. MaxFaults
      /\ \A p \in pairs : now' \notin served[p]
  <2>1. now \in Nat /\ \A p \in pairs : served[p] \in SUBSET (1 .. now)
    BY Facts DEF IInv
  <2>2. now' \notin 1 .. now /\ now' \in now .. MaxNow
    BY <2>1, <1>2, FeedsAssumption
  <2>3. faults' \in 0 .. MaxFaults
    BY <1>1, FeedsAssumption DEF IInv, Typed
  <2> QED BY <2>1, <2>2, <2>3
<1>4. served' = [p \in pairs |-> IF p \in pairs \ missing THEN served[p] \cup {now'} ELSE served[p]]
  BY <1>1
<1>5. pairs \ missing \in SUBSET pairs
  OBVIOUS
<1> QED BY <1>2, <1>3, <1>4, <1>5, ExchangeStep

\* A late candle is committed before any newer one.
LEMMA CommitStep ==
  ASSUME IInv, NEW p \in pairs, Commit(p)
  PROVE  IInv'
<1>1. /\ now' = now /\ faults' = faults /\ UNCHANGED <<pairs, store, run>> /\ now \notin served[p]
      /\ served' = [served EXCEPT ![p] = @ \cup {now}]
  BY DEF Commit
<1>2. served' = [q \in pairs |-> IF q \in {p} THEN served[q] \cup {now'} ELSE served[q]]
  BY <1>1 DEF IInv, Typed
<1>3. now' \in now .. MaxNow /\ faults' \in 0 .. MaxFaults
  BY <1>1, Facts, FeedsAssumption DEF IInv, Typed
<1>4. {p} \in SUBSET pairs /\ \A q \in {p} : now' \notin served[q]
  BY <1>1
<1> QED BY <1>1, <1>2, <1>3, <1>4, ExchangeStep

\* A start has nothing of an earlier run but the store.
LEMMA StartStep ==
  ASSUME IInv, Start
  PROVE  IInv'
<1>1. /\ phase' = "freshening" /\ todo' = pairs
      /\ baseline' = [p \in pairs |-> 0] /\ tail' = [p \in pairs |-> 0]
      /\ lastTs' = [p \in pairs |-> 0]
      /\ queue' = {} /\ pending' = <<>> /\ DOMAIN pending' = {} /\ round' = {} /\ emitted' = 0
      /\ step' = NoStep /\ seen' = <<>> /\ dropped' = {}
      /\ UNCHANGED <<pairs, store, now, served, faults>>
  BY DEF Start, Zero, exchange
<1>2. Typed'
  BY <1>1 DEF IInv, Typed, Step, NoStep
<1>3. Published' /\ Polled' /\ Joining' /\ Alone' /\ Unstarted' /\ NothingLost'
  BY <1>1 DEF IInv, Typed, Published, Polled, Joining, Alone, Unstarted, NothingLost, NoStep
<1>4. InOrder'
  BY <1>1 DEF InOrder, NoStep
<1> QED BY <1>2, <1>3, <1>4 DEF IInv

\* A refresh stores what the exchange serves, or nothing.
LEMMA RefreshStep ==
  ASSUME IInv, Refresh
  PROVE  IInv'
<1> DEFINE p == Min(todo)
<1>1. /\ phase = "freshening" /\ todo' \subseteq todo
      /\ \/ faults' = faults
         \/ faults < MaxFaults /\ faults' = faults + 1
      /\ store' = [store EXCEPT ![p] = @ \cup Fetch(p, 0)] \/ store' = store
      /\ UNCHANGED <<pairs, exchange, phase, baseline, tail, queue, pending, round, emitted, lastTs,
                      step, seen, dropped>>
  BY DEF Refresh, May
<1>2. store' \in [pairs -> SUBSET Nat] /\ \A q \in pairs : store'[q] \subseteq served[q]
  <2>1. \A q \in pairs : Fetch(q, 0) \subseteq served[q] /\ served[q] \subseteq Nat
    BY DEF Fetch, Newest, IInv, Typed
  <2>2. store \in [pairs -> SUBSET Nat] /\ \A q \in pairs : store[q] \subseteq served[q]
    BY DEF IInv, Typed, Published
  <2>3. CASE store' = store
    BY <2>2, <2>3
  <2>4. CASE store' = [store EXCEPT ![p] = @ \cup Fetch(p, 0)]
    <3> HIDE DEF p
    <3>1. store' = [q \in pairs |-> IF q = p THEN store[q] \cup Fetch(q, 0) ELSE store[q]]
      BY <2>2, <2>4
    <3>2. \A q \in pairs : store'[q] \subseteq served[q] /\ store'[q] \subseteq Nat
      BY <2>1, <2>2, <3>1
    <3> QED BY <3>1, <3>2
  <2> QED BY <1>1, <2>3, <2>4
<1>3. Typed'
  <2>1. faults' \in 0 .. MaxFaults /\ todo' \subseteq pairs
    BY <1>1, FeedsAssumption DEF IInv, Typed
  <2> QED BY <1>1, <1>2, <2>1 DEF IInv, Typed, exchange, Candle, Step
<1>4. Published'
  BY <1>1, <1>2 DEF IInv, Published, exchange
<1>5. Polled' /\ Joining' /\ Alone' /\ Unstarted'
  BY <1>1 DEF IInv, Polled, Joining, Alone, Unstarted, Joined
<1>6. InOrder' /\ NothingLost'
  BY <1>1, InOrderKept DEF IInv, NothingLost
<1> QED BY <1>3, <1>4, <1>5, <1>6 DEF IInv

\* The end of a run leaves everything as it is.
LEMMA FailStep ==
  ASSUME IInv, Fail
  PROVE  IInv'
<1>1. /\ phase' = "down" /\ faults < MaxFaults /\ faults' = faults + 1
      /\ UNCHANGED <<pairs, store, now, served, todo, baseline, tail, queue, pending, round, emitted,
                      lastTs, step, seen, dropped>>
  BY DEF Fail, May, exchange
<1>2. Typed' /\ Published'
  <2>1. faults' \in 0 .. MaxFaults
    BY <1>1, FeedsAssumption DEF IInv, Typed
  <2>2. Typed'
    BY <1>1, <2>1 DEF IInv, Typed, Candle, Step
  <2> QED BY <1>1, <2>2 DEF IInv, Published
<1>3. Polled' /\ Joining' /\ Alone' /\ Unstarted' /\ NothingLost'
  BY <1>1 DEF IInv, Polled, Joining, Alone, Unstarted, Joined, NothingLost
<1>4. InOrder'
  BY <1>1, InOrderKept DEF IInv
<1> QED BY <1>2, <1>3, <1>4 DEF IInv

-----------------------------------------------------------------------------
(***************************************************************************)
(* The warm-up.                                                            *)
(***************************************************************************)
\* joined_steps gives one step per time of any pair's warm-up, in order.
LEMMA JoinedInOrder ==
  ASSUME Typed, Published, NEW steps, steps = JoinedSteps([p \in pairs |-> WarmCandles(p)])
  PROVE  /\ steps \in Seq(Step)
         /\ \A i \in DOMAIN steps : \E p \in pairs : steps[i].ts \in WarmCandles(p)
         /\ \A i, j \in DOMAIN steps : i < j => steps[i].ts < steps[j].ts
<1> DEFINE candles == [p \in pairs |-> WarmCandles(p)]
           times == UNION {candles[p] : p \in pairs}
           before(t) == {u \in times : u < t}
           nth(i) == CHOOSE ts \in times : Cardinality(before(ts)) = i - 1
           stepAt(i) == [ts |-> nth(i), pairs |-> {p \in pairs : nth(i) \in candles[p]}]
           n == Cardinality(times)
<1>1. \A p \in pairs : candles[p] = WarmCandles(p)
  OBVIOUS
<1>2. steps = [i \in 1 .. n |-> stepAt(i)]
  BY DEF JoinedSteps
<1> HIDE DEF candles
<1>3. times \in SUBSET (1 .. now) /\ now \in Nat
  <2>1. \A p \in pairs : candles[p] \in SUBSET served[p] /\ served[p] \in SUBSET (1 .. now)
    BY <1>1, WarmFacts, Facts
  <2> QED BY <2>1, Facts
<1>4. times \in SUBSET Int /\ IsFiniteSet(times) /\ n \in Nat
  <2> HIDE DEF times
  <2> QED BY <1>3, IdsAreFinite
<1>5. \A t \in times : t \in Nat
  <2> HIDE DEF times
  <2> QED BY <1>3
<1>6. \A i \in 1 .. n : nth(i) \in times /\ nth(i) \in Nat /\ Cardinality(before(nth(i))) = i - 1
  <2> SUFFICES ASSUME NEW i \in 1 .. n
               PROVE  nth(i) \in times /\ nth(i) \in Nat /\ Cardinality(before(nth(i))) = i - 1
    OBVIOUS
  <2>1. \E ts \in times : Cardinality(before(ts)) = i - 1
    <3> HIDE DEF times
    <3> QED BY <1>4, HasRanks
  <2> HIDE DEF times, before
  <2>2. nth(i) \in times /\ Cardinality(before(nth(i))) = i - 1
    BY <2>1
  <2> HIDE DEF nth
  <2>3. nth(i) \in Nat
    BY <2>2, <1>5
  <2> QED BY <2>2, <2>3
<1>7. \A i \in 1 .. n : stepAt(i) \in Step /\ stepAt(i).ts = nth(i)
  <2> HIDE DEF nth, n
  <2> QED BY <1>6 DEF Step
<1> HIDE DEF stepAt
<1>8. steps \in Seq(Step) /\ DOMAIN steps = 1 .. n /\ \A i \in 1 .. n : steps[i].ts = nth(i)
  <2>1. steps \in [1 .. n -> Step]
    BY <1>2, <1>7
  <2> QED BY <1>4, <1>2, <1>7, <2>1, FunctionIsSeq
<1>9. ASSUME NEW i \in 1 .. n, NEW j \in 1 .. n, i < j PROVE nth(i) < nth(j)
  <2>1. nth(i) \in Nat /\ nth(j) \in Nat
    <3> HIDE DEF times, nth, n
    <3> QED BY <1>6
  <2> SUFFICES ASSUME nth(j) <= nth(i) PROVE FALSE
    <3> HIDE DEF nth
    <3> QED BY <2>1
  <2>2. before(nth(j)) \subseteq before(nth(i))
    <3>1. \A u \in times : u \in Int /\ (u < nth(j) => u < nth(i))
      <4> HIDE DEF times, nth
      <4> QED BY <1>4, <2>1
    <3> HIDE DEF times, nth
    <3> QED BY <3>1
  <2>3. IsFiniteSet(before(nth(i)))
    <3> HIDE DEF times, nth
    <3> QED BY <1>4, FS_Subset
  <2>4. Cardinality(before(nth(j))) <= Cardinality(before(nth(i)))
    <3> HIDE DEF before, nth
    <3> QED BY <2>2, <2>3, FS_Subset
  <2>5. j - 1 <= i - 1
    <3> HIDE DEF before, nth
    <3> QED BY <1>6, <2>4
  <2> QED BY <2>5, <1>9
<1>10. \A i \in 1 .. n : \E p \in pairs : nth(i) \in WarmCandles(p)
  <2> HIDE DEF nth, n
  <2> QED BY <1>6, <1>1
<1> HIDE DEF nth, n
<1> QED BY <1>8, <1>9, <1>10

\* The warm-up seeds the pollers, so nothing is owed yet.
LEMMA ReadWarmupStep ==
  ASSUME IInv, ReadWarmup
  PROVE  IInv'
<1>1. /\ phase = "freshening" /\ phase' = "streaming"
      /\ tail' = [p \in pairs |-> Latest(WarmCandles(p))]
      /\ lastTs' = tail' /\ baseline' = tail'
      /\ seen' = JoinedSteps([p \in pairs |-> WarmCandles(p)])
      /\ UNCHANGED <<pairs, store, now, served, todo, queue, pending, round, emitted, step, dropped, faults>>
  BY DEF ReadWarmup, Seed, exchange
<1>2. /\ queue = {} /\ pending = <<>> /\ DOMAIN pending = {} /\ round = {} /\ emitted = 0
      /\ step = NoStep
  BY <1>1 DEF IInv, Unstarted
<1>3. \A p \in pairs : /\ tail'[p] = Latest(WarmCandles(p))
                       /\ tail'[p] \in served[p] \cup {0} /\ tail'[p] \in Nat
                       /\ \A t \in WarmCandles(p) : t \in Nat /\ t <= tail'[p]
  BY <1>1, WarmFacts DEF IInv
<1>4. /\ seen' \in Seq(Step)
      /\ \A i \in DOMAIN seen' : \E p \in pairs : seen'[i].ts \in WarmCandles(p)
      /\ \A i, j \in DOMAIN seen' : i < j => seen'[i].ts < seen'[j].ts
  BY <1>1, JoinedInOrder DEF IInv
<1>5. tail' \in [pairs -> Nat]
  BY <1>1, <1>3
<1>6. Typed'
  BY <1>1, <1>4, <1>5 DEF IInv, Typed, Candle, Step
<1>7. Published'
  BY <1>1, <1>2, <1>3 DEF IInv, Published
<1>8. Polled' /\ Joining' /\ Alone' /\ Unstarted'
  <2>1. \A p \in pairs : tail'[p] <= tail'[p]
    BY <1>3
  <2> QED BY <1>1, <1>2, <2>1 DEF IInv, Polled, Joining, Alone, Unstarted, Joined
<1>9. InOrder'
  <2> SUFFICES ASSUME Even' PROVE \A i \in DOMAIN seen' : \A p \in pairs : seen'[i].ts <= tail'[p]
    BY <1>1, <1>2, <1>4 DEF InOrder, Passed
  <2> SUFFICES ASSUME NEW i \in DOMAIN seen', NEW p \in pairs PROVE seen'[i].ts <= tail'[p]
    OBVIOUS
  <2>1. PICK q \in pairs : seen'[i].ts \in WarmCandles(q)
    BY <1>4
  <2>2. tail'[p] = tail'[q]
    BY <1>1 DEF Even
  <2> QED BY <2>1, <2>2, <1>3
<1>10. NothingLost'
  <2> SUFFICES ASSUME NEW p \in pairs, NEW t \in Fetch(p, tail[p] + 1)', t <= baseline'[p] PROVE FALSE
    BY <1>1 DEF NothingLost
  <2>1. t \in Nat /\ t >= tail'[p] + 1
    BY <1>1 DEF Fetch, Newest, IInv, Typed
  <2> QED BY <2>1, <1>1, <1>3
<1> QED BY <1>6, <1>7, <1>8, <1>9, <1>10 DEF IInv

-----------------------------------------------------------------------------
(***************************************************************************)
(* The pollers and the joiner.                                             *)
(***************************************************************************)
\* A poll moves the baseline past what it delivers, and over nothing served.
LEMMA PollStep ==
  ASSUME IInv, NEW p \in pairs, Poll(p)
  PROVE  IInv'
<1> DEFINE new == {t \in Fetch(p, Since(p)) : t > baseline[p]}
<1>1. /\ phase = "streaming" /\ new # {}
      /\ ~Joined => queue = {} /\ step = NoStep
      /\ queue' = queue \cup {[pair |-> p, ts |-> t] : t \in new}
      /\ baseline' = [baseline EXCEPT ![p] = Max(new)]
      /\ UNCHANGED <<pairs, store, now, served, phase, todo, tail, pending, round, emitted, lastTs, step,
                      seen, dropped, faults>>
  BY DEF Poll, exchange
<1>2. /\ new \in SUBSET served[p] /\ new \in SUBSET (1 .. now) /\ now \in Nat
      /\ baseline[p] \in Nat /\ lastTs[p] \in Nat
  <2>1. Fetch(p, Since(p)) \subseteq served[p]
    BY DEF Fetch, Newest
  <2>2. now \in Nat /\ served[p] \in SUBSET (1 .. now)
    BY Facts DEF IInv
  <2>3. baseline[p] \in Nat /\ lastTs[p] \in Nat
    BY DEF IInv, Typed
  <2> QED BY <2>1, <2>2, <2>3
<1>3. /\ Max(new) \in new
      /\ \A t \in new : t <= Max(new) /\ t \in Nat
      /\ baseline[p] < Max(new) /\ Max(new) \in Nat
  <2>1. IsFiniteSet(new) /\ new \in SUBSET Int
    <3> HIDE DEF new
    <3> QED BY <1>2, IdsAreFinite
  <2>2. Max(new) \in new /\ \A t \in new : Max(new) >= t
    <3> HIDE DEF new
    <3> QED BY <1>1, <2>1, MaxIs
  <2>3. \A t \in new : t > baseline[p]
    OBVIOUS
  <2>4. \A t \in new : t \in Nat
    <3> HIDE DEF new
    <3> QED BY <1>2
  <2> HIDE DEF new
  <2> QED BY <2>2, <2>3, <2>4, <1>2
<1>4. /\ baseline'[p] = Max(new) /\ \A q \in pairs : q # p => baseline'[q] = baseline[q]
      /\ baseline' \in [pairs -> Nat]
  <2> HIDE DEF new
  <2> QED BY <1>1, <1>3 DEF IInv, Typed
<1>5. \A candle \in queue' : \/ candle \in queue
                             \/ candle.pair = p /\ candle.ts \in new /\ candle \in Candle
  <2>1. \A t \in new : [pair |-> p, ts |-> t] \in Candle
    <3> HIDE DEF new
    <3> QED BY <1>3 DEF Candle
  <2> HIDE DEF new
  <2>2. \A t \in new : [pair |-> p, ts |-> t].pair = p /\ [pair |-> p, ts |-> t].ts \in new
    OBVIOUS
  <2> QED BY <1>1, <2>1, <2>2
<1>6. Typed'
  <2> HIDE DEF new
  <2>1. queue' \subseteq Candle
    BY <1>5 DEF IInv, Typed
  <2> QED BY <1>1, <1>4, <2>1 DEF IInv, Typed, Candle, Step
<1>7. Published'
  <2> HIDE DEF new
  <2>1. \A q \in pairs : baseline'[q] \in served[q] \cup {0}
    BY <1>2, <1>3, <1>4 DEF IInv, Published
  <2>2. \A candle \in queue' : candle.ts \in served[candle.pair]
    BY <1>2, <1>5 DEF IInv, Published
  <2> QED BY <1>1, <2>1, <2>2 DEF IInv, Published
<1>8. Polled' /\ Joining' /\ Unstarted'
  <2> HIDE DEF new
  <2>1. ASSUME NEW candle \in queue' PROVE candle.ts <= baseline'[candle.pair]
    <3>1. CASE candle \in queue
      <4>1. candle.ts <= baseline[candle.pair] /\ candle.pair \in pairs /\ candle.ts \in Nat
        BY <3>1 DEF IInv, Polled, Typed, Candle
      <4> QED BY <4>1, <1>2, <1>3, <1>4
    <3>2. CASE candle \notin queue
      BY <3>2, <1>3, <1>4, <1>5
    <3> QED BY <3>1, <3>2
  <2>2. ASSUME NEW q \in pairs PROVE tail[q] <= lastTs[q] /\ tail[q] <= baseline'[q]
    <3>1. tail[q] <= lastTs[q] /\ tail[q] <= baseline[q] /\ tail[q] \in Nat /\ baseline[q] \in Nat
      BY DEF IInv, Polled, Typed
    <3>2. baseline[q] <= baseline'[q] /\ baseline'[q] \in Nat
      BY <3>1, <1>2, <1>3, <1>4
    <3> QED BY <3>1, <3>2
  <2>3. Polled'
    BY <1>1, <2>1, <2>2 DEF Polled
  <2> QED BY <1>1, <2>3 DEF IInv, Joining, Unstarted, Joined
<1>9. Alone'
  <2> SUFFICES ASSUME ~Joined
               PROVE  /\ \A candle \in queue' : candle.ts > lastTs[candle.pair]
                      /\ \A q \in pairs : lastTs[q] <= baseline'[q]
    BY <1>1 DEF Alone, Joined, IInv
  <2>1. queue = {} /\ \A q \in pairs : lastTs[q] <= baseline[q]
    BY <1>1 DEF IInv, Alone
  <2>2. \A t \in new : t > baseline[p]
    OBVIOUS
  <2> HIDE DEF new
  <2>3. \A t \in new : t > lastTs[p]
    BY <2>1, <2>2, <1>2, <1>3
  <2>4. \A candle \in queue' : candle.ts > lastTs[candle.pair]
    BY <2>1, <2>3, <1>5
  <2>5. \A q \in pairs : lastTs[q] <= baseline'[q]
    BY <2>1, <1>2, <1>3, <1>4
  <2> QED BY <2>4, <2>5
<1>10. InOrder'
  BY <1>1, InOrderKept DEF IInv
<1>11. NothingLost'
  <2> SUFFICES ASSUME NEW q \in pairs, tail[q] > 0,
                      NEW t \in Fetch(q, tail[q] + 1), t <= baseline'[q]
               PROVE  Accounted(q, t)'
    BY <1>1 DEF NothingLost, Accounted, Fetch, Newest
  <2>1. CASE t <= baseline[q]
    <3>1. Accounted(q, t)
      BY <2>1, <1>1 DEF IInv, NothingLost, Accounted
    <3> HIDE DEF new
    <3> QED BY <3>1, <1>1 DEF Accounted, TimesOf
  <2>2. CASE ~(t <= baseline[q])
    <3>1. q = p
      BY <2>2, <1>4
    <3>2. t \in Nat /\ t > baseline[p] /\ t \in Newest(served[p], Page)
      BY <2>2, <3>1, <1>2 DEF Fetch, Newest, IInv, Typed
    <3>3. tail[p] \in Nat /\ tail[p] > 0
      BY <3>1 DEF IInv, Typed
    <3>4. t \in new
      <4>1. baseline[p] > 0
        BY <3>1, <3>3, <1>2 DEF IInv, Polled
      <4>2. Since(p) = baseline[p] + 1
        BY <4>1 DEF Since
      <4> QED BY <4>2, <3>2, <1>2 DEF Fetch
    <3> HIDE DEF new
    <3> QED BY <3>1, <3>4, <1>1 DEF Accounted
  <2> QED BY <2>1, <2>2
<1> QED BY <1>6, <1>7, <1>8, <1>9, <1>10, <1>11 DEF IInv

\* A grace window that ends takes nothing from its step.
LEMMA ExpireStep ==
  ASSUME IInv, NEW ts, Expire(ts)
  PROVE  IInv'
<1>1. /\ phase = "streaming" /\ ts \in DOMAIN pending
      /\ pending' = [pending EXCEPT ![ts].due = TRUE]
      /\ UNCHANGED <<pairs, store, now, served, phase, todo, baseline, tail, queue, round, emitted, lastTs,
                      step, seen, dropped, faults>>
  BY DEF Expire, exchange
<1>2. /\ DOMAIN pending' = DOMAIN pending
      /\ pending' \in [DOMAIN pending -> [pairs : SUBSET pairs, due : BOOLEAN]]
      /\ \A t \in DOMAIN pending : pending'[t].pairs = pending[t].pairs
  <2>1. pending \in [DOMAIN pending -> [pairs : SUBSET pairs, due : BOOLEAN]]
    BY DEF IInv, Typed
  <2>2. pending' = [pending EXCEPT ![ts] = [@ EXCEPT !.due = TRUE]]
    BY <1>1
  <2>3. /\ DOMAIN pending' = DOMAIN pending
        /\ \A t \in DOMAIN pending :
              pending'[t] = IF t = ts THEN [pending[t] EXCEPT !.due = TRUE] ELSE pending[t]
    BY <2>1, <2>2
  <2>4. ASSUME NEW t \in DOMAIN pending
        PROVE  /\ pending'[t] \in [pairs : SUBSET pairs, due : BOOLEAN]
               /\ pending'[t].pairs = pending[t].pairs
    <3>1. pending[t] \in [pairs : SUBSET pairs, due : BOOLEAN]
      BY <2>1
    <3> QED BY <2>3, <3>1
  <2>5. pending' = [t \in DOMAIN pending |-> pending'[t]]
    BY <2>1, <2>2
  <2> QED BY <2>3, <2>4, <2>5
<1>3. Typed' /\ Published'
  <2>1. Typed'
    BY <1>1, <1>2 DEF IInv, Typed, Candle, Step
  <2> QED BY <1>1, <1>2, <2>1 DEF IInv, Published
<1>4. Polled' /\ Joining' /\ Unstarted'
  BY <1>1, <1>2 DEF IInv, Polled, Joining, Unstarted, Joined
<1>5. Alone'
  BY <1>1 DEF IInv, Alone, Joined
<1>6. InOrder'
  BY <1>1, InOrderKept DEF IInv
<1>7. NothingLost'
  <2>1. \A p \in pairs, t \in Nat : Accounted(p, t) => Accounted(p, t)'
    BY <1>1, <1>2 DEF Accounted, TimesOf
  <2> QED BY <1>1, <2>1, NothingLostKept DEF IInv
<1> QED BY <1>3, <1>4, <1>5, <1>6, <1>7 DEF IInv

\* What was queued waits for its step, or is refused.
LEMMA DrainStep ==
  ASSUME IInv, Drain
  PROVE  IInv'
<1>1. /\ phase = "streaming" /\ Joined /\ round = {} /\ step = NoStep
      /\ pending' = Buffered /\ dropped' = dropped \cup Late /\ round' = DOMAIN Buffered /\ queue' = {}
      /\ UNCHANGED <<pairs, store, now, served, phase, todo, baseline, tail, emitted, lastTs, step, seen,
                      faults>>
  BY DEF Drain, exchange
<1> DEFINE kept == queue \ Late
           times == DOMAIN pending \cup {candle.ts : candle \in kept}
           of(ts) == Delivered(ts) \cup {p \in pairs : [pair |-> p, ts |-> ts] \in kept}
           due(ts) == ts \in DOMAIN pending /\ pending[ts].due
<1>2. pending' = [ts \in times |-> [pairs |-> of(ts), due |-> due(ts)]]
  BY <1>1 DEF Buffered
<1>3. \A candle \in queue : /\ candle.pair \in pairs /\ candle.ts \in 1 .. now /\ candle.ts \in Nat
                            /\ candle = [pair |-> candle.pair, ts |-> candle.ts]
                            /\ candle.ts \in served[candle.pair]
  BY Facts DEF IInv, Published
<1>4. times \in SUBSET Nat /\ DOMAIN pending \subseteq times
  BY <1>3 DEF IInv, Typed
<1>5. \A ts \in times : of(ts) \in SUBSET pairs /\ due(ts) \in BOOLEAN
  <2>1. \A ts \in DOMAIN pending : pending[ts].pairs \subseteq pairs /\ pending[ts].due \in BOOLEAN
    BY DEF IInv, Typed
  <2> QED BY <2>1 DEF Delivered
<1>6. ASSUME NEW ts \in times, NEW p \in of(ts)
      PROVE  \/ ts \in DOMAIN pending /\ p \in pending[ts].pairs
             \/ [pair |-> p, ts |-> ts] \in kept
  BY <1>6 DEF Delivered
<1>7. \A ts \in times : ts > emitted /\ of(ts) # {}
  <2>1. ASSUME NEW ts \in DOMAIN pending PROVE ts > emitted /\ of(ts) # {}
    BY DEF Delivered, IInv, Joining
  <2>2. ASSUME NEW candle \in kept PROVE candle.ts > emitted /\ of(candle.ts) # {}
    <3>1. candle.ts > emitted
      BY <1>3 DEF Late, IInv, Typed
    <3>2. candle.pair \in of(candle.ts)
      BY <1>3
    <3> QED BY <3>1, <3>2
  <2> QED BY <2>1, <2>2
<1>8. \A ts \in DOMAIN pending : pending[ts].pairs \subseteq of(ts)
  BY DEF Delivered
<1>9. \A p \in pairs : \A t : [pair |-> p, ts |-> t] \in queue =>
        \/ [pair |-> p, ts |-> t] \in Late
        \/ t \in times /\ p \in of(t)
  <2> SUFFICES ASSUME NEW p \in pairs, NEW t, [pair |-> p, ts |-> t] \in kept
               PROVE  t \in times /\ p \in of(t)
    OBVIOUS
  <2>1. [pair |-> p, ts |-> t].ts = t
    OBVIOUS
  <2> QED BY <2>1
<1> HIDE DEF times, of, due
<1>10. /\ DOMAIN pending' = times
       /\ \A ts \in times : pending'[ts].pairs = of(ts)
       /\ pending' \in [times -> [pairs : SUBSET pairs, due : BOOLEAN]]
  BY <1>2, <1>5
<1>11. DOMAIN Buffered = times
  BY <1>1, <1>10
<1>12. Typed'
  <2>1. dropped' \subseteq Candle
    BY <1>1 DEF Late, IInv, Typed
  <2> QED BY <1>1, <1>4, <1>10, <1>11, <2>1 DEF IInv, Typed, Candle, Step
<1>13. Published'
  <2>1. ASSUME NEW ts \in times, NEW p \in of(ts) PROVE ts \in served[p]
    <3>1. CASE ts \in DOMAIN pending /\ p \in pending[ts].pairs
      BY <3>1 DEF IInv, Published
    <3>2. CASE [pair |-> p, ts |-> ts] \in queue
      BY <3>2, <1>3
    <3> QED BY <2>1, <3>1, <3>2, <1>6
  <2> QED BY <1>1, <1>10, <2>1 DEF IInv, Published
<1>14. Polled' /\ Joining' /\ Alone' /\ Unstarted'
  <2>1. Joining'
    BY <1>1, <1>7, <1>10, <1>11 DEF IInv, Joining, Joined
  <2> QED BY <1>1, <2>1 DEF IInv, Polled, Alone, Unstarted, Joined
<1>15. InOrder'
  BY <1>1, InOrderKept DEF IInv
<1>16. NothingLost'
  <2>1. ASSUME NEW p \in pairs, NEW t \in Nat, Accounted(p, t) PROVE Accounted(p, t)'
    <3>1. CASE [pair |-> p, ts |-> t] \in queue
      BY <3>1, <1>1, <1>9, <1>10 DEF Accounted
    <3>2. CASE [pair |-> p, ts |-> t] \in dropped
      BY <3>2, <1>1 DEF Accounted
    <3>3. CASE t \in DOMAIN pending /\ p \in pending[t].pairs
      BY <3>3, <1>4, <1>8, <1>10 DEF Accounted
    <3>4. CASE (t = step.ts /\ p \in step.pairs) \/ t \in TimesOf(p)
      BY <3>4, <1>1 DEF Accounted, TimesOf
    <3> QED BY <2>1, <3>1, <3>2, <3>3, <3>4 DEF Accounted
  <2> QED BY <1>1, <2>1, NothingLostKept DEF IInv
<1> QED BY <1>12, <1>13, <1>14, <1>15, <1>16 DEF IInv

-----------------------------------------------------------------------------
(***************************************************************************)
(* Steps.                                                                  *)
(***************************************************************************)
\* What is new of a step is stored, and is the engine's.
LEMMA DeliverFacts ==
  ASSUME IInv, step = NoStep, NEW ts \in 1 .. now, NEW from \in SUBSET pairs,
         \A p \in from : ts \in served[p], Deliver(ts, from)
  PROVE  /\ lastTs' \in [pairs -> Nat] /\ step' \in Step /\ store' \in [pairs -> SUBSET Nat]
         /\ \A p \in pairs : /\ store'[p] \subseteq served[p]
                             /\ lastTs'[p] = IF p \in from /\ ts > lastTs[p] THEN ts ELSE lastTs[p]
                             /\ lastTs[p] <= lastTs'[p]
         /\ \A p \in from : ts > lastTs[p] => step'.ts = ts /\ p \in step'.pairs
         /\ step' # NoStep => step'.ts = ts /\ \E p \in from : ts > lastTs[p]
<1> DEFINE fresh == FreshPairs(ts, from)
<1>1. /\ lastTs' = [p \in pairs |-> IF p \in fresh THEN ts ELSE lastTs[p]]
      /\ store' = [p \in pairs |-> IF p \in fresh THEN store[p] \cup {ts} ELSE store[p]]
      /\ step' = IF fresh = {} THEN NoStep ELSE [ts |-> ts, pairs |-> fresh]
  BY DEF Deliver
<1>2. \A p : p \in fresh <=> p \in from /\ ts > lastTs[p]
  BY DEF FreshPairs
<1> HIDE DEF fresh
<1>3. now \in Nat /\ ts \in Nat /\ fresh \subseteq pairs
  <2>1. now \in Nat
    BY Facts DEF IInv
  <2> QED BY <1>2, <2>1
<1>4. \A p \in pairs : store[p] \subseteq served[p] /\ served[p] \subseteq Nat /\ lastTs[p] \in Nat
  BY DEF IInv, Typed, Published
<1>5. lastTs' \in [pairs -> Nat] /\ step' \in Step
  BY <1>1, <1>3, <1>4 DEF Step, NoStep
<1>6. \A p \in pairs : /\ store'[p] \subseteq served[p]
                       /\ lastTs'[p] = IF p \in from /\ ts > lastTs[p] THEN ts ELSE lastTs[p]
                       /\ lastTs[p] <= lastTs'[p]
  <2> TAKE p \in pairs
  <2>1. store'[p] = IF p \in fresh THEN store[p] \cup {ts} ELSE store[p]
    BY <1>1
  <2>2. lastTs'[p] = IF p \in fresh THEN ts ELSE lastTs[p]
    BY <1>1
  <2> QED BY <2>1, <2>2, <1>2, <1>3, <1>4
<1>7. store' \in [pairs -> SUBSET Nat]
  BY <1>1, <1>4, <1>6
<1>8. step' # NoStep => step'.ts = ts /\ \E p \in from : ts > lastTs[p]
  BY <1>1, <1>2
<1>9. \A p \in from : ts > lastTs[p] => step'.ts = ts /\ p \in step'.pairs
  BY <1>1, <1>2
<1> QED BY <1>5, <1>6, <1>7, <1>8, <1>9

\* A step that comes after all that went out comes after every step seen.
LEMMA DeliveredInOrder ==
  ASSUME IInv, step = NoStep, NEW ts \in 1 .. now, NEW from \in SUBSET pairs,
         \A p \in from : ts \in served[p], Deliver(ts, from),
         UNCHANGED <<pairs, tail, seen>>,
         Joined => emitted < ts /\ emitted' = ts
  PROVE  InOrder'
<1> SUFFICES ASSUME Even'
             PROVE  /\ \A i, j \in DOMAIN seen : i < j => seen[i].ts < seen[j].ts
                    /\ \A i \in DOMAIN seen : Passed(seen[i].ts)'
                    /\ step' # NoStep => /\ Passed(step.ts)'
                                         /\ \A i \in DOMAIN seen : seen[i].ts < step'.ts
  BY DEF InOrder, Passed, NoStep, Joined
<1>1. Even
  BY DEF Even
<1>2. /\ \A i, j \in DOMAIN seen : i < j => seen[i].ts < seen[j].ts
      /\ \A i \in DOMAIN seen : Passed(seen[i].ts)
  BY <1>1 DEF IInv, InOrder
<1>3. /\ \A i \in DOMAIN seen : seen[i].ts \in Nat
      /\ \A p \in pairs : tail[p] \in Nat /\ lastTs[p] \in Nat /\ tail[p] <= lastTs[p]
      /\ emitted \in Nat /\ now \in Nat /\ ts \in Nat
  <2>1. \A i \in DOMAIN seen : seen[i] \in Step
    BY ElementOfSeq DEF IInv, Typed
  <2>2. now \in Nat
    BY Facts DEF IInv
  <2>3. \A i \in DOMAIN seen : seen[i].ts \in Nat
    BY <2>1 DEF Step
  <2> QED BY <2>2, <2>3 DEF IInv, Typed, Polled
<1>4. /\ \A p \in pairs : lastTs[p] <= lastTs'[p] /\ lastTs'[p] \in Nat
      /\ \A p \in pairs : lastTs'[p] = IF p \in from /\ ts > lastTs[p] THEN ts ELSE lastTs[p]
      /\ step' # NoStep => step'.ts = ts /\ \E p \in from : ts > lastTs[p]
  BY DeliverFacts
<1>5. ASSUME NEW i \in DOMAIN seen PROVE Passed(seen[i].ts)'
  <2> SUFFICES ASSUME NEW p \in pairs
               PROVE  seen[i].ts <= tail[p] \/ seen[i].ts <= IF Joined THEN emitted' ELSE lastTs'[p]
    BY DEF Passed, Joined
  <2>1. seen[i].ts <= tail[p] \/ seen[i].ts <= IF Joined THEN emitted ELSE lastTs[p]
    BY <1>2 DEF Passed
  <2> QED BY <2>1, <1>3, <1>4
<1>6. ASSUME step' # NoStep
      PROVE  Passed(step.ts)' /\ \A i \in DOMAIN seen : seen[i].ts < step'.ts
  <2>1. PICK p \in from : ts > lastTs[p]
    BY <1>4, <1>6
  <2>2. step'.ts = ts /\ p \in pairs
    BY <1>4, <1>6
  <2>3. ASSUME NEW i \in DOMAIN seen PROVE seen[i].ts < ts
    <3>1. seen[i].ts <= tail[p] \/ seen[i].ts <= IF Joined THEN emitted ELSE lastTs[p]
      BY <1>2, <2>2 DEF Passed
    <3> QED BY <3>1, <2>1, <2>2, <1>3
  <2>4. ASSUME NEW q \in pairs
        PROVE  ts <= IF Joined THEN emitted' ELSE lastTs'[q]
    <3>1. CASE Joined
      BY <3>1, <1>3
    <3>2. CASE ~Joined
      <4>1. q = p
        BY <3>2, <2>2, LonePair DEF IInv
      <4> QED BY <3>2, <4>1, <2>1, <1>3, <1>4
    <3> QED BY <3>1, <3>2
  <2> QED BY <2>2, <2>3, <2>4 DEF Passed, Joined
<1> QED BY <1>2, <1>5, <1>6

\* The joiner hands out its least time, or ends the round there.
LEMMA EmitStep ==
  ASSUME IInv, Emit
  PROVE  IInv'
<1> DEFINE ts == Min(NextReady)
           from == pending[ts].pairs
<1>1. /\ phase = "streaming" /\ step = NoStep /\ round # {}
      /\ UNCHANGED <<pairs, now, served, phase, todo, baseline, tail, queue, seen, dropped, faults>>
  BY DEF Emit, exchange
<1>2. CASE NextReady = {}
  <2>1. /\ round' = {}
        /\ UNCHANGED <<pairs, store, now, served, phase, todo, baseline, tail, queue, pending, emitted,
                       lastTs, step, seen, dropped, faults>>
    BY <1>1, <1>2 DEF Emit
  <2>2. Typed' /\ Published'
    <3>1. Typed'
      BY <2>1 DEF IInv, Typed, Candle, Step
    <3> QED BY <2>1, <3>1 DEF IInv, Published
  <2>3. Polled' /\ Joining' /\ Alone' /\ Unstarted'
    BY <2>1, <1>1 DEF IInv, Polled, Joining, Alone, Unstarted, Joined
  <2>4. InOrder' /\ NothingLost'
    <3>1. \A p \in pairs, t \in Nat : Accounted(p, t) => Accounted(p, t)'
      BY <2>1 DEF Accounted, TimesOf
    <3> QED BY <2>1, <3>1, InOrderKept, NothingLostKept DEF IInv
  <2> QED BY <2>2, <2>3, <2>4 DEF IInv
<1>3. CASE NextReady # {}
  <2>1. /\ round' = {t \in round : t > ts}
        /\ pending' = [t \in DOMAIN pending \ {ts} |-> pending[t]]
        /\ emitted' = ts /\ Deliver(ts, from)
    BY <1>3 DEF Emit
  <2>2. round = DOMAIN pending /\ Joined
    BY <1>1 DEF IInv, Joining, Alone
  <2>3. now \in Nat /\ round \in SUBSET (1 .. now) /\ round \in SUBSET Int /\ IsFiniteSet(round)
    <3>1. now \in Nat /\ \A p \in pairs : served[p] \in SUBSET (1 .. now)
      BY Facts DEF IInv
    <3>2. \A t \in round : pending[t].pairs \in SUBSET pairs /\ pending[t].pairs # {}
      BY <2>2 DEF IInv, Typed, Joining
    <3>3. round \in SUBSET (1 .. now)
      BY <3>1, <3>2, <2>2 DEF IInv, Published
    <3> QED BY <3>1, <3>3, IdsAreFinite
  <2>4. /\ ts \in round /\ \A t \in round : ts <= t
    <3>1. NextReady = {Min(round)}
      BY <1>3 DEF NextReady
    <3>2. Min(round) \in round /\ \A t \in round : Min(round) <= t
      BY <1>1, <2>3, MinIs
    <3>3. NextReady \in SUBSET Int /\ IsFiniteSet(NextReady)
      BY <3>1, <3>2, <2>3, FS_Singleton
    <3>4. ts \in NextReady
      BY <1>3, <3>3, MinIs
    <3> QED BY <3>1, <3>2, <3>4
  <2>5. /\ ts \in 1 .. now /\ ts \in Nat /\ ts > emitted /\ emitted \in Nat
        /\ from \in SUBSET pairs /\ \A p \in from : ts \in served[p]
    BY <2>2, <2>3, <2>4 DEF IInv, Typed, Joining, Published
  <2> HIDE DEF ts, from
  <2>6. /\ lastTs' \in [pairs -> Nat] /\ step' \in Step /\ store' \in [pairs -> SUBSET Nat]
        /\ \A p \in pairs : /\ store'[p] \subseteq served[p]
                            /\ lastTs'[p] = IF p \in from /\ ts > lastTs[p] THEN ts ELSE lastTs[p]
                            /\ lastTs[p] <= lastTs'[p]
        /\ \A p \in from : ts > lastTs[p] => step'.ts = ts /\ p \in step'.pairs
    BY <1>1, <2>1, <2>5, DeliverFacts
  <2>7. /\ DOMAIN pending' = DOMAIN pending \ {ts}
        /\ \A t \in DOMAIN pending' : pending'[t] = pending[t] /\ t > ts
        /\ round' = DOMAIN pending'
    <3>1. \A t \in DOMAIN pending : t \in Int /\ ts <= t
      BY <2>2, <2>3, <2>4
    <3> QED BY <2>1, <2>2, <2>5, <3>1
  <2>8. Typed'
    <3>1. pending' \in [DOMAIN pending' -> [pairs : SUBSET pairs, due : BOOLEAN]]
      BY <2>1, <2>7 DEF IInv, Typed
    <3>2. DOMAIN pending' \subseteq Nat
      BY <2>7 DEF IInv, Typed
    <3> QED BY <1>1, <2>1, <2>5, <2>6, <2>7, <3>1, <3>2 DEF IInv, Typed, Candle, Step
  <2>9. Published'
    <3>1. \A p \in pairs : lastTs'[p] \in served[p] \cup {0}
      BY <2>5, <2>6 DEF IInv, Published
    <3> QED BY <1>1, <2>6, <2>7, <3>1 DEF IInv, Published
  <2>10. \A p \in pairs : /\ lastTs[p] \in Nat /\ tail[p] \in Nat /\ baseline[p] \in Nat
                          /\ tail[p] <= lastTs[p] /\ tail[p] <= baseline[p]
    BY DEF IInv, Typed, Polled
  <2>11. Polled'
    <3>1. \A p \in pairs : tail[p] <= lastTs'[p]
      BY <2>5, <2>6, <2>10
    <3> QED BY <1>1, <2>10, <3>1 DEF IInv, Polled
  <2>12. Joining'
    <3>1. \A p \in pairs : lastTs'[p] = tail[p] \/ lastTs'[p] <= emitted'
      <4> TAKE p \in pairs
      <4>1. lastTs[p] = tail[p] \/ lastTs[p] <= emitted
        BY <2>2 DEF IInv, Joining
      <4> QED BY <4>1, <2>1, <2>5, <2>6, <2>10
    <3> QED BY <1>1, <2>1, <2>7, <3>1 DEF IInv, Joining, Joined
  <2>13. Alone' /\ Unstarted'
    BY <1>1, <2>2 DEF Alone, Unstarted, Joined
  <2>14. InOrder'
    BY <1>1, <2>1, <2>5, DeliveredInOrder
  <2>15. NothingLost'
    <3>1. ASSUME NEW p \in pairs, NEW t \in Nat, t > tail[p], Accounted(p, t)
          PROVE  Accounted(p, t)'
      <4>1. CASE [pair |-> p, ts |-> t] \in queue \cup dropped \/ t \in TimesOf(p)
        BY <4>1, <1>1 DEF Accounted, TimesOf
      <4>2. CASE t \in DOMAIN pending /\ p \in pending[t].pairs /\ t # ts
        BY <4>2, <2>7 DEF Accounted
      <4>3. CASE t = ts /\ p \in from
        <5>1. lastTs[p] = tail[p] \/ lastTs[p] <= emitted
          BY <2>2 DEF IInv, Joining
        <5>2. ts > lastTs[p]
          BY <5>1, <4>3, <3>1, <2>5, <2>10
        <5> QED BY <4>3, <5>2, <2>6 DEF Accounted
      <4>4. ~(p \in step.pairs)
        BY <1>1 DEF NoStep
      <4> QED BY <3>1, <4>1, <4>2, <4>3, <4>4 DEF Accounted, from
    <3> QED BY <1>1, <3>1, NothingLostKept DEF IInv
  <2> QED BY <2>8, <2>9, <2>11, <2>12, <2>13, <2>14, <2>15 DEF IInv
<1> QED BY <1>2, <1>3

\* A lone pair's oldest candle is new, and is its next step.
LEMMA PassStep ==
  ASSUME IInv, Pass
  PROVE  IInv'
<1>1. /\ phase = "streaming" /\ ~Joined /\ step = NoStep
      /\ UNCHANGED <<pairs, now, served, phase, todo, baseline, tail, pending, round, emitted, seen,
                     dropped, faults>>
  BY DEF Pass, exchange
<1>2. PICK candle \in queue :
        /\ \A other \in queue : candle.ts <= other.ts
        /\ queue' = queue \ {candle} /\ Deliver(candle.ts, {candle.pair})
  BY DEF Pass
<1> DEFINE ts == candle.ts
           p == candle.pair
<1>3. /\ p \in pairs /\ ts \in 1 .. now /\ ts \in Nat /\ ts \in served[p] /\ ts > lastTs[p]
      /\ ts <= baseline[p] /\ candle = [pair |-> p, ts |-> ts]
      /\ \A q \in pairs : q = p
  <2>1. p \in pairs /\ ts \in 1 .. now /\ now \in Nat /\ candle = [pair |-> p, ts |-> ts]
    BY Facts DEF IInv
  <2>2. ts \in served[p] /\ ts > lastTs[p] /\ ts <= baseline[p]
    BY <1>1 DEF IInv, Published, Alone, Polled
  <2>3. \A q \in pairs : q = p
    BY <1>1, <2>1, LonePair DEF IInv
  <2> QED BY <2>1, <2>2, <2>3
<1>4. {p} \in SUBSET pairs /\ \A q \in {p} : ts \in served[q]
  BY <1>3
<1> HIDE DEF ts, p
<1>5. Deliver(ts, {p}) /\ queue' = queue \ {candle}
  BY <1>2 DEF ts, p
<1>6. /\ lastTs' \in [pairs -> Nat] /\ step' \in Step /\ store' \in [pairs -> SUBSET Nat]
      /\ \A q \in pairs : /\ store'[q] \subseteq served[q]
                          /\ lastTs'[q] = IF q \in {p} /\ ts > lastTs[q] THEN ts ELSE lastTs[q]
      /\ \A q \in {p} : ts > lastTs[q] => step'.ts = ts /\ q \in step'.pairs
  BY <1>1, <1>3, <1>4, <1>5, DeliverFacts
<1>7. lastTs'[p] = ts /\ step'.ts = ts /\ p \in step'.pairs
  BY <1>3, <1>6
<1>8. Typed'
  <2>1. queue' \subseteq Candle
    BY <1>5 DEF IInv, Typed
  <2> QED BY <1>1, <1>6, <2>1 DEF IInv, Typed, Candle, Step
<1>9. Published'
  <2>1. \A q \in pairs : lastTs'[q] \in served[q] \cup {0}
    BY <1>3, <1>7
  <2> QED BY <1>1, <1>5, <1>6, <2>1 DEF IInv, Published
<1>10. Polled' /\ Joining' /\ Unstarted'
  <2>1. \A q \in pairs : tail[q] <= lastTs'[q]
    <3>1. tail[p] \in Nat /\ lastTs[p] \in Nat /\ tail[p] <= lastTs[p]
      BY <1>3 DEF IInv, Typed, Polled
    <3> QED BY <3>1, <1>3, <1>7
  <2>2. Polled'
    BY <1>1, <1>5, <2>1 DEF IInv, Polled
  <2> QED BY <1>1, <2>2 DEF IInv, Joining, Unstarted, Joined
<1>11. Alone'
  <2>1. ASSUME NEW other \in queue' PROVE other.ts > lastTs'[other.pair]
    <3>1. /\ other \in queue /\ other # candle
          /\ other.pair \in pairs /\ other.ts \in 1 .. now
          /\ other = [pair |-> other.pair, ts |-> other.ts]
      BY <1>5, Facts DEF IInv
    <3>2. other.pair = p /\ ts <= other.ts
      BY <3>1, <1>2, <1>3 DEF ts
    <3>3. other.ts # ts
      BY <3>1, <3>2, <1>3
    <3>4. now \in Nat
      BY Facts DEF IInv
    <3> QED BY <3>1, <3>2, <3>3, <3>4, <1>3, <1>7
  <2>2. \A q \in pairs : lastTs'[q] <= baseline[q]
    BY <1>3, <1>7
  <2> QED BY <1>1, <2>1, <2>2 DEF IInv, Alone, Joined
<1>12. InOrder'
  BY <1>1, <1>3, <1>4, <1>5, DeliveredInOrder
<1>13. NothingLost'
  <2>1. ASSUME NEW q \in pairs, NEW t \in Nat, Accounted(q, t) PROVE Accounted(q, t)'
    <3>1. CASE [pair |-> q, ts |-> t] = candle
      <4>1. q = p /\ t = ts
        BY <3>1, <1>3
      <4> QED BY <4>1, <1>7 DEF Accounted
    <3>2. CASE [pair |-> q, ts |-> t] # candle
      <4>1. ~(q \in step.pairs)
        BY <1>1 DEF NoStep
      <4> QED BY <2>1, <3>2, <4>1, <1>1, <1>5 DEF Accounted, TimesOf
    <3> QED BY <3>1, <3>2
  <2> QED BY <1>1, <2>1, NothingLostKept DEF IInv
<1> QED BY <1>8, <1>9, <1>10, <1>11, <1>12, <1>13 DEF IInv

\* The engine's step joins those it has seen.
LEMMA ProcessStep ==
  ASSUME IInv, Process
  PROVE  IInv'
<1>1. /\ step # NoStep /\ seen' = Append(seen, step) /\ step' = NoStep
      /\ UNCHANGED <<pairs, store, now, served, phase, todo, baseline, tail, queue, pending, round,
                     emitted, lastTs, dropped, faults>>
  BY DEF Process, exchange
<1>2. seen \in Seq(Step) /\ step \in Step
  BY DEF IInv, Typed
<1>3. /\ seen' \in Seq(Step) /\ Len(seen) \in Nat
      /\ DOMAIN seen = 1 .. Len(seen) /\ DOMAIN seen' = 1 .. Len(seen) + 1
      /\ seen'[Len(seen) + 1] = step /\ \A i \in DOMAIN seen : seen'[i] = seen[i]
  BY <1>1, <1>2
<1>4. Typed'
  BY <1>1, <1>3 DEF IInv, Typed, Candle, Step, NoStep
<1>5. Published' /\ Polled' /\ Joining' /\ Alone' /\ Unstarted'
  BY <1>1 DEF IInv, Published, Polled, Joining, Alone, Unstarted, Joined
<1>6. InOrder'
  <2> SUFFICES ASSUME Even'
               PROVE  /\ \A i, j \in DOMAIN seen' : i < j => seen'[i].ts < seen'[j].ts
                      /\ \A i \in DOMAIN seen' : Passed(seen'[i].ts)
    BY <1>1 DEF InOrder, Passed, Joined
  <2>1. /\ \A i, j \in DOMAIN seen : i < j => seen[i].ts < seen[j].ts
        /\ \A i \in DOMAIN seen : Passed(seen[i].ts) /\ seen[i].ts < step.ts
        /\ Passed(step.ts)
    BY <1>1 DEF IInv, InOrder, Even
  <2>2. \A i \in DOMAIN seen' : i \in DOMAIN seen \/ i = Len(seen) + 1
    BY <1>3
  <2> QED BY <2>1, <2>2, <1>3
<1>7. NothingLost'
  <2>1. ASSUME NEW p \in pairs, NEW t \in Nat, Accounted(p, t) PROVE Accounted(p, t)'
    <3>1. CASE t = step.ts /\ p \in step.pairs
      <4>1. t \in TimesOf(p)'
        BY <3>1, <1>3 DEF TimesOf
      <4> QED BY <4>1 DEF Accounted
    <3>2. CASE t \in TimesOf(p)
      <4>1. t \in TimesOf(p)'
        BY <3>2, <1>3 DEF TimesOf
      <4> QED BY <4>1 DEF Accounted
    <3>3. CASE \/ [pair |-> p, ts |-> t] \in queue \cup dropped
               \/ t \in DOMAIN pending /\ p \in pending[t].pairs
      BY <3>3, <1>1 DEF Accounted
    <3> QED BY <2>1, <3>1, <3>2, <3>3 DEF Accounted
  <2> QED BY <1>1, <2>1, NothingLostKept DEF IInv
<1> QED BY <1>4, <1>5, <1>6, <1>7 DEF IInv

-----------------------------------------------------------------------------
(***************************************************************************)
(* The theorems.                                                           *)
(***************************************************************************)
\* Every action keeps the invariant.
LEMMA NextStep ==
  ASSUME IInv, [Next]_vars
  PROVE  IInv'
<1>1. CASE Close
  BY <1>1, CloseStep
<1>2. CASE \E p \in pairs : Commit(p)
  BY <1>2, CommitStep
<1>3. CASE Start
  BY <1>3, StartStep
<1>4. CASE Refresh
  BY <1>4, RefreshStep
<1>5. CASE ReadWarmup
  BY <1>5, ReadWarmupStep
<1>6. CASE \E p \in pairs : Poll(p)
  BY <1>6, PollStep
<1>7. CASE Drain
  BY <1>7, DrainStep
<1>8. CASE Emit
  BY <1>8, EmitStep
<1>9. CASE Pass
  BY <1>9, PassStep
<1>10. CASE Process
  BY <1>10, ProcessStep
<1>11. CASE \E ts \in 1 .. MaxNow : Expire(ts)
  BY <1>11, ExpireStep
<1>12. CASE Fail
  BY <1>12, FailStep
<1>13. CASE UNCHANGED vars
  <2>1. UNCHANGED <<pairs, now, served, store, phase, todo, baseline, tail, queue, pending, round,
                    emitted, lastTs, step, seen, dropped, faults>>
    BY <1>13 DEF vars
  <2>2. Typed' /\ Published'
    <3>1. Typed'
      BY <2>1 DEF IInv, Typed, Candle, Step
    <3> QED BY <2>1, <3>1 DEF IInv, Published
  <2>3. Polled' /\ Joining' /\ Alone' /\ Unstarted'
    BY <2>1 DEF IInv, Polled, Joining, Alone, Unstarted, Joined
  <2>4. InOrder' /\ NothingLost'
    <3>1. \A p \in pairs, t \in Nat : Accounted(p, t) => Accounted(p, t)'
      BY <2>1 DEF Accounted, TimesOf
    <3> QED BY <2>1, <3>1, InOrderKept, NothingLostKept DEF IInv
  <2> QED BY <2>2, <2>3, <2>4 DEF IInv
<1> QED BY <1>1, <1>2, <1>3, <1>4, <1>5, <1>6, <1>7, <1>8, <1>9, <1>10, <1>11, <1>12, <1>13
        DEF Next, Stream

\* The invariant holds in every run, whatever the exchange, the store and the
\* pollers do and in whichever order.
THEOREM FeedsInvariantAlways == Spec => []IInv
<1>1. Init => IInv
  BY InitStep
<1>2. IInv /\ [Next]_vars => IInv'
  BY NextStep
<1> QED BY <1>1, <1>2, PTL DEF Spec

\* The variables have their types; the store has no candle the exchange has
\* not closed, and what waits in the joiner comes after its last step.
THEOREM TypeOKAlways == Spec => []TypeOK
<1>1. IInv => TypeOK
  <2> SUFFICES ASSUME IInv PROVE TypeOK
    OBVIOUS
  <2>1. \A p \in pairs : /\ served[p] \in SUBSET (1 .. now) /\ store[p] \in SUBSET served[p]
                         /\ baseline[p] \in 0 .. now /\ lastTs[p] \in 0 .. now
    BY Facts DEF IInv
  <2>2. /\ store \in [pairs -> SUBSET (1 .. now)]
        /\ baseline \in [pairs -> 0 .. now] /\ lastTs \in [pairs -> 0 .. now]
    BY <2>1 DEF IInv, Typed
  <2> QED BY <2>2 DEF TypeOK, IInv, Typed, Joining, Alone
<1> QED BY <1>1, FeedsInvariantAlways, PTL

\* The engine sees one step per time, each later than the one before, when the
\* warm-ups of the pairs end at the same candle (UniverseCandleJoiner.stream).
THEOREM StepsRiseAlways == Spec => []StepsRise
<1>1. IInv => StepsRise
  BY DEF IInv, InOrder, Even, StepsRise, Rising
<1> QED BY <1>1, FeedsInvariantAlways, PTL

\* No candle between the warm-up and the last poll is lost while the exchange
\* still serves it (CandlePoller.stream, UniverseCandleJoiner.stream).
THEOREM NothingLostAlways == Spec => []NothingLost
<1>1. IInv => NothingLost
  BY DEF IInv
<1> QED BY <1>1, FeedsInvariantAlways, PTL

=============================================================================
