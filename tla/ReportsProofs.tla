--------------------------- MODULE ReportsProofs ---------------------------
(***************************************************************************)
(* Proofs about the reports: the strengthenings are invariants, and with   *)
(* them the rolling-origin report judges one account, the curve of a       *)
(* resume chain is the chain's ledger, a trial that comes up for review    *)
(* has earned it, and one that is invalid stays so.                        *)
(***************************************************************************)
EXTENDS ReportsInvariant, DataLemmas

-----------------------------------------------------------------------------
(***************************************************************************)
(* The invariant.                                                          *)
(***************************************************************************)
\* What the last point is to the others.
LEMMA LastPoint ==
  ASSUME Typed, PointsInOrder, points # <<>>
  PROVE  /\ Last(points) = points[Len(points)] /\ Last(points) \in PointRow
         /\ \A i \in 1 .. Len(points) : points[i].ts <= Last(points).ts
<1>1. points \in Seq(PointRow) /\ Len(points) \in 1 .. Len(points)
  BY DEF Typed
<1>2. Last(points) = points[Len(points)]
  BY DEF Last
<1>3. \A i \in 1 .. Len(points) : points[i] \in PointRow
  BY <1>1
<1>4. ASSUME NEW i \in 1 .. Len(points) PROVE points[i].ts <= points[Len(points)].ts
  <2>1. CASE i = Len(points)
    BY <1>3, <2>1 DEF PointRow
  <2>2. CASE i < Len(points)
    BY <1>1, <2>2 DEF PointsInOrder
  <2> QED BY <1>1, <2>1, <2>2
<1> QED BY <1>1, <1>2, <1>3, <1>4

\* The last full step before now is less than a step ago.
LEMMA FloorIs ==
  ASSUME NEW t \in Nat, NEW s \in Nat \ {0}
  PROVE  (t \div s) * s \in Int /\ t - s < (t \div s) * s
<1> DEFINE q == t \div s
           r == t % s
<1>1. q \in Int /\ r \in 0 .. s - 1 /\ t = s * q + r
  OBVIOUS
<1>2. s * q \in Int /\ q * s = s * q
  BY <1>1
<1> HIDE DEF q, r
<1>3. t - s < s * q
  BY <1>1, <1>2
<1> QED BY <1>2, <1>3 DEF q

\* The initial state.
LEMMA StartsInductive ==
  ASSUME Init
  PROVE  Inductive
<1>1. Capital \in Int
  BY ReportsAssumption
<1>2. points = <<>> /\ fills = <<>> /\ runs = <<>> /\ order = 0
  BY DEF Init
<1>3. Len(<<>>) = 0 /\ 1 .. 0 = {}
  OBVIOUS
<1>4. Typed
  BY <1>1, <1>2, <1>3 DEF Init, Typed, NewLedger
<1> QED BY <1>2, <1>3, <1>4 DEF Inductive, PointsInOrder, NextIsNew, FillsAreSignalled

\* A run starts: it has no points yet, and its next candle is none before the
\* last one recorded.
LEMMA StartRunKeeps ==
  ASSUME Inductive, StartRun
  PROVE  Inductive'
<1> USE DEF Inductive
<1> DEFINE n == Len(runs)
           RunRow == [from : Nat, config : Configs, started : Nat, ended : Nat,
                      status : {"running", "halted", "failed"}, halt : Halts]
<1>1. /\ points' = points /\ fills' = fills /\ now' = now /\ order' = 0
      /\ next' \in {(now \div Step) * Step} \cup (IF runs = <<>> THEN {} ELSE {next} \cup Again)
  BY DEF StartRun
<1>2. PICK config \in Configs, resumed \in BOOLEAN :
        LET stale  == runs # <<>> /\ Tip.status = "running"
            before == IF stale THEN [runs EXCEPT ![Len(runs)] =
                                       [@ EXCEPT !.status = "halted", !.halt = "superseded", !.ended = now]]
                               ELSE runs
        IN /\ runs' = Append(before, [config |-> config, started |-> now, ended |-> 0,
                                      status |-> "running", halt |-> None,
                                      from |-> IF resumed THEN Len(runs) ELSE 0])
           /\ ledger' = IF resumed THEN ledger ELSE NewLedger
  <2>1. \A config \in Configs : Resumes(config) \in BOOLEAN
    BY DEF Resumes
  <2>2. Originals \subseteq Configs
    BY ReportsAssumption
  <2> QED BY <2>1, <2>2 DEF StartRun
<1> DEFINE stale == runs # <<>> /\ Tip.status = "running"
           before == IF stale THEN [runs EXCEPT ![Len(runs)] =
                                      [@ EXCEPT !.status = "halted", !.halt = "superseded", !.ended = now]]
                              ELSE runs
           row == [config |-> config, started |-> now, ended |-> 0, status |-> "running",
                   halt |-> None, from |-> IF resumed THEN Len(runs) ELSE 0]
<1>3. runs \in Seq(RunRow) /\ n \in Nat /\ now \in Nat /\ \A i \in 1 .. n : runs[i].from \in {0, i - 1}
  BY DEF Typed
<1>4. before \in Seq(RunRow) /\ Len(before) = n /\ \A i \in 1 .. n : before[i].from = runs[i].from
  <2>1. CASE ~stale
    BY <1>3, <2>1
  <2>2. CASE stale
    <3> DEFINE old == runs[n]
               new == [old EXCEPT !.status = "halted", !.halt = "superseded", !.ended = now]
    <3>1. n \in 1 .. n /\ old \in RunRow
      <4>1. runs # <<>>
        BY <2>2
      <4> HIDE DEF RunRow
      <4>2. n \in 1 .. n
        BY <1>3, <4>1
      <4> QED BY <1>3, <4>2
    <3>2. new \in RunRow /\ new.from = old.from
      BY <1>3, <3>1 DEF Halts
    <3>3. before = [runs EXCEPT ![n] = new]
      BY <2>2
    <3> HIDE DEF new, before, RunRow
    <3>4. /\ before \in Seq(RunRow) /\ Len(before) = n /\ before[n] = new
          /\ \A i \in 1 .. n : i # n => before[i] = runs[i]
      BY <1>3, <3>1, <3>2, <3>3, RowReplaced
    <3> QED BY <3>1, <3>2, <3>4
  <2> QED BY <2>1, <2>2
<1>5. row \in RunRow /\ row.from \in {0, n}
  BY <1>3 DEF Halts
<1>6. runs' = Append(before, row)
  BY <1>2
<1>7. /\ runs' \in Seq(RunRow) /\ Len(runs') = n + 1 /\ Len(runs)' = n + 1
      /\ \A i \in 1 .. n + 1 : runs'[i].from \in {0, i - 1}
  <2> HIDE DEF before, row, RunRow, n
  <2>1. runs' \in Seq(RunRow) /\ Len(runs') = n + 1 /\ runs'[n + 1] = row
        /\ \A i \in 1 .. n : runs'[i] = before[i]
    BY <1>3, <1>4, <1>5, <1>6
  <2>2. ASSUME NEW i \in 1 .. n + 1 PROVE runs'[i].from \in {0, i - 1}
    <3>1. CASE i = n + 1
      BY <1>3, <1>5, <2>1, <3>1
    <3>2. CASE i \in 1 .. n
      BY <1>3, <1>4, <2>1, <3>2
    <3> QED BY <1>3, <3>1, <3>2
  <2> QED BY <2>1, <2>2
<1>8. ledger'.equity \in Int /\ ledger'.held \in Int /\ DOMAIN ledger' = {"held", "equity"}
  BY <1>2, ReportsAssumption DEF Typed, NewLedger
<1>9. Step \in Nat \ {0} /\ next \in Int
  BY ReportsAssumption DEF Typed
<1>10. next' \in Int
  BY <1>1, <1>3, <1>9, FloorIs DEF Again
<1> HIDE DEF row, before, stale
<1>11. Typed'
  <2> HIDE DEF n
  <2>0. runs' # <<>>
    BY <1>6
  <2>1. \A i \in 1 .. Len(runs)' : runs'[i].from \in {0, i - 1}
    BY <1>7
  <2>2. points' \in Seq(PointRow) /\ fills' \in Seq(FillRow) /\ now' \in Nat /\ order' \in Int
    BY <1>1 DEF Typed
  <2> QED BY <1>7, <1>8, <1>10, <2>0, <2>1, <2>2 DEF Typed
<1>12. \A i \in 1 .. Len(points) : points[i].ts <= next'
  <2>1. CASE next' = (now \div Step) * Step
    <3>1. \A i \in 1 .. Len(points) : points[i].ts + Step <= now /\ points[i].ts \in Int
      <4>1. \A i \in 1 .. Len(points) : points[i] \in PointRow
        BY DEF Typed
      <4> QED BY <4>1 DEF NextIsNew, PointRow
    <3>2. next' \in Int /\ now - Step < next'
      BY <1>3, <1>9, <2>1, FloorIs
    <3> QED BY <1>3, <1>9, <3>1, <3>2
  <2>2. CASE next' = next
    BY <2>2 DEF NextIsNew
  <2>3. CASE points # <<>> /\ Last(points).ts = next - Step /\ next' = next - Step
    BY <2>3, LastPoint
  <2> QED BY <1>1, <2>1, <2>2, <2>3 DEF Again
<1>13. NextIsNew'
  <2> HIDE DEF n
  <2>1. \A i \in 1 .. Len(points) : points[i].run \in 1 .. n + 1 /\ points[i].run # n + 1
    <3>1. \A i \in 1 .. Len(points) : points[i].run \in 1 .. n
      BY DEF NextIsNew, n
    <3>2. \A e \in 1 .. n : e \in 1 .. n + 1 /\ e # n + 1
      BY <1>3
    <3> QED BY <3>1, <3>2
  <2> QED BY <1>1, <1>7, <1>12, <2>1 DEF NextIsNew
<1> QED BY <1>1, <1>11, <1>13 DEF PointsInOrder, FillsAreSignalled, Signalled

\* A run ends: its row says how.
LEMMA EndRunKeeps ==
  ASSUME Inductive, EndRun
  PROVE  Inductive'
<1> USE DEF Inductive
<1> DEFINE n == Len(runs)
           RunRow == [from : Nat, config : Configs, started : Nat, ended : Nat,
                      status : {"running", "halted", "failed"}, halt : Halts]
<1>1. /\ points' = points /\ fills' = fills /\ now' = now /\ order' = order /\ next' = next
      /\ ledger' = ledger
  BY DEF EndRun
<1>2. PICK how \in Ends :
        runs' = IF how = "crash" THEN runs
                ELSE [runs EXCEPT ![n] = [@ EXCEPT !.ended = now,
                                           !.status = IF how = "failed" THEN "failed" ELSE "halted",
                                           !.halt = IF how = "failed" THEN None ELSE how]]
  BY DEF EndRun
<1>3. runs \in Seq(RunRow) /\ n \in Nat /\ now \in Nat /\ \A i \in 1 .. n : runs[i].from \in {0, i - 1}
  BY DEF Typed
<1>4. /\ runs' \in Seq(RunRow) /\ Len(runs') = n /\ Len(runs)' = n
      /\ \A i \in 1 .. n : runs'[i].from = runs[i].from
  <2>1. CASE how = "crash"
    BY <1>2, <1>3, <2>1
  <2>2. CASE how # "crash"
    <3> DEFINE old == runs[n]
               new == [old EXCEPT !.ended = now,
                                  !.status = IF how = "failed" THEN "failed" ELSE "halted",
                                  !.halt = IF how = "failed" THEN None ELSE how]
    <3>1. n \in 1 .. n /\ old \in RunRow
      <4> HIDE DEF RunRow
      <4>1. n \in 1 .. n
        BY <1>3 DEF Typed, EndRun
      <4> QED BY <1>3, <4>1
    <3>2. new \in RunRow /\ new.from = old.from
      <4>1. how = "failed" \/ how \in Halts
        BY <2>2, ReportsAssumption DEF Halts
      <4> QED BY <1>3, <3>1, <4>1 DEF Halts
    <3>3. runs' = [runs EXCEPT ![n] = new]
      BY <1>2, <2>2
    <3> HIDE DEF new, RunRow
    <3>4. /\ runs' \in Seq(RunRow) /\ Len(runs') = n /\ runs'[n] = new
          /\ \A i \in 1 .. n : i # n => runs'[i] = runs[i]
      BY <1>3, <3>1, <3>2, <3>3, RowReplaced
    <3> QED BY <3>1, <3>2, <3>4
  <2> QED BY <2>1, <2>2
<1>5. Typed'
  <2> HIDE DEF n
  <2>1. \A i \in 1 .. Len(runs)' : runs'[i].from \in {0, i - 1}
    BY <1>3, <1>4
  <2>2. ~alive'
    BY DEF EndRun
  <2> QED BY <1>1, <1>4, <2>1, <2>2 DEF Typed
<1>6. NextIsNew'
  <2> HIDE DEF n
  <2> QED BY <1>1, <1>4 DEF NextIsNew, n
<1> QED BY <1>1, <1>4, <1>5, <1>6 DEF PointsInOrder, FillsAreSignalled, Signalled

\* A candle closes: its point is the newest run's and later than all of them,
\* and so is the fill of what the run ordered on an earlier one.
LEMMA CandleKeeps ==
  ASSUME Inductive, Candle
  PROVE  Inductive'
<1> USE DEF Inductive
<1> DEFINE n == Len(runs)
           m == Len(points)
<1>1. PICK move \in Int :
        LET held   == ledger.held + order
            equity == ledger.equity + move
        IN /\ ledger' = [held |-> held, equity |-> equity]
           /\ points' = Append(points, [run |-> n, ts |-> next, equity |-> equity])
           /\ fills' = IF order = 0 THEN fills
                       ELSE Append(fills, [run |-> n, ts |-> next, units |-> order])
           /\ order' \in {0} \cup (IF held = 0 THEN {Lots} ELSE {-u : u \in 1 .. held})
  <2>1. Moves \subseteq Int /\ {0} \subseteq Int
    BY ReportsAssumption
  <2>2. (IF ledger.held > 0 \/ order > 0 THEN Moves ELSE {0}) \subseteq Int
    BY <2>1
  <2> QED BY <2>2 DEF Candle
<1>2. next + Step <= now /\ next' = next + Step /\ runs' = runs /\ now' = now /\ alive' = alive /\ alive
  BY DEF Candle
<1> DEFINE equity == ledger.equity + move
           held == ledger.held + order
           point == [run |-> n, ts |-> next, equity |-> equity]
           fill == [run |-> n, ts |-> next, units |-> order]
<1>3. /\ now \in Nat /\ next \in Int /\ order \in Int /\ Step \in Nat \ {0} /\ Lots \in Int
      /\ equity \in Int /\ held \in Int /\ n \in Nat /\ m \in Nat
      /\ points \in Seq(PointRow) /\ fills \in Seq(FillRow)
  <2>1. /\ now \in Nat /\ next \in Int /\ order \in Int /\ ledger.equity \in Int /\ ledger.held \in Int
        /\ points \in Seq(PointRow) /\ fills \in Seq(FillRow)
        /\ runs \in Seq([from : Nat, config : Configs, started : Nat, ended : Nat,
                         status : {"running", "halted", "failed"}, halt : Halts])
    BY DEF Typed
  <2>2. Step \in Nat \ {0} /\ Lots \in Int
    BY ReportsAssumption
  <2>3. n \in Nat /\ m \in Nat
    BY <2>1
  <2>4. equity \in Int /\ held \in Int
    BY <2>1
  <2> HIDE DEF equity, held, n, m
  <2> QED BY <2>1, <2>2, <2>3, <2>4
<1>4. point \in PointRow /\ fill \in FillRow
  BY <1>3 DEF PointRow, FillRow
<1>5. /\ points' = Append(points, point)
      /\ fills' = IF order = 0 THEN fills ELSE Append(fills, fill)
  BY <1>1
<1>6. order' \in Int
  BY <1>1, <1>3
<1>7. n \in 1 .. n
  <2>1. runs # <<>> /\ \A i \in 1 .. Len(runs) : TRUE
    BY <1>2 DEF Typed
  <2>2. runs \in Seq([from : Nat, config : Configs, started : Nat, ended : Nat,
                      status : {"running", "halted", "failed"}, halt : Halts])
    BY DEF Typed
  <2> QED BY <2>1, <2>2
<1> HIDE DEF equity, held, n
<1>8. /\ points' \in Seq(PointRow) /\ Len(points)' = m + 1 /\ points'[m + 1] = point
      /\ \A i \in 1 .. m : points'[i] = points[i] /\ points[i] \in PointRow
  BY <1>3, <1>4, <1>5
<1>9. fills' \in Seq(FillRow)
  BY <1>3, <1>4, <1>5
<1>10. Typed'
  <2>1. ledger'.equity \in Int /\ ledger'.held \in Int /\ DOMAIN ledger' = {"held", "equity"}
    BY <1>1, <1>3 DEF equity, held
  <2>2. next' \in Int
    BY <1>2, <1>3
  <2> QED BY <1>2, <1>6, <1>8, <1>9, <2>1, <2>2 DEF Typed
<1>11. \A i \in 1 .. m : /\ points[i].run \in 1 .. n /\ points[i].ts \in Int /\ points[i].ts + Step <= now
                        /\ points[i].ts <= next /\ (points[i].run = n => points[i].ts < next)
  BY <1>8 DEF NextIsNew, PointRow, n
<1>12. PointsInOrder'
  <2> SUFFICES ASSUME NEW i \in 1 .. m + 1, NEW j \in 1 .. m + 1, i < j
               PROVE  /\ points'[i].run <= points'[j].run
                      /\ points'[i].ts <= points'[j].ts
                      /\ points'[i].run = points'[j].run => points'[i].ts < points'[j].ts
    BY <1>8 DEF PointsInOrder
  <2>1. CASE j = m + 1
    <3>1. i \in 1 .. m
      BY <1>3, <2>1
    <3>2. points'[i] = points[i]
      BY <1>8, <3>1
    <3>3. points'[j].run = n /\ points'[j].ts = next
      BY <1>8, <2>1
    <3> QED BY <1>3, <1>11, <3>1, <3>2, <3>3
  <2>2. CASE j # m + 1
    <3>1. i \in 1 .. m /\ j \in 1 .. m
      BY <1>3, <2>2
    <3> QED BY <1>8, <3>1 DEF PointsInOrder
  <2> QED BY <2>1, <2>2
<1>13. NextIsNew'
  <2>1. ASSUME NEW i \in 1 .. m + 1
        PROVE  /\ points'[i].run \in 1 .. n /\ points'[i].ts + Step <= now
               /\ points'[i].ts <= next' /\ points'[i].ts < next'
    <3>1. CASE i = m + 1
      BY <1>2, <1>3, <1>7, <1>8, <3>1
    <3>2. CASE i # m + 1
      <4>1. i \in 1 .. m /\ points'[i] = points[i]
        BY <1>3, <1>8, <3>2
      <4>2. /\ points[i].run \in 1 .. n /\ points[i].ts \in Int /\ points[i].ts + Step <= now
            /\ points[i].ts <= next
        BY <1>11, <4>1
      <4>3. points[i].ts <= next' /\ points[i].ts < next'
        BY <1>2, <1>3, <4>2
      <4> QED BY <4>1, <4>2, <4>3
    <3> QED BY <3>1, <3>2
  <2> HIDE DEF m
  <2> QED BY <1>2, <1>8, <2>1 DEF NextIsNew, n
<1> DEFINE Then(run, ts) == \E i \in 1 .. m + 1 : points'[i].run = run /\ points'[i].ts < ts
<1>14. \A run, ts : Signalled(run, ts) => Then(run, ts)
  BY <1>3, <1>8 DEF Signalled
<1>15. order # 0 => Signalled(n, next)
  BY <1>11 DEF FillsAreSignalled, Signalled, n
<1>16. \A k \in 1 .. Len(fills') : Then(fills'[k].run, fills'[k].ts)
  <2> HIDE DEF Then
  <2>1. CASE order = 0
    BY <1>5, <1>14, <2>1 DEF FillsAreSignalled
  <2>2. CASE order # 0
    <3>1. /\ Len(fills') = Len(fills) + 1 /\ fills'[Len(fills) + 1] = fill /\ Len(fills) \in Nat
          /\ \A k \in 1 .. Len(fills) : fills'[k] = fills[k]
      BY <1>3, <1>4, <1>5, <2>2
    <3>2. Then(fill.run, fill.ts)
      BY <1>14, <1>15, <2>2
    <3>3. \A k \in 1 .. Len(fills) : Then(fills[k].run, fills[k].ts)
      BY <1>14 DEF FillsAreSignalled
    <3> HIDE DEF fill
    <3>4. ASSUME NEW k \in 1 .. Len(fills') PROVE Then(fills'[k].run, fills'[k].ts)
      <4>1. CASE k = Len(fills) + 1
        BY <3>1, <3>2, <4>1
      <4>2. CASE k \in 1 .. Len(fills)
        BY <3>1, <3>3, <4>2
      <4> QED BY <3>1, <4>1, <4>2
    <3> QED BY <3>4
  <2> QED BY <2>1, <2>2
<1>17. order' # 0 => \E i \in 1 .. m + 1 : points'[i].run = n
  BY <1>3, <1>8
<1>18. FillsAreSignalled'
  BY <1>2, <1>8, <1>16, <1>17 DEF FillsAreSignalled, Signalled, n
<1> QED BY <1>10, <1>12, <1>13, <1>18

\* Every step preserves the strengthening.
LEMMA StepKeepsInductive ==
  ASSUME Inductive, [Next]_vars
  PROVE  Inductive'
<1>1. CASE Tick
  <2>1. now' = now + 1 /\ now \in Nat /\ UNCHANGED <<alive, runs, points, fills, order, ledger, next>>
    BY <1>1 DEF Tick, Inductive, Typed
  <2>2. Typed'
    BY <2>1 DEF Inductive, Typed
  <2>3. \A i \in 1 .. Len(points) : points[i].ts + Step <= now => points[i].ts + Step <= now'
    <3>1. \A i \in 1 .. Len(points) : points[i].ts \in Int
      <4>1. \A i \in 1 .. Len(points) : points[i] \in PointRow
        BY DEF Inductive, Typed
      <4> QED BY <4>1 DEF PointRow
    <3>2. Step \in Int
      BY ReportsAssumption
    <3> QED BY <2>1, <3>1, <3>2
  <2>4. NextIsNew'
    BY <2>1, <2>3 DEF Inductive, NextIsNew
  <2> QED BY <2>1, <2>2, <2>4 DEF Inductive, PointsInOrder, FillsAreSignalled, Signalled
<1>2. CASE UNCHANGED <<now, alive, runs, points, fills, order, ledger, next>>
  BY <1>2 DEF Inductive, Typed, PointsInOrder, NextIsNew, FillsAreSignalled, Signalled
<1>3. CASE StartRun
  BY <1>3, StartRunKeeps
<1>4. CASE EndRun
  BY <1>4, EndRunKeeps
<1>5. CASE Candle
  BY <1>5, CandleKeeps
<1>6. CASE RecordCost
  BY <1>2, <1>6 DEF RecordCost
<1>7. CASE Register
  BY <1>2, <1>7 DEF Register
<1>8. CASE UNCHANGED vars
  BY <1>2, <1>8 DEF vars
<1> QED BY <1>1, <1>3, <1>4, <1>5, <1>6, <1>7, <1>8 DEF Next

\* The strengthening is an invariant: whatever runs crash, are put back or
\* process a candle again, the recorded points stay in the order of runs and
\* candles, and no fill is without an earlier candle of its run.
THEOREM RecordsAreInOrder == Spec => []Inductive
<1>1. Init => Inductive
  BY StartsInductive
<1>2. Inductive /\ [Next]_vars => Inductive'
  BY StepKeepsInductive
<1> QED BY <1>1, <1>2, PTL DEF Spec

-----------------------------------------------------------------------------
(***************************************************************************)
(* The resume chain of a run.                                              *)
(***************************************************************************)
\* It ends with the run, each resumes the one before it in the chain, and
\* the first resumes none.
IsChain(s, i) ==
  /\ s \in Seq(1 .. i) /\ Len(s) \in Nat
  /\ i # 0 => Len(s) > 0 /\ s[Len(s)] = i
  /\ \A a \in 1 .. Len(s) : \A b \in 1 .. Len(s) : a < b => s[a] < s[b]
  /\ \A a \in 1 .. Len(s) : runs[s[a]].from = 0 <=> a = 1

\* A sequence of one.
LEMMA Singleton ==
  ASSUME NEW S, NEW e \in S
  PROVE  <<e>> \in Seq(S) /\ Len(<<e>>) = 1 /\ <<e>>[1] = e
OBVIOUS

\* One run more.
LEMMA ChainGrows ==
  ASSUME NEW k \in Nat, NEW s, IsChain(s, k), runs[k + 1].from \in {0, k},
         NEW t, t = IF runs[k + 1].from = 0 THEN <<k + 1>> ELSE Append(s, k + 1)
  PROVE  IsChain(t, k + 1)
<1>1. CASE runs[k + 1].from = 0
  <2> DEFINE e == k + 1
             S == 1 .. e
  <2>1. t = <<e>> /\ e \in S
    BY <1>1
  <2> HIDE DEF e, S
  <2>2. t \in Seq(S) /\ Len(t) = 1 /\ t[1] = e
    BY ONLY <2>1, Singleton
  <2> USE DEF e, S
  <2> QED BY <1>1, <2>2 DEF IsChain
<1>2. CASE runs[k + 1].from # 0
  <2> DEFINE l == Len(s)
  <2>1. k # 0 /\ s \in Seq(1 .. k) /\ l \in Nat /\ l > 0 /\ t = Append(s, k + 1)
    BY <1>2 DEF IsChain
  <2>2. /\ t \in Seq(1 .. k + 1) /\ Len(t) = l + 1 /\ t[l + 1] = k + 1
        /\ \A a \in 1 .. l : t[a] = s[a] /\ s[a] \in 1 .. k
    <3>1. s \in Seq(1 .. k + 1)
      <4>1. 1 .. k \subseteq 1 .. k + 1
        OBVIOUS
      <4> QED BY <2>1, <4>1
    <3> DEFINE e == k + 1
               S == 1 .. e
    <3>2. e \in S /\ s \in Seq(S) /\ t = Append(s, e)
      BY <2>1, <3>1
    <3>3. \A a \in 1 .. l : s[a] \in 1 .. k
      BY <2>1
    <3> HIDE DEF e, S
    <3>4. /\ t \in Seq(S) /\ Len(t) = l + 1 /\ t[l + 1] = e
          /\ \A a \in 1 .. l : t[a] = s[a]
      BY <2>1, <3>2
    <3> QED BY <3>3, <3>4 DEF e, S
  <2>3. ASSUME NEW a \in 1 .. l + 1, NEW b \in 1 .. l + 1, a < b PROVE t[a] < t[b]
    <3>1. a \in 1 .. l /\ (b = l + 1 \/ b \in 1 .. l)
      BY <2>1, <2>3
    <3> QED BY <2>2, <2>3, <3>1 DEF IsChain
  <2>4. ASSUME NEW a \in 1 .. l + 1 PROVE runs[t[a]].from = 0 <=> a = 1
    <3>1. CASE a = l + 1
      BY <1>2, <2>1, <2>2, <3>1
    <3>2. CASE a \in 1 .. l
      BY <2>2, <3>2 DEF IsChain
    <3> QED BY <2>1, <3>1, <3>2
  <2> QED BY <2>1, <2>2, <2>3, <2>4 DEF IsChain
<1> QED BY <1>1, <1>2

\* The recursion has a solution, from the first run on.
LEMMA ChainsAre ==
  ASSUME Typed
  PROVE  \A i \in 0 .. Len(runs) : IsChain(ChainOf[i], i)
<1> DEFINE n == Len(runs)
           body(h) == [i \in 0 .. n |-> IF i = 0 THEN <<>> ELSE Append(h[runs[i].from], i)]
           Right(h, i) == h[i] = IF i = 0 THEN <<>> ELSE Append(h[runs[i].from], i)
           Solves(h, k) == h = [i \in 0 .. n |-> h[i]] /\ \A i \in 0 .. k : Right(h, i)
           Solved == {k \in 0 .. n : \E h : Solves(h, k)}
<1>1. n \in Nat /\ \A i \in 1 .. n : runs[i].from \in {0, i - 1}
  BY DEF Typed
<1> HIDE DEF n
<1>2. 0 \in Solved
  <2> DEFINE h == [i \in 0 .. n |-> <<>>]
  <2>1. Solves(h, 0)
    BY <1>1
  <2> HIDE DEF h, Solves
  <2> QED BY <1>1, <2>1
<1>3. ASSUME NEW k \in Solved, k < n PROVE k + 1 \in Solved
  <2>1. k \in 0 .. n /\ k + 1 \in 1 .. n
    BY <1>1, <1>3
  <2>2. PICK h : Solves(h, k)
    OBVIOUS
  <2>0. \A i \in 0 .. k : h[i] = IF i = 0 THEN <<>> ELSE Append(h[runs[i].from], i)
    BY <2>2
  <2> DEFINE more == [i \in 0 .. n |-> IF i = k + 1 THEN Append(h[runs[i].from], i) ELSE h[i]]
  <2>3. ASSUME NEW i \in 0 .. k + 1 PROVE Right(more, i)
    <3>1. CASE i = 0
      <4>1. 0 \in 0 .. n /\ 0 \in 0 .. k /\ 0 # k + 1
        BY <1>1, <2>1
      <4>2. more[0] = h[0] /\ h[0] = <<>>
        BY <2>0, <4>1
      <4> HIDE DEF more
      <4> QED BY <3>1, <4>2
    <3>2. CASE i \in 1 .. k
      <4>1. runs[i].from \in 0 .. n /\ runs[i].from # k + 1 /\ i \in 0 .. n /\ i # k + 1 /\ i # 0
        BY <1>1, <2>1, <3>2
      <4>2. more[i] = h[i] /\ more[runs[i].from] = h[runs[i].from]
        BY <4>1
      <4>3. h[i] = Append(h[runs[i].from], i)
        <5>1. i \in 0 .. k
          BY <2>1, <3>2
        <5> QED BY <2>0, <4>1, <5>1
      <4> HIDE DEF more
      <4> QED BY <4>1, <4>2, <4>3
    <3>3. CASE i = k + 1
      <4>1. runs[i].from \in 0 .. n /\ runs[i].from # k + 1 /\ i \in 0 .. n /\ i # 0
        BY <1>1, <2>1, <3>3
      <4>2. more[i] = Append(h[runs[i].from], i) /\ more[runs[i].from] = h[runs[i].from]
        BY <3>3, <4>1
      <4> HIDE DEF more
      <4> QED BY <4>1, <4>2
    <3> QED BY <2>1, <3>1, <3>2, <3>3
  <2>4. more = [i \in 0 .. n |-> more[i]]
    OBVIOUS
  <2> HIDE DEF more, Right
  <2>5. Solves(more, k + 1)
    BY <2>3, <2>4
  <2> HIDE DEF Solves
  <2> QED BY <2>1, <2>5
<1>4. \E h : h = body(h)
  <2>1. n \in 0 .. n
    BY <1>1
  <2> HIDE DEF Solved
  <2>2. n \in Solved
    BY <1>1, <1>2, <1>3, <2>1, Climbing
  <2>3. PICK h : Solves(h, n)
    BY <2>2 DEF Solved
  <2>4. [i \in 0 .. n |-> h[i]] = body(h)
    BY <2>3
  <2>5. h = body(h)
    BY <2>3, <2>4
  <2> HIDE DEF body
  <2> QED BY <2>5
<1>5. ChainOf = body(ChainOf)
  <2> DEFINE g == CHOOSE h : h = body(h)
  <2>1. ChainOf = g
    BY DEF ChainOf, n
  <2>2. g = body(g)
    <3> HIDE DEF body
    <3> QED BY <1>4
  <2> HIDE DEF g
  <2> QED BY <2>1, <2>2
<1>6. ChainOf[0] = <<>> /\ \A i \in 1 .. n : ChainOf[i] = Append(ChainOf[runs[i].from], i)
  <2> DEFINE c == ChainOf
  <2>1. c = body(c)
    BY <1>5
  <2> HIDE DEF c
  <2>2. \A i \in 0 .. n : c[i] = IF i = 0 THEN <<>> ELSE Append(c[runs[i].from], i)
    BY <2>1
  <2>3. 0 \in 0 .. n /\ \A i \in 1 .. n : i \in 0 .. n /\ i # 0
    BY <1>1
  <2>4. c[0] = <<>>
    BY <2>2, <2>3
  <2>5. ASSUME NEW i \in 1 .. n PROVE c[i] = Append(c[runs[i].from], i)
    BY <2>2, <2>3
  <2> QED BY <2>4, <2>5 DEF c
<1> DEFINE Held == {k \in 0 .. n : IsChain(ChainOf[k], k)}
<1>7. 0 \in Held
  <2> DEFINE S == 1 .. 0
  <2>1. S = {}
    OBVIOUS
  <2> HIDE DEF S
  <2>2. <<>> \in Seq(S) /\ Len(<<>>) = 0
    OBVIOUS
  <2>3. IsChain(<<>>, 0)
    BY <2>1, <2>2 DEF IsChain, S
  <2> QED BY <1>1, <1>6, <2>3
<1>8. ASSUME NEW k \in Held, k < n PROVE k + 1 \in Held
  <2>1. k \in Nat /\ k + 1 \in 1 .. n /\ k + 1 \in 0 .. n /\ IsChain(ChainOf[k], k)
        /\ runs[k + 1].from \in {0, k}
    BY <1>1, <1>8
  <2>2. ChainOf[k + 1] = IF runs[k + 1].from = 0 THEN <<k + 1>> ELSE Append(ChainOf[k], k + 1)
    <3>1. ChainOf[k + 1] = Append(ChainOf[runs[k + 1].from], k + 1)
      BY <1>6, <2>1
    <3>2. Append(<<>>, k + 1) = <<k + 1>>
      OBVIOUS
    <3> QED BY <1>6, <2>1, <3>1, <3>2
  <2>3. IsChain(ChainOf[k + 1], k + 1)
    BY <2>1, <2>2, ChainGrows
  <2> QED BY <2>1, <2>3
<1>9. \A k \in 0 .. n : k \in Held
  <2> HIDE DEF Held
  <2> QED BY <1>1, <1>7, <1>8, Climbing
<1> QED BY <1>9 DEF n

\* The chain of the newest run: its members are runs, none before the first.
LEMMA ChainIs ==
  ASSUME Typed, runs # <<>>
  PROVE  /\ IsChain(Chain, Len(runs)) /\ Len(Chain) > 0 /\ Head(Chain) = Chain[1]
         /\ Head(Chain) \in Range(Chain)
         /\ \A i \in Range(Chain) : i \in 1 .. Len(runs) /\ Head(Chain) <= i
<1> DEFINE n == Len(runs)
<1>1. n \in 1 .. n /\ n \in 0 .. n /\ n # 0
  BY DEF Typed
<1>2. IsChain(Chain, n)
  BY <1>1, ChainsAre DEF Chain
<1> HIDE DEF n
<1>3. Chain \in Seq(1 .. n) /\ Len(Chain) \in Nat /\ Len(Chain) > 0
  BY <1>1, <1>2 DEF IsChain
<1>4. DOMAIN Chain = 1 .. Len(Chain) /\ Head(Chain) = Chain[1]
  BY <1>3
<1>5. ASSUME NEW i \in Range(Chain) PROVE i \in 1 .. n /\ Chain[1] <= i
  <2>1. PICK a \in 1 .. Len(Chain) : i = Chain[a]
    BY <1>4 DEF Range
  <2>2. i \in 1 .. n /\ Chain[1] \in 1 .. n
    <3> DEFINE S == 1 .. n
               c == Chain
    <3>1. c \in Seq(S) /\ 1 \in 1 .. Len(c) /\ i = c[a]
      BY <1>3, <2>1
    <3> HIDE DEF S, c
    <3>2. c[a] \in S /\ c[1] \in S
      BY <2>1, <3>1 DEF c
    <3> QED BY <2>1, <3>2 DEF S, c
  <2>3. a = 1 \/ Chain[1] < Chain[a]
    BY <1>2, <1>3 DEF IsChain
  <2> QED BY <2>1, <2>2, <2>3
<1>6. Chain[1] \in Range(Chain)
  BY <1>3, <1>4 DEF Range
<1> QED BY <1>2, <1>3, <1>4, <1>5, <1>6 DEF n

-----------------------------------------------------------------------------
(***************************************************************************)
(* The rolling-origin report.                                              *)
(***************************************************************************)
\* The origin of a replay is the earliest candle of the run the chain began
\* with, and one of its points.
LEMMA OriginIs ==
  ASSUME Inductive, OriginObserved
  PROVE  /\ \E k \in 1 .. Len(points) : points[k].run = Head(Chain) /\ points[k].ts = ReplayFrom
         /\ \A k \in 1 .. Len(points) : points[k].run = Head(Chain) => ReplayFrom <= points[k].ts
<1> DEFINE Origin == {k \in DOMAIN points : points[k].run = Head(Chain)}
<1>1. points \in Seq(PointRow) /\ DOMAIN points = 1 .. Len(points) /\ Len(points) \in Nat
  BY DEF Inductive, Typed
<1>2. Origin \in SUBSET (1 .. Len(points))
  BY <1>1
<1>3. \A k \in 1 .. Len(points) : points[k].ts \in Int
  <2>1. \A k \in 1 .. Len(points) : points[k] \in PointRow
    BY <1>1
  <2> QED BY <2>1 DEF PointRow
<1>4. IsFiniteSet(Origin)
  BY <1>1, <1>2, IdsAreFinite
<1>5. OriginTimes = {points[k].ts : k \in Origin}
  BY DEF OriginTimes
<1>6. IsFiniteSet({points[k].ts : k \in Origin})
  <2> DEFINE f == [k \in Origin |-> points[k].ts]
             T == {points[k].ts : k \in Origin}
  <2>1. f \in Surjection(Origin, T)
    BY DEF Surjection
  <2> HIDE DEF f, T, Origin
  <2>2. IsFiniteSet(T)
    BY <1>4, <2>1, FS_Surjection
  <2> QED BY <2>2 DEF T
<1>7. OriginTimes \in SUBSET Int /\ IsFiniteSet(OriginTimes) /\ OriginTimes # {}
  BY <1>2, <1>3, <1>5, <1>6 DEF OriginObserved
<1>8. ReplayFrom \in OriginTimes /\ \A t \in OriginTimes : ReplayFrom <= t
  BY <1>7, MinIs DEF ReplayFrom
<1> QED BY <1>1, <1>5, <1>8

\* No point of the chain is older than the origin: the points of its later
\* runs were recorded after the origin's.
LEMMA OriginIsFirst ==
  ASSUME Inductive, runs # <<>>, OriginObserved,
         NEW k \in 1 .. Len(points), points[k].run \in Range(Chain)
  PROVE  ReplayFrom <= points[k].ts /\ ReplayFrom \in Int
<1>1. PICK o \in 1 .. Len(points) : points[o].run = Head(Chain) /\ points[o].ts = ReplayFrom
  BY OriginIs
<1>2. /\ points[o] \in PointRow /\ points[k] \in PointRow
  BY DEF Inductive, Typed
<1>3. Head(Chain) <= points[k].run /\ Head(Chain) \in Nat
  BY <1>1, <1>2, ChainIs DEF Inductive, PointRow
<1>4. CASE points[k].run = Head(Chain)
  BY <1>1, <1>2, <1>4, OriginIs DEF PointRow
<1>5. CASE points[k].run # Head(Chain)
  <2>1. ~(k < o) /\ k # o
    BY <1>1, <1>2, <1>3, <1>5 DEF Inductive, PointsInOrder, PointRow
  <2>2. o < k
    BY <2>1
  <2> QED BY <1>1, <1>2, <2>2 DEF Inductive, PointsInOrder, PointRow
<1> QED BY <1>4, <1>5

\* The report judges one account.
LEMMA InductiveJudges ==
  ASSUME Inductive
  PROVE  RollingJudgesOneAccount
<1> SUFFICES ASSUME NEW config \in Configs, NEW replay \in Replays,
                    RollingVerdict(config, replay) # "unknown"
             PROVE  /\ \A i \in Range(Chain) : runs[i].config.rates = config.rates
                    /\ \A k \in DOMAIN points :
                         points[k].run \in Range(Chain) => points[k].ts >= Min(Replayed(replay))
                    /\ \A k \in DOMAIN fills :
                         fills[k].run \in Range(Chain) => fills[k].ts > Min(Replayed(replay))
  BY DEF RollingJudgesOneAccount
<1>1. runs # <<>> /\ ~FeesDiffer(config) /\ OriginObserved /\ Min(Replayed(replay)) = ReplayFrom
  BY DEF RollingVerdict, ShadowSuffices, ReachesOrigin
<1>2. \A i \in Range(Chain) : runs[i].config.rates = config.rates
  BY <1>1 DEF FeesDiffer
<1>3. /\ DOMAIN points = 1 .. Len(points) /\ DOMAIN fills = 1 .. Len(fills)
      /\ \A k \in 1 .. Len(points) : points[k] \in PointRow
      /\ \A k \in 1 .. Len(fills) : fills[k] \in FillRow
  BY DEF Inductive, Typed
<1>4. \A k \in 1 .. Len(points) : points[k].run \in Range(Chain) =>
        ReplayFrom <= points[k].ts /\ ReplayFrom \in Int /\ points[k].ts \in Int
  BY <1>1, <1>3, OriginIsFirst DEF PointRow
<1>5. ASSUME NEW k \in 1 .. Len(fills), fills[k].run \in Range(Chain)
      PROVE  fills[k].ts > ReplayFrom
  <2>1. PICK i \in 1 .. Len(points) : points[i].run = fills[k].run /\ points[i].ts < fills[k].ts
    BY DEF Inductive, FillsAreSignalled, Signalled
  <2>2. ReplayFrom <= points[i].ts /\ ReplayFrom \in Int /\ points[i].ts \in Int
    BY <1>4, <1>5, <2>1
  <2>3. fills[k].ts \in Int
    BY <1>3 DEF FillRow
  <2> QED BY <2>1, <2>2, <2>3
<1> QED BY <1>1, <1>2, <1>3, <1>4, <1>5

\* RollingJudgesOneAccount holds throughout: a verdict other than "unknown"
\* compares a chain with a backtest at the rates every one of its runs was
\* charged, from a candle no point of the chain is older than and every fill
\* of it is newer than.
THEOREM JudgesOneAccount == Spec => []RollingJudgesOneAccount
<1>1. Inductive => RollingJudgesOneAccount
  BY InductiveJudges
<1> QED BY <1>1, RecordsAreInOrder, PTL

-----------------------------------------------------------------------------
(***************************************************************************)
(* The folds that a curve is made by, and the count of positions.          *)
(***************************************************************************)
\* The operators that are folded.
RowsOp(i, p, rows)    == IF p.run = i THEN Append(rows, p) ELSE rows
KeptOp(from, p, kept) == IF p.ts < from THEN Append(kept, p) ELSE kept
StitchOp(c, i, curve) ==
  IF Rows(i) = <<>> THEN curve
  ELSE LET rows   == Rows(i)
           kept   == Kept(curve, rows[1].ts)
           offset == IF kept # <<>> /\ runs[i].from = 0
                     THEN Last(kept).equity - rows[1].equity ELSE 0
       IN kept \o [k \in DOMAIN rows |-> [rows[k] EXCEPT !.equity = @ + offset]]
PositionOp(rows, judged, i, s) ==
  IF i \notin judged \/ ~s.valid THEN s
  ELSE IF s.held + rows[i].units < 0 THEN [s EXCEPT !.valid = FALSE]
  ELSE [s EXCEPT !.held = @ + rows[i].units,
                 !.count = IF s.held > 0 /\ s.held + rows[i].units = 0 THEN @ + 1 ELSE @]

\* One instance of the facts about folds stands for the four.
Named(fold, c) == [fold |-> fold, with |-> c]
FoldOp(c, e, s) ==
  IF c.fold = "rows" THEN RowsOp(c.with, e, s)
  ELSE IF c.fold = "kept" THEN KeptOp(c.with, e, s)
  ELSE IF c.fold = "positions" THEN PositionOp(c.with.rows, c.with.judged, e, s)
  ELSE StitchOp(c.with, e, s)

Foldings == INSTANCE DataLemmas WITH Op <- FoldOp

\* The instance means the same maximum.
LEMMA SameMax ==
  ASSUME NEW s
  PROVE  Foldings!Max(s) = Max(s)
BY DEF Foldings!Max, Max

\* The name finds the operator.
LEMMA NameFinds ==
  ASSUME NEW c, NEW e, NEW s
  PROVE  /\ FoldOp(Named("rows", c), e, s) = RowsOp(c, e, s)
         /\ FoldOp(Named("kept", c), e, s) = KeptOp(c, e, s)
         /\ FoldOp(Named("stitch", c), e, s) = StitchOp(c, e, s)
         /\ FoldOp(Named("positions", c), e, s) = PositionOp(c.rows, c.judged, e, s)
BY DEF Named, FoldOp

\* What each step of Rows keeps, the whole of it keeps.
LEMMA RowsKeep ==
  ASSUME NEW i, NEW S, NEW seq \in Seq(S), points = seq,
         NEW J, <<>> \in J[0],
         \A k \in 1 .. Len(seq) : \A x \in J[k - 1] : RowsOp(i, seq[k], x) \in J[k]
  PROVE  Rows(i) \in J[Len(seq)]
<1>1. DOMAIN seq = 1 .. Len(seq) /\ Len(seq) \in Nat
  OBVIOUS
<1> DEFINE c_ == i
           body(f) == [s_ \in SUBSET (DOMAIN seq) |->
                         IF s_ = {} THEN <<>> ELSE RowsOp(c_, seq[Max(s_)], f[s_ \ {Max(s_)}])]
           g == CHOOSE f : f = body(f)
<1>2. Rows(i) = g[DOMAIN seq]
  BY DEF Rows, FoldLeft, MapThenFoldSet, RowsOp
<1> HIDE DEF c_
<1>3. \A f : Foldings!FoldStep(Named("rows", c_), <<>>, seq, Len(seq), f) = body(f)
  <2>1. \A e, s_ : FoldOp(Named("rows", c_), e, s_) = RowsOp(c_, e, s_)
    BY NameFinds
  <2> QED BY <1>1, <2>1, SameMax DEF Foldings!FoldStep
<1>4. \E f : f = Foldings!FoldStep(Named("rows", c_), <<>>, seq, Len(seq), f)
  BY ONLY <1>1, Foldings!FoldExists
<1> HIDE DEF body
<1>5. \E f : f = body(f)
  BY <1>3, <1>4
<1>6. g = body(g)
  BY <1>5
<1> HIDE DEF g
<1>7. g = Foldings!FoldStep(Named("rows", c_), <<>>, seq, Len(seq), g)
  BY <1>3, <1>6
<1>8. \A k \in 1 .. Len(seq) : \A x \in J[k - 1] : FoldOp(Named("rows", c_), seq[k], x) \in J[k]
  BY NameFinds DEF c_
<1> DEFINE name == Named("rows", c_)
           n == Len(seq)
<1> HIDE DEF name, n
<1>9. g[1 .. n] \in J[n]
  <2>1. n \in Nat /\ g = Foldings!FoldStep(name, <<>>, seq, n, g)
    BY <1>1, <1>7 DEF name, n
  <2>2. <<>> \in J[0] /\ \A k \in 1 .. n : \A x \in J[k - 1] : FoldOp(name, seq[k], x) \in J[k]
    BY <1>8 DEF name, n
  <2> QED BY <2>1, <2>2, Foldings!FoldKeeps
<1> QED BY <1>1, <1>2, <1>9 DEF n

\* What each step of Kept keeps, the whole of it keeps.
LEMMA KeptKeep ==
  ASSUME NEW from, NEW S, NEW seq \in Seq(S),
         NEW J, <<>> \in J[0],
         \A k \in 1 .. Len(seq) : \A x \in J[k - 1] : KeptOp(from, seq[k], x) \in J[k]
  PROVE  Kept(seq, from) \in J[Len(seq)]
<1>1. DOMAIN seq = 1 .. Len(seq) /\ Len(seq) \in Nat
  OBVIOUS
<1> DEFINE c_ == from
           body(f) == [s_ \in SUBSET (DOMAIN seq) |->
                         IF s_ = {} THEN <<>> ELSE KeptOp(c_, seq[Max(s_)], f[s_ \ {Max(s_)}])]
           g == CHOOSE f : f = body(f)
<1>2. Kept(seq, from) = g[DOMAIN seq]
  BY DEF Kept, FoldLeft, MapThenFoldSet, KeptOp
<1> HIDE DEF c_
<1>3. \A f : Foldings!FoldStep(Named("kept", c_), <<>>, seq, Len(seq), f) = body(f)
  <2>1. \A e, s_ : FoldOp(Named("kept", c_), e, s_) = KeptOp(c_, e, s_)
    BY NameFinds
  <2> QED BY <1>1, <2>1, SameMax DEF Foldings!FoldStep
<1>4. \E f : f = Foldings!FoldStep(Named("kept", c_), <<>>, seq, Len(seq), f)
  BY ONLY <1>1, Foldings!FoldExists
<1> HIDE DEF body
<1>5. \E f : f = body(f)
  BY <1>3, <1>4
<1>6. g = body(g)
  BY <1>5
<1> HIDE DEF g
<1>7. g = Foldings!FoldStep(Named("kept", c_), <<>>, seq, Len(seq), g)
  BY <1>3, <1>6
<1>8. \A k \in 1 .. Len(seq) : \A x \in J[k - 1] : FoldOp(Named("kept", c_), seq[k], x) \in J[k]
  BY NameFinds DEF c_
<1> DEFINE name == Named("kept", c_)
           n == Len(seq)
<1> HIDE DEF name, n
<1>9. g[1 .. n] \in J[n]
  <2>1. n \in Nat /\ g = Foldings!FoldStep(name, <<>>, seq, n, g)
    BY <1>1, <1>7 DEF name, n
  <2>2. <<>> \in J[0] /\ \A k \in 1 .. n : \A x \in J[k - 1] : FoldOp(name, seq[k], x) \in J[k]
    BY <1>8 DEF name, n
  <2> QED BY <2>1, <2>2, Foldings!FoldKeeps
<1> QED BY <1>1, <1>2, <1>9 DEF n

\* What each step of PositionsOf keeps, the whole of it keeps.
Flat == [held |-> 0, count |-> 0, valid |-> TRUE]
Position == [held : Int, count : Int, valid : BOOLEAN]
Booked(rows, judged) == [rows |-> rows, judged |-> judged]
\* The invariant of such a fold holds of its result.
LEMMA PositionsKeep ==
  ASSUME NEW rows \in Seq(FillRow), NEW judged,
         NEW J, Flat \in J[0],
         \A k \in 1 .. Len(rows) : \A x \in J[k - 1] : PositionOp(rows, judged, k, x) \in J[k]
  PROVE  PositionsOf(rows, judged) \in J[Len(rows)]
<1> DEFINE seq == [i \in DOMAIN rows |-> i]
           n == Len(rows)
<1>1. /\ DOMAIN rows = 1 .. n /\ n \in Nat /\ DOMAIN seq = 1 .. n
      /\ \A k \in 1 .. n : seq[k] = k
  OBVIOUS
<1> DEFINE c_ == Booked(rows, judged)
           body(f) == [s_ \in SUBSET (DOMAIN seq) |->
                         IF s_ = {} THEN Flat ELSE PositionOp(rows, judged, seq[Max(s_)], f[s_ \ {Max(s_)}])]
           g == CHOOSE f : f = body(f)
<1>2. PositionsOf(rows, judged) = g[DOMAIN seq]
  BY DEF PositionsOf, FoldLeft, MapThenFoldSet, PositionOp, Flat
<1>0. c_.rows = rows /\ c_.judged = judged
  BY DEF Booked
<1> HIDE DEF c_, seq, n
<1>3. \A f : Foldings!FoldStep(Named("positions", c_), Flat, seq, n, f) = body(f)
  <2>1. \A e, s_ : FoldOp(Named("positions", c_), e, s_) = PositionOp(rows, judged, e, s_)
    BY <1>0, NameFinds
  <2> QED BY <1>1, <2>1, SameMax DEF Foldings!FoldStep
<1>4. \E f : f = Foldings!FoldStep(Named("positions", c_), Flat, seq, n, f)
  BY ONLY <1>1, Foldings!FoldExists
<1> HIDE DEF body
<1>5. \E f : f = body(f)
  BY <1>3, <1>4
<1>6. g = body(g)
  BY <1>5
<1> HIDE DEF g
<1> DEFINE name == Named("positions", c_)
<1>7. g = Foldings!FoldStep(name, Flat, seq, n, g)
  BY <1>3, <1>6
<1>8. \A k \in 1 .. n : \A x \in J[k - 1] : FoldOp(name, seq[k], x) \in J[k]
  BY <1>0, <1>1, NameFinds DEF n
<1> HIDE DEF name
<1>9. g[1 .. n] \in J[n]
  BY <1>1, <1>7, <1>8, Foldings!FoldKeeps
<1> QED BY <1>1, <1>2, <1>9 DEF n

\* What each step of Stitched keeps, the whole of it keeps.
LEMMA StitchKeeps ==
  ASSUME NEW S, NEW seq \in Seq(S),
         NEW J, <<>> \in J[0],
         \A k \in 1 .. Len(seq) : \A x \in J[k - 1] : StitchOp(None, seq[k], x) \in J[k]
  PROVE  Stitched(seq) \in J[Len(seq)]
<1>1. DOMAIN seq = 1 .. Len(seq) /\ Len(seq) \in Nat
  OBVIOUS
<1> DEFINE c_ == None
           body(f) == [s_ \in SUBSET (DOMAIN seq) |->
                         IF s_ = {} THEN <<>> ELSE StitchOp(c_, seq[Max(s_)], f[s_ \ {Max(s_)}])]
           g == CHOOSE f : f = body(f)
<1>2. Stitched(seq) = g[DOMAIN seq]
  BY DEF Stitched, FoldLeft, MapThenFoldSet, StitchOp
<1> HIDE DEF c_
<1>3. \A f : Foldings!FoldStep(Named("stitch", c_), <<>>, seq, Len(seq), f) = body(f)
  <2>1. \A e, s_ : FoldOp(Named("stitch", c_), e, s_) = StitchOp(c_, e, s_)
    BY NameFinds
  <2> QED BY <1>1, <2>1, SameMax DEF Foldings!FoldStep
<1>4. \E f : f = Foldings!FoldStep(Named("stitch", c_), <<>>, seq, Len(seq), f)
  BY ONLY <1>1, Foldings!FoldExists
<1> HIDE DEF body
<1>5. \E f : f = body(f)
  BY <1>3, <1>4
<1>6. g = body(g)
  BY <1>5
<1> HIDE DEF g
<1>7. g = Foldings!FoldStep(Named("stitch", c_), <<>>, seq, Len(seq), g)
  BY <1>3, <1>6
<1>8. \A k \in 1 .. Len(seq) : \A x \in J[k - 1] : FoldOp(Named("stitch", c_), seq[k], x) \in J[k]
  BY NameFinds DEF c_
<1> DEFINE name == Named("stitch", c_)
           n == Len(seq)
<1> HIDE DEF name, n
<1>9. g[1 .. n] \in J[n]
  <2>1. n \in Nat /\ g = Foldings!FoldStep(name, <<>>, seq, n, g)
    BY <1>1, <1>7 DEF name, n
  <2>2. <<>> \in J[0] /\ \A k \in 1 .. n : \A x \in J[k - 1] : FoldOp(name, seq[k], x) \in J[k]
    BY <1>8 DEF name, n
  <2> QED BY <2>1, <2>2, Foldings!FoldKeeps
<1> QED BY <1>1, <1>2, <1>9 DEF n

-----------------------------------------------------------------------------
(***************************************************************************)
(* The curve of a resume chain.                                            *)
(***************************************************************************)
\* The first k rows of seq that are in P, in their order, which is in time.
Sifted(s, seq, k, P) ==
  /\ s \in Seq(PointRow)
  /\ \A a \in 1 .. Len(s) : s[a] \in P /\ \E j \in 1 .. k : seq[j] = s[a]
  /\ \A a \in 1 .. Len(s) : \A b \in 1 .. Len(s) : a < b => s[a].ts < s[b].ts
  /\ \A j \in 1 .. k : seq[j] \in P => \E a \in 1 .. Len(s) : s[a] = seq[j]

InTime(seq, P) ==
  \A i \in 1 .. Len(seq) : \A j \in 1 .. Len(seq) :
    i < j /\ seq[i] \in P /\ seq[j] \in P => seq[i].ts < seq[j].ts

\* Nothing of nothing.
LEMMA SiftStarts ==
  ASSUME NEW seq, NEW P
  PROVE  Sifted(<<>>, seq, 0, P)
<1>1. 1 .. 0 = {} /\ Len(<<>>) = 0 /\ <<>> \in Seq(PointRow)
  OBVIOUS
<1> QED BY <1>1 DEF Sifted

\* One row more.
LEMMA SiftSteps ==
  ASSUME NEW seq \in Seq(PointRow), NEW P, InTime(seq, P), NEW k \in 1 .. Len(seq),
         NEW s, Sifted(s, seq, k - 1, P),
         NEW t, t = IF seq[k] \in P THEN Append(s, seq[k]) ELSE s
  PROVE  Sifted(t, seq, k, P)
<1> DEFINE l == Len(s)
<1>1. /\ s \in Seq(PointRow) /\ l \in Nat /\ k \in Nat /\ seq[k] \in PointRow
      /\ \A j \in 1 .. k - 1 : j \in 1 .. k /\ j \in 1 .. Len(seq) /\ j < k
      /\ \A j \in 1 .. k : j = k \/ j \in 1 .. k - 1
  BY DEF Sifted
<1>2. CASE seq[k] \notin P
  BY <1>1, <1>2 DEF Sifted
<1>3. CASE seq[k] \in P
  <2> DEFINE e == seq[k]
  <2>1. t = Append(s, e) /\ e \in PointRow
    BY <1>1, <1>3
  <2> HIDE DEF e
  <2>2. /\ t \in Seq(PointRow) /\ Len(t) = l + 1 /\ t[l + 1] = e
        /\ \A a \in 1 .. l : t[a] = s[a]
    BY <1>1, <2>1
  <2>3. /\ \A a \in 1 .. l + 1 : a = l + 1 \/ a \in 1 .. l
        /\ \A a \in 1 .. l : a \in 1 .. l + 1
        /\ l + 1 \in 1 .. l + 1
    BY <1>1
  <2>4. \A a \in 1 .. l : s[a].ts < e.ts
    BY <1>1, <1>3 DEF Sifted, InTime, e
  <2>5. \A a \in 1 .. l + 1 : t[a] \in P /\ \E j \in 1 .. k : seq[j] = t[a]
    <3>1. e \in P /\ \E j \in 1 .. k : seq[j] = e
      BY <1>1, <1>3 DEF e
    <3>2. \A a \in 1 .. l : s[a] \in P /\ \E j \in 1 .. k : seq[j] = s[a]
      BY <1>1 DEF Sifted
    <3> QED BY <2>2, <2>3, <3>1, <3>2
  <2>6. ASSUME NEW a \in 1 .. l + 1, NEW b \in 1 .. l + 1, a < b PROVE t[a].ts < t[b].ts
    <3>1. a \in 1 .. l
      BY <1>1, <2>6
    <3>2. CASE b = l + 1
      BY <2>2, <2>4, <3>1, <3>2
    <3>3. CASE b \in 1 .. l
      BY <2>2, <2>6, <3>1, <3>3 DEF Sifted
    <3> QED BY <2>3, <3>2, <3>3
  <2>7. \A j \in 1 .. k : seq[j] \in P => \E a \in 1 .. l + 1 : t[a] = seq[j]
    <3>1. \A j \in 1 .. k - 1 : seq[j] \in P => \E a \in 1 .. l : s[a] = seq[j]
      BY DEF Sifted
    <3> QED BY <1>1, <2>2, <2>3, <3>1 DEF e
  <2> HIDE DEF l
  <2> QED BY <2>2, <2>5, <2>6, <2>7 DEF Sifted
<1> QED BY <1>2, <1>3

OfRun(i) == {p \in PointRow : p.run = i}
Before(t) == {p \in PointRow : p.ts < t}

\* Rows: the points of a run, all of them, in time.
LEMMA RowsAre ==
  ASSUME Typed, PointsInOrder, NEW i
  PROVE  Sifted(Rows(i), points, Len(points), OfRun(i))
<1> DEFINE n == Len(points)
           J == [k \in 0 .. n |-> {s \in Seq(PointRow) : Sifted(s, points, k, OfRun(i))}]
<1>1. points \in Seq(PointRow) /\ n \in Nat /\ \A k \in 1 .. n : points[k] \in PointRow
  BY DEF Typed
<1>2. InTime(points, OfRun(i))
  BY DEF PointsInOrder, InTime, OfRun
<1>3. <<>> \in J[0]
  <2>1. <<>> \in Seq(PointRow) /\ 0 \in 0 .. n
    BY <1>1
  <2> QED BY <2>1, SiftStarts
<1>4. ASSUME NEW k \in 1 .. n, NEW x \in J[k - 1]
      PROVE  RowsOp(i, points[k], x) \in J[k]
  <2>1. k - 1 \in 0 .. n /\ k \in 0 .. n
    BY <1>1
  <2>2. Sifted(x, points, k - 1, OfRun(i))
    BY <2>1
  <2> DEFINE y == RowsOp(i, points[k], x)
  <2>3. y = IF points[k] \in OfRun(i) THEN Append(x, points[k]) ELSE x
    BY <1>1 DEF RowsOp, OfRun
  <2> HIDE DEF y
  <2>4. Sifted(y, points, k, OfRun(i))
    BY <1>1, <1>2, <2>2, <2>3, SiftSteps
  <2> QED BY <2>1, <2>4 DEF Sifted, y
<1>5. Rows(i) \in J[n]
  <2> HIDE DEF J
  <2> QED BY <1>1, <1>3, <1>4, RowsKeep
<1>6. n \in 0 .. n
  BY <1>1
<1> QED BY <1>5, <1>6

\* Kept: the rows of a curve before a time.
LEMMA KeptIs ==
  ASSUME NEW curve \in Seq(PointRow), NEW from,
         \A a \in 1 .. Len(curve) : \A b \in 1 .. Len(curve) : a < b => curve[a].ts < curve[b].ts
  PROVE  Sifted(Kept(curve, from), curve, Len(curve), Before(from))
<1> DEFINE n == Len(curve)
           J == [k \in 0 .. n |-> {s \in Seq(PointRow) : Sifted(s, curve, k, Before(from))}]
<1>1. n \in Nat /\ \A k \in 1 .. n : curve[k] \in PointRow
  OBVIOUS
<1>2. InTime(curve, Before(from))
  BY DEF InTime
<1>3. <<>> \in J[0]
  <2>1. <<>> \in Seq(PointRow) /\ 0 \in 0 .. n
    BY <1>1
  <2> QED BY <2>1, SiftStarts
<1>4. ASSUME NEW k \in 1 .. n, NEW x \in J[k - 1]
      PROVE  KeptOp(from, curve[k], x) \in J[k]
  <2>1. k - 1 \in 0 .. n /\ k \in 0 .. n
    BY <1>1
  <2>2. Sifted(x, curve, k - 1, Before(from))
    BY <2>1
  <2> DEFINE y == KeptOp(from, curve[k], x)
  <2>3. y = IF curve[k] \in Before(from) THEN Append(x, curve[k]) ELSE x
    BY <1>1 DEF KeptOp, Before
  <2> HIDE DEF y
  <2>4. Sifted(y, curve, k, Before(from))
    BY <1>1, <1>2, <2>2, <2>3, SiftSteps
  <2> QED BY <2>1, <2>4 DEF Sifted, y
<1>5. Kept(curve, from) \in J[n]
  <2> HIDE DEF J
  <2> QED BY <1>1, <1>3, <1>4, KeptKeep
<1>6. n \in 0 .. n
  BY <1>1
<1> QED BY <1>5, <1>6

\* Point k is the newest recording of a candle by the runs in R.
Newest(k, ts, R) ==
  /\ points[k].run \in R /\ points[k].ts = ts
  /\ \A j \in 1 .. Len(points) : points[j].run \in R /\ points[j].ts = ts => j <= k

\* A curve of the runs in R: in time, and each value the newest recording.
IsCurve(curve, R) ==
  /\ curve \in Seq(PointRow)
  /\ \A a \in 1 .. Len(curve) : \A b \in 1 .. Len(curve) : a < b => curve[a].ts < curve[b].ts
  /\ \A a \in 1 .. Len(curve) : \E k \in 1 .. Len(points) :
       Newest(k, curve[a].ts, R) /\ points[k].equity = curve[a].equity

\* Moving a sequence of points by nothing.
LEMMA Unmoved ==
  ASSUME NEW rows \in Seq(PointRow)
  PROVE  [k \in DOMAIN rows |-> [rows[k] EXCEPT !.equity = @ + 0]] = rows
<1>1. DOMAIN rows = 1 .. Len(rows) /\ \A k \in 1 .. Len(rows) : rows[k] \in PointRow
  OBVIOUS
<1>2. ASSUME NEW r \in PointRow PROVE [r EXCEPT !.equity = @ + 0] = r
  BY DEF PointRow
<1>3. \A k \in DOMAIN rows : [rows[k] EXCEPT !.equity = @ + 0] = rows[k]
  BY <1>1, <1>2
<1>4. rows = [k \in DOMAIN rows |-> rows[k]]
  OBVIOUS
<1> QED BY <1>3, <1>4

\* A run that recorded nothing changes nothing.
LEMMA NothingToStitch ==
  ASSUME Typed, PointsInOrder, NEW R, NEW i, Rows(i) = <<>>, NEW curve, IsCurve(curve, R)
  PROVE  IsCurve(curve, R \cup {i})
<1>1. Sifted(Rows(i), points, Len(points), OfRun(i))
  BY RowsAre
<1>2. \A k \in 1 .. Len(points) : points[k].run # i
  <2>1. \A k \in 1 .. Len(points) : points[k] \in PointRow
    BY DEF Typed
  <2>2. 1 .. Len(Rows(i)) = {}
    OBVIOUS
  <2> QED BY <1>1, <2>1, <2>2 DEF Sifted, OfRun
<1>3. \A k, ts : Newest(k, ts, R) => Newest(k, ts, R \cup {i})
  BY <1>2 DEF Newest
<1> QED BY <1>3 DEF IsCurve

\* A later run's rows, after what is kept of the curve: where they overlap the
\* later run's are the newest recordings.
LEMMA Joined ==
  ASSUME Typed, PointsInOrder, NEW R \in SUBSET Nat, NEW i \in Nat, \A r \in R : r < i,
         NEW curve, IsCurve(curve, R),
         NEW rows, rows = Rows(i), rows # <<>>,
         NEW kept, kept = Kept(curve, rows[1].ts)
  PROVE  kept \in Seq(PointRow) /\ rows \in Seq(PointRow) /\ IsCurve(kept \o rows, R \cup {i})
<1> DEFINE n == Len(points)
           K == Len(kept)
           l == Len(rows)
           first == rows[1].ts
           t == kept \o rows
<1>1. /\ points \in Seq(PointRow) /\ n \in Nat
      /\ \A k \in 1 .. n : points[k] \in PointRow /\ points[k].run \in Nat /\ points[k].ts \in Int
                           /\ points[k].equity \in Int
  <2>1. points \in Seq(PointRow)
    BY DEF Typed
  <2>2. \A k \in 1 .. n : points[k] \in PointRow
    BY <2>1
  <2> QED BY <2>1, <2>2 DEF PointRow
<1>2. Sifted(rows, points, n, OfRun(i))
  BY RowsAre
<1>3. Sifted(kept, curve, Len(curve), Before(first))
  BY KeptIs DEF IsCurve
<1>4. /\ rows \in Seq(PointRow) /\ kept \in Seq(PointRow) /\ l \in Nat /\ K \in Nat /\ 1 \in 1 .. l
      /\ \A a \in 1 .. l : rows[a] \in PointRow /\ rows[a].ts \in Int
      /\ \A a \in 1 .. K : kept[a] \in PointRow /\ kept[a].ts \in Int
  <2>1. rows \in Seq(PointRow) /\ kept \in Seq(PointRow)
    BY <1>2, <1>3 DEF Sifted
  <2>2. \A row \in PointRow : row.ts \in Int
    BY DEF PointRow
  <2>3. l \in Nat /\ K \in Nat /\ 1 \in 1 .. l
    BY <2>1
  <2>4. (\A a \in 1 .. l : rows[a] \in PointRow) /\ (\A a \in 1 .. K : kept[a] \in PointRow)
    BY <2>1
  <2> QED BY <2>1, <2>2, <2>3, <2>4
<1>5. /\ t \in Seq(PointRow) /\ Len(t) = K + l
      /\ \A a \in 1 .. K : t[a] = kept[a]
      /\ \A a \in 1 .. l : t[K + a] = rows[a]
  BY <1>4
<1>6. \A a \in 1 .. K + l : a \in 1 .. K \/ (a - K \in 1 .. l /\ K + (a - K) = a)
  BY <1>4
<1>7. \A a \in 1 .. K : kept[a].ts < first
  BY <1>3 DEF Sifted, Before
<1>8. \A a \in 1 .. l : first <= rows[a].ts
  <2> SUFFICES ASSUME NEW a \in 1 .. l PROVE first <= rows[a].ts
    OBVIOUS
  <2>1. CASE a = 1
    BY <1>4, <2>1
  <2>2. CASE 1 < a
    BY <1>2, <1>4, <2>2 DEF Sifted
  <2> QED BY <1>4, <2>1, <2>2
<1>9. first \in Int
  BY <1>4
<1> HIDE DEF t, K, l, first, n
<1>10. \A a \in 1 .. K : \E k \in 1 .. n :
         Newest(k, t[a].ts, R \cup {i}) /\ points[k].equity = t[a].equity
  <2> SUFFICES ASSUME NEW a \in 1 .. K
               PROVE  \E k \in 1 .. n : /\ Newest(k, kept[a].ts, R \cup {i})
                                        /\ points[k].equity = kept[a].equity
    BY <1>5
  <2>1. PICK j \in 1 .. Len(curve) : curve[j] = kept[a]
    BY <1>3 DEF Sifted, K
  <2>2. PICK k \in 1 .. n : Newest(k, kept[a].ts, R) /\ points[k].equity = kept[a].equity
    BY <2>1 DEF IsCurve, n
  <2>3. \A m \in 1 .. n : points[m].run = i => points[m].ts # kept[a].ts
    <3> SUFFICES ASSUME NEW m \in 1 .. n, points[m].run = i PROVE points[m].ts # kept[a].ts
      OBVIOUS
    <3>1. PICK b \in 1 .. l : rows[b] = points[m]
      BY <1>1, <1>2 DEF Sifted, OfRun, l
    <3>2. kept[a].ts < first /\ first <= rows[b].ts /\ kept[a].ts \in Int /\ rows[b].ts \in Int
      BY <1>4, <1>7, <1>8
    <3>3. kept[a].ts # rows[b].ts
      BY <1>9, <3>2
    <3> QED BY <3>1, <3>3
  <2>4. Newest(k, kept[a].ts, R \cup {i})
    BY <2>2, <2>3 DEF Newest, n
  <2> QED BY <2>2, <2>4
<1>11. \A a \in 1 .. l : \E k \in 1 .. n :
         Newest(k, rows[a].ts, R \cup {i}) /\ points[k].equity = rows[a].equity
  <2> SUFFICES ASSUME NEW a \in 1 .. l
               PROVE  \E k \in 1 .. n : /\ Newest(k, rows[a].ts, R \cup {i})
                                        /\ points[k].equity = rows[a].equity
    OBVIOUS
  <2>1. PICK k \in 1 .. n : points[k] = rows[a]
    BY <1>2 DEF Sifted, l
  <2>2. points[k].run = i
    BY <1>2, <2>1 DEF Sifted, OfRun, l
  <2>3. ASSUME NEW j \in 1 .. n, points[j].run \in R \cup {i}, points[j].ts = points[k].ts
        PROVE  j <= k
    <3> SUFFICES ASSUME k < j PROVE FALSE
      BY <1>1
    <3>1. points[k].run <= points[j].run /\ (points[k].run = points[j].run => points[k].ts < points[j].ts)
      BY DEF PointsInOrder, n
    <3>2. points[j].run <= i
      <4> DEFINE r == points[j].run
      <4>1. r \in R \/ r = i
        BY <2>3
      <4> HIDE DEF r
      <4>2. \A q \in R : q \in Nat /\ q < i
        OBVIOUS
      <4>3. \A q \in R : q <= i
        BY <4>2
      <4>4. i <= i
        OBVIOUS
      <4>5. r <= i
        BY ONLY <4>1, <4>3, <4>4
      <4> QED BY <4>5 DEF r
    <3> QED BY <1>1, <2>2, <2>3, <3>1, <3>2
  <2>4. Newest(k, rows[a].ts, R \cup {i})
    BY <2>1, <2>2, <2>3 DEF Newest, n
  <2> QED BY <2>1, <2>4
<1>12. \A a \in 1 .. K + l : \E k \in 1 .. n :
         Newest(k, t[a].ts, R \cup {i}) /\ points[k].equity = t[a].equity
  <2> SUFFICES ASSUME NEW a \in 1 .. K + l
               PROVE  \E k \in 1 .. n : /\ Newest(k, t[a].ts, R \cup {i})
                                        /\ points[k].equity = t[a].equity
    OBVIOUS
  <2>1. CASE a \in 1 .. K
    BY <1>10, <2>1
  <2>2. CASE a - K \in 1 .. l /\ K + (a - K) = a
    <3>1. t[a] = rows[a - K]
      BY <1>5, <2>2
    <3> QED BY <1>11, <2>2, <3>1
  <2> QED BY <1>6, <2>1, <2>2
<1>13. ASSUME NEW a \in 1 .. K + l, NEW b \in 1 .. K + l, a < b
       PROVE  t[a].ts < t[b].ts
  <2>1. CASE a \in 1 .. K /\ b \in 1 .. K
    BY <1>3, <1>5, <1>13, <2>1 DEF Sifted, K
  <2>2. CASE a \in 1 .. K /\ (b - K \in 1 .. l /\ K + (b - K) = b)
    <3>1. t[a].ts < first /\ t[b] = rows[b - K]
      BY <1>5, <1>7, <2>2
    <3>2. first <= t[b].ts /\ t[b].ts \in Int /\ t[a].ts \in Int
      BY <1>4, <1>5, <1>8, <2>2, <3>1
    <3> QED BY <1>9, <3>1, <3>2
  <2>3. CASE (a - K \in 1 .. l /\ K + (a - K) = a) /\ (b - K \in 1 .. l /\ K + (b - K) = b)
    <3>1. t[a] = rows[a - K] /\ t[b] = rows[b - K]
      BY <1>5, <2>3
    <3>2. a - K < b - K
      BY <1>4, <1>13
    <3> QED BY <1>2, <2>3, <3>1, <3>2 DEF Sifted, l
  <2>4. ~(b \in 1 .. K /\ a - K \in 1 .. l)
    BY <1>4, <1>13
  <2> QED BY <1>6, <2>1, <2>2, <2>3, <2>4
<1>14. Len(t) = K + l /\ t \in Seq(PointRow)
  BY <1>5
<1>15. IsCurve(t, R \cup {i})
  BY <1>12, <1>13, <1>14 DEF IsCurve, n
<1> QED BY <1>4, <1>15 DEF t

\* The runs of a chain, as far as its member m.
Members(chain, m) == {chain[a] : a \in 1 .. m}

\* One run of the chain more.  Its ledger goes on, so nothing is moved.
LEMMA StitchSteps ==
  ASSUME Typed, PointsInOrder, NEW chain, NEW n \in Nat, IsChain(chain, n),
         NEW m \in 1 .. Len(chain), NEW curve, IsCurve(curve, Members(chain, m - 1))
  PROVE  IsCurve(StitchOp(None, chain[m], curve), Members(chain, m))
<1> DEFINE i == chain[m]
           R == Members(chain, m - 1)
           rows == Rows(i)
           kept == Kept(curve, rows[1].ts)
<1>1. /\ \A a \in 1 .. Len(chain) : chain[a] \in Nat
      /\ \A a \in 1 .. Len(chain) : \A b \in 1 .. Len(chain) : a < b => chain[a] < chain[b]
      /\ Len(chain) \in Nat /\ m \in Nat
  <2> DEFINE S == 1 .. n
  <2>1. chain \in Seq(S) /\ \A e \in S : e \in Nat
    BY DEF IsChain
  <2> HIDE DEF S
  <2>2. \A a \in 1 .. Len(chain) : chain[a] \in S
    BY <2>1
  <2> QED BY <2>1, <2>2 DEF IsChain
<1>2. R \in SUBSET Nat /\ i \in Nat /\ \A r \in R : r < i
  <2>1. \A a \in 1 .. m - 1 : a \in 1 .. Len(chain) /\ a < m
    BY <1>1
  <2> QED BY <1>1, <2>1 DEF Members
<1>3. Members(chain, m) = R \cup {i}
  <2>1. \A a \in 1 .. m : a = m \/ a \in 1 .. m - 1
    BY <1>1
  <2>2. m \in 1 .. m /\ \A a \in 1 .. m - 1 : a \in 1 .. m
    BY <1>1
  <2> QED BY <2>1, <2>2 DEF Members
<1>4. CASE rows = <<>>
  BY <1>3, <1>4, NothingToStitch DEF StitchOp
<1>5. CASE rows # <<>>
  <2> DEFINE offset == IF kept # <<>> /\ runs[i].from = 0
                       THEN Last(kept).equity - rows[1].equity ELSE 0
             moved == [k \in DOMAIN rows |-> [rows[k] EXCEPT !.equity = @ + offset]]
  <2>1. StitchOp(None, i, curve) = kept \o moved
    BY <1>5 DEF StitchOp
  <2>2. kept \in Seq(PointRow) /\ rows \in Seq(PointRow) /\ IsCurve(kept \o rows, R \cup {i})
    <3> HIDE DEF rows, kept, R, i
    <3>1. rows = Rows(i) /\ kept = Kept(curve, rows[1].ts) /\ IsCurve(curve, R)
      BY DEF rows, kept, R
    <3> QED BY <1>2, <1>5, <3>1, Joined
  <2>3. offset = 0
    <3>1. CASE m = 1
      <4>1. \A k : ~Newest(k, curve[1].ts, R)
        <5>1. R = {}
          <6>1. 1 .. m - 1 = {}
            BY <3>1
          <6> QED BY <6>1 DEF Members
        <5> QED BY <5>1 DEF Newest
      <4>2. curve \in Seq(PointRow) /\ (1 \in 1 .. Len(curve) => FALSE)
        BY <4>1 DEF IsCurve
      <4>3. Len(curve) = 0
        BY <4>2
      <4>4. Sifted(kept, curve, Len(curve), Before(rows[1].ts))
        BY KeptIs DEF IsCurve
      <4>5. 1 \notin 1 .. Len(kept)
        <5>1. 1 .. Len(curve) = {}
          BY <4>3
        <5> QED BY <4>4, <5>1 DEF Sifted
      <4> HIDE DEF kept
      <4>6. kept = <<>>
        BY <2>2, <4>5
      <4> QED BY <4>6
    <3>2. CASE m # 1
      <4>1. runs[i].from # 0
        BY <3>2 DEF IsChain
      <4> QED BY <4>1
    <3> QED BY <3>1, <3>2
  <2> HIDE DEF offset
  <2>4. moved = rows
    <3>1. moved = [k \in DOMAIN rows |-> [rows[k] EXCEPT !.equity = @ + 0]]
      BY <2>3
    <3> HIDE DEF rows, moved
    <3> QED BY <2>2, <3>1, Unmoved
  <2> HIDE DEF moved, rows, kept, R, i
  <2>5. StitchOp(None, i, curve) = kept \o rows
    BY <2>1, <2>4
  <2> QED BY <1>3, <2>2, <2>5 DEF i
<1> QED BY <1>4, <1>5

\* The curve of the chain is one of all its runs.
LEMMA ChainCurveIs ==
  ASSUME Inductive, runs # <<>>
  PROVE  IsCurve(ChainCurve, Range(Chain))
<1> DEFINE n == Len(runs)
           l == Len(Chain)
           J == [m \in 0 .. l |-> {c \in Seq(PointRow) : IsCurve(c, Members(Chain, m))}]
<1>1. Typed /\ PointsInOrder /\ n \in Nat /\ IsChain(Chain, n) /\ l \in Nat /\ Chain \in Seq(1 .. n)
  BY ChainIs DEF Inductive, Typed, IsChain
<1> HIDE DEF n
<1>2. <<>> \in J[0]
  <2>1. /\ <<>> \in Seq(PointRow) /\ 0 \in 0 .. l
    BY <1>1
  <2>2. 1 .. Len(<<>>) = {}
    OBVIOUS
  <2>3. IsCurve(<<>>, Members(Chain, 0))
    BY <2>1, <2>2 DEF IsCurve
  <2> QED BY <2>1, <2>3
<1>3. ASSUME NEW m \in 1 .. l, NEW x \in J[m - 1]
      PROVE  StitchOp(None, Chain[m], x) \in J[m]
  <2>1. m - 1 \in 0 .. l /\ m \in 0 .. l
    BY <1>1
  <2>2. IsCurve(x, Members(Chain, m - 1))
    BY <2>1
  <2>3. IsCurve(StitchOp(None, Chain[m], x), Members(Chain, m))
    BY <1>1, <2>2, StitchSteps
  <2> DEFINE y == StitchOp(None, Chain[m], x)
  <2> HIDE DEF y
  <2>4. IsCurve(y, Members(Chain, m))
    BY <2>3 DEF y
  <2> QED BY <2>1, <2>4 DEF IsCurve, y
<1>4. Stitched(Chain) \in J[l]
  <2> DEFINE S == 1 .. n
             c == Chain
  <2>1. c \in Seq(S) /\ <<>> \in J[0]
        /\ \A m \in 1 .. Len(c) : \A x \in J[m - 1] : StitchOp(None, c[m], x) \in J[m]
    BY <1>1, <1>2, <1>3
  <2> HIDE DEF J, S, c
  <2>2. Stitched(c) \in J[Len(c)]
    BY <2>1, StitchKeeps
  <2> QED BY <2>2 DEF c
<1>5. l \in 0 .. l
  BY <1>1
<1>6. Members(Chain, l) = Range(Chain)
  <2>1. DOMAIN Chain = 1 .. l
    BY <1>1
  <2> QED BY <2>1 DEF Members, Range
<1>7. IsCurve(Stitched(Chain), Members(Chain, l))
  BY <1>4, <1>5
<1>8. ChainCurve = Stitched(Chain)
  BY DEF ChainCurve, Chain
<1> QED BY <1>6, <1>7, <1>8

\* The greatest index at a candle is the newest recording.
LEMMA InductiveCurveIsTrue ==
  ASSUME Inductive
  PROVE  ChainCurveIsTrue
<1> SUFFICES ASSUME runs # <<>>
             PROVE  /\ \A i \in 1 .. Len(ChainCurve) - 1 : ChainCurve[i].ts < ChainCurve[i + 1].ts
                    /\ \A i \in DOMAIN ChainCurve :
                         LET same == {k \in DOMAIN points : /\ points[k].ts = ChainCurve[i].ts
                                                            /\ points[k].run \in Range(Chain)}
                         IN ChainCurve[i].equity = points[Max(same)].equity
  BY DEF ChainCurveIsTrue, Chain
<1> DEFINE curve == ChainCurve
<1>1. IsCurve(curve, Range(Chain))
  BY ChainCurveIs
<1>2. curve \in Seq(PointRow) /\ Len(curve) \in Nat /\ DOMAIN curve = 1 .. Len(curve)
  BY <1>1 DEF IsCurve
<1>3. points \in Seq(PointRow) /\ DOMAIN points = 1 .. Len(points) /\ Len(points) \in Nat
  BY DEF Inductive, Typed
<1> HIDE DEF curve
<1>4. ASSUME NEW i \in 1 .. Len(curve) - 1 PROVE curve[i].ts < curve[i + 1].ts
  <2>1. i \in 1 .. Len(curve) /\ i + 1 \in 1 .. Len(curve) /\ i < i + 1
    BY <1>2
  <2> QED BY <1>1, <2>1 DEF IsCurve
<1>5. ASSUME NEW i \in 1 .. Len(curve)
      PROVE  LET same == {k \in DOMAIN points : /\ points[k].ts = curve[i].ts
                                                /\ points[k].run \in Range(Chain)}
             IN curve[i].equity = points[Max(same)].equity
  <2> DEFINE same == {k \in DOMAIN points : /\ points[k].ts = curve[i].ts
                                            /\ points[k].run \in Range(Chain)}
  <2>1. PICK k \in 1 .. Len(points) :
          Newest(k, curve[i].ts, Range(Chain)) /\ points[k].equity = curve[i].equity
    BY <1>1 DEF IsCurve
  <2>2. k \in same /\ same \in SUBSET (1 .. Len(points)) /\ \A j \in same : j <= k
    BY <1>3, <2>1 DEF Newest
  <2> HIDE DEF same
  <2>3. Max(same) \in same /\ k <= Max(same)
    BY <1>3, <2>2, LastIndex
  <2>4. Max(same) = k
    <3> DEFINE m == Max(same)
    <3>1. m \in 1 .. Len(points) /\ m <= k /\ k <= m
      BY <2>2, <2>3
    <3> HIDE DEF m
    <3>2. m = k
      BY <1>3, <3>1
    <3> QED BY <3>2 DEF m
  <2> QED BY <2>1, <2>4 DEF same
<1> QED BY <1>2, <1>4, <1>5 DEF curve

\* ChainCurveIsTrue holds throughout: however often a chain is restarted, and
\* whichever candles it processes again, its stitched curve goes forward in time
\* and shows the newest recording of every candle, unmoved.
THEOREM CurveIsTrue == Spec => []ChainCurveIsTrue
<1>1. Inductive => ChainCurveIsTrue
  BY InductiveCurveIsTrue
<1> QED BY <1>1, RecordsAreInOrder, PTL

-----------------------------------------------------------------------------
(***************************************************************************)
(* The positions that a trial's fills tell of.                             *)
(***************************************************************************)
\* The count after each of the first n rows.
Path(rows, judged, n, f) ==
  /\ f \in [0 .. n -> Position] /\ f[0] = Flat
  /\ \A k \in 1 .. n : f[k] = PositionOp(rows, judged, k, f[k - 1])

\* A fill takes a count to a count.
LEMMA PositionTyped ==
  ASSUME NEW rows \in Seq(FillRow), NEW judged, NEW k \in 1 .. Len(rows), NEW s \in Position
  PROVE  PositionOp(rows, judged, k, s) \in Position
<1>1. rows[k] \in FillRow
  OBVIOUS
<1>2. s.held + rows[k].units \in Int /\ s.count + 1 \in Int
  BY <1>1 DEF FillRow, Position
<1> QED BY <1>2 DEF PositionOp, Position

\* Every sequence of fills has such counts.
LEMMA PathExists ==
  ASSUME NEW rows \in Seq(FillRow), NEW judged
  PROVE  \E f : Path(rows, judged, Len(rows), f)
<1> DEFINE n == Len(rows)
           S == {k \in 0 .. n : \E f : Path(rows, judged, k, f)}
<1>1. n \in Nat
  OBVIOUS
<1>2. 0 \in S
  <2> DEFINE f == [k \in 0 .. 0 |-> Flat]
  <2>1. Flat \in Position /\ 1 .. 0 = {} /\ 0 \in 0 .. n
    BY <1>1 DEF Flat, Position
  <2>2. Path(rows, judged, 0, f)
    BY <2>1 DEF Path
  <2> HIDE DEF f
  <2> QED BY <2>1, <2>2
<1>3. ASSUME NEW k \in S, k < n PROVE k + 1 \in S
  <2>1. PICK f : Path(rows, judged, k, f)
    OBVIOUS
  <2> DEFINE e == PositionOp(rows, judged, k + 1, f[k])
             g == [j \in 0 .. k + 1 |-> IF j = k + 1 THEN e ELSE f[j]]
  <2>2. k \in 0 .. n /\ k + 1 \in 1 .. n /\ k + 1 \in 0 .. n
    BY <1>1, <1>3
  <2>3. f \in [0 .. k -> Position] /\ f[k] \in Position
    BY <2>1, <2>2 DEF Path
  <2>4. e \in Position
    BY <2>2, <2>3, PositionTyped
  <2> HIDE DEF e
  <2>5. g \in [0 .. k + 1 -> Position] /\ g[k + 1] = e /\ \A j \in 0 .. k : g[j] = f[j]
    BY <2>2, <2>3, <2>4
  <2> HIDE DEF g
  <2>6. ASSUME NEW j \in 1 .. k + 1 PROVE g[j] = PositionOp(rows, judged, j, g[j - 1])
    <3>1. CASE j = k + 1
      <4>1. j - 1 = k /\ k \in 0 .. k
        BY <2>2, <3>1
      <4> QED BY <2>5, <3>1, <4>1 DEF e
    <3>2. CASE j # k + 1
      <4>1. j \in 1 .. k /\ j \in 0 .. k /\ j - 1 \in 0 .. k
        BY <2>2, <3>2
      <4>2. f[j] = PositionOp(rows, judged, j, f[j - 1])
        BY <2>1, <4>1 DEF Path
      <4> QED BY <2>5, <4>1, <4>2
    <3> QED BY <3>1, <3>2
  <2>7. Path(rows, judged, k + 1, g)
    <3>1. g[0] = Flat
      BY <2>1, <2>2, <2>5 DEF Path
    <3> QED BY <2>5, <2>6, <3>1 DEF Path
  <2> QED BY <2>2, <2>7
<1>4. n \in S
  <2>1. n \in 0 .. n
    BY <1>1
  <2> HIDE DEF S
  <2>2. \A k \in 0 .. n : k \in S /\ k < n => k + 1 \in S
    BY <1>3
  <2> QED BY <1>1, <1>2, <2>1, <2>2, Climbing
<1> QED BY <1>4

\* The fold is where they end.
LEMMA PathIs ==
  ASSUME NEW rows \in Seq(FillRow), NEW judged, NEW f, Path(rows, judged, Len(rows), f)
  PROVE  PositionsOf(rows, judged) = f[Len(rows)]
<1> DEFINE n == Len(rows)
           J == [k \in 0 .. n |-> {f[k]}]
<1>1. n \in Nat /\ 0 \in 0 .. n /\ n \in 0 .. n
  OBVIOUS
<1>2. Flat \in J[0]
  BY <1>1 DEF Path
<1>3. ASSUME NEW k \in 1 .. n, NEW x \in J[k - 1]
      PROVE  PositionOp(rows, judged, k, x) \in J[k]
  <2>1. k - 1 \in 0 .. n /\ k \in 0 .. n
    BY <1>1
  <2>2. x = f[k - 1]
    BY <2>1
  <2>3. f[k] = PositionOp(rows, judged, k, f[k - 1])
    BY DEF Path
  <2> QED BY <2>1, <2>2, <2>3
<1> HIDE DEF J
<1>4. PositionsOf(rows, judged) \in J[n]
  BY <1>2, <1>3, PositionsKeep
<1> QED BY <1>1, <1>4 DEF J

\* What is counted up to a row depends on the rows up to it.
Alike(rows, judged, rows2, judged2, m) ==
  \A k \in 1 .. m : rows2[k] = rows[k] /\ (k \in judged2 <=> k \in judged)
\* Two sequences that are alike up to a row have the same count after it.
LEMMA PathsAgree ==
  ASSUME NEW rows, NEW judged, NEW n \in Nat, NEW f, Path(rows, judged, n, f),
         NEW rows2, NEW judged2, NEW n2 \in Nat, NEW g, Path(rows2, judged2, n2, g),
         NEW m \in Nat, m <= n, m <= n2, Alike(rows, judged, rows2, judged2, m)
  PROVE  f[m] = g[m]
<1> DEFINE S == {k \in 0 .. m : f[k] = g[k]}
<1>1. 0 \in S
  BY DEF Path
<1>2. ASSUME NEW k \in 0 .. m, k \in S, k < m PROVE k + 1 \in S
  <2>1. k + 1 \in 1 .. m /\ k + 1 \in 1 .. n /\ k + 1 \in 1 .. n2 /\ (k + 1) - 1 = k /\ k + 1 \in 0 .. m
    BY <1>2
  <2>2. f[k] = g[k]
    BY <1>2
  <2>3. f[k + 1] = PositionOp(rows, judged, k + 1, f[k])
    BY <2>1 DEF Path
  <2>4. g[k + 1] = PositionOp(rows2, judged2, k + 1, g[k])
    BY <2>1 DEF Path
  <2>5. rows2[k + 1] = rows[k + 1] /\ (k + 1 \in judged2 <=> k + 1 \in judged)
    BY <2>1 DEF Alike
  <2>6. PositionOp(rows2, judged2, k + 1, g[k]) = PositionOp(rows, judged, k + 1, g[k])
    BY <2>5 DEF PositionOp
  <2> QED BY <2>1, <2>2, <2>3, <2>4, <2>6
<1>3. m \in S
  <2> HIDE DEF S
  <2>1. m \in 0 .. m
    OBVIOUS
  <2> QED BY <1>1, <1>2, <2>1, Climbing
<1> QED BY <1>3

\* The fold is a count.
LEMMA PositionsTyped ==
  ASSUME NEW rows \in Seq(FillRow), NEW judged
  PROVE  PositionsOf(rows, judged) \in Position
<1>1. PICK f : Path(rows, judged, Len(rows), f)
  BY PathExists
<1>2. Len(rows) \in 0 .. Len(rows)
  OBVIOUS
<1>3. PositionsOf(rows, judged) = f[Len(rows)]
  BY <1>1, PathIs
<1> QED BY <1>1, <1>2, <1>3 DEF Path

\* Where the judged rows are the same, so is the count.
LEMMA PositionsStay ==
  ASSUME NEW rows \in Seq(FillRow), NEW judged, NEW judged2,
         \A k \in 1 .. Len(rows) : k \in judged2 <=> k \in judged
  PROVE  PositionsOf(rows, judged2) = PositionsOf(rows, judged)
<1>1. PICK f : Path(rows, judged, Len(rows), f)
  BY PathExists
<1>2. PICK g : Path(rows, judged2, Len(rows), g)
  BY PathExists
<1>3. Len(rows) \in Nat /\ Len(rows) <= Len(rows)
  OBVIOUS
<1>4. Alike(rows, judged, rows, judged2, Len(rows))
  BY DEF Alike
<1>5. f[Len(rows)] = g[Len(rows)]
  BY <1>1, <1>2, <1>3, <1>4, PathsAgree
<1> QED BY <1>1, <1>2, <1>5, PathIs

\* Another row takes the count one step further.
LEMMA PositionsGrow ==
  ASSUME NEW rows \in Seq(FillRow), NEW judged, NEW row \in FillRow, NEW judged2,
         \A k \in 1 .. Len(rows) : k \in judged2 <=> k \in judged
  PROVE  LET more == Append(rows, row)
         IN  PositionsOf(more, judged2) =
               PositionOp(more, judged2, Len(rows) + 1, PositionsOf(rows, judged))
<1> DEFINE more == Append(rows, row)
           n == Len(rows)
<1>1. /\ n \in Nat /\ more \in Seq(FillRow) /\ Len(more) = n + 1
      /\ \A k \in 1 .. n : more[k] = rows[k]
  OBVIOUS
<1>2. PICK f : Path(rows, judged, n, f)
  BY PathExists
<1> HIDE DEF more
<1>3. PICK g : Path(more, judged2, n + 1, g)
  BY <1>1, PathExists
<1>4. f[n] = g[n]
  <2>1. n <= n /\ n <= n + 1 /\ n + 1 \in Nat
    BY <1>1
  <2>2. Alike(rows, judged, more, judged2, n)
    BY <1>1 DEF Alike
  <2> HIDE DEF n
  <2> QED BY <1>1, <1>2, <1>3, <2>1, <2>2, PathsAgree
<1>5. PositionsOf(rows, judged) = f[n]
  BY <1>2, PathIs
<1>6. PositionsOf(more, judged2) = g[n + 1]
  BY <1>1, <1>3, PathIs
<1>7. g[n + 1] = PositionOp(more, judged2, n + 1, g[n])
  <2>1. n + 1 \in 1 .. n + 1 /\ (n + 1) - 1 = n
    BY <1>1
  <2> QED BY <1>3, <2>1 DEF Path
<1> QED BY <1>4, <1>5, <1>6, <1>7 DEF more

\* Without a judged row nothing was opened.
LEMMA NoPositions ==
  ASSUME NEW rows \in Seq(FillRow), NEW judged, \A k \in 1 .. Len(rows) : k \notin judged
  PROVE  PositionsOf(rows, judged) = Flat
<1> DEFINE n == Len(rows)
           J == [k \in 0 .. n |-> {Flat}]
<1>1. n \in Nat
  OBVIOUS
<1>2. \A k \in 1 .. n : \A x \in J[k - 1] : PositionOp(rows, judged, k, x) \in J[k]
  <2> SUFFICES ASSUME NEW k \in 1 .. n, NEW x \in J[k - 1]
               PROVE  PositionOp(rows, judged, k, x) \in J[k]
    OBVIOUS
  <2>1. k - 1 \in 0 .. n /\ k \in 0 .. n /\ k \notin judged
    BY <1>1
  <2>2. x = Flat /\ J[k] = {Flat}
    BY <2>1
  <2>3. PositionOp(rows, judged, k, x) = x
    BY <2>1 DEF PositionOp
  <2> QED BY <2>2, <2>3
<1>3. Flat \in J[0] /\ J[n] = {Flat}
  BY <1>1
<1> HIDE DEF J
<1>4. PositionsOf(rows, judged) \in J[n]
  BY <1>2, <1>3, PositionsKeep
<1> QED BY <1>3, <1>4

\* More judged rows, all of them later than a sale of what is not held, do not
\* make the count valid.
LEMMA StaysShort ==
  ASSUME NEW rows \in Seq(FillRow), NEW judged, NEW more \in Seq(FillRow), NEW judged2,
         Len(rows) <= Len(more), \A k \in 1 .. Len(rows) : more[k] = rows[k],
         \A k \in 1 .. Len(rows) : k \in judged =>
           \A j \in 1 .. k : j \in judged2 <=> j \in judged,
         ~PositionsOf(rows, judged).valid
  PROVE  ~PositionsOf(more, judged2).valid
<1> DEFINE n == Len(rows)
           m == Len(more)
<1>1. n \in Nat /\ m \in Nat /\ n <= m
  OBVIOUS
<1>2. PICK f : Path(rows, judged, n, f)
  BY PathExists
<1>3. PICK g : Path(more, judged2, m, g)
  BY PathExists
<1>4. PositionsOf(rows, judged) = f[n] /\ PositionsOf(more, judged2) = g[m]
  BY <1>2, <1>3, PathIs
<1> DEFINE Bad == {k \in 0 .. n : ~f[k].valid}
<1>5. PICK b \in Bad : \A k \in Bad : b <= k
  <2>1. n \in Bad
    BY <1>1, <1>4
  <2>2. Bad \in SUBSET Int /\ IsFiniteSet(Bad)
    <3>1. IsFiniteSet(0 .. n) /\ 0 .. n \in SUBSET Int
      BY <1>1, FS_Interval
    <3>2. Bad \in SUBSET (0 .. n)
      OBVIOUS
    <3> QED BY <3>1, <3>2, FS_Subset
  <2> HIDE DEF Bad
  <2> QED BY <2>1, <2>2, HasLeast
<1>6. b \in 1 .. n /\ ~f[b].valid /\ b - 1 \in 0 .. n /\ f[b - 1].valid
  <2>1. f[0].valid
    BY <1>2 DEF Path, Flat
  <2>2. b \in 0 .. n /\ ~f[b].valid
    BY <1>5
  <2>3. b \in 1 .. n /\ b - 1 \in 0 .. n /\ ~(b <= b - 1)
    BY <1>1, <2>1, <2>2
  <2>4. b - 1 \notin Bad
    <3> HIDE DEF Bad
    <3> QED BY <1>5, <2>3
  <2> QED BY <2>2, <2>3, <2>4
<1>7. b \in judged
  <2>1. f[b] = PositionOp(rows, judged, b, f[b - 1])
    BY <1>2, <1>6 DEF Path
  <2> QED BY <1>6, <2>1 DEF PositionOp
<1>8. f[b] = g[b]
  <2>1. b \in Nat /\ b <= n /\ b <= m
    BY <1>1, <1>6
  <2>2. Alike(rows, judged, more, judged2, b)
    <3>1. \A k \in 1 .. b : k \in 1 .. n
      BY <1>1, <1>6
    <3> QED BY <1>6, <1>7, <3>1 DEF Alike
  <2> QED BY <1>1, <1>2, <1>3, <2>1, <2>2, PathsAgree
<1> DEFINE S == {k \in 0 .. m : k >= b => ~g[k].valid}
<1>9. 0 \in S
  BY <1>1, <1>6
<1>10. ASSUME NEW k \in 0 .. m, k \in S, k < m PROVE k + 1 \in S
  <2>1. k + 1 \in 1 .. m /\ k + 1 \in 0 .. m /\ (k + 1) - 1 = k
    BY <1>1, <1>10
  <2>2. CASE k + 1 < b
    <3>1. ~(k + 1 >= b)
      BY <1>6, <2>1, <2>2
    <3> QED BY <2>1, <3>1
  <2>3. CASE k + 1 = b
    <3>1. ~g[k + 1].valid
      BY <1>6, <1>8, <2>3
    <3> QED BY <2>1, <3>1
  <2>4. CASE k >= b
    <3>1. ~g[k].valid
      BY <1>10, <2>4
    <3>2. g[k + 1] = PositionOp(more, judged2, k + 1, g[k])
      BY <1>3, <2>1 DEF Path
    <3>3. g[k + 1] = g[k]
      BY <3>1, <3>2 DEF PositionOp
    <3> QED BY <2>1, <3>1, <3>3
  <2> QED BY <1>6, <1>10, <2>2, <2>3, <2>4
<1>11. m \in S
  <2> HIDE DEF S
  <2>1. m \in 0 .. m
    BY <1>1
  <2> QED BY <1>1, <1>9, <1>10, <2>1, Climbing
<1> QED BY <1>1, <1>4, <1>6, <1>11

-----------------------------------------------------------------------------
(***************************************************************************)
(* What the actions do to the runs and the rows.                           *)
(***************************************************************************)
RunRows == [from : Nat, config : Configs, started : Nat, ended : Nat,
            status : {"running", "halted", "failed"}, halt : Halts]

\* The types, row by row.
LEMMA RowTypes ==
  ASSUME Typed
  PROVE  /\ runs \in Seq(RunRows) /\ Len(runs) \in Nat
         /\ DOMAIN runs = 1 .. Len(runs) /\ \A i \in 1 .. Len(runs) : runs[i] \in RunRows
         /\ points \in Seq(PointRow) /\ Len(points) \in Nat
         /\ DOMAIN points = 1 .. Len(points) /\ \A i \in 1 .. Len(points) : points[i] \in PointRow
         /\ fills \in Seq(FillRow) /\ Len(fills) \in Nat
         /\ DOMAIN fills = 1 .. Len(fills) /\ \A i \in 1 .. Len(fills) : fills[i] \in FillRow
         /\ now \in Nat /\ next \in Int /\ order \in Int
         /\ ledger.held \in Int /\ ledger.equity \in Int
         /\ (runs # <<>> <=> Len(runs) \in 1 .. Len(runs))
         /\ (runs # <<>> => Tip = runs[Len(runs)])
<1>1. runs \in Seq(RunRows) /\ points \in Seq(PointRow) /\ fills \in Seq(FillRow)
  BY DEF Typed, RunRows
<1> HIDE DEF RunRows
<1>2. /\ Len(runs) \in Nat /\ DOMAIN runs = 1 .. Len(runs)
      /\ \A i \in 1 .. Len(runs) : runs[i] \in RunRows
  BY <1>1
<1>3. /\ Len(points) \in Nat /\ DOMAIN points = 1 .. Len(points)
      /\ \A i \in 1 .. Len(points) : points[i] \in PointRow
  BY <1>1
<1>4. /\ Len(fills) \in Nat /\ DOMAIN fills = 1 .. Len(fills)
      /\ \A i \in 1 .. Len(fills) : fills[i] \in FillRow
  BY <1>1
<1>5. runs # <<>> <=> Len(runs) \in 1 .. Len(runs)
  BY <1>1, <1>2
<1>6. runs # <<>> => Tip = runs[Len(runs)]
  BY DEF Tip, Last
<1> QED BY <1>1, <1>2, <1>3, <1>4, <1>5, <1>6 DEF Typed

\* A run starts: a row is added, and one that still says it runs is superseded.
Superseded(row) == [row EXCEPT !.status = "halted", !.halt = "superseded", !.ended = now]
Started(config, resumed) ==
  [config |-> config, started |-> now, ended |-> 0, status |-> "running", halt |-> None,
   from |-> IF resumed THEN Len(runs) ELSE 0]
StartRunBy(config, resumed) ==
  LET n == Len(runs) IN
  /\ Len(runs') = n + 1 /\ runs'[n + 1] = Started(config, resumed)
  /\ \A i \in 1 .. n : runs'[i] = IF i = n /\ runs[n].status = "running"
                                  THEN Superseded(runs[n]) ELSE runs[i]
  /\ ledger' = IF resumed THEN ledger ELSE NewLedger
  /\ truth' = IF ~InWindow(now) THEN truth
              ELSE [truth EXCEPT !.frozen = @ /\ config = trial.config, !.whole = @ /\ resumed]
\* StartRun, row by row.
LEMMA StartRunIs ==
  ASSUME Inductive, StartRun
  PROVE  /\ \E config \in Configs, resumed \in BOOLEAN :
              StartRunBy(config, resumed) /\ (resumed => runs # <<>>)
         /\ ~alive /\ order' = 0 /\ UNCHANGED <<now, points, fills, costs, trial>>
<1> DEFINE n == Len(runs)
           stale == runs # <<>> /\ Tip.status = "running"
           before == IF stale THEN [runs EXCEPT ![Len(runs)] =
                                      [@ EXCEPT !.status = "halted", !.halt = "superseded", !.ended = now]]
                              ELSE runs
<1>1. PICK config \in Configs, resumed \in BOOLEAN :
        /\ runs' = Append(before, Started(config, resumed))
        /\ ledger' = IF resumed THEN ledger ELSE NewLedger
        /\ truth' = IF ~InWindow(now) THEN truth
                    ELSE [truth EXCEPT !.frozen = @ /\ config = trial.config, !.whole = @ /\ resumed]
        /\ resumed => runs # <<>>
  <2>1. \A config : Resumes(config) \in BOOLEAN /\ (Resumes(config) => runs # <<>>)
    BY DEF Resumes
  <2>2. Originals \subseteq Configs
    BY ReportsAssumption
  <2> QED BY <2>1, <2>2 DEF StartRun, Started
<1>2. /\ runs \in Seq(RunRows) /\ n \in Nat /\ now \in Nat /\ \A i \in 1 .. n : runs[i] \in RunRows
      /\ (runs # <<>> <=> n \in 1 .. n) /\ (runs # <<>> => Tip = runs[n])
  BY RowTypes DEF Inductive
<1>3. /\ before \in Seq(RunRows) /\ Len(before) = n
      /\ \A i \in 1 .. n : before[i] = IF i = n /\ runs[n].status = "running"
                                       THEN Superseded(runs[n]) ELSE runs[i]
  <2>1. CASE ~stale
    <3>1. ~(n \in 1 .. n /\ runs[n].status = "running")
      BY <1>2, <2>1
    <3> QED BY <1>2, <2>1, <3>1
  <2>2. CASE stale
    <3>1. n \in 1 .. n /\ runs[n].status = "running" /\ runs[n] \in RunRows
      BY <1>2, <2>2
    <3>2. Superseded(runs[n]) \in RunRows
      BY <1>2, <3>1 DEF Superseded, RunRows, Halts
    <3>3. before = [runs EXCEPT ![n] = Superseded(runs[n])]
      BY <2>2 DEF Superseded
    <3> HIDE DEF before
    <3>4. /\ before \in Seq(RunRows) /\ Len(before) = n /\ before[n] = Superseded(runs[n])
          /\ \A i \in 1 .. n : i # n => before[i] = runs[i]
      BY <1>2, <3>1, <3>2, <3>3, RowReplaced
    <3> QED BY <3>1, <3>4
  <2> QED BY <2>1, <2>2
<1>4. Started(config, resumed) \in RunRows
  BY <1>2 DEF Started, RunRows, Halts
<1> HIDE DEF before
<1>5. /\ Len(runs') = n + 1 /\ runs'[n + 1] = Started(config, resumed)
      /\ \A i \in 1 .. n : runs'[i] = before[i]
  BY <1>1, <1>3, <1>4
<1>6. StartRunBy(config, resumed)
  BY <1>1, <1>3, <1>5 DEF StartRunBy
<1> QED BY <1>1, <1>6 DEF StartRun

\* A run ends: its row says how, unless it crashed.
Ended(row, how) ==
  [row EXCEPT !.ended = now, !.status = IF how = "failed" THEN "failed" ELSE "halted",
              !.halt = IF how = "failed" THEN None ELSE how]
EndRunBy(how) ==
  LET n == Len(runs) IN
  /\ n \in 1 .. n /\ Len(runs') = n
  /\ runs'[n] = IF how = "crash" THEN runs[n] ELSE Ended(runs[n], how)
  /\ \A i \in 1 .. n : i # n => runs'[i] = runs[i]
  /\ truth' = IF InWindow(now) /\ how \in {"failed", "risk"}
              THEN [truth EXCEPT !.clean = FALSE] ELSE truth
\* EndRun, row by row.
LEMMA EndRunIs ==
  ASSUME Inductive, EndRun
  PROVE  /\ \E how \in {"crash", "stopped", "watchdog", "risk", "failed"} : EndRunBy(how)
         /\ alive /\ ~alive' /\ UNCHANGED <<now, points, fills, order, ledger, costs, trial>>
<1> DEFINE n == Len(runs)
<1>1. PICK how \in Ends :
        /\ runs' = IF how = "crash" THEN runs
                   ELSE [runs EXCEPT ![n] = [@ EXCEPT !.ended = now,
                                              !.status = IF how = "failed" THEN "failed" ELSE "halted",
                                              !.halt = IF how = "failed" THEN None ELSE how]]
        /\ truth' = IF InWindow(now) /\ how \in {"failed", "risk"}
                    THEN [truth EXCEPT !.clean = FALSE] ELSE truth
  BY DEF EndRun
<1>2. /\ runs \in Seq(RunRows) /\ n \in Nat /\ now \in Nat /\ \A i \in 1 .. n : runs[i] \in RunRows
      /\ (runs # <<>> <=> n \in 1 .. n)
  BY RowTypes DEF Inductive
<1>3. alive /\ n \in 1 .. n /\ how \in {"crash", "stopped", "watchdog", "risk", "failed"}
  BY <1>2, ReportsAssumption DEF EndRun, Inductive, Typed
<1>4. CASE how = "crash"
  <2>1. EndRunBy(how)
    BY <1>1, <1>3, <1>4 DEF EndRunBy
  <2> QED BY <1>3, <2>1 DEF EndRun
<1>5. CASE how # "crash"
  <2>1. Ended(runs[n], how) \in RunRows
    BY <1>2, <1>3, <1>5 DEF Ended, RunRows, Halts
  <2>2. runs' = [runs EXCEPT ![n] = Ended(runs[n], how)]
    BY <1>1, <1>5 DEF Ended
  <2>3. /\ Len(runs') = n /\ runs'[n] = Ended(runs[n], how)
        /\ \A i \in 1 .. n : i # n => runs'[i] = runs[i]
    <3> HIDE DEF n
    <3> QED BY <1>2, <1>3, <2>1, <2>2, RowReplaced DEF n
  <2>4. EndRunBy(how)
    BY <1>1, <1>3, <1>5, <2>3 DEF EndRunBy
  <2> QED BY <1>3, <2>4 DEF EndRun
<1> QED BY <1>4, <1>5

\* A candle closes.
Point(equity) == [run |-> Len(runs), ts |-> next, equity |-> equity]
Fill == [run |-> Len(runs), ts |-> next, units |-> order]
CandleBy(move) ==
  LET held   == ledger.held + order
      equity == ledger.equity + move
  IN /\ ledger' = [held |-> held, equity |-> equity]
     /\ points' = Append(points, Point(equity))
     /\ fills' = IF order = 0 THEN fills ELSE Append(fills, Fill)
     /\ order' \in {0} \cup (IF held = 0 THEN {Lots} ELSE {-u : u \in 1 .. held})
     /\ truth' = Witness(next, held, equity)
\* Candle moves the equity by an integer and leaves the runs alone.
LEMMA CandleIs ==
  ASSUME Inductive, Candle
  PROVE  /\ \E move \in Int : CandleBy(move)
         /\ alive /\ next + Step <= now /\ UNCHANGED <<now, alive, runs, costs, trial>>
<1>1. Moves \subseteq Int /\ {0} \subseteq Int
  BY ReportsAssumption
<1>2. (IF ledger.held > 0 \/ order > 0 THEN Moves ELSE {0}) \subseteq Int
  BY <1>1
<1> QED BY <1>2 DEF Candle, CandleBy, Point, Fill

\* The rows are appended at the end.
LEMMA CandleAppends ==
  ASSUME Inductive, Candle, NEW move \in Int, CandleBy(move)
  PROVE  /\ Len(points') = Len(points) + 1
         /\ points'[Len(points) + 1] = Point(ledger.equity + move)
         /\ \A i \in 1 .. Len(points) : points'[i] = points[i]
         /\ Fill \in FillRow
         /\ order # 0 => /\ Len(fills') = Len(fills) + 1 /\ fills'[Len(fills) + 1] = Fill
                         /\ \A k \in 1 .. Len(fills) : fills'[k] = fills[k]
         /\ Len(runs) \in 1 .. Len(runs)
<1>1. /\ points \in Seq(PointRow) /\ fills \in Seq(FillRow) /\ Len(runs) \in Nat
      /\ next \in Int /\ order \in Int /\ ledger.equity \in Int
      /\ (runs # <<>> <=> Len(runs) \in 1 .. Len(runs))
  BY RowTypes DEF Inductive
<1>2. Point(ledger.equity + move) \in PointRow /\ Fill \in FillRow
  BY <1>1 DEF Point, Fill, PointRow, FillRow
<1>3. runs # <<>>
  BY DEF Candle, Inductive, Typed
<1> QED BY <1>1, <1>2, <1>3 DEF CandleBy

\* A trial is registered.
LEMMA HorizonIs ==
  ASSUME NEW r \in References, Plannable(r)
  PROVE  HorizonOf(r) \in Nat \ {0}
<1>1. /\ r.window \in Nat \ {0} /\ r.completed \in Nat /\ MinReference \in Nat \ {0}
      /\ MinHorizon \in Nat \ {0} /\ MinPositions \in Nat \ {0}
  BY ReportsAssumption
<1>2. r.completed >= MinReference
  BY DEF Plannable
<1> DEFINE a == 3 * MinPositions * r.window
           b == 2 * r.completed
<1>3. a \in Int /\ b \in Nat \ {0}
  <2>1. 3 * MinPositions \in Int /\ r.window \in Int
    BY <1>1
  <2>2. a \in Int
    BY <2>1
  <2>3. b \in Nat \ {0}
    BY <1>1, <1>2
  <2> QED BY <2>2, <2>3
<1>4. Required(r) = (a + b - 1) \div b
  BY DEF Required, CeilDiv
<1> HIDE DEF a, b
<1>5. Required(r) \in Int
  <2>1. a + b - 1 \in Int
    BY <1>3
  <2> QED BY <1>3, <1>4, <2>1
<1>6. Max({Required(r), MinHorizon}) \in Int /\ Max({Required(r), MinHorizon}) >= MinHorizon
  BY <1>1, <1>5, MaxOfTwo
<1> QED BY <1>1, <1>6 DEF HorizonOf

\* Register: on a running, fresh newest run without fills, for a window that
\* begins now.
LEMMA RegisterIs ==
  ASSUME Inductive, Register
  PROVE  LET n == Len(runs) IN
         /\ ~Registered /\ n \in 1 .. n /\ runs[n].status = "running" /\ runs[n].from = 0
         /\ \A k \in 1 .. Len(fills) : fills[k].run # n
         /\ order = 0 /\ truth' = NoTruth
         /\ trial'.start = now /\ trial'.end \in Int /\ now < trial'.end
         /\ trial'.root = n /\ trial'.config = runs[n].config
         /\ UNCHANGED <<now, alive, runs, points, fills, order, ledger, next, costs>>
<1>1. /\ now \in Nat /\ DOMAIN fills = 1 .. Len(fills)
      /\ (runs # <<>> <=> Len(runs) \in 1 .. Len(runs))
      /\ (runs # <<>> => Tip = runs[Len(runs)])
  BY RowTypes DEF Inductive
<1>2. PICK r \in References :
        /\ Plannable(r)
        /\ trial' = [start |-> now, end |-> now + HorizonOf(r), root |-> Len(runs),
                      config |-> Tip.config]
  BY DEF Register
<1>3. HorizonOf(r) \in Nat \ {0}
  BY <1>2, HorizonIs
<1>4. trial'.start = now /\ trial'.end \in Int /\ now < trial'.end
  BY <1>1, <1>2, <1>3
<1> QED BY <1>1, <1>2, <1>4 DEF Register

-----------------------------------------------------------------------------
(***************************************************************************)
(* What a verdict rests on is kept.                                        *)
(***************************************************************************)
\* No row of a run is lost, and one that is over stays as it is.
RunsKept ==
  /\ Len(runs') \in Nat /\ Len(runs) <= Len(runs')
  /\ \A i \in 1 .. Len(runs) :
       /\ i \in 1 .. Len(runs')
       /\ runs'[i].config = runs[i].config /\ runs'[i].started = runs[i].started
       /\ runs'[i].from = runs[i].from
       /\ runs[i].status # "running" => runs'[i] = runs[i]

\* The runs stay in the order they started, and time does not go back.
LEMMA RunsStayInTime ==
  ASSUME Inductive, RunsInTime, [Next]_vars
  PROVE  /\ RunsInTime' /\ RunsKept
         /\ now' \in Nat /\ now <= now' /\ (Registered => trial' = trial)
<1> DEFINE n == Len(runs)
<1>1. /\ n \in Nat /\ now \in Nat /\ \A i \in 1 .. n : runs[i] \in RunRows
      /\ (runs # <<>> <=> n \in 1 .. n)
  BY RowTypes DEF Inductive
<1>2. \A i \in 1 .. n : runs[i].started \in Nat /\ runs[i].ended \in Nat
  BY <1>1 DEF RunRows
<1>3. CASE StartRun
  <2>1. PICK config \in Configs, resumed \in BOOLEAN : StartRunBy(config, resumed)
    BY <1>3, StartRunIs
  <2>2. ~alive /\ UNCHANGED <<now, trial>> /\ alive'
    BY <1>3, StartRunIs DEF StartRun
  <2> DEFINE new == Started(config, resumed)
             held(i) == IF i = n /\ runs[n].status = "running" THEN Superseded(runs[n]) ELSE runs[i]
  <2>3. /\ Len(runs') = n + 1 /\ runs'[n + 1] = new
        /\ \A i \in 1 .. n : runs'[i] = held(i)
    BY <2>1 DEF StartRunBy
  <2>4. /\ new.started = now /\ new.ended = 0 /\ new.status = "running" /\ new.halt = None
    BY DEF Started
  <2>5. ASSUME NEW i \in 1 .. n
        PROVE  /\ held(i).config = runs[i].config /\ held(i).started = runs[i].started
               /\ held(i).from = runs[i].from /\ held(i).status # "running"
               /\ held(i).ended <= now
               /\ runs[i].status # "running" => held(i) = runs[i]
    <3>1. runs[i] \in RunRows
      BY <1>1
    <3>2. CASE i = n /\ runs[n].status = "running"
      BY <1>1, <3>1, <3>2 DEF Superseded, RunRows
    <3>3. CASE ~(i = n /\ runs[n].status = "running")
      <4>1. i < n => runs[i].status # "running"
        BY DEF RunsInTime
      <4>2. runs[i].status # "running"
        BY <1>1, <3>3, <4>1
      <4> QED BY <3>3, <4>2 DEF RunsInTime
    <3> QED BY <3>2, <3>3
  <2> HIDE DEF new, held
  <2>6. \A i \in 1 .. n : /\ i \in 1 .. n + 1 /\ runs'[i].started = runs[i].started
                          /\ runs[i].started <= now
    BY <1>1, <2>3, <2>5 DEF RunsInTime
  <2>7. RunsKept
    BY <1>1, <2>3, <2>5, <2>6 DEF RunsKept
  <2>8. RunsInTime'
    <3>1. ASSUME NEW i \in 1 .. n + 1, NEW j \in 1 .. n + 1, i <= j
          PROVE  runs'[i].started <= runs'[j].started
      <4>1. CASE j = n + 1
        <5>1. CASE i = n + 1
          BY <1>1, <2>3, <2>4, <4>1, <5>1
        <5>2. CASE i # n + 1
          <6>1. i \in 1 .. n
            BY <1>1, <5>2
          <6> QED BY <2>3, <2>4, <2>6, <4>1, <6>1
        <5> QED BY <5>1, <5>2
      <4>2. CASE j # n + 1
        <5>1. i \in 1 .. n /\ j \in 1 .. n
          BY <1>1, <3>1, <4>2
        <5> QED BY <2>6, <3>1, <5>1 DEF RunsInTime
      <4> QED BY <4>1, <4>2
    <3>2. ASSUME NEW i \in 1 .. n + 1
          PROVE  /\ runs'[i].started <= now /\ runs'[i].ended <= now
                 /\ runs'[i].status = "running" => runs'[i].halt = None
                 /\ i < n + 1 => runs'[i].status # "running"
      <4>1. CASE i = n + 1
        BY <1>1, <2>3, <2>4, <4>1
      <4>2. CASE i # n + 1
        <5>1. i \in 1 .. n
          BY <1>1, <4>2
        <5> QED BY <2>3, <2>5, <2>6, <5>1
      <4> QED BY <4>1, <4>2
    <3>3. runs'[n + 1].status = "running"
      BY <2>3, <2>4
    <3> QED BY <2>2, <2>3, <3>1, <3>2, <3>3 DEF RunsInTime
  <2> QED BY <1>1, <2>2, <2>7, <2>8
<1>4. CASE EndRun
  <2>1. PICK how \in {"crash", "stopped", "watchdog", "risk", "failed"} : EndRunBy(how)
    BY <1>4, EndRunIs
  <2>2. alive /\ ~alive' /\ UNCHANGED <<now, trial>>
    BY <1>4, EndRunIs
  <2>3. /\ n \in 1 .. n /\ Len(runs') = n
        /\ runs'[n] = IF how = "crash" THEN runs[n] ELSE Ended(runs[n], how)
        /\ \A i \in 1 .. n : i # n => runs'[i] = runs[i]
    BY <2>1 DEF EndRunBy
  <2>4. runs[n] \in RunRows /\ runs[n].status = "running"
    BY <1>1, <2>2, <2>3 DEF RunsInTime
  <2>5. /\ runs'[n].config = runs[n].config /\ runs'[n].started = runs[n].started
        /\ runs'[n].from = runs[n].from /\ runs'[n].ended <= now
        /\ runs'[n].status = "running" => runs'[n].halt = None
    <3>1. CASE how = "crash"
      BY <2>3, <2>4, <3>1 DEF RunsInTime
    <3>2. CASE how # "crash"
      BY <1>1, <2>3, <2>4, <3>2 DEF Ended, RunRows
    <3> QED BY <3>1, <3>2
  <2>6. RunsKept
    BY <1>1, <2>3, <2>4, <2>5 DEF RunsKept
  <2>7. RunsInTime'
    <3>1. \A i \in 1 .. n : runs'[i].started = runs[i].started
      BY <2>3, <2>5
    <3>2. ASSUME NEW i \in 1 .. n
          PROVE  /\ runs'[i].started <= now /\ runs'[i].ended <= now
                 /\ runs'[i].status = "running" => runs'[i].halt = None
                 /\ i < n => runs'[i].status # "running"
      <4>1. CASE i = n
        BY <1>1, <2>5, <3>1, <4>1 DEF RunsInTime
      <4>2. CASE i # n
        BY <2>3, <4>2 DEF RunsInTime
      <4> QED BY <4>1, <4>2
    <3> QED BY <2>2, <2>3, <3>1, <3>2 DEF RunsInTime
  <2> QED BY <1>1, <2>2, <2>6, <2>7
<1>5. CASE ~StartRun /\ ~EndRun
  <2>1. /\ runs' = runs /\ (now' = now \/ now' = now + 1) /\ alive' = alive
        /\ (Registered => trial' = trial)
    BY <1>5 DEF Next, Tick, Candle, RecordCost, Register, vars
  <2>2. now' \in Nat /\ now <= now'
    BY <1>1, <2>1
  <2>3. RunsKept
    BY <1>1, <2>1 DEF RunsKept
  <2>4. RunsInTime'
    <3>1. \A i \in 1 .. n : runs[i].started <= now' /\ runs[i].ended <= now'
      BY <1>1, <1>2, <2>2 DEF RunsInTime
    <3> QED BY <2>1, <3>1 DEF RunsInTime
  <2> QED BY <2>1, <2>2, <2>3, <2>4
<1> QED BY <1>3, <1>4, <1>5

\* Points and fills are written by candles only.
LEMMA OnlyCandlesWrite ==
  ASSUME [Next]_vars, ~Candle
  PROVE  points' = points /\ fills' = fills
BY DEF Next, Tick, StartRun, EndRun, RecordCost, Register, vars

\* An order waits for a candle newer than any recorded, so its fill comes
\* last.
LEMMA FillsStayInOrder ==
  ASSUME Inductive, FillsInOrder, [Next]_vars
  PROVE  FillsInOrder'
<1> DEFINE n == Len(runs)
           m == Len(fills)
           p == Len(points)
<1>1. CASE ~Candle
  BY <1>1, OnlyCandlesWrite DEF FillsInOrder
<1>2. CASE Candle
  <2>1. PICK move \in Int : CandleBy(move)
    BY <1>2, CandleIs
  <2>2. /\ Len(points') = p + 1 /\ points'[p + 1] = Point(ledger.equity + move)
        /\ \A i \in 1 .. p : points'[i] = points[i]
        /\ order # 0 => /\ Len(fills') = m + 1 /\ fills'[m + 1] = Fill
                        /\ \A k \in 1 .. m : fills'[k] = fills[k]
        /\ n \in 1 .. n
    BY <1>2, <2>1, CandleAppends
  <2>3. /\ m \in Nat /\ p \in Nat /\ n \in Nat /\ next \in Int
        /\ \A i \in 1 .. p : points[i] \in PointRow /\ \A k \in 1 .. m : fills[k] \in FillRow
    BY RowTypes DEF Inductive
  <2>4. /\ Point(ledger.equity + move).run = n /\ Point(ledger.equity + move).ts = next
        /\ Fill.run = n /\ Fill.ts = next
    BY DEF Point, Fill
  <2>5. \A k \in 1 .. m : \E i \in 1 .. p + 1 :
          points'[i].run = fills[k].run /\ points'[i].ts = fills[k].ts
    <3> SUFFICES ASSUME NEW k \in 1 .. m
                 PROVE  \E i \in 1 .. p + 1 :
                          points'[i].run = fills[k].run /\ points'[i].ts = fills[k].ts
      OBVIOUS
    <3>1. PICK i \in 1 .. p : points[i].run = fills[k].run /\ points[i].ts = fills[k].ts
      BY DEF FillsInOrder
    <3>2. i \in 1 .. p + 1
      BY <2>3
    <3> QED BY <2>2, <3>1, <3>2
  <2>6. CASE order = 0
    <3>1. fills' = fills
      BY <2>1, <2>6 DEF CandleBy
    <3> QED BY <2>2, <2>5, <3>1 DEF FillsInOrder
  <2>7. CASE order # 0
    <3>1. PICK s \in 1 .. p : points[s].run = n
      BY <2>7 DEF Inductive, FillsAreSignalled
    <3>2. points[s].ts < next
      BY <3>1 DEF Inductive, NextIsNew
    <3>3. ASSUME NEW k \in 1 .. m PROVE fills[k].run <= n /\ fills[k].ts < next
      <4>1. PICK i \in 1 .. p : points[i].run = fills[k].run /\ points[i].ts = fills[k].ts
        BY DEF FillsInOrder
      <4>2. points[i].run \in 1 .. n /\ points[i].ts <= next
        BY DEF Inductive, NextIsNew
      <4>3. CASE points[i].run = n
        BY <2>3, <4>1, <4>2, <4>3 DEF Inductive, NextIsNew
      <4>4. CASE points[i].run # n
        <5>1. i < s
          <6>1. CASE s < i
            <7>1. points[s].run <= points[i].run
              BY <6>1 DEF Inductive, PointsInOrder
            <7> QED BY <2>3, <3>1, <4>2, <4>4, <7>1
          <6>2. i # s
            BY <3>1, <4>4
          <6> QED BY <2>3, <6>1, <6>2
        <5>2. points[i].ts <= points[s].ts
          BY <5>1 DEF Inductive, PointsInOrder
        <5>3. points[i].ts \in Int /\ points[s].ts \in Int
          BY <2>3 DEF PointRow
        <5> QED BY <2>3, <3>2, <4>1, <4>2, <5>2, <5>3
      <4> QED BY <4>3, <4>4
    <3>4. \A k \in 1 .. m + 1 : \E i \in 1 .. p + 1 :
            points'[i].run = fills'[k].run /\ points'[i].ts = fills'[k].ts
      <4> SUFFICES ASSUME NEW k \in 1 .. m + 1
                   PROVE  \E i \in 1 .. p + 1 :
                            points'[i].run = fills'[k].run /\ points'[i].ts = fills'[k].ts
        OBVIOUS
      <4>1. CASE k = m + 1
        <5>1. p + 1 \in 1 .. p + 1
          BY <2>3
        <5> QED BY <2>2, <2>4, <2>7, <4>1, <5>1
      <4>2. CASE k # m + 1
        <5>1. k \in 1 .. m
          BY <2>3, <4>2
        <5> QED BY <2>2, <2>5, <2>7, <5>1
      <4> QED BY <4>1, <4>2
    <3>5. ASSUME NEW k \in 1 .. m + 1, NEW l \in 1 .. m + 1, k < l
          PROVE  fills'[k].run <= fills'[l].run /\ fills'[k].ts < fills'[l].ts
      <4>1. k \in 1 .. m /\ fills'[k] = fills[k]
        BY <2>2, <2>3, <2>7, <3>5
      <4>2. CASE l = m + 1
        BY <2>2, <2>4, <2>7, <3>3, <4>1, <4>2
      <4>3. CASE l # m + 1
        <5>1. l \in 1 .. m /\ fills'[l] = fills[l]
          BY <2>2, <2>3, <2>7, <4>3
        <5> QED BY <3>5, <4>1, <5>1 DEF FillsInOrder
      <4> QED BY <4>2, <4>3
    <3> QED BY <2>2, <2>7, <3>4, <3>5 DEF FillsInOrder
  <2> QED BY <2>6, <2>7
<1> QED BY <1>1, <1>2

\* A sale is of what is held, and a fresh ledger that holds something has
\* filled an order.
LEMMA NeverShortStays ==
  ASSUME Inductive, RunsInTime, NeverShort, [Next]_vars
  PROVE  NeverShort'
<1> DEFINE n == Len(runs)
           m == Len(fills)
<1>1. /\ n \in Nat /\ m \in Nat /\ order \in Int /\ ledger.held \in Int
      /\ (runs # <<>> <=> n \in 1 .. n)
  BY RowTypes DEF Inductive
<1>2. runs' # <<>> <=> Len(runs') \in 1 .. Len(runs')
  <2>1. runs' \in Seq(RunRows)
    BY StepKeepsInductive DEF Inductive, Typed, RunRows
  <2> HIDE DEF RunRows
  <2> QED BY <2>1
<1>3. CASE StartRun
  <2>1. PICK config \in Configs, resumed \in BOOLEAN :
          StartRunBy(config, resumed) /\ (resumed => runs # <<>>)
    BY <1>3, StartRunIs
  <2>2. order' = 0
    BY <1>3, StartRunIs
  <2>3. /\ Len(runs') = n + 1 /\ runs'[n + 1].from = IF resumed THEN n ELSE 0
        /\ ledger' = IF resumed THEN ledger ELSE NewLedger
    BY <2>1 DEF StartRunBy, Started
  <2>4. NewLedger.held = 0
    BY DEF NewLedger
  <2>5. runs'[Len(runs')].from = 0 => ~resumed
    BY <1>1, <2>1, <2>3
  <2> QED BY <1>1, <2>2, <2>3, <2>4, <2>5 DEF NeverShort
<1>4. CASE EndRun
  <2>1. order' = order /\ ledger' = ledger /\ fills' = fills
    BY <1>4, EndRunIs
  <2>2. PICK how \in {"crash", "stopped", "watchdog", "risk", "failed"} : EndRunBy(how)
    BY <1>4, EndRunIs
  <2>3. Len(runs') = n /\ n \in 1 .. n
    BY <2>2 DEF EndRunBy
  <2>4. runs'[n].from = runs[n].from
    BY <2>3, RunsStayInTime DEF RunsKept
  <2> QED BY <1>1, <1>2, <2>1, <2>3, <2>4 DEF NeverShort
<1>5. CASE Candle
  <2>1. PICK move \in Int : CandleBy(move)
    BY <1>5, CandleIs
  <2>2. runs' = runs
    BY <1>5, CandleIs
  <2> DEFINE held == ledger.held + order
  <2>3. ledger'.held = held /\ held \in Int /\ held >= 0
    BY <1>1, <2>1 DEF CandleBy, NeverShort
  <2>4. order' \in {0} \cup (IF held = 0 THEN {Lots} ELSE {-u : u \in 1 .. held})
    BY <2>1 DEF CandleBy
  <2>5. held + order' >= 0
    <3>1. Lots \in Nat
      BY ReportsAssumption
    <3> HIDE DEF held
    <3>2. CASE order' = 0
      BY <2>3, <3>2
    <3>3. CASE order' = Lots /\ held = 0
      BY <2>3, <3>1, <3>3
    <3>4. CASE \E u \in 1 .. held : order' = -u
      BY <2>3, <3>4
    <3> QED BY <2>4, <3>2, <3>3, <3>4
  <2>6. ASSUME runs[n].from = 0, \A k \in 1 .. Len(fills') : fills'[k].run # n
        PROVE  held = 0
    <3>1. order = 0
      <4> SUFFICES ASSUME order # 0 PROVE FALSE
        OBVIOUS
      <4>1. Len(fills') = m + 1 /\ fills'[m + 1] = Fill
        BY <1>5, <2>1, CandleAppends
      <4>2. m + 1 \in 1 .. m + 1 /\ Fill.run = n
        BY <1>1 DEF Fill
      <4> QED BY <2>6, <4>1, <4>2
    <3>2. fills' = fills
      BY <2>1, <3>1 DEF CandleBy
    <3>3. runs # <<>>
      BY <1>5 DEF Candle, Inductive, Typed
    <3>4. ledger.held = 0
      BY <2>6, <3>2, <3>3 DEF NeverShort
    <3> QED BY <3>1, <3>4
  <2> HIDE DEF held
  <2> QED BY <2>2, <2>3, <2>5, <2>6 DEF NeverShort
<1>6. CASE ~StartRun /\ ~EndRun /\ ~Candle
  <2>1. order' = order /\ ledger' = ledger /\ fills' = fills /\ runs' = runs
    BY <1>6 DEF Next, Tick, RecordCost, Register, vars
  <2> QED BY <2>1 DEF NeverShort
<1> QED BY <1>3, <1>4, <1>5, <1>6

\* Later runs start after the registration.
LEMMA TrialStaysRooted ==
  ASSUME Inductive, RunsInTime, TrialIsRooted, [Next]_vars
  PROVE  TrialIsRooted'
<1> DEFINE n == Len(runs)
<1>1. /\ n \in Nat /\ now \in Nat /\ \A i \in 1 .. n : runs[i].started \in Nat
  BY RowTypes DEF Inductive, RunRows
<1>2. RunsKept /\ RunsInTime' /\ now' \in Nat /\ now <= now'
  BY RunsStayInTime
<1>3. CASE Register
  <2>1. /\ n \in 1 .. n /\ trial'.start = now /\ trial'.end \in Int /\ now < trial'.end
        /\ trial'.root = n /\ runs' = runs /\ now' = now
    BY <1>3, RegisterIs
  <2>2. runs[n].started <= now
    BY <2>1 DEF RunsInTime
  <2>3. \A i \in 1 .. n : ~(i > n)
    BY <1>1
  <2> QED BY <1>1, <2>1, <2>2, <2>3 DEF TrialIsRooted, Registered
<1>4. CASE ~Register
  <2>1. trial' = trial
    BY <1>4, StartRunIs, EndRunIs DEF Next, Tick, Candle, RecordCost, StartRun, EndRun, vars
  <2> SUFFICES ASSUME Registered
               PROVE  /\ trial.root \in 1 .. Len(runs') /\ trial.start <= now'
                      /\ runs'[trial.root].started <= trial.start
                      /\ \A i \in 1 .. Len(runs') : i > trial.root => trial.start <= runs'[i].started
    BY <2>1 DEF TrialIsRooted, Registered
  <2>2. /\ trial.root \in 1 .. n /\ trial.start \in Int /\ trial.start <= now
        /\ runs[trial.root].started <= trial.start
        /\ \A i \in 1 .. n : i > trial.root => trial.start <= runs[i].started
    BY DEF TrialIsRooted
  <2>3. ASSUME NEW i \in 1 .. Len(runs'), i > trial.root
        PROVE  trial.start <= runs'[i].started
    <3>1. CASE i \in 1 .. n
      BY <1>2, <2>2, <2>3, <3>1 DEF RunsKept
    <3>2. CASE i \notin 1 .. n
      <4>1. runs' # runs
        BY <3>2
      <4>2. ~EndRun
        <5> SUFFICES ASSUME EndRun PROVE FALSE
          OBVIOUS
        <5>1. Len(runs') = n
          BY EndRunIs DEF EndRunBy
        <5> QED BY <3>2, <5>1
      <4>3. StartRun
        <5>1. ~Candle /\ ~Register
          BY <4>1, CandleIs, RegisterIs
        <5>2. ~Tick /\ ~RecordCost
          BY <4>1 DEF Tick, RecordCost
        <5> QED BY <4>1, <4>2, <5>1, <5>2 DEF Next, vars
      <4>4. Len(runs') = n + 1 /\ runs'[n + 1].started = now
        <5>1. PICK config \in Configs, resumed \in BOOLEAN : StartRunBy(config, resumed)
          BY <4>3, StartRunIs
        <5> QED BY <5>1 DEF StartRunBy, Started
      <4>5. i = n + 1
        BY <1>1, <3>2, <4>4
      <4> QED BY <2>2, <4>4, <4>5
    <3> QED BY <3>1, <3>2
  <2>4. trial.start <= now'
    BY <1>1, <1>2, <2>2
  <2> QED BY <1>2, <2>2, <2>3, <2>4 DEF RunsKept
<1> QED BY <1>3, <1>4

\* What will be judged of the runs that are there does not change.
LEMMA FinalRunsStay ==
  ASSUME RunsKept, trial' = trial, NEW i \in 1 .. Len(runs)
  PROVE  i \in FinalRuns' <=> i \in FinalRuns
BY DEF RunsKept, FinalRuns

\* The newest run counts if it started before the window was over.
LEMMA TipCounts ==
  ASSUME Inductive, TrialIsRooted, Registered
  PROVE  /\ runs # <<>> /\ Len(runs) \in 1 .. Len(runs) /\ Tip = runs[Len(runs)]
         /\ trial.root <= Len(runs)
         /\ Len(runs) \in FinalRuns <=> Tip.started < trial.end
<1> DEFINE n == Len(runs)
<1>1. /\ n \in Nat /\ (runs # <<>> <=> n \in 1 .. n) /\ (runs # <<>> => Tip = runs[n])
      /\ \A i \in 1 .. n : runs[i].started \in Nat
  BY RowTypes DEF Inductive, RunRows
<1>2. /\ trial.root \in 1 .. n /\ trial.start \in Int /\ trial.end \in Int /\ trial.start < trial.end
      /\ runs[trial.root].started <= trial.start
      /\ \A i \in 1 .. n : i > trial.root => trial.start <= runs[i].started
  BY DEF TrialIsRooted
<1>3. n \in 1 .. n /\ trial.root <= n
  BY <1>1, <1>2
<1>4. Tip = runs[n] /\ Tip.started \in Nat
  BY <1>1, <1>3
<1>5. n \in FinalRuns <=> n = trial.root \/ (trial.start <= Tip.started /\ Tip.started < trial.end)
  BY <1>3, <1>4 DEF FinalRuns
<1>6. CASE trial.root = n
  <2>1. Tip.started < trial.end
    BY <1>2, <1>4, <1>6
  <2> QED BY <1>1, <1>3, <1>4, <1>5, <1>6, <2>1
<1>7. CASE trial.root # n
  <2>1. n > trial.root
    BY <1>1, <1>2, <1>3, <1>7
  <2>2. trial.start <= Tip.started
    BY <1>2, <1>3, <1>4, <2>1
  <2> QED BY <1>1, <1>3, <1>4, <1>5, <1>7, <2>2
<1> QED BY <1>6, <1>7

\* A candle counts for the trial if it is judged in the end.
Counts == Len(runs) \in FinalRuns /\ trial.start <= next /\ next + Step <= trial.end
\* It is one that the history of the trial counts.
LEMMA CandleCounts ==
  ASSUME Inductive, TrialIsRooted, Registered
  PROVE  Counts <=> InWindow(next) /\ next + Step <= trial.end /\ Tip.started < trial.end
<1>1. Len(runs) \in FinalRuns <=> Tip.started < trial.end
  BY TipCounts
<1>2. next \in Int /\ Step \in Nat \ {0} /\ trial.end \in Int
  BY ReportsAssumption, RowTypes DEF Inductive, TrialIsRooted
<1>3. next + Step <= trial.end => next < trial.end
  BY <1>2
<1> QED BY <1>1, <1>3 DEF Counts, InWindow

\* Only candles add rows to judge, one point and at most one fill at a time.
LEMMA FinalRowsStay ==
  ASSUME Inductive, RunsInTime, FillsInOrder, Registered, [Next]_vars
  PROVE  /\ ~Candle => /\ FinalPoints' = FinalPoints /\ FinalFills' = FinalFills
                       /\ FinallyEarly' <=> FinallyEarly
         /\ Candle => /\ FinalPoints' = FinalPoints \cup (IF Counts THEN {Len(points) + 1} ELSE {})
                      /\ FinalFills' = FinalFills \cup
                                         (IF order # 0 /\ Counts THEN {Len(fills) + 1} ELSE {})
                      /\ FinallyEarly' <=> \/ FinallyEarly
                                           \/ order # 0 /\ Len(runs) \in FinalRuns /\ next < trial.start
<1> DEFINE n == Len(runs)
           m == Len(fills)
           p == Len(points)
<1>1. /\ n \in Nat /\ p \in Nat /\ m \in Nat
      /\ \A i \in 1 .. p : points[i].run \in 1 .. n
  BY RowTypes DEF Inductive, NextIsNew
<1>2. \A k \in 1 .. m : fills[k].run \in 1 .. n
  BY <1>1 DEF FillsInOrder
<1>3. RunsKept /\ trial' = trial
  BY RunsStayInTime
<1>4. \A i \in 1 .. n : i \in FinalRuns' <=> i \in FinalRuns
  BY <1>3, FinalRunsStay
<1>5. ASSUME ~Candle
      PROVE  /\ FinalPoints' = FinalPoints /\ FinalFills' = FinalFills
             /\ FinallyEarly' <=> FinallyEarly
  <2>1. points' = points /\ fills' = fills
    BY <1>5, OnlyCandlesWrite
  <2>2. FinalPoints' = FinalPoints
    BY <1>1, <1>3, <1>4, <2>1 DEF FinalPoints, FinallyOver
  <2>3. FinalFills' = FinalFills
    BY <1>2, <1>3, <1>4, <2>1 DEF FinalFills, FinallyOver
  <2>4. FinallyEarly' <=> FinallyEarly
    BY <1>2, <1>3, <1>4, <2>1 DEF FinallyEarly
  <2> QED BY <2>2, <2>3, <2>4
<1>6. ASSUME Candle
      PROVE  /\ FinalPoints' = FinalPoints \cup (IF Counts THEN {p + 1} ELSE {})
             /\ FinalFills' = FinalFills \cup (IF order # 0 /\ Counts THEN {m + 1} ELSE {})
             /\ FinallyEarly' <=> FinallyEarly \/ (order # 0 /\ n \in FinalRuns /\ next < trial.start)
  <2>1. PICK move \in Int : CandleBy(move)
    BY <1>6, CandleIs
  <2> DEFINE point == Point(ledger.equity + move)
  <2>2. /\ Len(points') = p + 1 /\ points'[p + 1] = point
        /\ \A i \in 1 .. p : points'[i] = points[i]
        /\ order # 0 => /\ Len(fills') = m + 1 /\ fills'[m + 1] = Fill
                        /\ \A k \in 1 .. m : fills'[k] = fills[k]
        /\ n \in 1 .. n
    BY <1>6, <2>1, CandleAppends
  <2>3. order = 0 => fills' = fills
    BY <2>1 DEF CandleBy
  <2>4. point.run = n /\ point.ts = next /\ Fill.run = n /\ Fill.ts = next
    BY DEF Point, Fill
  <2> HIDE DEF point
  <2>5. n \in FinalRuns' <=> n \in FinalRuns
    BY <1>4, <2>2
  <2>6. \A i : i \in 1 .. p + 1 <=> i \in 1 .. p \/ i = p + 1
    BY <1>1
  <2>7. \A k : k \in 1 .. m + 1 <=> k \in 1 .. m \/ k = m + 1
    BY <1>1
  <2>8. FinalPoints' = FinalPoints \cup (IF Counts THEN {p + 1} ELSE {})
    <3>1. \A i : i \in FinalPoints' <=>
                   i \in 1 .. p + 1 /\ points'[i].run \in FinalRuns'
                   /\ trial.start <= points'[i].ts /\ points'[i].ts + Step <= trial.end
      BY <1>3, <2>2 DEF FinalPoints, FinallyOver
    <3>2. \A i \in 1 .. p : i \in FinalPoints' <=> i \in FinalPoints
      BY <1>1, <1>4, <2>2, <2>6, <3>1 DEF FinalPoints, FinallyOver
    <3>3. p + 1 \in FinalPoints' <=> Counts
      BY <2>2, <2>4, <2>5, <2>6, <3>1 DEF Counts
    <3>4. \A i \in FinalPoints' : i \in 1 .. p \/ i = p + 1
      BY <2>6, <3>1
    <3>5. \A i \in FinalPoints : i \in 1 .. p
      BY DEF FinalPoints
    <3> HIDE DEF p
    <3> QED BY <3>2, <3>3, <3>4, <3>5
  <2>9. FinalFills' = FinalFills \cup (IF order # 0 /\ Counts THEN {m + 1} ELSE {})
    <3>1. \A k : k \in FinalFills' <=>
                   k \in 1 .. Len(fills') /\ fills'[k].run \in FinalRuns'
                   /\ trial.start <= fills'[k].ts /\ fills'[k].ts + Step <= trial.end
      BY <1>3 DEF FinalFills, FinallyOver
    <3>2. \A k \in 1 .. m : k \in FinalFills' <=> k \in FinalFills
      BY <1>2, <1>4, <2>2, <2>3, <2>7, <3>1 DEF FinalFills, FinallyOver
    <3>3. order # 0 => (m + 1 \in FinalFills' <=> Counts)
      BY <2>2, <2>4, <2>5, <2>7, <3>1 DEF Counts
    <3>4. \A k \in FinalFills' : k \in 1 .. m \/ (order # 0 /\ k = m + 1)
      BY <2>2, <2>3, <2>7, <3>1
    <3>5. \A k \in FinalFills : k \in 1 .. m
      BY DEF FinalFills
    <3> HIDE DEF m
    <3> QED BY <3>2, <3>3, <3>4, <3>5
  <2>10. FinallyEarly' <=> FinallyEarly \/ (order # 0 /\ n \in FinalRuns /\ next < trial.start)
    <3>1. FinallyEarly' <=>
            \E k \in 1 .. Len(fills') : fills'[k].run \in FinalRuns' /\ fills'[k].ts < trial.start
      BY <1>3 DEF FinallyEarly
    <3>2. CASE order = 0
      BY <1>2, <1>4, <2>3, <3>1, <3>2 DEF FinallyEarly
    <3>3. CASE order # 0
      <4>1. /\ \A k \in 1 .. m : /\ fills'[k] = fills[k]
                                 /\ fills[k].run \in FinalRuns' <=> fills[k].run \in FinalRuns
            /\ fills'[m + 1].run = n /\ fills'[m + 1].ts = next
        BY <1>2, <1>4, <2>2, <2>4, <3>3
      <4>2. FinallyEarly' <=> \E k : /\ k \in 1 .. m \/ k = m + 1
                                     /\ fills'[k].run \in FinalRuns' /\ fills'[k].ts < trial.start
        BY <2>2, <2>7, <3>1, <3>3
      <4> HIDE DEF m, n
      <4> QED BY <2>5, <3>3, <4>1, <4>2 DEF FinallyEarly, m
    <3> QED BY <3>2, <3>3
  <2> QED BY <2>8, <2>9, <2>10
<1> QED BY <1>5, <1>6

\* Only a registration changes the row of a trial, and only a run or a candle
\* what is known of it.
LEMMA TruthIs ==
  ASSUME Inductive, TruthTyped, [Next]_vars
  PROVE  /\ ~Register => trial' = trial
         /\ ~Register /\ ~StartRun /\ ~EndRun /\ ~Candle => truth' = truth
         /\ ~Register /\ ~StartRun => truth'.frozen = truth.frozen /\ truth'.whole = truth.whole
         /\ ~Register /\ ~EndRun => truth'.clean = truth.clean
         /\ ~Register /\ ~Candle => /\ truth'.entered = truth.entered
                                    /\ truth'.completed = truth.completed
                                    /\ truth'.equity = truth.equity
         /\ TruthTyped'
<1>1. CASE Register
  <2>1. truth' = NoTruth
    BY <1>1, RegisterIs
  <2>2. Capital \in Int
    BY ReportsAssumption
  <2> QED BY <1>1, <2>1, <2>2 DEF TruthTyped, NoTruth
<1>2. CASE StartRun
  <2>1. PICK config \in Configs, resumed \in BOOLEAN : StartRunBy(config, resumed)
    BY <1>2, StartRunIs
  <2>2. trial' = trial
    BY <1>2, StartRunIs
  <2>3. truth' = IF ~InWindow(now) THEN truth
                 ELSE [truth EXCEPT !.frozen = @ /\ config = trial.config, !.whole = @ /\ resumed]
    BY <2>1 DEF StartRunBy
  <2>4. ~Candle /\ ~EndRun
    BY <1>2, StartRunIs DEF Candle, EndRun
  <2> QED BY <1>2, <2>2, <2>3, <2>4 DEF TruthTyped
<1>3. CASE EndRun
  <2>1. PICK how \in {"crash", "stopped", "watchdog", "risk", "failed"} : EndRunBy(how)
    BY <1>3, EndRunIs
  <2>2. trial' = trial /\ alive
    BY <1>3, EndRunIs
  <2>3. truth' = IF InWindow(now) /\ how \in {"failed", "risk"}
                 THEN [truth EXCEPT !.clean = FALSE] ELSE truth
    BY <2>1 DEF EndRunBy
  <2> QED BY <1>3, <2>2, <2>3 DEF TruthTyped
<1>4. CASE Candle
  <2>1. PICK move \in Int : CandleBy(move)
    BY <1>4, CandleIs
  <2>2. trial' = trial /\ alive' = alive /\ alive
    BY <1>4, CandleIs
  <2>3. truth' = Witness(next, ledger.held + order, ledger.equity + move)
    BY <2>1 DEF CandleBy
  <2>4. next \in Int /\ ledger.equity + move \in Int
    BY RowTypes DEF Inductive
  <2>5. /\ truth'.frozen = truth.frozen /\ truth'.whole = truth.whole /\ truth'.clean = truth.clean
        /\ TruthTyped'
    BY <2>3, <2>4 DEF TruthTyped, Witness
  <2>6. ~StartRun /\ ~EndRun
    BY <2>2 DEF StartRun, EndRun
  <2> QED BY <1>4, <2>2, <2>5, <2>6
<1>5. CASE ~Register /\ ~StartRun /\ ~EndRun /\ ~Candle
  <2>1. truth' = truth /\ trial' = trial
    BY <1>5 DEF Next, Tick, RecordCost, vars
  <2> QED BY <1>5, <2>1 DEF TruthTyped
<1> QED BY <1>1, <1>2, <1>3, <1>4, <1>5

\* A run that tells of a fault tells of it afterwards.
LEMMA FaultsStayTold ==
  ASSUME Inductive, RunsInTime, TrialIsRooted, TruthTyped, FaultsAreTold, [Next]_vars
  PROVE  FaultsAreTold'
<1> DEFINE n == Len(runs)
<1>1. /\ n \in Nat /\ now \in Nat /\ \A i \in 1 .. n : runs[i] \in RunRows
  BY RowTypes DEF Inductive
<1>2. RunsKept
  BY RunsStayInTime
<1>3. CASE Register
  <2>1. truth' = NoTruth
    BY <1>3, RegisterIs
  <2>2. truth'.frozen /\ truth'.whole /\ truth'.clean
    BY <2>1 DEF NoTruth
  <2> QED BY <2>2 DEF FaultsAreTold
<1>4. CASE ~Register
  <2>1. trial' = trial
    BY <1>4, TruthIs
  <2> SUFFICES ASSUME Registered PROVE FaultsAreTold'
    BY <2>1 DEF FaultsAreTold, Registered
  <2>2. /\ \A i \in 1 .. n : i \in FinalRuns' <=> i \in FinalRuns
        /\ FinalRuns \subseteq 1 .. n
    <3>1. FinalRuns \subseteq 1 .. n
      BY DEF FinalRuns
    <3> QED BY <1>2, <2>1, <3>1, FinalRunsStay
  <2>3. \A i \in 1 .. n : /\ i \in 1 .. Len(runs') /\ runs'[i].config = runs[i].config
                         /\ runs'[i].from = runs[i].from
    BY <1>2 DEF RunsKept
  <2>4. /\ trial.root \in 1 .. n /\ trial.start \in Int /\ trial.end \in Int
        /\ \A i \in 1 .. n : i > trial.root => trial.start <= runs[i].started
    BY DEF TrialIsRooted
  <2>5. ASSUME ~truth'.frozen
        PROVE  \E i \in FinalRuns' : runs'[i].config # trial.config
    <3>1. CASE ~truth.frozen
      <4>1. PICK i \in FinalRuns : runs[i].config # trial.config
        BY <3>1 DEF FaultsAreTold
      <4> QED BY <2>2, <2>3, <4>1
    <3>2. CASE truth.frozen
      <4>1. StartRun
        BY <1>4, <2>5, <3>2, TruthIs
      <4>2. PICK config \in Configs, resumed \in BOOLEAN : StartRunBy(config, resumed)
        BY <4>1, StartRunIs
      <4>3. truth' = IF ~InWindow(now) THEN truth
                     ELSE [truth EXCEPT !.frozen = @ /\ config = trial.config, !.whole = @ /\ resumed]
        BY <4>2 DEF StartRunBy
      <4>4. InWindow(now) /\ config # trial.config
        BY <2>5, <3>2, <4>3 DEF TruthTyped
      <4>5. /\ Len(runs') = n + 1 /\ runs'[n + 1].started = now /\ runs'[n + 1].config = config
        BY <4>2 DEF StartRunBy, Started
      <4>6. n + 1 \in 1 .. n + 1
        BY <1>1
      <4>7. n + 1 \in FinalRuns'
        BY <2>1, <4>4, <4>5, <4>6 DEF FinalRuns, InWindow
      <4> QED BY <4>4, <4>5, <4>7
    <3> QED BY <3>1, <3>2
  <2>6. ASSUME ~truth'.whole
        PROVE  \E i \in FinalRuns' : i > trial.root /\ runs'[i].from = 0
    <3>1. CASE ~truth.whole
      <4>1. PICK i \in FinalRuns : i > trial.root /\ runs[i].from = 0
        BY <3>1 DEF FaultsAreTold
      <4> QED BY <2>2, <2>3, <4>1
    <3>2. CASE truth.whole
      <4>1. StartRun
        BY <1>4, <2>6, <3>2, TruthIs
      <4>2. PICK config \in Configs, resumed \in BOOLEAN : StartRunBy(config, resumed)
        BY <4>1, StartRunIs
      <4>3. truth' = IF ~InWindow(now) THEN truth
                     ELSE [truth EXCEPT !.frozen = @ /\ config = trial.config, !.whole = @ /\ resumed]
        BY <4>2 DEF StartRunBy
      <4>4. InWindow(now) /\ ~resumed
        BY <2>6, <3>2, <4>3 DEF TruthTyped
      <4>5. /\ Len(runs') = n + 1 /\ runs'[n + 1].started = now /\ runs'[n + 1].from = 0
        BY <4>2, <4>4 DEF StartRunBy, Started
      <4>6. n + 1 \in 1 .. n + 1 /\ n + 1 > trial.root
        BY <1>1, <2>4
      <4>7. n + 1 \in FinalRuns'
        BY <2>1, <4>4, <4>5, <4>6 DEF FinalRuns, InWindow
      <4> QED BY <4>4, <4>5, <4>6, <4>7
    <3> QED BY <3>1, <3>2
  <2>7. ASSUME ~truth'.clean
        PROVE  \E i \in FinalRuns' : /\ runs'[i].ended < trial.end
                                     /\ runs'[i].status = "failed" \/ runs'[i].halt = "risk"
    <3>1. CASE ~truth.clean
      <4>1. PICK i \in FinalRuns : /\ runs[i].ended < trial.end
                                   /\ runs[i].status = "failed" \/ runs[i].halt = "risk"
        BY <3>1 DEF FaultsAreTold
      <4>2. runs[i].status # "running"
        BY <2>2, <4>1 DEF RunsInTime, None
      <4>3. runs'[i] = runs[i]
        BY <1>2, <2>2, <4>1, <4>2 DEF RunsKept
      <4> QED BY <2>2, <2>3, <4>1, <4>3
    <3>2. CASE truth.clean
      <4>1. EndRun
        BY <1>4, <2>7, <3>2, TruthIs
      <4>2. PICK how \in {"crash", "stopped", "watchdog", "risk", "failed"} : EndRunBy(how)
        BY <4>1, EndRunIs
      <4>3. /\ n \in 1 .. n /\ Len(runs') = n
            /\ runs'[n] = IF how = "crash" THEN runs[n] ELSE Ended(runs[n], how)
            /\ truth' = IF InWindow(now) /\ how \in {"failed", "risk"}
                        THEN [truth EXCEPT !.clean = FALSE] ELSE truth
        BY <4>2 DEF EndRunBy
      <4>4. InWindow(now) /\ how \in {"failed", "risk"}
        BY <2>7, <3>2, <4>3
      <4>5. /\ runs'[n].ended = now
            /\ runs'[n].status = "failed" \/ runs'[n].halt = "risk"
        <5>1. runs[n] \in RunRows /\ runs'[n] = Ended(runs[n], how)
          BY <1>1, <4>3, <4>4
        <5> QED BY <4>4, <5>1 DEF Ended, RunRows
      <4>6. now < trial.end
        BY <4>4 DEF InWindow
      <4>7. n \in FinalRuns
        <5>1. runs[n].started \in Nat /\ runs[n].started <= now
          BY <1>1, <4>3 DEF RunsInTime, RunRows
        <5>2. runs[n].started < trial.end
          BY <1>1, <2>4, <4>6, <5>1
        <5>3. CASE n = trial.root
          BY <4>3, <5>3 DEF FinalRuns
        <5>4. CASE n # trial.root
          <6>1. n > trial.root
            BY <1>1, <2>4, <5>4
          <6>2. trial.start <= runs[n].started
            BY <2>4, <4>3, <6>1
          <6> QED BY <4>3, <5>2, <6>2 DEF FinalRuns
        <5> QED BY <5>3, <5>4
      <4> QED BY <2>2, <4>3, <4>5, <4>6, <4>7
    <3> QED BY <3>1, <3>2
  <2> QED BY <2>1, <2>5, <2>6, <2>7 DEF FaultsAreTold
<1> QED BY <1>3, <1>4

\* The newest point keeps showing the equity.
LEMMA EquityStaysTold ==
  ASSUME Inductive, RunsInTime, FillsInOrder, TrialIsRooted, TruthTyped, EquityIsTold, [Next]_vars
  PROVE  EquityIsTold'
<1> DEFINE p == Len(points)
<1>1. /\ p \in Nat /\ now \in Nat /\ Step \in Nat \ {0} /\ next \in Int
      /\ \A i \in 1 .. p : points[i] \in PointRow /\ points[i].ts + Step <= now
  BY ReportsAssumption, RowTypes DEF Inductive, NextIsNew
<1>2. FinalPoints \in SUBSET (1 .. p)
  BY DEF FinalPoints
<1>3. CASE Register
  <2>1. truth' = NoTruth /\ points' = points /\ trial'.start = now
    BY <1>3, RegisterIs
  <2>2. truth'.equity = Capital
    BY <2>1 DEF NoTruth
  <2>3. FinalPoints' = {}
    <3>1. \A i \in 1 .. p : ~(now <= points[i].ts)
      BY <1>1 DEF PointRow
    <3> QED BY <2>1, <3>1 DEF FinalPoints, FinallyOver
  <2> QED BY <2>2, <2>3 DEF EquityIsTold
<1>4. CASE ~Register
  <2>1. trial' = trial
    BY <1>4, TruthIs
  <2> SUFFICES ASSUME Registered PROVE EquityIsTold'
    BY <2>1 DEF EquityIsTold, Registered
  <2>2. CASE ~Candle
    <3>1. points' = points /\ truth'.equity = truth.equity
      BY <1>4, <2>2, OnlyCandlesWrite, TruthIs
    <3>2. FinalPoints' = FinalPoints
      BY <2>2, FinalRowsStay
    <3> QED BY <3>1, <3>2 DEF EquityIsTold
  <2>3. CASE Candle
    <3>1. PICK move \in Int : CandleBy(move)
      BY <2>3, CandleIs
    <3>2. /\ Len(points') = p + 1 /\ points'[p + 1].equity = ledger.equity + move
          /\ \A i \in 1 .. p : points'[i] = points[i]
      <4>1. Point(ledger.equity + move).equity = ledger.equity + move
        BY DEF Point
      <4> QED BY <2>3, <3>1, <4>1, CandleAppends
    <3>3. truth' = Witness(next, ledger.held + order, ledger.equity + move)
      BY <3>1 DEF CandleBy
    <3>4. FinalPoints' = FinalPoints \cup (IF Counts THEN {p + 1} ELSE {})
      BY <2>3, FinalRowsStay
    <3>5. Counts <=> InWindow(next) /\ next + Step <= trial.end /\ Tip.started < trial.end
      BY CandleCounts
    <3>6. /\ next + Step \in Int /\ trial.end \in Int /\ Tip.started \in Int
      <4>1. Tip = runs[Len(runs)] /\ Len(runs) \in 1 .. Len(runs)
        BY TipCounts
      <4>2. Tip \in RunRows
        BY <4>1, RowTypes DEF Inductive
      <4>3. trial.end \in Int
        BY DEF TrialIsRooted
      <4> QED BY <1>1, <4>2, <4>3 DEF RunRows
    <3>7. CASE Counts
      <4>1. truth'.equity = ledger.equity + move
        BY <3>3, <3>5, <3>6, <3>7 DEF Witness, TruthTyped
      <4>2. FinalPoints' \in SUBSET (1 .. p + 1) /\ p + 1 \in FinalPoints'
        <5>1. \A i \in FinalPoints : i \in 1 .. p + 1
          BY <1>1, <1>2
        <5>2. p + 1 \in 1 .. p + 1
          BY <1>1
        <5> QED BY <3>4, <3>7, <5>1, <5>2
      <4>3. Max(FinalPoints') = p + 1
        <5>1. p + 1 \in Nat /\ FinalPoints' # {}
          BY <1>1, <4>2
        <5>2. Max(FinalPoints') \in FinalPoints' /\ p + 1 <= Max(FinalPoints')
          BY <4>2, <5>1, LastIndex
        <5>3. Max(FinalPoints') \in 1 .. p + 1
          BY <4>2, <5>2
        <5> QED BY <1>1, <5>2, <5>3
      <4> QED BY <3>2, <4>1, <4>2, <4>3 DEF EquityIsTold
    <3>8. CASE ~Counts
      <4>1. truth' = truth
        BY <3>3, <3>5, <3>6, <3>8 DEF Witness
      <4>2. FinalPoints' = FinalPoints
        BY <3>4, <3>8
      <4>3. CASE FinalPoints = {}
        BY <4>1, <4>2, <4>3 DEF EquityIsTold
      <4>4. CASE FinalPoints # {}
        <5>1. Max(FinalPoints) \in 1 .. p
          BY <1>1, <1>2, <4>4, LastIndex
        <5>2. points'[Max(FinalPoints)] = points[Max(FinalPoints)]
          BY <3>2, <5>1
        <5> QED BY <4>1, <4>2, <4>4, <5>2 DEF EquityIsTold
      <4> QED BY <4>3, <4>4
    <3> QED BY <3>7, <3>8
  <2> QED BY <2>2, <2>3
<1> QED BY <1>3, <1>4

\* The fills keep telling of the positions that the ledger goes through.
LEMMA PositionsStayTold ==
  ASSUME Inductive, RunsInTime, FillsInOrder, NeverShort, TrialIsRooted, TruthTyped,
         PositionsAreTold, [Next]_vars
  PROVE  PositionsAreTold'
<1> DEFINE n == Len(runs)
           m == Len(fills)
           p == Len(points)
           told == PositionsOf(fills, FinalFills)
           later == PositionsOf(fills', FinalFills')
           before == \A i \in 1 .. p : points[i].ts + Step <= trial.end
<1>1. /\ n \in Nat /\ m \in Nat /\ p \in Nat /\ now \in Nat /\ Step \in Nat \ {0} /\ next \in Int
      /\ order \in Int /\ ledger.held \in Int /\ fills \in Seq(FillRow)
      /\ \A i \in 1 .. p : points[i].ts \in Int /\ points[i].ts + Step <= now /\ points[i].ts <= next
      /\ \A i \in 1 .. n : runs[i].started \in Nat
      /\ runs # <<>> <=> n \in 1 .. n
  BY ReportsAssumption, RowTypes DEF Inductive, NextIsNew, PointRow, RunRows
<1>2. told \in Position /\ FinalFills \subseteq 1 .. m
  BY <1>1, PositionsTyped DEF FinalFills
<1>3. CASE Register
  <2>1. /\ truth' = NoTruth /\ trial'.start = now /\ fills' = fills /\ points' = points
        /\ ledger' = ledger /\ n \in 1 .. n /\ runs[n].from = 0
        /\ \A k \in 1 .. m : fills[k].run # n
    BY <1>3, RegisterIs
  <2>2. \A k \in 1 .. m : k \notin FinalFills'
    <3> SUFFICES ASSUME NEW k \in 1 .. m, k \in FinalFills' PROVE FALSE
      OBVIOUS
    <3>1. PICK i \in 1 .. p : points[i].ts = fills[k].ts
      BY DEF FillsInOrder
    <3>2. now <= fills[k].ts
      BY <2>1 DEF FinalFills, FinallyOver
    <3> QED BY <1>1, <3>1, <3>2
  <2>3. later = Flat
    BY <1>1, <2>1, <2>2, NoPositions
  <2>4. ledger.held = 0
    BY <1>1, <2>1 DEF NeverShort
  <2>5. truth'.completed = 0
    BY <2>1 DEF NoTruth
  <2> HIDE DEF later
  <2>6. later.valid /\ later.count = 0 /\ later.held = 0
    BY <2>3 DEF Flat
  <2> QED BY <2>1, <2>4, <2>5, <2>6 DEF PositionsAreTold, later
<1>4. CASE ~Register
  <2>1. trial' = trial
    BY <1>4, TruthIs
  <2> SUFFICES ASSUME Registered, truth'.whole, ~FinallyEarly'
               PROVE  /\ later.valid /\ later.count = truth'.completed
                      /\ later.held > 0 => InWindow(truth'.entered)
                      /\ Len(runs') \in FinalRuns'
                         /\ (\A i \in 1 .. Len(points') : points'[i].ts + Step <= trial.end)
                           => later.held = ledger'.held
    BY <2>1 DEF PositionsAreTold, Registered, InWindow
  <2>2. /\ n \in 1 .. n /\ Tip = runs[n] /\ trial.root <= n
        /\ n \in FinalRuns <=> Tip.started < trial.end
    BY TipCounts
  <2>3. /\ trial.root \in Nat /\ trial.start \in Int /\ trial.end \in Int /\ trial.start <= now
    BY DEF TrialIsRooted
  <2>4. RunsKept
    BY RunsStayInTime
  <2>5. n \in FinalRuns' <=> n \in FinalRuns
    BY <2>1, <2>2, <2>4, FinalRunsStay
  <2> DEFINE Told == /\ told.valid /\ told.count = truth.completed
                     /\ told.held > 0 => InWindow(truth.entered)
                     /\ n \in FinalRuns /\ before => told.held = ledger.held
  <2>6. truth.whole /\ ~FinallyEarly => Told
    BY DEF PositionsAreTold
  <2> HIDE DEF told, later
  <2>7. CASE ~Candle
    <3>1. /\ fills' = fills /\ points' = points /\ FinalFills' = FinalFills
          /\ FinallyEarly' <=> FinallyEarly
      BY <2>7, OnlyCandlesWrite, FinalRowsStay
    <3>2. later = told
      BY <3>1 DEF later, told
    <3>3. truth'.entered = truth.entered /\ truth'.completed = truth.completed
      BY <1>4, <2>7, TruthIs
    <3>4. CASE StartRun
      <4>1. PICK config \in Configs, resumed \in BOOLEAN : StartRunBy(config, resumed)
        BY <3>4, StartRunIs
      <4>2. /\ Len(runs') = n + 1 /\ runs'[n + 1].started = now
            /\ ledger' = IF resumed THEN ledger ELSE NewLedger
            /\ truth' = IF ~InWindow(now) THEN truth
                        ELSE [truth EXCEPT !.frozen = @ /\ config = trial.config, !.whole = @ /\ resumed]
        BY <4>1 DEF StartRunBy, Started
      <4>3. CASE InWindow(now)
        <5>1. truth.whole /\ resumed
          BY <4>2, <4>3 DEF TruthTyped
        <5>2. now < trial.end /\ Tip.started <= now
          BY <2>2, <4>3 DEF InWindow, RunsInTime
        <5>3. n \in FinalRuns
          BY <1>1, <2>2, <2>3, <5>2
        <5>4. Told /\ ledger' = ledger
          BY <2>6, <3>1, <4>2, <5>1
        <5> QED BY <3>1, <3>2, <3>3, <5>3, <5>4
      <4>4. CASE ~InWindow(now)
        <5>1. truth' = truth /\ ~(now < trial.end)
          BY <2>3, <4>2, <4>4 DEF InWindow
        <5>2. n + 1 # trial.root
          BY <1>1, <2>2, <2>3
        <5>3. n + 1 \notin FinalRuns'
          BY <2>1, <4>2, <5>1, <5>2 DEF FinalRuns
        <5>4. Told
          BY <2>6, <3>1, <5>1
        <5> QED BY <3>2, <4>2, <5>1, <5>3, <5>4
      <4> QED BY <4>3, <4>4
    <3>5. CASE ~StartRun
      <4>1. truth'.whole = truth.whole
        BY <1>4, <3>5, TruthIs
      <4>2. ledger' = ledger
        BY <2>7, <3>5, EndRunIs DEF Next, Tick, RecordCost, Register, vars
      <4>3. Len(runs') = n
        <5>1. CASE EndRun
          BY <5>1, EndRunIs DEF EndRunBy
        <5>2. CASE ~EndRun
          BY <2>7, <3>5, <5>2 DEF Next, Tick, RecordCost, Register, vars
        <5> QED BY <5>1, <5>2
      <4>4. Told
        BY <2>6, <3>1, <4>1
      <4> QED BY <2>5, <3>1, <3>2, <3>3, <4>2, <4>3, <4>4
    <3> QED BY <3>4, <3>5
  <2>8. CASE Candle
    <3>1. PICK move \in Int : CandleBy(move)
      BY <2>8, CandleIs
    <3> DEFINE held == ledger.held + order
    <3>2. /\ ledger'.held = held
          /\ fills' = IF order = 0 THEN fills ELSE Append(fills, Fill)
          /\ truth' = Witness(next, held, ledger.equity + move)
      BY <3>1 DEF CandleBy
    <3>3. /\ Len(points') = p + 1 /\ points'[p + 1] = Point(ledger.equity + move)
          /\ \A i \in 1 .. p : points'[i] = points[i]
          /\ Fill \in FillRow
      BY <2>8, <3>1, CandleAppends
    <3>4. /\ FinalFills' = FinalFills \cup (IF order # 0 /\ Counts THEN {m + 1} ELSE {})
          /\ FinallyEarly' <=> FinallyEarly \/ (order # 0 /\ n \in FinalRuns /\ next < trial.start)
      BY <2>8, FinalRowsStay
    <3>5. Counts <=> InWindow(next) /\ next + Step <= trial.end /\ Tip.started < trial.end
      BY CandleCounts
    <3>6. /\ runs' = runs /\ truth'.whole = truth.whole
      BY <1>4, <2>8, CandleIs, TruthIs DEF StartRun, Candle
    <3>7. Told
      BY <2>6, <3>4, <3>6
    <3>8. held \in Int /\ held >= 0 /\ ledger.held >= 0
      BY <1>1 DEF NeverShort
    <3>9. order = 0 => later = told
      BY <3>2, <3>4 DEF later, told
    <3>10. order # 0 => later = PositionOp(fills', FinalFills', m + 1, told)
      <4> SUFFICES ASSUME order # 0 PROVE later = PositionOp(fills', FinalFills', m + 1, told)
        OBVIOUS
      <4>1. \A k \in 1 .. m : k \in FinalFills' <=> k \in FinalFills
        BY <1>1, <3>4
      <4> QED BY <1>1, <3>2, <3>3, <4>1, PositionsGrow DEF later, told
    <3>11. order # 0 => fills'[m + 1].units = order
      BY <1>1, <3>2, <3>3 DEF Fill
    <3>12. \A i \in 1 .. p : points[i].ts + Step <= next + Step
      BY <1>1
    <3>13. Tip.started \in Int
      BY <1>1, <2>2
    <3> HIDE DEF held
    <3>14. CASE Counts
      <4>1. told.held = ledger.held
        <5>1. before /\ n \in FinalRuns
          BY <1>1, <2>3, <3>12, <3>14 DEF Counts
        <5> HIDE DEF before
        <5> QED BY <3>7, <5>1
      <4>2. truth' = [truth EXCEPT
                        !.entered = IF ledger.held = 0 /\ held > 0 THEN next ELSE @,
                        !.completed = IF ledger.held > 0 /\ held = 0 /\ InWindow(truth.entered)
                                      THEN @ + 1 ELSE @,
                        !.equity = ledger.equity + move]
        BY <1>1, <2>3, <3>2, <3>5, <3>13, <3>14 DEF Witness
      <4>3. /\ truth'.entered = IF ledger.held = 0 /\ held > 0 THEN next ELSE truth.entered
            /\ truth'.completed = IF ledger.held > 0 /\ held = 0 /\ InWindow(truth.entered)
                                  THEN truth.completed + 1 ELSE truth.completed
        BY <4>2 DEF TruthTyped
      <4>4. CASE order = 0
        <5>1. held = ledger.held
          BY <1>1, <4>4 DEF held
        <5>2. truth'.entered = truth.entered /\ truth'.completed = truth.completed
          BY <1>1, <4>3, <5>1
        <5> HIDE DEF before
        <5> QED BY <3>2, <3>7, <3>9, <4>1, <4>4, <5>1, <5>2
      <4>5. CASE order # 0
        <5>1. m + 1 \in FinalFills'
          BY <3>4, <3>14, <4>5
        <5>2. later = [told EXCEPT !.held = held,
                                   !.count = IF told.held > 0 /\ held = 0 THEN @ + 1 ELSE @]
          <6>1. told.held + fills'[m + 1].units = held /\ ~(held < 0)
            BY <3>8, <3>11, <4>1, <4>5 DEF held
          <6>2. later = PositionOp(fills', FinalFills', m + 1, told) /\ told.valid
            BY <3>7, <3>10, <4>5
          <6> QED BY <5>1, <6>1, <6>2 DEF PositionOp
        <5>3. /\ later.held = held /\ later.valid
              /\ later.count = IF told.held > 0 /\ held = 0 THEN told.count + 1 ELSE told.count
          BY <1>2, <3>7, <5>2 DEF Position
        <5>4. later.count = truth'.completed
          BY <1>1, <3>7, <4>1, <4>3, <5>3
        <5>5. held > 0 => InWindow(truth'.entered)
          <6>1. CASE ledger.held = 0
            BY <3>5, <3>14, <4>3, <6>1
          <6>2. CASE ledger.held # 0
            <7>1. told.held > 0
              BY <1>1, <3>8, <4>1, <6>2
            <7> QED BY <3>7, <4>3, <6>2, <7>1
          <6> QED BY <6>1, <6>2
        <5> QED BY <3>2, <5>3, <5>4, <5>5
      <4> QED BY <4>4, <4>5
    <3>15. CASE ~Counts
      <4>1. truth' = truth
        BY <1>1, <2>3, <3>2, <3>5, <3>13, <3>15 DEF Witness
      <4>2. later = told
        <5>1. m + 1 \notin FinalFills'
          BY <1>1, <1>2, <3>4, <3>15
        <5> QED BY <3>9, <3>10, <5>1 DEF PositionOp
      <4>3. ASSUME n \in FinalRuns', \A i \in 1 .. p + 1 : points'[i].ts + Step <= trial.end
            PROVE  later.held = ledger'.held
        <5>1. n \in FinalRuns
          BY <2>5, <4>3
        <5>2. next + Step <= trial.end
          <6>1. p + 1 \in 1 .. p + 1 /\ Point(ledger.equity + move).ts = next
            BY <1>1 DEF Point
          <6> QED BY <3>3, <4>3, <6>1
        <5>3. next < trial.start
          BY <1>1, <2>3, <3>15, <5>1, <5>2 DEF Counts
        <5>4. order = 0
          BY <3>4, <5>1, <5>3
        <5>5. before
          BY <1>1, <2>3, <3>12, <5>2
        <5>6. held = ledger.held
          BY <1>1, <5>4 DEF held
        <5> HIDE DEF before
        <5> QED BY <3>2, <3>7, <4>2, <5>1, <5>5, <5>6
      <4> HIDE DEF before
      <4> QED BY <3>3, <3>6, <3>7, <4>1, <4>2, <4>3
    <3> QED BY <3>14, <3>15
  <2> QED BY <2>7, <2>8
<1> QED BY <1>3, <1>4

\* What is recorded in the ledger of research has the types of its periods.
LEMMA LedgerStaysTyped ==
  ASSUME LedgerTyped, [Next]_vars
  PROVE  LedgerTyped'
<1>1. CASE RecordCost
  <2>1. PICK p \in Periods :
          costs' = costs \cup {[kind |-> IF p[1] = p[2] THEN "cost" ELSE "coverage",
                                from |-> p[1], to |-> p[2]]}
    BY <1>1 DEF RecordCost
  <2>2. p[1] \in Nat /\ p[2] \in Nat
    BY ReportsAssumption
  <2> DEFINE row == [kind |-> IF p[1] = p[2] THEN "cost" ELSE "coverage", from |-> p[1], to |-> p[2]]
  <2>3. row.kind \in {"cost", "coverage"} /\ row.from \in Nat /\ row.to \in Nat
    BY <2>2
  <2>4. costs' = costs \cup {row}
    BY <2>1
  <2> HIDE DEF row
  <2>5. IsFiniteSet(costs')
    BY <2>4, FS_AddElement DEF LedgerTyped
  <2> QED BY <2>3, <2>4, <2>5 DEF LedgerTyped
<1>2. CASE ~RecordCost
  <2>1. costs' = costs
    BY <1>2 DEF Next, Tick, StartRun, EndRun, Candle, Register, vars
  <2> QED BY <2>1 DEF LedgerTyped
<1> QED BY <1>1, <1>2

\* Whatever a trial is judged by is true of it in every state.
LEMMA StartsJudging ==
  ASSUME Init
  PROVE  Judging
<1>1. Capital \in Int /\ Len(runs) = 0 /\ Len(points) = 0 /\ Len(fills) = 0 /\ 1 .. 0 = {}
  BY ReportsAssumption DEF Init
<1>2. ~Registered
  BY DEF Init, NoTrial, Registered
<1>3. FaultsAreTold /\ PositionsAreTold /\ EquityIsTold /\ TrialIsRooted
  <2>1. trial.start \in Int /\ trial.end \in Int /\ trial.root \in Nat
    BY DEF Init, NoTrial
  <2> QED BY <1>2, <2>1 DEF FaultsAreTold, PositionsAreTold, EquityIsTold, TrialIsRooted
<1>4. RunsInTime /\ FillsInOrder
  BY <1>1 DEF Init, RunsInTime, FillsInOrder
<1>5. NeverShort /\ TruthTyped /\ LedgerTyped
  BY <1>1, FS_EmptySet DEF Init, NeverShort, NewLedger, TruthTyped, NoTruth, LedgerTyped
<1> QED BY <1>3, <1>4, <1>5 DEF Judging

\* The rows of a registered trial keep telling its history: a fault in the
\* window leaves a run that shows it, the fills that are judged in the end give
\* the positions the ledger went through, and the newest judged point gives its
\* equity, whatever runs come and go.
THEOREM TrialsAreTold == Spec => []Judging
<1>1. Init => Judging
  BY StartsJudging
<1>2. Inductive /\ Judging /\ [Next]_vars => Judging'
  <2> SUFFICES ASSUME Inductive, Judging, [Next]_vars PROVE Judging'
    OBVIOUS
  <2>1. /\ RunsInTime /\ FillsInOrder /\ NeverShort /\ TrialIsRooted /\ FaultsAreTold
        /\ PositionsAreTold /\ EquityIsTold /\ TruthTyped /\ LedgerTyped
    BY DEF Judging
  <2>2. RunsInTime' /\ FillsInOrder' /\ NeverShort' /\ TrialIsRooted'
    BY <2>1, RunsStayInTime, FillsStayInOrder, NeverShortStays, TrialStaysRooted
  <2>3. FaultsAreTold' /\ EquityIsTold' /\ TruthTyped'
    BY <2>1, FaultsStayTold, EquityStaysTold, TruthIs
  <2>4. PositionsAreTold' /\ LedgerTyped'
    BY <2>1, PositionsStayTold, LedgerStaysTyped
  <2> QED BY <2>2, <2>3, <2>4 DEF Judging
<1>3. Spec => []Inductive
  BY RecordsAreInOrder
<1> QED BY <1>1, <1>2, <1>3, PTL DEF Spec

-----------------------------------------------------------------------------
(***************************************************************************)
(* A trial that comes up for review has earned it.                         *)
(***************************************************************************)
\* The least of some indices.
LEMMA FirstIndex ==
  ASSUME NEW n \in Nat, NEW s \in SUBSET (1 .. n), s # {}
  PROVE  Min(s) \in s /\ \A k \in s : k \in Int /\ Min(s) <= k
<1>1. IsFiniteSet(s) /\ s \in SUBSET Int
  BY IdsAreFinite
<1> QED BY <1>1, MinIs

\* One value per member is a finite number of them.
LEMMA ValuesAreFinite ==
  ASSUME NEW S, IsFiniteSet(S), NEW f
  PROVE  IsFiniteSet({f[x] : x \in S})
<1> DEFINE T == {f[x] : x \in S}
           g == [x \in S |-> f[x]]
<1>1. g \in [S -> T] /\ \A y \in T : \E x \in S : g[x] = y
  OBVIOUS
<1>2. g \in Surjection(S, T)
  BY <1>1, Fun_IsSurj
<1> QED BY <1>2, FS_Surjection

\* When the window is over, what is judged is what is judged in the end.
LEMMA JudgedFinally ==
  ASSUME Inductive, TrialIsRooted, FillsInOrder, Registered, ~(now < trial.end)
  PROVE  /\ Cutoff = trial.end /\ Relevant = FinalRuns
         /\ JudgedPoints = FinalPoints /\ JudgedFills = FinalFills
         /\ EarlyFill <=> FinallyEarly
<1>1. /\ now \in Nat /\ DOMAIN runs = 1 .. Len(runs) /\ DOMAIN points = 1 .. Len(points)
      /\ DOMAIN fills = 1 .. Len(fills)
  BY RowTypes DEF Inductive
<1>2. trial.end \in Int /\ trial.root \in 1 .. Len(runs)
  BY DEF TrialIsRooted
<1>3. Cutoff = trial.end
  BY <1>1, <1>2, MinOfTwo DEF Cutoff
<1>4. Relevant = FinalRuns
  BY <1>1, <1>3 DEF Relevant, FinalRuns
<1>5. JudgedPoints = FinalPoints /\ JudgedFills = FinalFills
  BY <1>1, <1>3, <1>4 DEF JudgedPoints, JudgedFills, FinalPoints, FinalFills, Over, FinallyOver
<1>6. EarlyFill <=> FinallyEarly
  BY <1>1, <1>4 DEF EarlyFill, FinallyEarly
<1> QED BY <1>3, <1>4, <1>5, <1>6

\* In a continuous ledger every later run that counts resumes one that counts.
LEMMA LaterRunsResume ==
  ASSUME NEW n \in Nat, Relevant \in SUBSET (1 .. n), LedgerContinuous,
         NEW i \in Relevant, i > trial.root
  PROVE  runs[i].from \in Relevant
<1> DEFINE before == {k \in Relevant : k < i}
           after(j) == {k \in Relevant : k > j}
<1>1. trial.root \in Relevant
  BY FirstIndex DEF LedgerContinuous
<1>2. before \in SUBSET (1 .. n) /\ trial.root \in before
  BY <1>1
<1>3. Max(before) \in before /\ \A k \in before : k \in Int /\ k <= Max(before)
  <2> HIDE DEF before
  <2> QED BY <1>2, LastIndex
<1> DEFINE j == Max(before)
<1>4. j \in Relevant /\ j < i /\ j \in 1 .. n /\ i \in 1 .. n /\ \A k \in Relevant : k < i => k <= j
  BY <1>3
<1> HIDE DEF j
<1>5. after(j) \in SUBSET (1 .. n) /\ i \in after(j)
  BY <1>4
<1>6. Min(after(j)) \in after(j) /\ \A k \in after(j) : k \in Int /\ Min(after(j)) <= k
  <2> HIDE DEF after
  <2> QED BY <1>5, FirstIndex
<1>7. Min(after(j)) = i
  <2> DEFINE q == Min(after(j))
  <2>1. q \in Relevant /\ q > j /\ q <= i /\ q \in 1 .. n
    BY <1>5, <1>6
  <2> HIDE DEF q
  <2>2. q = i
    BY <1>4, <2>1
  <2> QED BY <2>2 DEF q
<1>8. Successor(j) = i
  BY <1>7 DEF Successor
<1>9. j # Max(Relevant)
  <2>1. i <= Max(Relevant) /\ Max(Relevant) \in 1 .. n
    BY LastIndex
  <2> QED BY <1>4, <2>1
<1>10. runs[i].from = j
  BY <1>4, <1>8, <1>9 DEF LedgerContinuous
<1> QED BY <1>4, <1>10

\* Where no candle has two rows, the newest one is the last written.
LEMMA ClosingIs ==
  ASSUME Inductive, ~Overlapping, JudgedPoints # {}
  PROVE  Closing = points[Max(JudgedPoints)].equity
<1> DEFINE p == Len(points)
           last == Max(JudgedPoints)
           Newest_(i) == \A j \in JudgedPoints : points[j].ts <= points[i].ts
<1>1. /\ p \in Nat /\ DOMAIN points = 1 .. p
      /\ \A i \in 1 .. p : points[i] \in PointRow
  BY RowTypes DEF Inductive
<1>2. JudgedPoints \in SUBSET (1 .. p)
  BY <1>1 DEF JudgedPoints
<1>3. last \in JudgedPoints /\ \A j \in JudgedPoints : j <= last
  BY <1>1, <1>2, LastIndex
<1> HIDE DEF last
<1>4. \A j \in JudgedPoints : points[j].ts \in Int
  BY <1>1, <1>2 DEF PointRow
<1>5. Newest_(last)
  <2> SUFFICES ASSUME NEW j \in JudgedPoints PROVE points[j].ts <= points[last].ts
    OBVIOUS
  <2>1. CASE j = last
    BY <1>4, <2>1
  <2>2. CASE j # last
    <3>1. j < last /\ j \in 1 .. p /\ last \in 1 .. p
      BY <1>1, <1>2, <1>3, <2>2
    <3> QED BY <3>1 DEF Inductive, PointsInOrder
  <2> QED BY <2>1, <2>2
<1> DEFINE i == CHOOSE i \in JudgedPoints : Newest_(i)
<1>6. i \in JudgedPoints /\ Newest_(i)
  <2> HIDE DEF Newest_
  <2> QED BY <1>3, <1>5
<1> HIDE DEF i
<1>7. points[i].ts = points[last].ts
  BY <1>3, <1>4, <1>5, <1>6
<1>8. i = last
  BY <1>3, <1>6, <1>7 DEF Overlapping
<1> QED BY <1>8 DEF Closing, i, last

\* Attestations that cover the window leave no tick of it out.
LEMMA AttestationsReach ==
  ASSUME LedgerTyped, TrialIsRooted, Cutoff = trial.end, CostsCovered,
         NEW t \in trial.start .. trial.end - 1
  PROVE  \E row \in costs : row.kind = "coverage" /\ row.from <= t /\ t < row.to
<1> DEFINE rows == {row \in costs : row.kind = "coverage"}
           earlier(row) == {r \in rows : r.from < row.from}
           ends(row) == {trial.start} \cup {r.to : r \in earlier(row)}
           late == {row \in rows : t < row.to}
           froms == {row.from : row \in late}
<1>1. /\ trial.start \in Int /\ trial.end \in Int /\ t \in Int /\ trial.start <= t /\ t < trial.end
      /\ \A row \in rows : row.from \in Nat /\ row.to \in Nat
  BY DEF TrialIsRooted, LedgerTyped
<1>2. IsFiniteSet(rows) /\ IsFiniteSet(late)
  BY FS_Subset DEF LedgerTyped
<1>3. PICK row \in rows : /\ \A r \in rows : r.from <= row.from => r.from <= Max(ends(r))
                          /\ Max({trial.start, row.to}) >= trial.end
  BY DEF CostsCovered
<1>4. row \in late
  <2>1. row.to \in Int
    BY <1>1, <1>3
  <2>2. Max({trial.start, row.to}) \in {trial.start, row.to}
    BY <1>1, <2>1, MaxOfTwo
  <2> QED BY <1>1, <1>3, <2>1, <2>2
<1>5. PICK first \in late : \A r \in late : first.from <= r.from
  <2>1. IsFiniteSet(froms)
    <3> DEFINE f == [r \in late |-> r.from]
    <3>1. IsFiniteSet({f[r] : r \in late})
      <4> HIDE DEF f, late
      <4> QED BY <1>2, ValuesAreFinite
    <3>2. {f[r] : r \in late} = froms
      OBVIOUS
    <3> QED BY <3>1, <3>2
  <2>2. froms \in SUBSET Int /\ froms # {}
    BY <1>1, <1>4
  <2>3. PICK m \in froms : \A q \in froms : m <= q
    <3> HIDE DEF froms
    <3> QED BY <2>1, <2>2, HasLeast
  <2> QED BY <2>3
<1>6. first \in rows /\ t < first.to /\ first.from <= Max(ends(first))
  BY <1>3, <1>4, <1>5
<1>7. \A e \in ends(first) : e \in Int /\ e <= t
  <2> SUFFICES ASSUME NEW r \in earlier(first) PROVE r.to \in Int /\ r.to <= t
    BY <1>1
  <2>1. r \notin late
    <3>1. r.from \in Nat /\ first.from \in Nat /\ r.from < first.from
      BY <1>1, <1>6
    <3> HIDE DEF late
    <3> QED BY <1>5, <3>1
  <2> QED BY <1>1, <2>1
<1>8. Max(ends(first)) \in ends(first)
  <2>1. IsFiniteSet(earlier(first))
    BY <1>2, FS_Subset
  <2>2. IsFiniteSet({r.to : r \in earlier(first)})
    <3> DEFINE f == [r \in earlier(first) |-> r.to]
    <3>1. IsFiniteSet({f[r] : r \in earlier(first)})
      <4> HIDE DEF f, earlier
      <4> QED BY <2>1, ValuesAreFinite
    <3>2. {f[r] : r \in earlier(first)} = {r.to : r \in earlier(first)}
      OBVIOUS
    <3> QED BY <3>1, <3>2
  <2>3. IsFiniteSet(ends(first))
    <3> DEFINE T == {r.to : r \in earlier(first)}
    <3>1. ends(first) = T \cup {trial.start}
      OBVIOUS
    <3> HIDE DEF T, ends
    <3> QED BY <2>2, <3>1, FS_AddElement DEF T
  <2>4. ends(first) \in SUBSET Int /\ ends(first) # {}
    BY <1>7
  <2> HIDE DEF ends
  <2> QED BY <2>3, <2>4, MaxIs
<1>9. first.from <= t
  <2>1. Max(ends(first)) \in Int /\ Max(ends(first)) <= t
    <3> HIDE DEF ends
    <3> QED BY <1>7, <1>8
  <2>2. first.from \in Int
    BY <1>1, <1>6
  <2> HIDE DEF ends
  <2> QED BY <1>1, <1>6, <2>1, <2>2
<1> QED BY <1>6, <1>9

\* In a state that keeps the invariants, a trial that comes up for review has
\* earned it.
LEMMA JudgingEarns ==
  ASSUME Inductive, Judging
  PROVE  PassIsEarned
<1> SUFFICES ASSUME Verdict = "review_required"
             PROVE  /\ now >= trial.end
                    /\ truth.frozen /\ truth.whole /\ truth.clean
                    /\ truth.completed >= MinPositions
                    /\ truth.equity - Capital >
                         Cardinality({row \in costs : row.kind = "cost" /\ InWindow(row.from)})
                    /\ \A t \in trial.start .. trial.end - 1 :
                         \E row \in costs : row.kind = "coverage" /\ row.from <= t /\ t < row.to
  BY DEF PassIsEarned
<1> USE DEF Judging
<1>1. Registered /\ ~Invalid /\ ~(now < trial.end) /\ Passes
  BY DEF Verdict, None
<1>2. /\ Cutoff = trial.end /\ Relevant = FinalRuns
      /\ JudgedPoints = FinalPoints /\ JudgedFills = FinalFills
      /\ EarlyFill <=> FinallyEarly
  BY <1>1, JudgedFinally
<1>3. /\ Len(runs) \in Nat /\ now \in Nat /\ trial.end \in Int /\ Relevant \in SUBSET (1 .. Len(runs))
      /\ trial.root \in Nat /\ Len(points) \in Nat /\ FinalPoints \in SUBSET (1 .. Len(points))
  BY <1>2, RowTypes DEF Inductive, TrialIsRooted, FinalRuns, FinalPoints
<1>4. truth.frozen
  BY <1>1, <1>2 DEF FaultsAreTold, Invalid, ConfigFrozen
<1>5. truth.whole
  <2> SUFFICES ASSUME ~truth.whole PROVE FALSE
    OBVIOUS
  <2>1. PICK i \in Relevant : i > trial.root /\ runs[i].from = 0
    BY <1>1, <1>2 DEF FaultsAreTold
  <2>2. runs[i].from \in Relevant
    BY <1>1, <1>3, <2>1, LaterRunsResume DEF Invalid
  <2> QED BY <1>3, <2>1, <2>2
<1>6. truth.clean
  <2> SUFFICES ASSUME ~truth.clean PROVE FALSE
    OBVIOUS
  <2>1. PICK i \in Relevant : /\ runs[i].ended < trial.end
                              /\ runs[i].status = "failed" \/ runs[i].halt = "risk"
    BY <1>1, <1>2 DEF FaultsAreTold
  <2>2. runs[i].ended \in Nat
    BY <1>3, <2>1, RowTypes DEF Inductive, RunRows
  <2>3. EndedInWindow(i)
    BY <1>2, <1>3, <2>1, <2>2 DEF EndedInWindow
  <2>4. BadHalt(i)
    BY <2>1, <2>3 DEF BadHalt
  <2> QED BY <1>1, <2>4 DEF Invalid
<1>7. truth.completed >= MinPositions
  <2>1. ~FinallyEarly
    BY <1>1, <1>2 DEF Invalid
  <2>2. Completed.count = truth.completed
    BY <1>1, <1>2, <1>5, <2>1 DEF PositionsAreTold, Completed
  <2> QED BY <1>1, <2>2 DEF Passes
<1>8. truth.equity = Closing
  <2>1. CASE FinalPoints = {}
    BY <1>1, <1>2, <2>1 DEF EquityIsTold, Closing
  <2>2. CASE FinalPoints # {}
    BY <1>1, <1>2, <2>2, ClosingIs DEF EquityIsTold, Invalid
  <2> QED BY <2>1, <2>2
<1>9. Expense = Cardinality({row \in costs : row.kind = "cost" /\ InWindow(row.from)})
  BY <1>1, <1>2 DEF Expense, InWindow
<1>10. Expense \in Nat
  <2> DEFINE spent == {row \in costs : row.kind = "cost" /\ trial.start <= row.from /\ row.from < Cutoff}
  <2>1. IsFiniteSet(spent)
    BY FS_Subset DEF LedgerTyped
  <2> QED BY <2>1, FS_CardinalityType DEF Expense
<1>11. truth.equity - Capital > Expense
  <2>1. truth.equity \in Int /\ Capital \in Int
    BY ReportsAssumption DEF TruthTyped
  <2>2. Closing - Capital - Expense > 0
    BY <1>1 DEF Passes
  <2> QED BY <1>8, <1>10, <2>1, <2>2
<1>12. \A t \in trial.start .. trial.end - 1 :
         \E row \in costs : row.kind = "coverage" /\ row.from <= t /\ t < row.to
  BY <1>1, <1>2, AttestationsReach DEF Passes
<1>13. now >= trial.end
  BY <1>1, <1>3
<1> QED BY <1>4, <1>5, <1>6, <1>7, <1>9, <1>11, <1>12, <1>13

\* PassIsEarned holds throughout: no interleaving of runs, candles and ledger
\* rows brings a trial up for review whose window saw a fault, too few
\* positions, a tick without an attestation, or no profit after costs.
THEOREM PassesAreEarned == Spec => []PassIsEarned
<1>1. Inductive /\ Judging => PassIsEarned
  BY JudgingEarns
<1> QED BY <1>1, RecordsAreInOrder, TrialsAreTold, PTL

-----------------------------------------------------------------------------
(***************************************************************************)
(* A trial that is invalid stays so.                                       *)
(***************************************************************************)
\* No point and no fill is lost or changed.
LEMMA RowsStay ==
  ASSUME Inductive, [Next]_vars
  PROVE  /\ points \in Seq(PointRow) /\ points' \in Seq(PointRow) /\ Len(points) <= Len(points')
         /\ \A i \in 1 .. Len(points) : points'[i] = points[i]
         /\ fills \in Seq(FillRow) /\ fills' \in Seq(FillRow) /\ Len(fills) <= Len(fills')
         /\ \A k \in 1 .. Len(fills) : fills'[k] = fills[k]
<1>1. Typed /\ Typed'
  BY StepKeepsInductive DEF Inductive
<1>2. /\ points \in Seq(PointRow) /\ points' \in Seq(PointRow)
      /\ fills \in Seq(FillRow) /\ fills' \in Seq(FillRow)
      /\ Len(points) \in Nat /\ Len(fills) \in Nat
  BY <1>1, RowTypes DEF Typed
<1>3. CASE Candle
  <2>1. PICK move \in Int : CandleBy(move)
    BY <1>3, CandleIs
  <2>2. /\ Len(points') = Len(points) + 1 /\ \A i \in 1 .. Len(points) : points'[i] = points[i]
        /\ order # 0 => /\ Len(fills') = Len(fills) + 1
                        /\ \A k \in 1 .. Len(fills) : fills'[k] = fills[k]
    BY <1>3, <2>1, CandleAppends
  <2>3. order = 0 => fills' = fills
    BY <2>1 DEF CandleBy
  <2> QED BY <1>2, <2>2, <2>3
<1>4. CASE ~Candle
  BY <1>2, <1>4, OnlyCandlesWrite
<1> QED BY <1>3, <1>4

\* What is judged once is judged afterwards, and a run that comes to count
\* after the registration is newer than those that did.
NewRunsAreLater == \A i \in Relevant' \ Relevant : \A j \in Relevant : i > trial.root => j < i
\* The judged rows and the runs that count only grow.
LEMMA JudgedGrows ==
  ASSUME Inductive, RunsInTime, TrialIsRooted, Registered, [Next]_vars
  PROVE  /\ trial' = trial /\ RunsKept
         /\ Cutoff \in Int /\ Cutoff' \in Int /\ Cutoff <= Cutoff'
         /\ Len(runs) \in Nat /\ Relevant \in SUBSET (1 .. Len(runs)) /\ trial.root \in Relevant
         /\ Len(runs') \in Nat /\ Relevant' \in SUBSET (1 .. Len(runs')) /\ Relevant \subseteq Relevant'
         /\ NewRunsAreLater
         /\ JudgedPoints \subseteq JudgedPoints' /\ JudgedFills \subseteq JudgedFills'
<1> DEFINE n == Len(runs)
<1>1. /\ n \in Nat /\ DOMAIN runs = 1 .. n /\ now \in Nat
      /\ \A i \in 1 .. n : runs[i].started \in Nat
      /\ DOMAIN points = 1 .. Len(points) /\ \A i \in 1 .. Len(points) : points[i].ts \in Int
      /\ DOMAIN fills = 1 .. Len(fills) /\ \A k \in 1 .. Len(fills) : fills[k].ts \in Int
      /\ Step \in Nat
  BY RowTypes, ReportsAssumption DEF Inductive, RunRows, PointRow, FillRow
<1>2. /\ runs' \in Seq(RunRows) /\ Len(runs') \in Nat /\ DOMAIN runs' = 1 .. Len(runs')
  <2>1. Typed'
    BY StepKeepsInductive DEF Inductive
  <2>2. runs' \in Seq(RunRows)
    BY <2>1 DEF Typed, RunRows
  <2> HIDE DEF RunRows
  <2> QED BY <2>2
<1>3. trial' = trial /\ RunsKept /\ now' \in Nat /\ now <= now'
  BY RunsStayInTime
<1>4. /\ trial.start \in Int /\ trial.end \in Int /\ trial.root \in 1 .. n
      /\ runs[trial.root].started <= trial.start
      /\ trial.start <= now /\ trial.start < trial.end
  BY DEF TrialIsRooted
<1>5. /\ Cutoff = IF now <= trial.end THEN now ELSE trial.end
      /\ Cutoff' = IF now' <= trial.end THEN now' ELSE trial.end
  <2>1. \A a, b \in Int : Min({a, b}) = IF a <= b THEN a ELSE b
    BY MinOfTwo
  <2>2. Cutoff = Min({now, trial.end}) /\ Cutoff' = Min({now', trial.end})
    BY <1>3 DEF Cutoff
  <2>3. now \in Int /\ now' \in Int /\ trial.end \in Int
    BY <1>1, <1>3, <1>4
  <2> QED BY <2>1, <2>2, <2>3
<1>6. Cutoff \in Int /\ Cutoff' \in Int /\ Cutoff <= Cutoff'
  BY <1>1, <1>3, <1>4, <1>5
<1>7. /\ \A i : i \in Relevant <=>
                  /\ i \in 1 .. n
                  /\ i = trial.root \/ (trial.start <= runs[i].started /\ runs[i].started < Cutoff)
      /\ \A i : i \in Relevant' <=>
                  /\ i \in 1 .. Len(runs')
                  /\ i = trial.root \/ (trial.start <= runs'[i].started /\ runs'[i].started < Cutoff')
  BY <1>1, <1>2, <1>3 DEF Relevant
<1>8. \A i \in 1 .. n : i \in 1 .. Len(runs') /\ runs'[i].started = runs[i].started
  BY <1>3 DEF RunsKept
<1>9. Relevant \subseteq Relevant'
  BY <1>1, <1>6, <1>7, <1>8
<1>10. NewRunsAreLater
  <2> SUFFICES ASSUME NEW i \in Relevant', i \notin Relevant, i > trial.root,
                      NEW j \in Relevant, ~(j < i)
               PROVE  FALSE
    BY DEF NewRunsAreLater
  <2>1. j \in 1 .. n /\ i \in 1 .. n /\ i <= j
    BY <1>1, <1>2, <1>7
  <2>2. trial.start <= runs[i].started /\ ~(runs[i].started < Cutoff)
    BY <1>1, <1>4, <1>7, <1>8, <2>1
  <2>3. runs[i].started <= runs[j].started
    BY <2>1 DEF RunsInTime
  <2>4. j # trial.root
    BY <1>1, <1>4, <2>1
  <2>5. runs[j].started < Cutoff
    BY <1>7, <2>4
  <2>6. runs[i].started \in Int /\ runs[j].started \in Int
    BY <1>1, <2>1
  <2> QED BY <1>6, <2>2, <2>3, <2>5, <2>6
<1>11. JudgedPoints \subseteq JudgedPoints'
  <2>1. DOMAIN points' = 1 .. Len(points') /\ Len(points') \in Nat /\ Len(points) <= Len(points')
        /\ \A i \in 1 .. Len(points) : points'[i] = points[i]
    BY RowsStay
  <2>2. ASSUME NEW i \in 1 .. Len(points), Over(points[i])
        PROVE  i \in 1 .. Len(points') /\ Over(points[i])'
    <3>1. points[i].run \in Relevant' /\ trial.start <= points[i].ts /\ points[i].ts + Step <= Cutoff
      BY <1>9, <2>2 DEF Over
    <3>2. points[i].ts + Step <= Cutoff'
      BY <1>1, <1>6, <3>1
    <3>3. i \in 1 .. Len(points') /\ points'[i] = points[i]
      BY <2>1
    <3> QED BY <1>3, <3>1, <3>2, <3>3 DEF Over
  <2> QED BY <1>1, <2>1, <2>2 DEF JudgedPoints
<1>12. JudgedFills \subseteq JudgedFills'
  <2>1. DOMAIN fills' = 1 .. Len(fills') /\ Len(fills') \in Nat /\ Len(fills) <= Len(fills')
        /\ \A k \in 1 .. Len(fills) : fills'[k] = fills[k]
    BY RowsStay
  <2>2. ASSUME NEW k \in 1 .. Len(fills), Over(fills[k])
        PROVE  k \in 1 .. Len(fills') /\ Over(fills[k])'
    <3>1. fills[k].run \in Relevant' /\ trial.start <= fills[k].ts /\ fills[k].ts + Step <= Cutoff
      BY <1>9, <2>2 DEF Over
    <3>2. fills[k].ts + Step <= Cutoff'
      BY <1>1, <1>6, <3>1
    <3>3. k \in 1 .. Len(fills') /\ fills'[k] = fills[k]
      BY <2>1
    <3> QED BY <1>3, <3>1, <3>2, <3>3 DEF Over
  <2> QED BY <1>1, <2>1, <2>2 DEF JudgedFills
<1>13. /\ Relevant \in SUBSET (1 .. n) /\ trial.root \in Relevant
       /\ Relevant' \in SUBSET (1 .. Len(runs'))
  BY <1>4, <1>7
<1> QED BY <1>1, <1>2, <1>3, <1>6, <1>9, <1>10, <1>11, <1>12, <1>13

\* The run after one that was not the newest stays the one after it.
LEMMA SuccessorStays ==
  ASSUME NEW n \in Nat, Relevant \in SUBSET (1 .. n), NEW m \in Nat, Relevant' \in SUBSET (1 .. m),
         Relevant \subseteq Relevant', \A k \in Relevant' \ Relevant : \A j \in Relevant : j < k,
         NEW i \in Relevant, i # Max(Relevant)
  PROVE  /\ Successor(i) \in Relevant /\ Successor(i) > i /\ Successor(i)' = Successor(i)
         /\ i # Max(Relevant')
<1> DEFINE after == {j \in Relevant : j > i}
           later == {j \in Relevant' : j > i}
<1>1. Max(Relevant) \in Relevant /\ \A k \in Relevant : k \in Int /\ k <= Max(Relevant)
  BY LastIndex
<1>2. Max(Relevant) > i
  <2> DEFINE q == Max(Relevant)
  <2>1. i \in Int /\ i <= q /\ q \in Int /\ i # q
    BY <1>1
  <2> HIDE DEF q
  <2>2. q > i
    BY <2>1
  <2> QED BY <2>2 DEF q
<1>3. after \in SUBSET (1 .. n) /\ after # {}
  BY <1>1, <1>2
<1>4. Min(after) \in after /\ \A k \in after : k \in Int /\ Min(after) <= k
  <2> HIDE DEF after
  <2> QED BY <1>3, FirstIndex
<1>5. later \in SUBSET (1 .. m) /\ later # {}
  BY <1>1, <1>2
<1>6. Min(later) \in later /\ \A k \in later : k \in Int /\ Min(later) <= k
  <2> HIDE DEF later
  <2> QED BY <1>5, FirstIndex
<1> DEFINE a == Min(after)
           b == Min(later)
<1>7. a \in Relevant /\ a \in Relevant' /\ a > i /\ a \in Int
  BY <1>4
<1>8. b \in Relevant' /\ b > i /\ b <= a /\ b \in Int
  BY <1>6, <1>7
<1>9. b \in Relevant => a <= b
  BY <1>4, <1>8
<1> HIDE DEF a, b
<1>10. a = b
  BY <1>7, <1>8, <1>9
<1>11. Successor(i) = a /\ Successor(i)' = b
  BY DEF Successor, a, b
<1>12. i # Max(Relevant')
  <2>1. a <= Max(Relevant') /\ Max(Relevant') \in Int
    BY <1>7, LastIndex
  <2> QED BY <1>7, <2>1
<1> QED BY <1>7, <1>10, <1>11, <1>12

\* A step leaves an invalid trial invalid, unless its newest run was halted by
\* the watchdog.
LEMMA InvalidStays ==
  ASSUME Inductive, Judging, [Next]_vars, Registered, Invalid, ~WatchdogTip
  PROVE  Invalid'
<1> USE DEF Judging
<1> DEFINE n == Len(runs)
           m == Len(fills)
           p == Len(points)
<1>1. /\ trial' = trial /\ RunsKept
      /\ Cutoff \in Int /\ Cutoff' \in Int /\ Cutoff <= Cutoff'
      /\ n \in Nat /\ Relevant \in SUBSET (1 .. n) /\ trial.root \in Relevant
      /\ Len(runs') \in Nat /\ Relevant' \in SUBSET (1 .. Len(runs')) /\ Relevant \subseteq Relevant'
      /\ NewRunsAreLater
      /\ JudgedPoints \subseteq JudgedPoints' /\ JudgedFills \subseteq JudgedFills'
  BY JudgedGrows
<1>2. /\ points \in Seq(PointRow) /\ points' \in Seq(PointRow) /\ p <= Len(points')
      /\ \A i \in 1 .. p : points'[i] = points[i]
      /\ fills \in Seq(FillRow) /\ fills' \in Seq(FillRow) /\ m <= Len(fills')
      /\ \A k \in 1 .. m : fills'[k] = fills[k]
  BY RowsStay
<1>3. /\ \A i \in 1 .. n : runs[i] \in RunRows
      /\ DOMAIN points = 1 .. p /\ DOMAIN fills = 1 .. m
      /\ \A k \in 1 .. m : fills[k] \in FillRow
      /\ Step \in Nat
  BY RowTypes, ReportsAssumption DEF Inductive
<1>4. \A k : k \in Relevant \/ k \in Relevant' => k \in Int
  <2>1. Relevant \subseteq 1 .. n /\ Relevant' \subseteq 1 .. Len(runs')
    BY <1>1
  <2>2. \A k : k \in 1 .. n \/ k \in 1 .. Len(runs') => k \in Int
    OBVIOUS
  <2> QED BY <2>1, <2>2
<1> SUFFICES ASSUME LedgerContinuous' PROVE Invalid'
  BY DEF Invalid
<1>5. \A i \in Relevant' : trial.root <= i
  <2>1. Min(Relevant') = trial.root
    BY <1>1 DEF LedgerContinuous
  <2> QED BY <1>1, <2>1, FirstIndex
<1>6. \A i \in Relevant' \ Relevant : \A j \in Relevant : j < i
  <2> SUFFICES ASSUME NEW i \in Relevant' \ Relevant PROVE i > trial.root
    BY <1>1 DEF NewRunsAreLater
  <2>1. trial.root <= i /\ i # trial.root /\ i \in Int /\ trial.root \in Int
    BY <1>1, <1>4, <1>5
  <2> QED BY <2>1
<1>7. \A i \in Relevant \ {Max(Relevant)} :
        /\ Successor(i) \in Relevant /\ Successor(i) > i /\ Successor(i)' = Successor(i)
        /\ i # Max(Relevant')
  BY <1>1, <1>6, SuccessorStays
<1>8. LedgerContinuous
  <2>1. Min(Relevant) = trial.root
    <3>1. Min(Relevant) \in Relevant /\ Min(Relevant) <= trial.root
      BY <1>1, FirstIndex
    <3>2. trial.root <= Min(Relevant) /\ trial.root \in Int /\ Min(Relevant) \in Int
      BY <1>1, <1>4, <1>5, <3>1
    <3> QED BY <3>1, <3>2
  <2>2. ASSUME NEW i \in Relevant \ {Max(Relevant)} PROVE runs[Successor(i)].from = i
    <3>1. Successor(i) \in 1 .. n /\ Successor(i)' = Successor(i) /\ i \in Relevant' \ {Max(Relevant')}
      BY <1>1, <1>7
    <3>2. runs'[Successor(i)].from = i
      BY <3>1 DEF LedgerContinuous
    <3> QED BY <1>1, <3>1, <3>2 DEF RunsKept
  <2> QED BY <2>1, <2>2 DEF LedgerContinuous
<1>9. CASE ~ConfigFrozen
  <2>1. PICK i \in Relevant : runs[i].config # trial.config
    BY <1>9 DEF ConfigFrozen
  <2>2. i \in Relevant' /\ runs'[i].config = runs[i].config
    BY <1>1 DEF RunsKept
  <2> QED BY <1>1, <2>1, <2>2 DEF ConfigFrozen, Invalid
<1>10. CASE \E i \in Relevant : BadHalt(i)
  <2>1. PICK i \in Relevant : BadHalt(i)
    BY <1>10
  <2>2. i \in 1 .. n /\ runs[i] \in RunRows /\ i \in Relevant'
    BY <1>1, <1>3
  <2>3. runs[i].status = "failed" \/ runs[i].halt = "risk"
    <3> SUFFICES ASSUME runs[i].halt = "watchdog",
                        ~\E j \in Relevant : j > i /\ j = Successor(i) /\ runs[j].from = i
                 PROVE  FALSE
      BY <2>1 DEF BadHalt
    <3>1. i # Max(Relevant)
      BY DEF WatchdogTip
    <3>2. Successor(i) \in Relevant /\ Successor(i) > i /\ runs[Successor(i)].from = i
      BY <1>7, <1>8, <3>1 DEF LedgerContinuous
    <3> QED BY <3>2
  <2>4. runs[i].status # "running"
    BY <2>2, <2>3 DEF RunsInTime, None
  <2>5. runs'[i] = runs[i]
    BY <1>1, <2>2, <2>4 DEF RunsKept
  <2>6. EndedInWindow(i)'
    <3>1. runs[i].ended = 0 \/ runs[i].ended <= Cutoff
      BY <2>1 DEF BadHalt, EndedInWindow
    <3>2. runs[i].ended \in Int
      BY <2>2 DEF RunRows
    <3>3. runs[i].ended = 0 \/ runs[i].ended <= Cutoff'
      BY <1>1, <3>1, <3>2
    <3> QED BY <2>5, <3>3 DEF EndedInWindow
  <2>7. BadHalt(i)'
    BY <2>3, <2>5, <2>6 DEF BadHalt
  <2> QED BY <2>2, <2>7 DEF Invalid
<1>11. CASE EarlyFill
  <2>1. PICK k \in 1 .. m : fills[k].run \in Relevant /\ fills[k].ts < trial.start
    BY <1>3, <1>11 DEF EarlyFill
  <2>2. k \in DOMAIN fills' /\ fills'[k] = fills[k]
    BY <1>2
  <2>3. EarlyFill'
    BY <1>1, <2>1, <2>2 DEF EarlyFill
  <2> QED BY <2>3 DEF Invalid
<1>12. CASE ~Completed.valid
  <2>1. ASSUME NEW k \in 1 .. m, k \in JudgedFills, NEW j \in 1 .. k
        PROVE  j \in JudgedFills' <=> j \in JudgedFills
    <3>1. j \in 1 .. m /\ k \in Int /\ j <= k /\ fills'[j] = fills[j]
      BY <1>2
    <3>2. /\ fills[k].run \in Relevant /\ fills[k].ts + Step <= Cutoff
      BY <2>1 DEF JudgedFills, Over
    <3>3. fills[j].run <= fills[k].run /\ fills[j].ts <= fills[k].ts
      <4>1. CASE j = k
        BY <1>3, <4>1 DEF FillRow
      <4>2. CASE j # k
        <5>1. j < k
          BY <3>1, <4>2
        <5>2. fills[j].run <= fills[k].run /\ fills[j].ts < fills[k].ts
          BY <3>1, <5>1 DEF FillsInOrder
        <5> QED BY <1>3, <3>1, <5>2 DEF FillRow
      <4> QED BY <4>1, <4>2
    <3>4. ASSUME j \in JudgedFills' PROVE j \in JudgedFills
      <4>1. fills[j].run \in Relevant' /\ trial.start <= fills[j].ts
        BY <1>1, <3>1, <3>4 DEF JudgedFills, Over
      <4>2. fills[j].run \in Relevant
        <5> SUFFICES ASSUME fills[j].run \notin Relevant PROVE FALSE
          OBVIOUS
        <5>1. fills[k].run < fills[j].run
          BY <1>6, <3>2, <4>1
        <5> QED BY <1>3, <3>1, <3>3, <5>1 DEF FillRow
      <4>3. fills[j].ts + Step <= Cutoff
        BY <1>1, <1>3, <3>1, <3>2, <3>3 DEF FillRow
      <4> QED BY <1>3, <3>1, <4>1, <4>2, <4>3 DEF JudgedFills, Over
    <3> QED BY <1>1, <3>4
  <2>2. ~PositionsOf(fills', JudgedFills').valid
    <3>1. ~PositionsOf(fills, JudgedFills).valid
      BY <1>12 DEF Completed
    <3> QED BY <1>2, <2>1, <3>1, StaysShort
  <2>3. ~Completed'.valid
    BY <2>2 DEF Completed
  <2> QED BY <2>3 DEF Invalid
<1>13. CASE Overlapping
  <2>1. PICK i \in JudgedPoints, j \in JudgedPoints : i # j /\ points[i].ts = points[j].ts
    BY <1>13 DEF Overlapping
  <2>2. i \in 1 .. p /\ j \in 1 .. p
    BY <1>3 DEF JudgedPoints
  <2>3. Overlapping'
    BY <1>1, <1>2, <2>1, <2>2 DEF Overlapping
  <2> QED BY <2>3 DEF Invalid
<1>14. CASE \E value \in Values : value <= 0
  <2>1. PICK value \in Values : value <= 0
    BY <1>14
  <2>2. value \in Values'
    <3>1. CASE value = Capital
      BY <3>1 DEF Values
    <3>2. CASE \E i \in JudgedPoints : value = points[i].equity
      <4>1. PICK i \in JudgedPoints : value = points[i].equity
        BY <3>2
      <4>2. i \in 1 .. p /\ i \in JudgedPoints'
        BY <1>1, <1>3 DEF JudgedPoints
      <4> QED BY <1>2, <4>1, <4>2 DEF Values
    <3> QED BY <2>1, <3>1, <3>2 DEF Values
  <2> QED BY <2>1, <2>2 DEF Invalid
<1> QED BY <1>8, <1>9, <1>10, <1>11, <1>12, <1>13, <1>14 DEF Invalid

\* InvalidStaysInvalid: no step turns the verdict on an invalidated trial,
\* unless its newest run was halted by the watchdog and may yet be resumed.
THEOREM InvalidIsFinal == Spec => InvalidStaysInvalid
<1>1. Inductive /\ Judging /\ [Next]_vars =>
        [Registered /\ Verdict = "invalidated" /\ ~WatchdogTip => Verdict' = "invalidated"]_vars
  <2> SUFFICES ASSUME Inductive, Judging, [Next]_vars,
                      Registered, Verdict = "invalidated", ~WatchdogTip
               PROVE  Verdict' = "invalidated"
    OBVIOUS
  <2>1. Invalid
    BY DEF Verdict
  <2>2. Invalid'
    BY <2>1, InvalidStays
  <2>3. Registered'
    <3>1. trial' = trial
      BY RunsStayInTime DEF Judging
    <3> QED BY <3>1 DEF Registered
  <2> QED BY <2>2, <2>3 DEF Verdict
<1> QED BY <1>1, RecordsAreInOrder, TrialsAreTold, PTL DEF Spec, InvalidStaysInvalid

=============================================================================
