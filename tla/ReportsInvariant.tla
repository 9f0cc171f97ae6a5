-------------------------- MODULE ReportsInvariant --------------------------
(***************************************************************************)
(* The strengthenings of the reports' properties: what the runs, points,   *)
(* fills and the next candle of module Reports owe each other, whatever    *)
(* runs come and go, and what a trial's rows still tell of its history.    *)
(***************************************************************************)
EXTENDS Reports

PointRow == [run : Nat, ts : Int, equity : Int]
FillRow == [run : Nat, ts : Int, units : Int]

\* The rows, as far as the curves and the rolling verdict read them.  A run
\* resumes the one before it or none.
Typed ==
  /\ now \in Nat /\ next \in Int /\ order \in Int /\ ledger.equity \in Int /\ ledger.held \in Int
  /\ DOMAIN ledger = {"held", "equity"}
  /\ points \in Seq(PointRow) /\ fills \in Seq(FillRow)
  /\ runs \in Seq([from : Nat, config : Configs, started : Nat, ended : Nat,
                   status : {"running", "halted", "failed"}, halt : Halts])
  /\ \A i \in 1 .. Len(runs) : runs[i].from \in {0, i - 1}
  /\ alive => runs # <<>>

\* The runs record one after the other, and a candle again only in a later
\* run: the points go back neither in runs nor in time.
PointsInOrder ==
  \A i \in 1 .. Len(points) : \A j \in 1 .. Len(points) :
    i < j => /\ points[i].run <= points[j].run
             /\ points[i].ts <= points[j].ts
             /\ points[i].run = points[j].run => points[i].ts < points[j].ts

\* What was recorded is over, and the next candle is none that the newest
\* run has recorded.
NextIsNew ==
  \A i \in 1 .. Len(points) :
    /\ points[i].run \in 1 .. Len(runs) /\ points[i].ts + Step <= now
    /\ points[i].ts <= next
    /\ points[i].run = Len(runs) => points[i].ts < next

\* An order is placed on a candle and filled on a later one of the same run:
\* a restart drops it.
Signalled(run, ts) == \E i \in 1 .. Len(points) : points[i].run = run /\ points[i].ts < ts
FillsAreSignalled ==
  /\ \A k \in 1 .. Len(fills) : Signalled(fills[k].run, fills[k].ts)
  /\ order # 0 => \E i \in 1 .. Len(points) : points[i].run = Len(runs)

Inductive == Typed /\ PointsInOrder /\ NextIsNew /\ FillsAreSignalled

-----------------------------------------------------------------------------
(* What the verdict of a trial rests on.                                   *)

\* One run after the other; a run that is over stays as it ended.
RunsInTime ==
  /\ \A i \in 1 .. Len(runs) : \A j \in 1 .. Len(runs) :
       i <= j => runs[i].started <= runs[j].started
  /\ \A i \in 1 .. Len(runs) :
       /\ runs[i].started <= now /\ runs[i].ended <= now
       /\ runs[i].status = "running" => runs[i].halt = None
       /\ i < Len(runs) => runs[i].status # "running"
  /\ alive => runs[Len(runs)].status = "running"

\* A fill is booked on a candle that is recorded, and on a later one than
\* every fill before it.
FillsInOrder ==
  /\ \A k \in 1 .. Len(fills) : \E i \in 1 .. Len(points) :
       points[i].run = fills[k].run /\ points[i].ts = fills[k].ts
  /\ \A k \in 1 .. Len(fills) : \A l \in 1 .. Len(fills) :
       k < l => fills[k].run <= fills[l].run /\ fills[k].ts < fills[l].ts

\* Nothing is sold that is not held, and a fresh ledger holds nothing before
\* its run's first fill.
NeverShort ==
  /\ ledger.held >= 0 /\ ledger.held + order >= 0
  /\ runs # <<>> /\ runs[Len(runs)].from = 0 /\ (\A k \in 1 .. Len(fills) : fills[k].run # Len(runs))
       => ledger.held = 0

\* The row of a trial: registered on a fresh run that was the newest.
TrialIsRooted ==
  /\ trial.start \in Int /\ trial.end \in Int /\ trial.root \in Nat
  /\ Registered =>
       /\ trial.root \in 1 .. Len(runs)
       /\ trial.start <= now /\ trial.start < trial.end
       /\ runs[trial.root].started <= trial.start
       /\ \A i \in 1 .. Len(runs) : i > trial.root => trial.start <= runs[i].started

\* The rows as they will be judged once the window is over.
FinalRuns ==
  {i \in 1 .. Len(runs) :
     i = trial.root \/ (trial.start <= runs[i].started /\ runs[i].started < trial.end)}
FinallyOver(row) ==
  row.run \in FinalRuns /\ trial.start <= row.ts /\ row.ts + Step <= trial.end
FinalPoints == {i \in 1 .. Len(points) : FinallyOver(points[i])}
FinalFills == {i \in 1 .. Len(fills) : FinallyOver(fills[i])}
FinallyEarly == \E k \in 1 .. Len(fills) : fills[k].run \in FinalRuns /\ fills[k].ts < trial.start

\* A run that started in the window with another configuration or a fresh
\* ledger, or that ended badly in it, has left its row.
FaultsAreTold ==
  Registered =>
    /\ ~truth.frozen => \E i \in FinalRuns : runs[i].config # trial.config
    /\ ~truth.whole => \E i \in FinalRuns : i > trial.root /\ runs[i].from = 0
    /\ ~truth.clean => \E i \in FinalRuns : /\ runs[i].ended < trial.end
                                            /\ runs[i].status = "failed" \/ runs[i].halt = "risk"

\* The positions that the fills tell of are those the ledger went through,
\* and while its newest run counts and nothing after the window is recorded,
\* what they leave open is what it holds.
PositionsAreTold ==
  Registered /\ truth.whole /\ ~FinallyEarly =>
    LET told == PositionsOf(fills, FinalFills) IN
    /\ told.valid /\ told.count = truth.completed
    /\ told.held > 0 => InWindow(truth.entered)
    /\ Len(runs) \in FinalRuns /\ (\A i \in 1 .. Len(points) : points[i].ts + Step <= trial.end)
         => told.held = ledger.held

\* The newest point in the window shows the equity the ledger had.
EquityIsTold ==
  Registered =>
    truth.equity = IF FinalPoints = {} THEN Capital ELSE points[Max(FinalPoints)].equity

TruthTyped ==
  /\ truth.frozen \in BOOLEAN /\ truth.whole \in BOOLEAN /\ truth.clean \in BOOLEAN
  /\ truth.entered \in Int /\ truth.completed \in Int /\ truth.equity \in Int
  /\ DOMAIN truth = {"frozen", "whole", "clean", "entered", "completed", "equity"}

LedgerTyped ==
  /\ IsFiniteSet(costs)
  /\ \A row \in costs : row.kind \in {"cost", "coverage"} /\ row.from \in Nat /\ row.to \in Nat

Judging ==
  /\ RunsInTime /\ FillsInOrder /\ NeverShort /\ TrialIsRooted
  /\ FaultsAreTold /\ PositionsAreTold /\ EquityIsTold /\ TruthTyped /\ LedgerTyped

=============================================================================
