---------------------------- MODULE BacktestJobs ----------------------------
(***************************************************************************)
(* The backtest queue: the API submits jobs (api/routes/backtests.py, with *)
(* the admission of api/research_limits.py), workers claim and execute     *)
(* them (core/backtest_worker.py over data/backtest_jobs.py), a single     *)
(* run, a sweep or a run with its stability windows each                   *)
(* (backtest/sweep.py, backtest/stability.py).                             *)
(*                                                                         *)
(* A worker may crash or lose the database anywhere; a job, its points and *)
(* its runs rows are durable.  What a run computes is in TradingEngine.    *)
(***************************************************************************)
EXTENDS Naturals, SequencesExt, FiniteSetsExt

None == "none"

CONSTANTS
  Kinds,       \* "single", "sweep", "stability": the jobs submitted
  Points,      \* points of a sweep
  Windows,     \* stability windows
  Callers,     \* research requests in flight
  Workers,
  MaxPending,  \* MAX_PENDING_BACKTESTS
  TTL,         \* JOB_TTL
  Overlap,     \* whether a worker may start while another executes a job
  MaxJobs,     \* bound: jobs submitted
  MaxClock,    \* bound: the clock
  MaxFaults    \* bound: crashes, database failures and stops

ASSUME JobsAssumption ==
  /\ Kinds \subseteq {"single", "sweep", "stability"}
  /\ Points \in Nat \ {0} /\ Windows \in Nat \ {0} /\ MaxPending \in Nat /\ TTL \in Nat
  /\ None \notin Callers /\ None \notin Workers /\ Overlap \in BOOLEAN
  /\ MaxJobs \in Nat /\ MaxClock \in Nat \ {0} /\ MaxFaults \in Nat

VARIABLES
  clock,
  jobs,      \* backtest_jobs by id, in the order of created_at
  runs,      \* per job the points whose runs rows ended well, oldest first
  requests,  \* what each research request is doing
  lock,      \* the caller holding pg_advisory_xact_lock
  workers,
  faults      \* those so far

vars == <<clock, jobs, runs, requests, lock, workers, faults>>

JobIds == 1 .. Len(jobs)

\* The runs of a job, in order: 0 is the full window.
Plan(kind) ==
  CASE kind = "single" -> <<0>>
    [] kind = "sweep" -> [i \in 1 .. Points |-> i]
    [] kind = "stability" -> [i \in 1 .. Windows + 1 |-> i - 1]

NewJob(kind, research) ==
  [kind |-> kind, research |-> research, created |-> clock, status |-> "queued",
   run |-> 0, result |-> <<>>, claiming |-> None]

Down == [phase |-> "down", job |-> 0, next |-> 1, run |-> 0, result |-> <<>>,
         failed |-> FALSE, stale |-> {}]

Init ==
  /\ clock = 1 /\ faults = 0
  /\ jobs = <<>> /\ runs = <<>>
  /\ requests = [c \in Callers |-> "idle"] /\ lock = None
  /\ workers = [w \in Workers |-> Down]

-----------------------------------------------------------------------------
(* The API.                                                                *)

Pending == {j \in JobIds : jobs[j].status \in {"queued", "running"}}

\* Mutant of CheckCapacity: the count is not serialized.
CheckCapacityUnlocked(c) ==
  /\ requests[c] = "idle" /\ Len(jobs) < MaxJobs
  /\ Cardinality(Pending) < MaxPending
  /\ requests' = [requests EXCEPT ![c] = "admitted"]
  /\ UNCHANGED <<clock, jobs, runs, lock, workers, faults>>

\* check_research_capacity: the lock is kept until the request commits; a
\* full queue answers 429 and leaves nothing.
CheckCapacity(c) ==
  /\ requests[c] = "idle" /\ lock = None /\ Len(jobs) < MaxJobs
  /\ Cardinality(Pending) < MaxPending
  /\ lock' = c
  /\ requests' = [requests EXCEPT ![c] = "admitted"]
  /\ UNCHANGED <<clock, jobs, runs, workers, faults>>

Release(c) ==
  /\ lock' = IF lock = c THEN None ELSE lock
  /\ requests' = [requests EXCEPT ![c] = "idle"]

\* submit_backtest commits the row, or a validation error rolls it back.
Submit(c, kind) ==
  /\ requests[c] = "admitted" /\ Len(jobs) < MaxJobs
  /\ jobs' = Append(jobs, NewJob(kind, TRUE)) /\ runs' = Append(runs, <<>>)
  /\ Release(c)
  /\ UNCHANGED <<clock, workers, faults>>

Refuse(c) ==
  /\ requests[c] = "admitted"
  /\ Release(c)
  /\ UNCHANGED <<clock, jobs, runs, workers, faults>>

\* An administrator is not counted.
SubmitAsAdmin(kind) ==
  /\ Len(jobs) < MaxJobs
  /\ jobs' = Append(jobs, NewJob(kind, FALSE)) /\ runs' = Append(runs, <<>>)
  /\ UNCHANGED <<clock, requests, lock, workers, faults>>

-----------------------------------------------------------------------------
(* A worker's loop.                                                        *)

Set(w, worker) == workers' = [workers EXCEPT ![w] = worker]

Executing(w) == workers[w].phase \in {"executing", "marking"}

\* run_backtest_worker begins: fail_stale_running reads the running rows
Boot(w) ==
  /\ workers[w].phase = "down"
  /\ Overlap \/ \A v \in Workers : ~Executing(v) /\ workers[v].phase # "claiming"
  /\ Set(w, [Down EXCEPT !.phase = "booting",
                         !.stale = {j \in JobIds : jobs[j].status = "running"}])
  /\ UNCHANGED <<clock, jobs, runs, requests, lock, faults>>

\* Mutant of FailStaleRunning: the rows are queued again.
FailStaleRequeued(w) ==
  /\ workers[w].phase = "booting"
  /\ jobs' = [j \in JobIds |-> IF j \in workers[w].stale
                               THEN [jobs[j] EXCEPT !.status = "queued"] ELSE jobs[j]]
  /\ Set(w, [Down EXCEPT !.phase = "loop"])
  /\ UNCHANGED <<clock, runs, requests, lock, faults>>

\* Mutant of FailStaleRunning: the rows stay as they are.
FailStaleNone(w) ==
  /\ workers[w].phase = "booting"
  /\ Set(w, [Down EXCEPT !.phase = "loop"])
  /\ UNCHANGED <<clock, jobs, runs, requests, lock, faults>>

\* and writes them failed; a row evicted in between ends the worker.
FailStaleRunning(w) ==
  /\ workers[w].phase = "booting"
  /\ IF \E j \in workers[w].stale : jobs[j].status = "gone"
     THEN jobs' = jobs /\ Set(w, Down)
     ELSE /\ jobs' = [j \in JobIds |-> IF j \in workers[w].stale
                                       THEN [jobs[j] EXCEPT !.status = "failed"] ELSE jobs[j]]
          /\ Set(w, [Down EXCEPT !.phase = "loop"])
  /\ UNCHANGED <<clock, runs, requests, lock, faults>>

\* Mutant of EvictFinished: whatever its status.
EvictOld(w) ==
  /\ workers[w].phase = "loop"
  /\ jobs' = [j \in JobIds |-> IF jobs[j].created + TTL < clock
                               THEN [jobs[j] EXCEPT !.status = "gone"] ELSE jobs[j]]
  /\ Set(w, [workers[w] EXCEPT !.phase = "polling"])
  /\ UNCHANGED <<clock, runs, requests, lock, faults>>

\* evict_finished counts the age from the submission.
EvictFinished(w) ==
  /\ workers[w].phase = "loop"
  /\ jobs' = [j \in JobIds |->
                IF jobs[j].status \in {"completed", "failed"} /\ jobs[j].created + TTL < clock
                THEN [jobs[j] EXCEPT !.status = "gone"] ELSE jobs[j]]
  /\ Set(w, [workers[w] EXCEPT !.phase = "polling"])
  /\ UNCHANGED <<clock, runs, requests, lock, faults>>

\* claim_next_queued: the oldest queued row no other transaction holds.
Claimable == {j \in JobIds : jobs[j].status = "queued" /\ jobs[j].claiming = None}

ClaimNextQueued(w) ==
  /\ workers[w].phase = "polling"
  /\ IF Claimable = {}
     THEN /\ Set(w, [workers[w] EXCEPT !.phase = "loop"])
          /\ UNCHANGED jobs
     ELSE /\ jobs' = [jobs EXCEPT ![Min(Claimable)].claiming = w]
          /\ Set(w, [Down EXCEPT !.phase = "claiming", !.job = Min(Claimable)])
  /\ UNCHANGED <<clock, runs, requests, lock, faults>>

CommitClaim(w) ==
  /\ workers[w].phase = "claiming"
  /\ jobs' = [jobs EXCEPT ![workers[w].job].status = "running",
                          ![workers[w].job].claiming = None]
  /\ Set(w, [workers[w] EXCEPT !.phase = "executing"])
  /\ UNCHANGED <<clock, runs, requests, lock, faults>>

-----------------------------------------------------------------------------
(* _execute: the points of the job, one run each.                          *)

JobPlan(w) == Plan(jobs[workers[w].job].kind)
Point(w) == JobPlan(w)[workers[w].next]

\* What a failed or interrupted run leaves in the runs table is left out.
WithRun(w) == [runs EXCEPT ![workers[w].job] = Append(@, Point(w))]

\* Mutant of FirstRun: the last successful run is reported.
LastRun(first, run) == run

FirstRun(first, run) == IF first = 0 THEN run ELSE first

\* The next point is behind it; after the last one the job is marked.
Advanced(w, worker) ==
  [worker EXCEPT !.next = @ + 1,
                 !.phase = IF workers[w].next = Len(JobPlan(w)) THEN "marking" ELSE @]

Noted(worker, point, run) ==
  IF jobs[worker.job].kind = "single" \/ point = 0 THEN worker.result
  ELSE Append(worker.result, [point |-> point, run |-> run])

RunSucceeds(w) ==
  /\ workers[w].phase = "executing"
  /\ runs' = WithRun(w)
  /\ LET run == Len(runs[workers[w].job]) + 1
     IN Set(w, Advanced(w, [workers[w] EXCEPT !.run = FirstRun(@, run),
                                              !.result = Noted(workers[w], Point(w), run)]))
  /\ UNCHANGED <<clock, jobs, requests, lock, faults>>

\* A point or a window that fails is an entry without a run; the full run
\* fails the job.  A range too short to be cut into its windows (compute_slices,
\* fewer microseconds than windows) ends the job with no windows and is left out:
\* its full run would have had no candles.
AfterFailure(w) ==
  IF Point(w) = 0 THEN [workers[w] EXCEPT !.phase = "marking", !.failed = TRUE]
  ELSE Advanced(w, [workers[w] EXCEPT !.result = Noted(workers[w], Point(w), 0)])

\* Before the run starts (no candles, refused parameters) or in the engine.
RunFails(w) ==
  /\ workers[w].phase = "executing"
  /\ Set(w, AfterFailure(w))
  /\ UNCHANGED <<clock, jobs, runs, requests, lock, faults>>

\* The request of the payload is refused: the strategies have changed.
BuildFails(w) ==
  /\ workers[w].phase = "executing" /\ workers[w].next = 1
  /\ Set(w, [workers[w] EXCEPT !.phase = "marking", !.failed = TRUE])
  /\ UNCHANGED <<clock, jobs, runs, requests, lock, faults>>

\* mark_completed and mark_failed assert the row and write over its status.
Mark(w) ==
  /\ workers[w].phase = "marking"
  /\ LET j == workers[w].job
     IN IF jobs[j].status = "gone"
        THEN jobs' = jobs /\ Set(w, Down)
        ELSE /\ jobs' = [jobs EXCEPT ![j] =
                  IF workers[w].failed THEN [@ EXCEPT !.status = "failed"]
                  ELSE [@ EXCEPT !.status = "completed", !.run = workers[w].run,
                                 !.result = workers[w].result]]
             /\ Set(w, [Down EXCEPT !.phase = "loop"])
  /\ UNCHANGED <<clock, runs, requests, lock, faults>>

\* A stop between jobs; the current job is finished first.
Stop(w) ==
  /\ workers[w].phase = "loop" /\ faults < MaxFaults
  /\ faults' = faults + 1
  /\ Set(w, Down)
  /\ UNCHANGED <<clock, jobs, runs, requests, lock>>

\* The process dies, or the database fails one of its transactions.
Crash(w) ==
  /\ workers[w].phase # "down" /\ faults < MaxFaults
  /\ faults' = faults + 1
  /\ Set(w, Down)
  /\ jobs' = [j \in JobIds |-> IF jobs[j].claiming = w THEN [jobs[j] EXCEPT !.claiming = None]
                                                       ELSE jobs[j]]
  /\ UNCHANGED <<clock, runs, requests, lock>>

Tick ==
  /\ clock < MaxClock
  /\ clock' = clock + 1
  /\ UNCHANGED <<jobs, runs, requests, lock, workers, faults>>

Work(w) ==
  \/ Boot(w) \/ FailStaleRunning(w) \/ EvictFinished(w) \/ ClaimNextQueued(w) \/ CommitClaim(w)
  \/ RunSucceeds(w) \/ RunFails(w) \/ BuildFails(w) \/ Mark(w)

Next ==
  \/ \E c \in Callers : CheckCapacity(c) \/ Refuse(c) \/ \E kind \in Kinds : Submit(c, kind)
  \/ \E kind \in Kinds : SubmitAsAdmin(kind)
  \/ \E w \in Workers : Work(w) \/ Stop(w) \/ Crash(w)
  \/ Tick

\* The event loop runs a worker that can go on, and the container restarts
\* one that has ended.
Spec == Init /\ [][Next]_vars /\ \A w \in Workers : WF_vars(Work(w))

-----------------------------------------------------------------------------
(* Properties.                                                             *)

TypeOK ==
  /\ clock \in 1 .. MaxClock /\ faults \in 0 .. MaxFaults
  /\ \A j \in JobIds :
       /\ jobs[j].status \in {"queued", "running", "completed", "failed", "gone"}
       /\ jobs[j].run \in 0 .. Len(runs[j]) /\ jobs[j].claiming \in Workers \cup {None}
  /\ DOMAIN runs = JobIds
  /\ \A j \in JobIds : \A r \in DOMAIN runs[j] : runs[j][r] \in 0 .. Max({Points, Windows})
  /\ requests \in [Callers -> {"idle", "admitted"}] /\ lock \in Callers \cup {None}
  /\ \A w \in Workers :
       /\ workers[w].phase \in {"down", "booting", "loop", "polling", "claiming", "executing", "marking"}
       /\ workers[w].job \in 0 .. Len(jobs)
       /\ workers[w].phase = "executing" => workers[w].next \in DOMAIN JobPlan(w)

\* "One transaction lock serializes the count and insertion"
\* (check_research_capacity): requests counting at the same time do not
\* fill the queue beyond the ceiling, whatever administrators add to it.
ResearchBounded ==
  Cardinality({j \in Pending : jobs[j].research}) <= MaxPending

\* No point of a job runs twice: not by two workers that claim at once
\* (claim_next_queued), nor again after a crash.  What GET /backtests shows of
\* a completed job is whole: the run it names is the first that succeeded and
\* has ended, there is one entry per point in the order of the plan, and every
\* run an entry names is this job's run of it.
ResultIsWhole ==
  \A j \in JobIds :
    LET ended  == DOMAIN runs[j]
        result == jobs[j].result IN
    /\ \A r, s \in ended : runs[j][r] = runs[j][s] => r = s
    /\ jobs[j].status = "completed" =>
       /\ jobs[j].run = IF ended = {} THEN 0 ELSE 1
       /\ jobs[j].kind # "sweep" => jobs[j].run # 0 /\ runs[j][jobs[j].run] = 0
       /\ Len(result) = CASE jobs[j].kind = "single" -> 0
                           [] jobs[j].kind = "sweep" -> Points
                           [] jobs[j].kind = "stability" -> Windows
       /\ \A i \in DOMAIN result :
            /\ result[i].point = i
            /\ result[i].run # 0 => result[i].run \in ended /\ runs[j][result[i].run] = i
       /\ {result[i].run : i \in DOMAIN result} \ {0} = {r \in ended : runs[j][r] # 0}

\* A finished job stays as the client saw it until it is evicted, and only a
\* finished one is: "a job is never lost".
FinishedIsFinal ==
  [][\A j \in JobIds :
       /\ jobs[j].status \in {"completed", "failed"} =>
            jobs'[j] = jobs[j] \/ jobs'[j].status = "gone"
       /\ jobs[j].status \in {"queued", "running"} => jobs'[j].status # "gone"
       /\ jobs[j].status = "gone" => jobs'[j].status = "gone"]_vars

\* Every job that was submitted is completed or failed in the end, through
\* the crashes of the worker that runs it.
JobsFinish ==
  \A j \in 1 .. MaxJobs :
    (j \in JobIds) ~> (j \in JobIds /\ jobs[j].status \in {"completed", "failed", "gone"})

=============================================================================
