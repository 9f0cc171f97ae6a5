------------------------ MODULE BacktestJobsInvariant ------------------------
(***************************************************************************)
(* The inductive invariant behind the safety properties of BacktestJobs.   *)
(*                                                                         *)
(* The ceiling rests on who holds the lock, a whole result on how far each *)
(* worker is in the plan of the job it executes, and the finality of a     *)
(* finished job on nobody executing a job that a starting worker is about  *)
(* to fail.                                                                *)
(***************************************************************************)
EXTENDS BacktestJobs

Phases == {"down", "booting", "loop", "polling", "claiming", "executing", "marking"}
Entry == [point : Nat, run : Nat]

Job ==
  [kind : Kinds, research : BOOLEAN, created : Nat,
   status : {"queued", "running", "completed", "failed", "gone"},
   run : Nat, result : Seq(Entry), claiming : Workers \cup {None}]

Worker ==
  [phase : Phases, job : Nat, next : Nat \ {0}, run : Nat, result : Seq(Entry),
   failed : BOOLEAN, stale : SUBSET Nat]

Typed ==
  /\ clock \in 1 .. MaxClock /\ faults \in 0 .. MaxFaults
  /\ jobs \in Seq(Job)
  /\ runs \in Seq(Seq(Nat)) /\ Len(runs) = Len(jobs)
  /\ requests \in [Callers -> {"idle", "admitted"}] /\ lock \in Callers \cup {None}
  /\ workers \in [Workers -> Worker]

\* The request that was counted holds the lock until it has committed.
Locked == \A c \in Callers : requests[c] = "admitted" <=> lock = c

ResearchPending == {j \in Pending : jobs[j].research}

\* While one holds it there is room for its job.
Room ==
  /\ Cardinality(ResearchPending) <= MaxPending
  /\ lock # None => Cardinality(ResearchPending) < MaxPending

-----------------------------------------------------------------------------
(* What a job has to show after n points of its plan.                      *)

Distinct(ended) == \A r, s \in DOMAIN ended : ended[r] = ended[s] => r = s

\* The first point of a plan, and the entries its first n points leave.
First(kind) == IF kind = "sweep" THEN 1 ELSE 0
Length(kind) == CASE kind = "single" -> 1
                  [] kind = "sweep" -> Points
                  [] kind = "stability" -> Windows + 1
Entries(kind, n) ==
  CASE kind = "single" -> 0
    [] kind = "sweep" -> n
    [] kind = "stability" -> IF n = 0 THEN 0 ELSE n - 1

Shown(kind, n, run, result, ended) ==
  /\ \A r \in DOMAIN ended : ended[r] < First(kind) + n
  /\ run = IF ended = <<>> THEN 0 ELSE 1
  /\ kind # "sweep" /\ n > 0 => ended # <<>> /\ ended[1] = 0
  /\ Len(result) = Entries(kind, n)
  /\ \A i \in DOMAIN result :
       /\ result[i].point = i
       /\ result[i].run # 0 => result[i].run \in DOMAIN ended /\ ended[result[i].run] = i
  /\ \A r \in DOMAIN ended :
       ended[r] # 0 => ended[r] \in DOMAIN result /\ result[ended[r]].run = r

JobInv(j) ==
  /\ Distinct(runs[j])
  /\ jobs[j].run <= Len(runs[j])
  /\ jobs[j].status = "queued" => runs[j] = <<>>
  /\ jobs[j].status = "completed" =>
       Shown(jobs[j].kind, Length(jobs[j].kind), jobs[j].run, jobs[j].result, runs[j])

\* A claim is on a queued row; a row that is executed, or was found running,
\* is not queued again.
WorkerInv(w) ==
  LET k == workers[w]
      j == workers[w].job
  IN
  /\ j <= Len(jobs) /\ k.stale \subseteq {i \in JobIds : jobs[i].status # "queued"}
  /\ k.phase = "claiming" =>
       /\ j # 0 /\ jobs[j].status = "queued" /\ jobs[j].claiming = w
       /\ k.next = 1 /\ k.run = 0 /\ k.result = <<>> /\ ~k.failed
  /\ Executing(w) => j # 0 /\ jobs[j].status \notin {"queued", "completed"}
  /\ k.phase = "executing" =>
       /\ k.next <= Length(jobs[j].kind) /\ ~k.failed
       /\ Shown(jobs[j].kind, k.next - 1, k.run, k.result, runs[j])
  /\ k.phase = "marking" /\ ~k.failed =>
       Shown(jobs[j].kind, Length(jobs[j].kind), k.run, k.result, runs[j])

\* No job is executed twice.
Apart ==
  \A v, w \in Workers :
    Executing(v) /\ Executing(w) /\ workers[v].job = workers[w].job => v = w

IInv ==
  /\ Typed /\ Locked /\ Room
  /\ \A j \in JobIds : JobInv(j)
  /\ \A w \in Workers : WorkerInv(w)
  /\ Apart

-----------------------------------------------------------------------------
(* One worker at a time, as the compose file runs it.                      *)

\* What a starting worker found running is executed by nobody.
Orphan(j) ==
  /\ jobs[j].status \in {"running", "failed", "gone"}
  /\ \A w \in Workers : ~(Executing(w) /\ workers[w].job = j)

Alone ==
  /\ \A w \in Workers : Executing(w) => jobs[workers[w].job].status = "running"
  /\ \A w \in Workers : workers[w].phase = "booting" =>
       \A j \in workers[w].stale : Orphan(j)

\* Only a queued row is being claimed.
Claims == \A j \in JobIds : jobs[j].claiming # None => jobs[j].status = "queued"

AloneInv == IInv /\ Alone /\ Claims

\* What a step may do to a row.
Final(j) ==
  /\ jobs[j].status \in {"completed", "failed"} =>
       jobs'[j] = jobs[j] \/ jobs'[j].status = "gone"
  /\ jobs[j].status \in {"queued", "running"} => jobs'[j].status # "gone"
  /\ jobs[j].status = "gone" => jobs'[j].status = "gone"

=============================================================================
