-------------------------- MODULE BacktestJobsProofs --------------------------
(***************************************************************************)
(* Proofs about BacktestJobs, for any number of callers, workers, jobs and *)
(* points: the inductive invariant of BacktestJobsInvariant, and what      *)
(* follows from it.                                                        *)
(***************************************************************************)
EXTENDS BacktestJobsInvariant, DataLemmas

-----------------------------------------------------------------------------
(***************************************************************************)
(* Types, and the shape of a step.                                         *)
(***************************************************************************)
\* What Typed says of one row, one worker and the lengths.
LEMMA Facts ==
  ASSUME Typed
  PROVE  /\ Len(jobs) \in Nat /\ JobIds = 1 .. Len(jobs)
         /\ jobs \in Seq(Job) /\ jobs \in [JobIds -> Job]
         /\ runs \in Seq(Seq(Nat)) /\ runs \in [JobIds -> Seq(Nat)]
         /\ \A w \in Workers : workers[w] \in Worker
         /\ \A j \in JobIds : jobs[j] \in Job /\ runs[j] \in Seq(Nat)
<1>1. jobs \in Seq(Job) /\ runs \in Seq(Seq(Nat)) /\ Len(runs) = Len(jobs)
  BY DEF Typed
<1>2. Len(jobs) \in Nat /\ jobs \in [1 .. Len(jobs) -> Job]
  BY <1>1, LenProperties
<1>3. runs \in [1 .. Len(runs) -> Seq(Nat)]
  BY <1>1, LenProperties
<1>4. \A w \in Workers : workers[w] \in Worker
  BY DEF Typed
<1> QED BY <1>1, <1>2, <1>3, <1>4 DEF JobIds

\* A table that keeps its rows' ids.
LEMMA TableKept ==
  ASSUME Typed, jobs' \in [JobIds -> Job]
  PROVE  jobs' \in Seq(Job) /\ Len(jobs') = Len(jobs) /\ JobIds' = JobIds
<1>1. Len(jobs) \in Nat /\ JobIds = 1 .. Len(jobs)
  BY Facts
<1>2. jobs' \in Seq(Job) /\ Len(jobs') = Len(jobs)
  BY <1>1, FunctionIsSeq
<1> QED BY <1>2 DEF JobIds

\* The runs of the same jobs.
LEMMA RunsKept ==
  ASSUME Typed, runs' \in [JobIds -> Seq(Nat)]
  PROVE  runs' \in Seq(Seq(Nat)) /\ Len(runs') = Len(jobs)
<1>1. Len(jobs) \in Nat /\ JobIds = 1 .. Len(jobs)
  BY Facts
<1> QED BY <1>1, FunctionIsSeq

\* One worker changes its state.
LEMMA OneSet ==
  ASSUME Typed, NEW w \in Workers, NEW k \in Worker, Set(w, k)
  PROVE  /\ workers' \in [Workers -> Worker]
         /\ workers'[w] = k
         /\ \A v \in Workers : v # w => workers'[v] = workers[v]
BY DEF Typed, Set

\* What may happen to a row while the research jobs pending become no more.
Settles(j) ==
  /\ jobs'[j].kind = jobs[j].kind
  /\ jobs'[j].research = jobs[j].research
  /\ jobs'[j].status \in {"queued", "running"} => jobs[j].status \in {"queued", "running"}
  /\ jobs'[j].status = "queued" => jobs[j].status = "queued"

\* The research jobs pending can be counted.
LEMMA PendingIsFinite ==
  ASSUME Typed
  PROVE  IsFiniteSet(ResearchPending) /\ Cardinality(ResearchPending) \in Nat
<1>1. Len(jobs) \in Nat /\ ResearchPending \in SUBSET (1 .. Len(jobs))
  BY Facts DEF ResearchPending, Pending
<1> QED BY <1>1, IdsAreFinite

\* Rows that only settle leave the room there was.
LEMMA RoomKept ==
  ASSUME Typed, Typed', Room, JobIds' = JobIds, lock' \in {lock, None},
         \A j \in JobIds : Settles(j)
  PROVE  Room'
<1>1. ResearchPending' \subseteq ResearchPending
  BY DEF ResearchPending, Pending, Settles
<1>2. IsFiniteSet(ResearchPending) /\ Cardinality(ResearchPending) \in Nat
  BY PendingIsFinite
<1>3. Cardinality(ResearchPending') <= Cardinality(ResearchPending)
  BY <1>1, <1>2, FS_Subset
<1>4. Cardinality(ResearchPending') \in Nat
  BY <1>1, <1>2, FS_Subset, FS_CardinalityType
<1> QED BY <1>2, <1>3, <1>4, JobsAssumption DEF Room

\* What another worker rests on in the tables.
Undisturbed(v) ==
  LET j == workers[v].job
  IN  j \in JobIds =>
        /\ jobs'[j].kind = jobs[j].kind
        /\ workers[v].phase = "claiming" =>
             jobs'[j].status = jobs[j].status /\ jobs'[j].claiming = jobs[j].claiming
        /\ Executing(v) => runs'[j] = runs[j] /\ jobs'[j].status \notin {"queued", "completed"}

\* A worker whose job is undisturbed stays where it is.
LEMMA WorkerKept ==
  ASSUME Typed, Typed', Len(jobs) <= Len(jobs'), NEW v \in Workers, WorkerInv(v),
         workers'[v] = workers[v], Undisturbed(v),
         \A i \in JobIds : jobs'[i].status = "queued" => jobs[i].status = "queued"
  PROVE  WorkerInv(v)'
<1> DEFINE k == workers[v]
           j == workers[v].job
<1>1. Len(jobs) \in Nat /\ Len(jobs') \in Nat /\ JobIds = 1 .. Len(jobs) /\ JobIds' = 1 .. Len(jobs')
  <2>1. jobs' \in Seq(Job)
    BY DEF Typed
  <2>2. Len(jobs') \in Nat
    BY <2>1, LenProperties
  <2> QED BY <2>2, Facts DEF JobIds
<1>2. k \in Worker /\ j \in Nat /\ j <= Len(jobs)
  BY Facts DEF Worker, WorkerInv
<1>3. j <= Len(jobs') /\ k.stale \subseteq {i \in JobIds' : jobs'[i].status # "queued"}
  BY <1>1, <1>2 DEF WorkerInv
<1>4. j # 0 => j \in JobIds
  BY <1>1, <1>2
<1>5. k.phase = "claiming" \/ Executing(v) => j # 0
  BY DEF WorkerInv
<1>6. k.phase = "executing" \/ k.phase = "marking" => Executing(v)
  BY DEF Executing
<1>7. Executing(v)' <=> Executing(v)
  BY DEF Executing
<1>8. Executing(v) \/ k.phase = "claiming" => jobs'[j].kind = jobs[j].kind
  BY <1>4, <1>5 DEF Undisturbed
<1>9. k.phase = "claiming" => jobs'[j].status = jobs[j].status /\ jobs'[j].claiming = jobs[j].claiming
  BY <1>4, <1>5 DEF Undisturbed
<1>10. Executing(v) => runs'[j] = runs[j] /\ jobs'[j].status \notin {"queued", "completed"}
  BY <1>4, <1>5 DEF Undisturbed
<1> QED BY <1>3, <1>5, <1>6, <1>7, <1>8, <1>9, <1>10 DEF WorkerInv

\* Nobody new executes.
LEMMA ApartKept ==
  ASSUME Apart, \A v \in Workers : Executing(v)' => Executing(v) /\ workers'[v].job = workers[v].job
  PROVE  Apart'
BY DEF Apart

\* A step of one worker, which may write the tables and leaves the others and
\* the requests alone.
LEMMA WorkerStep ==
  ASSUME IInv, NEW w \in Workers, NEW k \in Worker, Set(w, k),
         requests' = requests, lock' = lock,
         clock' \in 1 .. MaxClock, faults' \in 0 .. MaxFaults,
         jobs' \in [JobIds -> Job], runs' \in [JobIds -> Seq(Nat)],
         \A j \in JobIds : Settles(j) /\ JobInv(j)',
         \A v \in Workers : v # w => Undisturbed(v),
         WorkerInv(w)',
         \A v \in Workers : v # w /\ Executing(v) /\ Executing(w)' => workers[v].job # k.job
  PROVE  IInv'
<1>1. Typed /\ Locked /\ Room /\ Apart
  BY DEF IInv
<1>2. /\ workers' \in [Workers -> Worker]
      /\ workers'[w] = k
      /\ \A v \in Workers : v # w => workers'[v] = workers[v]
  BY <1>1, OneSet
<1>3. jobs' \in Seq(Job) /\ Len(jobs') = Len(jobs) /\ JobIds' = JobIds
  BY <1>1, TableKept
<1>4. runs' \in Seq(Seq(Nat)) /\ Len(runs') = Len(jobs)
  BY <1>1, RunsKept
<1>5. Typed'
  BY <1>1, <1>2, <1>3, <1>4 DEF Typed
<1>6. Locked'
  BY <1>1 DEF Locked
<1>7. Room'
  BY <1>1, <1>3, <1>5, RoomKept
<1>8. \A j \in JobIds' : JobInv(j)'
  BY <1>3
<1>9. ASSUME NEW v \in Workers PROVE WorkerInv(v)'
  <2>1. CASE v = w
    BY <2>1
  <2>2. CASE v # w
    <3>1. WorkerInv(v) /\ Len(jobs) <= Len(jobs')
      BY <1>1, <1>3, Facts DEF IInv
    <3>2. \A i \in JobIds : jobs'[i].status = "queued" => jobs[i].status = "queued"
      BY DEF Settles
    <3> QED BY <2>2, <3>1, <3>2, <1>1, <1>2, <1>5, WorkerKept
  <2> QED BY <2>1, <2>2
<1>10. Apart'
  <2> SUFFICES ASSUME NEW u \in Workers, NEW v \in Workers, Executing(u)', Executing(v)',
                      workers'[u].job = workers'[v].job, u # v
               PROVE  FALSE
    BY DEF Apart
  <2>1. \A x \in Workers : x # w /\ Executing(x)' => Executing(x)
    BY <1>2 DEF Executing
  <2>2. CASE u # w /\ v # w
    BY <2>1, <2>2, <1>1, <1>2 DEF Apart
  <2>3. CASE u = w
    BY <2>1, <2>3, <1>2
  <2>4. CASE v = w
    BY <2>1, <2>4, <1>2
  <2> QED BY <2>2, <2>3, <2>4
<1> QED BY <1>5, <1>6, <1>7, <1>8, <1>9, <1>10 DEF IInv

\* Steps that leave the tables alone disturb nobody.
LEMMA TablesStay ==
  ASSUME IInv, jobs' = jobs, runs' = runs
  PROVE  /\ jobs' \in [JobIds -> Job] /\ runs' \in [JobIds -> Seq(Nat)]
         /\ \A j \in JobIds : Settles(j) /\ JobInv(j)'
         /\ \A v \in Workers : Undisturbed(v)
<1>1. jobs' \in [JobIds -> Job] /\ runs' \in [JobIds -> Seq(Nat)]
  BY Facts DEF IInv
<1>2. \A j \in JobIds : Settles(j) /\ JobInv(j)'
  BY DEF IInv, Settles, JobInv
<1>3. \A v \in Workers : Undisturbed(v)
  BY DEF IInv, Undisturbed, WorkerInv
<1> QED BY <1>1, <1>2, <1>3

-----------------------------------------------------------------------------
(***************************************************************************)
(* The initial state and the API.                                          *)
(***************************************************************************)
\* A worker that has ended is a worker.
LEMMA DownIsTyped == Down \in Worker
<1>1. <<>> \in Seq(Entry)
  BY EmptySeq
<1> QED BY <1>1 DEF Down, Worker, Phases

\* The invariant holds at the start.
LEMMA InitStep == Init => IInv
<1> SUFFICES ASSUME Init PROVE IInv
  OBVIOUS
<1> USE DEF Init
<1>1. jobs \in Seq(Job) /\ runs \in Seq(Seq(Nat)) /\ Len(jobs) = 0 /\ Len(runs) = 0
  BY EmptySeq
<1>2. JobIds = {}
  BY <1>1 DEF JobIds
<1>3. Typed
  BY <1>1, DownIsTyped, JobsAssumption DEF Typed
<1>4. Locked
  BY JobsAssumption DEF Locked
<1>5. Room
  <2>1. ResearchPending = {}
    BY <1>2 DEF ResearchPending, Pending
  <2> QED BY <2>1, FS_EmptySet, JobsAssumption DEF Room
<1>6. \A w \in Workers : WorkerInv(w)
  BY <1>1 DEF WorkerInv, Executing, Down
<1>7. Apart
  BY DEF Apart, Executing, Down
<1> QED BY <1>2, <1>3, <1>4, <1>5, <1>6, <1>7 DEF IInv

\* A request that leaves the tables and the workers alone.
LEMMA RequestStep ==
  ASSUME IInv, UNCHANGED <<jobs, runs, workers>>,
         clock' \in 1 .. MaxClock, faults' \in 0 .. MaxFaults,
         requests' \in [Callers -> {"idle", "admitted"}], lock' \in Callers \cup {None},
         Locked', Room'
  PROVE  IInv'
<1>1. Typed'
  BY DEF IInv, Typed
<1>2. \A j \in JobIds : JobInv(j)'
  BY TablesStay
<1>3. \A w \in Workers : WorkerInv(w)'
  BY DEF IInv, WorkerInv, Executing, JobIds
<1>4. Apart'
  BY DEF IInv, Apart, Executing
<1> QED BY <1>1, <1>2, <1>3, <1>4 DEF IInv, JobIds

\* The count is below the ceiling and the lock is free.
LEMMA CheckCapacityStep ==
  ASSUME IInv, NEW c \in Callers, CheckCapacity(c)
  PROVE  IInv'
<1> USE DEF CheckCapacity
<1>1. Typed /\ Locked
  BY DEF IInv
<1>2. requests' \in [Callers -> {"idle", "admitted"}] /\ lock' \in Callers \cup {None}
  BY <1>1 DEF Typed
<1>3. Locked'
  BY <1>1, JobsAssumption DEF Locked, Typed
<1>4. Cardinality(ResearchPending) < MaxPending
  <2>1. Len(jobs) \in Nat /\ Pending \in SUBSET (1 .. Len(jobs))
    BY <1>1, Facts DEF Pending
  <2>2. IsFiniteSet(Pending) /\ Cardinality(Pending) \in Nat
    BY <2>1, IdsAreFinite
  <2>3. ResearchPending \in SUBSET Pending
    BY DEF ResearchPending
  <2>4. Cardinality(ResearchPending) <= Cardinality(Pending)
    BY <2>2, <2>3, FS_Subset
  <2> QED BY <2>2, <2>4, <1>1, PendingIsFinite, JobsAssumption
<1>5. Room'
  BY <1>4, <1>1, PendingIsFinite, JobsAssumption DEF Room, ResearchPending, Pending, JobIds
<1> QED BY <1>1, <1>2, <1>3, <1>5, RequestStep DEF Typed

\* The lock goes with the request that held it.
LEMMA ReleaseFacts ==
  ASSUME Typed, Locked, NEW c \in Callers, requests[c] = "admitted", Release(c)
  PROVE  /\ requests' \in [Callers -> {"idle", "admitted"}]
         /\ lock = c /\ lock' = None /\ Locked'
BY JobsAssumption DEF Typed, Locked, Release

\* A refused request leaves nothing.
LEMMA RefuseStep ==
  ASSUME IInv, NEW c \in Callers, Refuse(c)
  PROVE  IInv'
<1> USE DEF Refuse
<1>1. Typed /\ Locked /\ Room
  BY DEF IInv
<1>2. /\ requests' \in [Callers -> {"idle", "admitted"}]
      /\ lock' = None /\ Locked'
  BY <1>1, ReleaseFacts
<1>3. Room'
  BY <1>1, <1>2 DEF Room, ResearchPending, Pending, JobIds
<1> QED BY <1>1, <1>2, <1>3, RequestStep DEF Typed

-----------------------------------------------------------------------------
(* A new row.                                                              *)

\* What a submission does to the tables.
Appended(kind, research) ==
  jobs' = Append(jobs, NewJob(kind, research)) /\ runs' = Append(runs, <<>>)

\* The row that is submitted.
LEMMA NewJobIsTyped ==
  ASSUME Typed, NEW kind \in Kinds, NEW research \in BOOLEAN
  PROVE  NewJob(kind, research) \in Job
<1>1. <<>> \in Seq(Entry) /\ clock \in Nat
  BY EmptySeq, JobsAssumption DEF Typed
<1> QED BY <1>1 DEF NewJob, Job

\* A new row at the end of the tables.
LEMMA AppendedFacts ==
  ASSUME Typed, NEW kind \in Kinds, NEW research \in BOOLEAN, Appended(kind, research)
  PROVE  LET new == Len(jobs) + 1
         IN /\ jobs' \in Seq(Job) /\ runs' \in Seq(Seq(Nat))
            /\ Len(jobs') = new /\ Len(runs') = new
            /\ JobIds' = JobIds \cup {new} /\ new \notin JobIds
            /\ \A j \in JobIds : jobs'[j] = jobs[j] /\ runs'[j] = runs[j]
            /\ jobs'[new] = NewJob(kind, research) /\ runs'[new] = <<>>
<1>1. /\ jobs \in Seq(Job) /\ runs \in Seq(Seq(Nat)) /\ Len(runs) = Len(jobs)
      /\ Len(jobs) \in Nat /\ JobIds = 1 .. Len(jobs)
  BY Facts DEF Typed
<1>2. NewJob(kind, research) \in Job /\ <<>> \in Seq(Nat)
  BY NewJobIsTyped, EmptySeq
<1>3. /\ jobs' \in Seq(Job) /\ Len(jobs') = Len(jobs) + 1
      /\ \A j \in 1 .. Len(jobs) : jobs'[j] = jobs[j]
      /\ jobs'[Len(jobs) + 1] = NewJob(kind, research)
  BY <1>1, <1>2, AppendProperties DEF Appended
<1>4. /\ runs' \in Seq(Seq(Nat)) /\ Len(runs') = Len(runs) + 1
      /\ \A j \in 1 .. Len(runs) : runs'[j] = runs[j]
      /\ runs'[Len(runs) + 1] = <<>>
  BY <1>1, <1>2, AppendProperties DEF Appended
<1>5. JobIds' = JobIds \cup {Len(jobs) + 1} /\ Len(jobs) + 1 \notin JobIds
  BY <1>1, <1>3 DEF JobIds
<1> QED BY <1>1, <1>3, <1>4, <1>5

\* A row joins the queue; a research row takes the room its lock kept.
LEMMA AppendedStep ==
  ASSUME IInv, NEW kind \in Kinds, NEW research \in BOOLEAN, Appended(kind, research),
         UNCHANGED <<clock, workers, faults>>,
         requests' \in [Callers -> {"idle", "admitted"}], lock' \in Callers \cup {None},
         Locked',
         IF research THEN lock # None /\ lock' = None ELSE lock' = lock
  PROVE  IInv'
<1>0. PICK new : new = Len(jobs) + 1
  OBVIOUS
<1>1. Typed /\ Locked /\ Room
  BY DEF IInv
<1>2. /\ jobs' \in Seq(Job) /\ runs' \in Seq(Seq(Nat))
      /\ Len(jobs') = new /\ Len(runs') = new
      /\ JobIds' = JobIds \cup {new} /\ new \notin JobIds
      /\ \A j \in JobIds : jobs'[j] = jobs[j] /\ runs'[j] = runs[j]
      /\ jobs'[new] = NewJob(kind, research) /\ runs'[new] = <<>>
  BY <1>0, <1>1, AppendedFacts
<1>3. Typed'
  BY <1>1, <1>2 DEF Typed
<1>4. Room'
  <2>1. IsFiniteSet(ResearchPending) /\ Cardinality(ResearchPending) \in Nat
    BY <1>1, PendingIsFinite
  <2>2. new \notin ResearchPending
    BY <1>2 DEF ResearchPending, Pending
  <2>3. CASE research
    <3>1. ResearchPending' = ResearchPending \cup {new}
      BY <1>2, <2>3 DEF ResearchPending, Pending, NewJob
    <3>2. Cardinality(ResearchPending') = Cardinality(ResearchPending) + 1
      BY <2>1, <2>2, <3>1, FS_AddElement
    <3> QED BY <2>1, <2>3, <3>2, <1>1, JobsAssumption DEF Room
  <2>4. CASE ~research
    <3>1. ResearchPending' = ResearchPending
      BY <1>2, <2>4 DEF ResearchPending, Pending, NewJob
    <3> QED BY <2>4, <3>1, <1>1 DEF Room
  <2> QED BY <2>3, <2>4
<1>5. \A j \in JobIds' : JobInv(j)'
  <2>1. \A j \in JobIds : JobInv(j)'
    BY <1>2 DEF IInv, JobInv
  <2>2. JobInv(new)'
    <3>1. jobs'[new].status = "queued" /\ jobs'[new].run = 0 /\ runs'[new] = <<>> /\ Len(runs'[new]) = 0
      BY <1>2 DEF NewJob
    <3> QED BY <3>1 DEF JobInv, Distinct
  <2> QED BY <1>2, <2>1, <2>2
<1>6. \A w \in Workers : WorkerInv(w)'
  <2> SUFFICES ASSUME NEW w \in Workers PROVE WorkerInv(w)'
    OBVIOUS
  <2>1. WorkerInv(w) /\ Len(jobs) <= Len(jobs')
    BY <1>0, <1>1, <1>2, Facts DEF IInv
  <2>2. Undisturbed(w)
    BY <1>2, <2>1 DEF Undisturbed, WorkerInv
  <2> QED BY <1>1, <1>2, <1>3, <2>1, <2>2, WorkerKept
<1>7. Apart'
  BY DEF IInv, Apart, Executing
<1> QED BY <1>3, <1>4, <1>5, <1>6, <1>7 DEF IInv

\* The request that was counted commits its row.
LEMMA SubmitStep ==
  ASSUME IInv, NEW c \in Callers, NEW kind \in Kinds, Submit(c, kind)
  PROVE  IInv'
<1>1. Typed /\ Locked
  BY DEF IInv
<1>2. requests[c] = "admitted" /\ Release(c) /\ UNCHANGED <<clock, workers, faults>>
      /\ Appended(kind, TRUE)
  BY DEF Submit, Appended
<1>3. /\ requests' \in [Callers -> {"idle", "admitted"}]
      /\ lock = c /\ lock' = None /\ Locked'
  BY <1>1, <1>2, ReleaseFacts
<1> QED BY <1>2, <1>3, AppendedStep, JobsAssumption

\* A row that is not counted takes no room.
LEMMA SubmitAsAdminStep ==
  ASSUME IInv, NEW kind \in Kinds, SubmitAsAdmin(kind)
  PROVE  IInv'
<1>1. Typed /\ Locked
  BY DEF IInv
<1>2. UNCHANGED <<clock, requests, lock, workers, faults>> /\ Appended(kind, FALSE)
  BY DEF SubmitAsAdmin, Appended
<1>3. Locked' /\ requests' \in [Callers -> {"idle", "admitted"}] /\ lock' \in Callers \cup {None}
  BY <1>1, <1>2 DEF Locked, Typed
<1> QED BY <1>2, <1>3, AppendedStep

-----------------------------------------------------------------------------
(***************************************************************************)
(* The points of a job: what one more of them does to what a job shows.    *)
(***************************************************************************)
\* A plan is the points from First on, in order.
LEMMA PlanFacts ==
  ASSUME NEW kind \in Kinds
  PROVE  /\ kind \in {"single", "sweep", "stability"}
         /\ Len(Plan(kind)) = Length(kind) /\ Length(kind) \in Nat \ {0}
         /\ DOMAIN Plan(kind) = 1 .. Length(kind)
         /\ \A n \in 1 .. Length(kind) : Plan(kind)[n] = First(kind) + n - 1
<1>1. kind \in {"single", "sweep", "stability"} /\ Points \in Nat \ {0} /\ Windows \in Nat \ {0}
  BY JobsAssumption
<1>2. CASE kind = "single"
  BY <1>2 DEF Plan, Length, First
<1>3. CASE kind = "sweep"
  <2>1. Plan(kind) = [i \in 1 .. Points |-> i] /\ Length(kind) = Points /\ First(kind) = 1
    BY <1>3 DEF Plan, Length, First
  <2>2. Plan(kind) \in [1 .. Points -> Nat]
    BY <2>1
  <2>3. Len(Plan(kind)) = Points
    BY <1>1, <2>2, FunctionIsSeq
  <2> QED BY <1>1, <2>1, <2>3
<1>4. CASE kind = "stability"
  <2>1. /\ Plan(kind) = [i \in 1 .. Windows + 1 |-> i - 1]
        /\ Length(kind) = Windows + 1 /\ First(kind) = 0
    BY <1>4 DEF Plan, Length, First
  <2>2. Plan(kind) \in [1 .. Windows + 1 -> Nat]
    BY <1>1, <2>1
  <2>3. Len(Plan(kind)) = Windows + 1
    BY <1>1, <2>2, FunctionIsSeq
  <2> QED BY <1>1, <2>1, <2>3
<1> QED BY <1>1, <1>2, <1>3, <1>4

\* Nothing has run and nothing is shown.
LEMMA NothingShown ==
  ASSUME NEW kind \in Kinds
  PROVE  Shown(kind, 0, 0, <<>>, <<>>)
<1>1. Entries(kind, 0) = 0
  BY JobsAssumption DEF Entries
<1> QED BY <1>1 DEF Shown

\* What a job shows after n points has entries for all but the full window.
LEMMA EntriesOf ==
  ASSUME NEW kind \in Kinds, NEW n \in Nat, n < Length(kind)
  PROVE  LET p == First(kind) + n
         IN  IF kind = "single" \/ p = 0
             THEN Entries(kind, n + 1) = Entries(kind, n)
             ELSE Entries(kind, n) = p - 1 /\ Entries(kind, n + 1) = p
<1>1. kind \in {"single", "sweep", "stability"}
  BY JobsAssumption
<1>2. CASE kind = "single"
  BY <1>2 DEF Entries
<1>3. CASE kind = "sweep"
  BY <1>3 DEF Entries, First
<1>4. CASE kind = "stability"
  BY <1>4 DEF Entries, First
<1> QED BY <1>1, <1>2, <1>3, <1>4

\* A point that succeeds was not among those that had.
LEMMA SuccessDistinct ==
  ASSUME NEW kind \in Kinds, NEW n \in Nat, NEW run, NEW result, NEW ended \in Seq(Nat),
         Distinct(ended), Shown(kind, n, run, result, ended)
  PROVE  Distinct(Append(ended, First(kind) + n))
<1>1. First(kind) + n \in Nat
  BY DEF First
<1>2. PICK after : after = Append(ended, First(kind) + n)
  OBVIOUS
<1>3. /\ Len(after) = Len(ended) + 1
      /\ \A r \in 1 .. Len(ended) : after[r] = ended[r]
      /\ after[Len(ended) + 1] = First(kind) + n /\ after \in Seq(Nat)
  BY <1>1, <1>2, AppendProperties
<1>4. DOMAIN after = 1 .. Len(after) /\ DOMAIN ended = 1 .. Len(ended) /\ Len(ended) \in Nat
  BY <1>3, LenProperties
<1>5. \A r \in 1 .. Len(ended) : ended[r] < First(kind) + n /\ ended[r] \in Nat
  BY <1>4, ElementOfSeq DEF Shown
<1> QED BY <1>1, <1>2, <1>3, <1>4, <1>5 DEF Distinct

\* A point that succeeds: its run is new to the job, and noted with its entry.
LEMMA SuccessShown ==
  ASSUME NEW kind \in Kinds, NEW n \in Nat, n < Length(kind), NEW run,
         NEW result \in Seq(Entry), NEW ended \in Seq(Nat), NEW p, p = First(kind) + n,
         Shown(kind, n, run, result, ended),
         NEW m, m = n + 1, NEW new, new = Len(ended) + 1,
         NEW after, after = Append(ended, p),
         NEW noted, noted = IF kind = "single" \/ p = 0 THEN result
                            ELSE Append(result, [point |-> p, run |-> new])
  PROVE  Shown(kind, m, FirstRun(run, new), noted, after)
<1> DEFINE entry == [point |-> p, run |-> new]
<1>1. p \in Nat /\ First(kind) \in {0, 1} /\ kind \in {"single", "sweep", "stability"}
  BY JobsAssumption DEF First
<1>2. /\ after \in Seq(Nat) /\ Len(after) = new /\ Len(ended) \in Nat
      /\ DOMAIN after = 1 .. new /\ DOMAIN ended = 1 .. Len(ended)
      /\ \A r \in 1 .. Len(ended) : after[r] = ended[r] /\ ended[r] \in Nat
      /\ after[new] = p
  <2>1. /\ after \in Seq(Nat) /\ Len(after) = Len(ended) + 1
        /\ \A r \in 1 .. Len(ended) : after[r] = ended[r]
        /\ after[Len(ended) + 1] = p
    BY <1>1, AppendProperties
  <2>2. DOMAIN after = 1 .. Len(after) /\ DOMAIN ended = 1 .. Len(ended) /\ Len(ended) \in Nat
    BY <2>1, LenProperties
  <2>3. \A r \in 1 .. Len(ended) : ended[r] \in Nat
    BY ElementOfSeq
  <2> QED BY <2>1, <2>2, <2>3
<1>3. /\ Len(result) \in Nat /\ DOMAIN result = 1 .. Len(result)
      /\ Len(result) = Entries(kind, n)
  BY LenProperties DEF Shown
<1>4. \A r \in 1 .. Len(ended) : ended[r] < p
  BY <1>2 DEF Shown
<1>6. FirstRun(run, new) = 1 /\ after # <<>>
  <2>1. ended = <<>> => Len(ended) = 0
    OBVIOUS
  <2>2. run = IF ended = <<>> THEN 0 ELSE 1
    BY DEF Shown
  <2>3. after # <<>>
    BY <1>1, AppendProperties
  <2> QED BY <2>1, <2>2, <2>3 DEF FirstRun
<1>7. \A r \in DOMAIN after : after[r] < First(kind) + (n + 1)
  BY <1>1, <1>2, <1>4
<1>8. kind # "sweep" => after[1] = 0
  <2> SUFFICES ASSUME kind # "sweep" PROVE after[1] = 0
    OBVIOUS
  <2>1. p = n
    BY DEF First
  <2>2. CASE n = 0
    <3>1. Len(ended) = 0
      BY <1>2, <1>4, <2>1, <2>2
    <3> QED BY <1>2, <2>1, <2>2, <3>1
  <2>3. CASE n # 0
    <3>1. ended # <<>> /\ ended[1] = 0
      BY <2>3 DEF Shown
    <3>2. Len(ended) \in Nat \ {0}
      BY <3>1, EmptySeq
    <3> QED BY <1>2, <3>1, <3>2
  <2> QED BY <2>2, <2>3
<1>9. ASSUME kind = "single" \/ p = 0
      PROVE  Shown(kind, m, FirstRun(run, new), noted, after)
  <2>1. noted = result /\ Len(noted) = Entries(kind, n + 1)
    BY <1>3, <1>9, EntriesOf
  <2>2. p = 0
    <3>1. CASE kind = "single"
      BY <3>1 DEF Length, First
    <3> QED BY <3>1, <1>9
  <2>3. \A i \in DOMAIN noted :
          /\ noted[i].point = i
          /\ noted[i].run # 0 => noted[i].run \in DOMAIN after /\ after[noted[i].run] = i
    BY <1>2, <2>1 DEF Shown
  <2>4. \A r \in DOMAIN after :
          after[r] # 0 => after[r] \in DOMAIN noted /\ noted[after[r]].run = r
    BY <1>2, <2>1, <2>2 DEF Shown
  <2> QED BY <1>6, <1>7, <1>8, <2>1, <2>3, <2>4 DEF Shown
<1>10. ASSUME ~(kind = "single" \/ p = 0)
       PROVE  Shown(kind, m, FirstRun(run, new), noted, after)
  <2>1. Len(result) = p - 1 /\ Entries(kind, n + 1) = p
    BY <1>3, <1>10, EntriesOf
  <2>2. entry \in Entry
    BY <1>1, <1>2 DEF Entry
  <2>3. /\ Len(noted) = p
        /\ \A i \in 1 .. Len(result) : noted[i] = result[i]
        /\ noted[p] = entry /\ DOMAIN noted = 1 .. p
    <3>1. noted = Append(result, entry)
      BY <1>10
    <3>2. /\ noted \in Seq(Entry) /\ Len(noted) = Len(result) + 1
          /\ \A i \in 1 .. Len(result) : noted[i] = result[i]
          /\ noted[Len(result) + 1] = entry
      BY <3>1, <2>2, AppendProperties
    <3>3. Len(result) + 1 = p
      BY <1>1, <2>1
    <3> QED BY <3>2, <3>3, LenProperties
  <2>4. \A i \in DOMAIN noted :
          /\ noted[i].point = i
          /\ noted[i].run # 0 => noted[i].run \in DOMAIN after /\ after[noted[i].run] = i
    <3> SUFFICES ASSUME NEW i \in 1 .. p
                 PROVE  /\ noted[i].point = i
                        /\ noted[i].run # 0 => noted[i].run \in DOMAIN after
                                               /\ after[noted[i].run] = i
      BY <2>3
    <3>1. CASE i = p
      BY <3>1, <1>2, <2>3
    <3>2. CASE i # p
      <4>1. i \in DOMAIN result /\ noted[i] = result[i]
        BY <3>2, <1>1, <1>3, <2>1, <2>3
      <4> QED BY <4>1, <1>2 DEF Shown
    <3> QED BY <3>1, <3>2
  <2>5. \A r \in DOMAIN after :
          after[r] # 0 => after[r] \in DOMAIN noted /\ noted[after[r]].run = r
    <3> SUFFICES ASSUME NEW r \in 1 .. new, after[r] # 0
                 PROVE  after[r] \in DOMAIN noted /\ noted[after[r]].run = r
      BY <1>2
    <3>1. CASE r = new
      BY <3>1, <1>1, <1>2, <1>10, <2>3
    <3>2. CASE r # new
      <4>1. r \in 1 .. Len(ended) /\ after[r] = ended[r]
        BY <3>2, <1>2
      <4>2. ended[r] \in 1 .. Len(result) /\ result[ended[r]].run = r
        BY <4>1, <1>2, <1>3 DEF Shown
      <4>3. noted[ended[r]] = result[ended[r]] /\ ended[r] \in 1 .. p
        BY <4>2, <1>1, <2>1, <2>3
      <4> QED BY <4>1, <4>2, <4>3, <2>3
    <3> QED BY <3>1, <3>2
  <2> QED BY <1>6, <1>7, <1>8, <2>1, <2>3, <2>4, <2>5 DEF Shown
<1> QED BY <1>9, <1>10

\* A job of a single run has no other point than the full window.
LEMMA NotSingle ==
  ASSUME NEW kind \in Kinds, NEW n \in Nat, n < Length(kind), NEW p, p = First(kind) + n, p # 0
  PROVE  kind # "single"
BY DEF Length, First

\* A point or a window that fails: an entry without a run.
LEMMA FailureShown ==
  ASSUME NEW kind \in Kinds, NEW n \in Nat, n < Length(kind), NEW run,
         NEW result \in Seq(Entry), NEW ended \in Seq(Nat), NEW p, p = First(kind) + n, p # 0,
         Shown(kind, n, run, result, ended), NEW m, m = n + 1,
         NEW noted, noted = Append(result, [point |-> p, run |-> 0])
  PROVE  Shown(kind, m, run, noted, ended)
<1> DEFINE entry == [point |-> p, run |-> 0]
<1>1. p \in Nat /\ First(kind) \in {0, 1} /\ kind \in {"single", "sweep", "stability"}
  BY JobsAssumption DEF First
<1>2. kind # "single"
  BY NotSingle
<1>3. /\ Len(result) \in Nat /\ DOMAIN result = 1 .. Len(result)
      /\ Len(result) = p - 1 /\ Entries(kind, n + 1) = p
  BY <1>2, EntriesOf, LenProperties DEF Shown
<1>4. /\ Len(noted) = p
      /\ \A i \in 1 .. Len(result) : noted[i] = result[i]
      /\ noted[p] = entry /\ DOMAIN noted = 1 .. p
  <2>1. entry \in Entry
    BY <1>1 DEF Entry
  <2>2. /\ noted \in Seq(Entry) /\ Len(noted) = Len(result) + 1
        /\ \A i \in 1 .. Len(result) : noted[i] = result[i]
        /\ noted[Len(result) + 1] = entry
    BY <2>1, AppendProperties
  <2>3. Len(result) + 1 = p
    BY <1>1, <1>3
  <2> QED BY <2>2, <2>3, LenProperties
<1>5. \A r \in DOMAIN ended : ended[r] < First(kind) + (n + 1)
  <2>1. \A r \in DOMAIN ended : ended[r] \in Nat
    BY LenProperties
  <2>2. \A r \in DOMAIN ended : ended[r] < First(kind) + n
    BY DEF Shown
  <2> QED BY <1>1, <2>1, <2>2
<1>6. kind # "sweep" => ended # <<>> /\ ended[1] = 0
  <2>1. kind # "sweep" => n > 0
    BY DEF First
  <2> QED BY <2>1 DEF Shown
<1>7. run = IF ended = <<>> THEN 0 ELSE 1
  BY DEF Shown
<1>8. \A i \in DOMAIN noted :
        /\ noted[i].point = i
        /\ noted[i].run # 0 => noted[i].run \in DOMAIN ended /\ ended[noted[i].run] = i
  <2> SUFFICES ASSUME NEW i \in 1 .. p
               PROVE  /\ noted[i].point = i
                      /\ noted[i].run # 0 => noted[i].run \in DOMAIN ended
                                             /\ ended[noted[i].run] = i
    BY <1>4
  <2>1. CASE i = p
    BY <2>1, <1>4
  <2>2. CASE i # p
    <3>1. i \in DOMAIN result /\ noted[i] = result[i]
      BY <2>2, <1>1, <1>3, <1>4
    <3> QED BY <3>1 DEF Shown
  <2> QED BY <2>1, <2>2
<1>9. \A r \in DOMAIN ended :
        ended[r] # 0 => ended[r] \in DOMAIN noted /\ noted[ended[r]].run = r
  <2> SUFFICES ASSUME NEW r \in DOMAIN ended, ended[r] # 0
               PROVE  ended[r] \in DOMAIN noted /\ noted[ended[r]].run = r
    OBVIOUS
  <2>1. ended[r] \in 1 .. Len(result) /\ result[ended[r]].run = r
    BY <1>3 DEF Shown
  <2>2. noted[ended[r]] = result[ended[r]] /\ ended[r] \in 1 .. p
    BY <2>1, <1>1, <1>3, <1>4
  <2> QED BY <2>1, <2>2, <1>4
<1> QED BY <1>3, <1>4, <1>5, <1>6, <1>7, <1>8, <1>9 DEF Shown

-----------------------------------------------------------------------------
(***************************************************************************)
(* A worker between jobs.                                                  *)
(***************************************************************************)
\* A worker that holds no job.
LEMMA IdleInv ==
  ASSUME NEW w \in Workers, workers'[w].job = 0, Len(jobs') \in Nat,
         workers'[w].phase \in {"down", "booting", "loop", "polling"},
         workers'[w].stale \subseteq {i \in JobIds' : jobs'[i].status # "queued"}
  PROVE  WorkerInv(w)' /\ ~Executing(w)'
BY DEF WorkerInv, Executing

\* Its steps rewrite the status of rows that nobody executes, and nothing else.
LEMMA IdleStep ==
  ASSUME IInv, NEW w \in Workers, NEW k \in Worker, Set(w, k), k.job = 0,
         k.phase \in {"down", "booting", "loop", "polling"},
         k.stale \subseteq {i \in JobIds : jobs'[i].status # "queued"},
         UNCHANGED <<runs, requests, lock>>,
         clock' \in 1 .. MaxClock, faults' \in 0 .. MaxFaults,
         jobs' \in [JobIds -> Job], \A j \in JobIds : Settles(j) /\ JobInv(j)',
         \A v \in Workers : v # w => Undisturbed(v)
  PROVE  IInv'
<1>1. Typed
  BY DEF IInv
<1>2. runs' \in [JobIds -> Seq(Nat)]
  BY <1>1, Facts
<1>3. workers'[w] = k /\ Len(jobs') = Len(jobs) /\ JobIds' = JobIds /\ Len(jobs) \in Nat
  BY <1>1, OneSet, TableKept, Facts
<1>4. WorkerInv(w)' /\ ~Executing(w)'
  BY <1>3, IdleInv
<1> QED BY <1>2, <1>4, WorkerStep

\* A starting worker reads the running rows.
LEMMA BootStep ==
  ASSUME IInv, NEW w \in Workers, Boot(w)
  PROVE  IInv'
<1> DEFINE k == [Down EXCEPT !.phase = "booting",
                             !.stale = {j \in JobIds : jobs[j].status = "running"}]
<1>1. /\ Typed /\ Set(w, k)
      /\ UNCHANGED <<clock, jobs, runs, requests, lock, faults>>
  BY DEF IInv, Boot
<1>2. /\ k.job = 0 /\ k.phase = "booting"
      /\ k.stale \subseteq {i \in JobIds : jobs'[i].status # "queued"}
  BY <1>1 DEF Down
<1>3. k \in Worker
  <2>1. {j \in JobIds : jobs[j].status = "running"} \in SUBSET Nat
    BY <1>1, Facts
  <2> QED BY <2>1, DownIsTyped DEF Worker, Phases
<1>4. clock' \in 1 .. MaxClock /\ faults' \in 0 .. MaxFaults
  BY <1>1 DEF Typed
<1> HIDE DEF k
<1> QED BY <1>1, <1>2, <1>3, <1>4, TablesStay, IdleStep

\* The rows that a sweep over the table makes status of, others kept.
Rewritten(S, status) ==
  jobs' = [j \in JobIds |-> IF j \in S THEN [jobs[j] EXCEPT !.status = status] ELSE jobs[j]]

\* A row that fails or goes is as good as it was; one that was queued is
\* claimed by nobody.
LEMMA RewrittenRows ==
  ASSUME IInv, NEW S, NEW status \in {"failed", "gone"}, Rewritten(S, status), runs' = runs,
         \A j \in JobIds \cap S : jobs[j].status # "queued"
  PROVE  /\ jobs' \in [JobIds -> Job]
         /\ \A j \in JobIds : Settles(j) /\ JobInv(j)'
         /\ \A v \in Workers : Undisturbed(v)
<1>1. Typed /\ \A j \in JobIds : jobs[j] \in Job /\ JobInv(j)
  BY Facts DEF IInv
<1>2. \A j \in JobIds :
        /\ j \in S => jobs'[j] = [jobs[j] EXCEPT !.status = status]
        /\ j \notin S => jobs'[j] = jobs[j]
  BY DEF Rewritten
<1>3. \A j \in JobIds : [jobs[j] EXCEPT !.status = status] \in Job
  BY <1>1 DEF Job
<1>4. jobs' \in [JobIds -> Job]
  BY <1>1, <1>3 DEF Rewritten
<1>5. \A j \in JobIds :
        /\ jobs'[j].kind = jobs[j].kind /\ jobs'[j].research = jobs[j].research
        /\ jobs'[j].run = jobs[j].run /\ jobs'[j].result = jobs[j].result
        /\ jobs'[j].claiming = jobs[j].claiming
        /\ jobs'[j].status = IF j \in S THEN status ELSE jobs[j].status
  BY <1>1, <1>2 DEF Job
<1>6. \A j \in JobIds : Settles(j) /\ JobInv(j)'
  BY <1>1, <1>5 DEF Settles, JobInv
<1>7. ASSUME NEW v \in Workers PROVE Undisturbed(v)
  <2> SUFFICES ASSUME workers[v].job \in JobIds
               PROVE  LET j == workers[v].job
                      IN  /\ jobs'[j].kind = jobs[j].kind
                          /\ workers[v].phase = "claiming" =>
                               jobs'[j].status = jobs[j].status /\ jobs'[j].claiming = jobs[j].claiming
                          /\ Executing(v) => runs'[j] = runs[j] /\ jobs'[j].status \notin {"queued", "completed"}
    BY DEF Undisturbed
  <2>1. WorkerInv(v)
    BY DEF IInv
  <2> QED BY <2>1, <1>5 DEF WorkerInv
<1> QED BY <1>4, <1>6, <1>7

\* A worker that loops or has ended holds no job.
LEMMA LoopIsTyped ==
  /\ [Down EXCEPT !.phase = "loop"] \in Worker
  /\ [Down EXCEPT !.phase = "loop"].job = 0
  /\ [Down EXCEPT !.phase = "loop"].phase = "loop"
  /\ [Down EXCEPT !.phase = "loop"].stale = {}
  /\ Down.job = 0 /\ Down.phase = "down" /\ Down.stale = {}
BY DownIsTyped DEF Down, Worker, Phases

\* It writes them failed.
LEMMA FailStaleRunningStep ==
  ASSUME IInv, NEW w \in Workers, FailStaleRunning(w)
  PROVE  IInv'
<1> DEFINE S == workers[w].stale
<1>1. /\ Typed /\ UNCHANGED <<clock, runs, requests, lock, faults>>
      /\ clock' \in 1 .. MaxClock /\ faults' \in 0 .. MaxFaults
  BY DEF IInv, FailStaleRunning, Typed
<1>2. CASE jobs' = jobs /\ Set(w, Down)
  BY <1>1, <1>2, DownIsTyped, LoopIsTyped, TablesStay, IdleStep
<1>3. CASE Rewritten(S, "failed") /\ Set(w, [Down EXCEPT !.phase = "loop"])
  <2>1. \A j \in JobIds \cap S : jobs[j].status # "queued"
    BY DEF IInv, WorkerInv
  <2> QED BY <2>1, <1>1, <1>3, LoopIsTyped, RewrittenRows, IdleStep
<1> QED BY <1>2, <1>3 DEF FailStaleRunning, Rewritten

\* Old finished rows are evicted.
LEMMA EvictFinishedStep ==
  ASSUME IInv, NEW w \in Workers, EvictFinished(w)
  PROVE  IInv'
<1> DEFINE S == {j \in JobIds : /\ jobs[j].status \in {"completed", "failed"}
                                /\ jobs[j].created + TTL < clock}
           k == [workers[w] EXCEPT !.phase = "polling"]
<1>1. /\ Typed /\ UNCHANGED <<clock, runs, requests, lock, faults>> /\ Set(w, k)
      /\ clock' \in 1 .. MaxClock /\ faults' \in 0 .. MaxFaults
      /\ workers[w].phase = "loop" /\ workers[w] \in Worker
  BY Facts DEF IInv, EvictFinished, Typed
<1>2. Rewritten(S, "gone")
  BY DEF EvictFinished, Rewritten
<1>3. \A j \in JobIds \cap S : jobs[j].status # "queued"
  OBVIOUS
<1>4. /\ jobs' \in [JobIds -> Job]
      /\ \A j \in JobIds : Settles(j) /\ JobInv(j)'
      /\ \A v \in Workers : Undisturbed(v)
  <2> HIDE DEF S
  <2> QED BY <1>1, <1>2, <1>3, RewrittenRows
<1>5. /\ k \in Worker /\ k.job = workers[w].job /\ k.phase = "polling"
      /\ k.stale = workers[w].stale
  BY <1>1 DEF Worker, Phases
<1>6. WorkerInv(w)' /\ ~Executing(w)'
  <2>1. workers'[w] = k /\ Len(jobs') = Len(jobs) /\ JobIds' = JobIds
    BY <1>1, <1>4, <1>5, OneSet, TableKept
  <2>2. WorkerInv(w)
    BY DEF IInv
  <2> HIDE DEF k
  <2> QED BY <1>4, <1>5, <2>1, <2>2 DEF WorkerInv, Executing, Settles
<1>7. runs' \in [JobIds -> Seq(Nat)]
  BY <1>1, Facts
<1> HIDE DEF S, k
<1> QED BY <1>1, <1>4, <1>5, <1>6, <1>7, WorkerStep

\* The oldest claimable row is one of them.
LEMMA MinClaimable ==
  ASSUME Typed, Claimable # {}
  PROVE  Min(Claimable) \in Claimable
<1>1. Len(jobs) \in Nat /\ Claimable \in SUBSET (1 .. Len(jobs))
  BY Facts DEF Claimable
<1>2. IsFiniteSet(Claimable) /\ Claimable \in SUBSET Int
  BY <1>1, IdsAreFinite
<1>3. \E m \in Claimable : \A q \in Claimable : m <= q
  BY <1>2, HasLeast
<1> QED BY <1>3 DEF Min

\* A queued row nobody holds is claimed.
LEMMA ClaimNextQueuedStep ==
  ASSUME IInv, NEW w \in Workers, ClaimNextQueued(w)
  PROVE  IInv'
<1>1. /\ Typed /\ UNCHANGED <<clock, runs, requests, lock, faults>>
      /\ clock' \in 1 .. MaxClock /\ faults' \in 0 .. MaxFaults
      /\ workers[w].phase = "polling" /\ workers[w] \in Worker /\ WorkerInv(w)
      /\ runs' \in [JobIds -> Seq(Nat)]
  BY Facts DEF IInv, ClaimNextQueued, Typed
<1>2. CASE Claimable = {}
  <2> DEFINE k == [workers[w] EXCEPT !.phase = "loop"]
  <2>1. Set(w, k) /\ jobs' = jobs
    BY <1>2 DEF ClaimNextQueued
  <2>2. /\ k \in Worker /\ k.job = workers[w].job /\ k.phase = "loop"
        /\ k.stale = workers[w].stale
    BY <1>1 DEF Worker, Phases
  <2>3. WorkerInv(w)' /\ ~Executing(w)'
    <3>1. workers'[w] = k
      BY <1>1, <2>1, <2>2, OneSet
    <3> HIDE DEF k
    <3> QED BY <1>1, <2>1, <2>2, <3>1 DEF WorkerInv, Executing, JobIds
  <2> HIDE DEF k
  <2> QED BY <1>1, <2>1, <2>2, <2>3, TablesStay, WorkerStep
<1>3. CASE Claimable # {}
  <2>0. PICK m : m = Min(Claimable)
    OBVIOUS
  <2> DEFINE k == [Down EXCEPT !.phase = "claiming", !.job = m]
  <2>1. /\ m \in JobIds /\ jobs[m].status = "queued" /\ jobs[m].claiming = None
        /\ jobs[m] \in Job /\ JobInv(m)
    BY <1>1, <1>3, <2>0, MinClaimable, Facts DEF Claimable, IInv
  <2>2. Set(w, k) /\ jobs' = [jobs EXCEPT ![m].claiming = w]
    BY <1>3, <2>0 DEF ClaimNextQueued
  <2>3. /\ k \in Worker /\ k.job = m /\ k.phase = "claiming" /\ k.stale = {}
        /\ k.next = 1 /\ k.run = 0 /\ k.result = <<>> /\ ~k.failed
    <3>1. m \in Nat
      BY <1>1, <2>1, Facts
    <3> QED BY <3>1, DownIsTyped DEF Down, Worker, Phases
  <2>4. /\ jobs'[m] = [jobs[m] EXCEPT !.claiming = w]
        /\ \A j \in JobIds : j # m => jobs'[j] = jobs[j]
        /\ jobs' \in [JobIds -> Job]
    <3>1. [jobs[m] EXCEPT !.claiming = w] \in Job
      BY <2>1 DEF Job
    <3>2. jobs \in [JobIds -> Job]
      BY <1>1, Facts
    <3> QED BY <2>1, <2>2, <3>1, <3>2
  <2>5. /\ jobs'[m].kind = jobs[m].kind /\ jobs'[m].research = jobs[m].research
        /\ jobs'[m].run = jobs[m].run /\ jobs'[m].result = jobs[m].result
        /\ jobs'[m].status = jobs[m].status /\ jobs'[m].claiming = w
    BY <2>1, <2>4 DEF Job
  <2>6. \A j \in JobIds : Settles(j) /\ JobInv(j)'
    <3>1. Settles(m) /\ JobInv(m)'
      BY <1>1, <2>1, <2>5 DEF Settles, JobInv
    <3>2. ASSUME NEW j \in JobIds, j # m PROVE Settles(j) /\ JobInv(j)'
      <4>1. jobs'[j] = jobs[j] /\ runs'[j] = runs[j] /\ JobInv(j)
        BY <1>1, <2>4, <3>2 DEF IInv
      <4> QED BY <4>1 DEF Settles, JobInv
    <3> QED BY <3>1, <3>2
  <2>7. ASSUME NEW v \in Workers, v # w PROVE Undisturbed(v)
    <3>1. WorkerInv(v)
      BY DEF IInv
    <3>2. workers[v].phase = "claiming" => workers[v].job # m
      BY <2>1, <3>1, JobsAssumption DEF WorkerInv
    <3> QED BY <1>1, <2>4, <2>5, <3>1, <3>2 DEF Undisturbed, WorkerInv
  <2>8. WorkerInv(w)' /\ ~Executing(w)'
    <3>1. workers'[w] = k /\ Len(jobs') = Len(jobs) /\ JobIds' = JobIds
          /\ Len(jobs) \in Nat /\ JobIds = 1 .. Len(jobs)
      BY <1>1, <2>2, <2>3, <2>4, OneSet, TableKept, Facts
    <3>2. m # 0 /\ m <= Len(jobs')
      BY <2>1, <3>1
    <3> HIDE DEF k
    <3> QED BY <2>1, <2>3, <2>5, <3>1, <3>2 DEF WorkerInv, Executing
  <2> HIDE DEF k
  <2> QED BY <1>1, <2>2, <2>3, <2>4, <2>6, <2>7, <2>8, WorkerStep
<1> QED BY <1>2, <1>3

\* A worker stops between jobs.
LEMMA StopStep ==
  ASSUME IInv, NEW w \in Workers, Stop(w)
  PROVE  IInv'
<1>1. /\ UNCHANGED <<clock, jobs, runs, requests, lock>> /\ Set(w, Down)
      /\ clock' \in 1 .. MaxClock /\ faults' \in 0 .. MaxFaults
  BY JobsAssumption DEF IInv, Typed, Stop
<1> QED BY <1>1, DownIsTyped, LoopIsTyped, TablesStay, IdleStep

\* A crash takes back the claim its worker had not committed.
LEMMA CrashStep ==
  ASSUME IInv, NEW w \in Workers, Crash(w)
  PROVE  IInv'
<1>1. /\ Typed /\ UNCHANGED <<clock, runs, requests, lock>> /\ Set(w, Down)
      /\ clock' \in 1 .. MaxClock /\ faults' \in 0 .. MaxFaults
      /\ \A j \in JobIds : jobs[j] \in Job /\ JobInv(j)
  BY Facts, JobsAssumption DEF IInv, Typed, Crash
<1>2. \A j \in JobIds : [jobs[j] EXCEPT !.claiming = None] \in Job
  BY <1>1 DEF Job
<1>3. jobs' \in [JobIds -> Job]
  BY <1>1, <1>2 DEF Crash
<1>4. \A j \in JobIds :
        /\ jobs'[j].kind = jobs[j].kind /\ jobs'[j].research = jobs[j].research
        /\ jobs'[j].run = jobs[j].run /\ jobs'[j].result = jobs[j].result
        /\ jobs'[j].status = jobs[j].status
        /\ jobs[j].claiming # w => jobs'[j].claiming = jobs[j].claiming
  BY <1>1 DEF Crash, Job
<1>5. \A j \in JobIds : Settles(j) /\ JobInv(j)'
  BY <1>1, <1>4 DEF Settles, JobInv
<1>6. ASSUME NEW v \in Workers, v # w PROVE Undisturbed(v)
  <2>1. WorkerInv(v)
    BY DEF IInv
  <2> QED BY <1>1, <1>4, <1>6, <2>1 DEF Undisturbed, WorkerInv
<1> QED BY <1>1, <1>3, <1>5, <1>6, DownIsTyped, LoopIsTyped, IdleStep

\* Time passes.
LEMMA TickStep ==
  ASSUME IInv, Tick
  PROVE  IInv'
<1>1. /\ Typed /\ Locked /\ Room
      /\ clock' \in 1 .. MaxClock /\ UNCHANGED <<jobs, runs, requests, lock, workers, faults>>
  BY JobsAssumption DEF IInv, Typed, Tick
<1>2. Locked' /\ Room'
  BY <1>1 DEF Locked, Room, ResearchPending, Pending, JobIds
<1> QED BY <1>1, <1>2, RequestStep DEF Typed

-----------------------------------------------------------------------------
(***************************************************************************)
(* A worker at a job.                                                      *)
(***************************************************************************)
\* The job of a worker that executes: its row, and its place in the plan.
LEMMA AtWork ==
  ASSUME IInv, NEW w \in Workers, workers[w].phase \in {"claiming", "executing", "marking"}
  PROVE  LET k == workers[w]
             j == workers[w].job
         IN  /\ Typed /\ k \in Worker /\ j \in JobIds /\ j # 0 /\ j <= Len(jobs)
             /\ jobs[j] \in Job /\ jobs[j].kind \in Kinds
             /\ runs[j] \in Seq(Nat) /\ Distinct(runs[j])
             /\ k.stale \subseteq {i \in JobIds : jobs[i].status # "queued"}
             /\ JobInv(j) /\ WorkerInv(w)
             /\ k.phase # "claiming" => jobs[j].status \notin {"queued", "completed"}
<1>1. Typed /\ workers[w] \in Worker /\ WorkerInv(w) /\ Len(jobs) \in Nat /\ JobIds = 1 .. Len(jobs)
  BY Facts DEF IInv
<1>2. /\ workers[w].job \in Nat /\ workers[w].job # 0 /\ workers[w].job <= Len(jobs)
      /\ workers[w].phase # "claiming" =>
           jobs[workers[w].job].status \notin {"queued", "completed"}
  BY <1>1 DEF WorkerInv, Worker, Executing
<1>3. workers[w].job \in JobIds
  BY <1>1, <1>2
<1>4. jobs[workers[w].job] \in Job /\ runs[workers[w].job] \in Seq(Nat) /\ JobInv(workers[w].job)
  BY <1>1, <1>3, Facts DEF IInv
<1> QED BY <1>1, <1>2, <1>3, <1>4 DEF Job, JobInv, WorkerInv

\* A step of a worker at its job that keeps the job.
LEMMA WorkStep ==
  ASSUME IInv, NEW w \in Workers, workers[w].phase \in {"claiming", "executing", "marking"},
         NEW k \in Worker, Set(w, k), k.job = workers[w].job,
         k.phase \in {"executing", "marking"}, k.stale = workers[w].stale,
         UNCHANGED <<clock, requests, lock, faults>>,
         jobs' \in [JobIds -> Job], runs' \in [JobIds -> Seq(Nat)],
         \A j \in JobIds : Settles(j) /\ JobInv(j)',
         \A v \in Workers : v # w => Undisturbed(v),
         jobs'[k.job].status \notin {"queued", "completed"},
         IF k.phase = "executing"
         THEN /\ k.next <= Length(jobs[k.job].kind) /\ ~k.failed
              /\ Shown(jobs[k.job].kind, k.next - 1, k.run, k.result, runs'[k.job])
         ELSE ~k.failed =>
              Shown(jobs[k.job].kind, Length(jobs[k.job].kind), k.run, k.result, runs'[k.job])
  PROVE  IInv'
<1>1. /\ Typed /\ Apart /\ k.job \in JobIds /\ k.job # 0 /\ k.job <= Len(jobs)
      /\ k.stale \subseteq {i \in JobIds : jobs[i].status # "queued"}
      /\ WorkerInv(w) /\ (workers[w].phase # "claiming" => jobs[k.job].status # "queued")
  BY AtWork DEF IInv
<1>2. workers'[w] = k /\ Len(jobs') = Len(jobs) /\ JobIds' = JobIds
  BY <1>1, OneSet, TableKept
<1>3. jobs'[k.job].kind = jobs[k.job].kind
  BY <1>1 DEF Settles
<1>4. k.stale \subseteq {i \in JobIds' : jobs'[i].status # "queued"}
  BY <1>1, <1>2 DEF Settles
<1>5. WorkerInv(w)'
  BY <1>1, <1>2, <1>3, <1>4 DEF WorkerInv
<1>6. ASSUME NEW v \in Workers, v # w, Executing(v)
      PROVE  workers[v].job # k.job
  <2>1. CASE workers[w].phase = "claiming"
    <3>1. jobs[k.job].status = "queued"
      BY <1>1, <2>1 DEF WorkerInv
    <3>2. jobs[workers[v].job].status # "queued"
      BY <1>6 DEF IInv, WorkerInv
    <3> QED BY <3>1, <3>2
  <2>2. CASE workers[w].phase # "claiming"
    <3>1. Executing(w)
      BY <2>2 DEF Executing
    <3> QED BY <3>1, <1>1, <1>6 DEF Apart
  <2> QED BY <2>1, <2>2
<1>7. clock' \in 1 .. MaxClock /\ faults' \in 0 .. MaxFaults
  BY <1>1 DEF Typed
<1> QED BY <1>1, <1>5, <1>6, <1>7, WorkerStep

\* The claim is committed: nothing of the job's plan has run.
LEMMA CommitClaimStep ==
  ASSUME IInv, NEW w \in Workers, CommitClaim(w)
  PROVE  IInv'
<1>0. PICK j : j = workers[w].job
  OBVIOUS
<1> DEFINE k == [workers[w] EXCEPT !.phase = "executing"]
           row == [jobs[j] EXCEPT !.status = "running", !.claiming = None]
<1>1. /\ workers[w].phase = "claiming" /\ Set(w, k)
      /\ UNCHANGED <<clock, runs, requests, lock, faults>>
      /\ jobs' = [jobs EXCEPT ![j].status = "running", ![j].claiming = None]
  BY <1>0 DEF CommitClaim
<1>2. /\ Typed /\ workers[w] \in Worker /\ j \in JobIds
      /\ jobs[j] \in Job /\ jobs[j].kind \in Kinds
      /\ JobInv(j) /\ WorkerInv(w) /\ jobs \in [JobIds -> Job] /\ runs \in [JobIds -> Seq(Nat)]
  BY <1>0, <1>1, AtWork, Facts
<1>3. /\ jobs[j].status = "queued" /\ jobs[j].claiming = w
      /\ workers[w].next = 1 /\ workers[w].run = 0 /\ workers[w].result = <<>> /\ ~workers[w].failed
      /\ runs[j] = <<>>
  BY <1>0, <1>1, <1>2 DEF WorkerInv, JobInv
<1>4. /\ k \in Worker /\ k.job = j /\ k.phase = "executing" /\ k.stale = workers[w].stale
      /\ k.next = 1 /\ k.run = 0 /\ k.result = <<>> /\ ~k.failed
  BY <1>0, <1>2, <1>3 DEF Worker, Phases
<1>5. row \in Job
  BY <1>2 DEF Job
<1>6. /\ jobs'[j] = row /\ \A i \in JobIds : i # j => jobs'[i] = jobs[i]
      /\ jobs' \in [JobIds -> Job]
  <2>1. jobs' = [jobs EXCEPT ![j] = row]
    BY <1>1, <1>2
  <2> HIDE DEF row
  <2> QED BY <2>1, <1>2, <1>5
<1>7. /\ jobs'[j].kind = jobs[j].kind /\ jobs'[j].research = jobs[j].research
      /\ jobs'[j].run = jobs[j].run /\ jobs'[j].status = "running"
  BY <1>2, <1>6 DEF Job
<1>8. \A i \in JobIds : Settles(i) /\ JobInv(i)'
  <2>1. Settles(j) /\ JobInv(j)'
    BY <1>1, <1>2, <1>3, <1>7 DEF Settles, JobInv
  <2>2. ASSUME NEW i \in JobIds, i # j PROVE Settles(i) /\ JobInv(i)'
    <3>1. jobs'[i] = jobs[i] /\ runs'[i] = runs[i] /\ JobInv(i)
      BY <1>1, <1>6, <2>2 DEF IInv
    <3> QED BY <3>1 DEF Settles, JobInv
  <2> QED BY <2>1, <2>2
<1>9. ASSUME NEW v \in Workers, v # w PROVE Undisturbed(v)
  <2>1. WorkerInv(v)
    BY DEF IInv
  <2>2. workers[v].job = j => workers[v].phase # "claiming" /\ ~Executing(v)
    BY <1>3, <1>9, <2>1 DEF WorkerInv
  <2> QED BY <1>1, <1>6, <2>1, <2>2 DEF Undisturbed, WorkerInv
<1>10. /\ k.next <= Length(jobs[j].kind)
       /\ Shown(jobs[j].kind, k.next - 1, k.run, k.result, runs'[j])
  <2>1. Shown(jobs[j].kind, 0, 0, <<>>, <<>>) /\ 1 <= Length(jobs[j].kind)
    BY <1>2, NothingShown, PlanFacts
  <2> QED BY <2>1, <1>1, <1>3, <1>4
<1> HIDE DEF k, row
<1>11. k.job = workers[w].job /\ jobs'[k.job].status \notin {"queued", "completed"} /\ runs' \in [JobIds -> Seq(Nat)]
  BY <1>0, <1>1, <1>2, <1>4, <1>7
<1>12. k.phase = "executing" =>
         /\ k.next <= Length(jobs[k.job].kind) /\ ~k.failed
         /\ Shown(jobs[k.job].kind, k.next - 1, k.run, k.result, runs'[k.job])
  BY <1>4, <1>10
<1> QED BY <1>1, <1>4, <1>6, <1>8, <1>9, <1>11, <1>12, WorkStep

\* Where a worker that executes stands in the plan of its job.
LEMMA AtPoint ==
  ASSUME IInv, NEW w \in Workers, workers[w].phase = "executing"
  PROVE  LET k == workers[w]
             kind == jobs[workers[w].job].kind
         IN  /\ Len(JobPlan(w)) = Length(kind)
             /\ k.next - 1 \in Nat /\ k.next - 1 < Length(kind) /\ Length(kind) \in Nat
             /\ Point(w) = First(kind) + (k.next - 1) /\ Point(w) \in Nat
             /\ k.result \in Seq(Entry) /\ k.run \in Nat /\ ~k.failed
             /\ Shown(kind, k.next - 1, k.run, k.result, runs[k.job])
<1> DEFINE kind == jobs[workers[w].job].kind
           k == workers[w]
<1>1. k \in Worker /\ kind \in Kinds /\ WorkerInv(w)
  BY AtWork
<1>2. /\ k.next \in Nat \ {0} /\ k.next <= Length(kind) /\ ~k.failed
      /\ k.result \in Seq(Entry) /\ k.run \in Nat
      /\ Shown(kind, k.next - 1, k.run, k.result, runs[k.job])
  BY <1>1 DEF Worker, WorkerInv
<1>3. /\ Len(Plan(kind)) = Length(kind) /\ Length(kind) \in Nat
      /\ \A n \in 1 .. Length(kind) : Plan(kind)[n] = First(kind) + n - 1
  BY <1>1, PlanFacts
<1>4. First(kind) \in Nat
  BY DEF First
<1> HIDE DEF kind, k
<1>5. Plan(kind)[k.next] = First(kind) + (k.next - 1) /\ Plan(kind)[k.next] \in Nat
  BY <1>2, <1>3, <1>4
<1>6. k.next - 1 \in Nat /\ k.next - 1 < Length(kind)
  BY <1>2, <1>3
<1> QED BY <1>2, <1>3, <1>5, <1>6 DEF JobPlan, Point, kind, k

\* The next point, or the mark after the last one.
LEMMA AdvancedFacts ==
  ASSUME IInv, NEW w \in Workers, workers[w].phase = "executing",
         NEW base \in Worker, base.phase = "executing", base.next = workers[w].next,
         base.job = workers[w].job, base.stale = workers[w].stale, ~base.failed,
         NEW ended, Shown(jobs[base.job].kind, base.next, base.run, base.result, ended)
  PROVE  LET k == Advanced(w, base)
         IN  /\ k \in Worker /\ k.job = base.job /\ k.stale = base.stale
             /\ k.phase \in {"executing", "marking"}
             /\ IF k.phase = "executing"
                THEN /\ k.next <= Length(jobs[k.job].kind) /\ ~k.failed
                     /\ Shown(jobs[k.job].kind, k.next - 1, k.run, k.result, ended)
                ELSE ~k.failed =>
                     Shown(jobs[k.job].kind, Length(jobs[k.job].kind), k.run, k.result, ended)
<1> DEFINE k == Advanced(w, base)
<1>1. /\ Len(JobPlan(w)) = Length(jobs[base.job].kind)
      /\ base.next \in Nat \ {0} /\ base.next - 1 < Length(jobs[base.job].kind)
      /\ Length(jobs[base.job].kind) \in Nat
  BY AtPoint DEF Worker
<1>2. base.next + 1 - 1 = base.next
  BY <1>1
<1>3. /\ k \in Worker /\ k.job = base.job /\ k.stale = base.stale
      /\ k.next = base.next + 1 /\ k.run = base.run /\ k.result = base.result /\ ~k.failed
      /\ k.phase = IF base.next = Length(jobs[base.job].kind) THEN "marking" ELSE "executing"
  <2>0. PICK phase : phase = IF base.next = Length(jobs[base.job].kind)
                             THEN "marking" ELSE "executing"
    OBVIOUS
  <2>1. k = [base EXCEPT !.next = base.next + 1, !.phase = phase]
    BY <1>1, <2>0 DEF Advanced
  <2>2. base.next + 1 \in Nat \ {0} /\ phase \in Phases
    BY <1>1, <2>0 DEF Phases
  <2> HIDE DEF k
  <2>3. k \in Worker
    BY <2>1, <2>2 DEF Worker
  <2>4. /\ k.job = base.job /\ k.stale = base.stale /\ k.next = base.next + 1
        /\ k.run = base.run /\ k.result = base.result /\ k.failed = base.failed
        /\ k.phase = phase
    BY <2>1 DEF Worker
  <2> QED BY <2>0, <2>3, <2>4
<1>4. CASE base.next = Length(jobs[base.job].kind)
  <2> HIDE DEF k
  <2>1. k.phase = "marking"
    BY <1>3, <1>4
  <2>2. Shown(jobs[k.job].kind, Length(jobs[k.job].kind), k.run, k.result, ended)
    BY <1>2, <1>3, <1>4
  <2> QED BY <1>3, <2>1, <2>2 DEF k
<1>5. CASE base.next # Length(jobs[base.job].kind)
  <2> HIDE DEF k
  <2>1. k.phase = "executing" /\ k.next <= Length(jobs[k.job].kind)
    BY <1>1, <1>3, <1>5
  <2>2. Shown(jobs[k.job].kind, k.next - 1, k.run, k.result, ended)
    <3>1. k.next - 1 = base.next
      BY <1>1, <1>2, <1>3
    <3> QED BY <3>1, <1>3
  <2> QED BY <1>3, <2>1, <2>2 DEF k
<1> QED BY <1>4, <1>5

\* A point of the plan ends well.
LEMMA RunSucceedsStep ==
  ASSUME IInv, NEW w \in Workers, RunSucceeds(w)
  PROVE  IInv'
<1>0. PICK j : j = workers[w].job
  OBVIOUS
<1>1. PICK run : run = Len(runs[j]) + 1
  OBVIOUS
<1>2. PICK p : p = Point(w)
  OBVIOUS
<1> DEFINE kind == jobs[j].kind
           after == Append(runs[j], p)
           noted == Noted(workers[w], p, run)
           base == [workers[w] EXCEPT !.run = FirstRun(@, run), !.result = noted]
           k == Advanced(w, base)
<1>3. /\ workers[w].phase = "executing" /\ Set(w, k)
      /\ UNCHANGED <<clock, jobs, requests, lock, faults>>
      /\ runs' = [runs EXCEPT ![j] = after]
  BY <1>0, <1>1, <1>2 DEF RunSucceeds, WithRun
<1>4. /\ Typed /\ workers[w] \in Worker /\ j \in JobIds /\ kind \in Kinds
      /\ runs[j] \in Seq(Nat) /\ Distinct(runs[j]) /\ JobInv(j)
      /\ jobs[j].status \notin {"queued", "completed"} /\ jobs \in [JobIds -> Job] /\ runs \in [JobIds -> Seq(Nat)]
      /\ jobs[j] \in Job
  BY <1>0, <1>3, AtWork, Facts
<1>5. /\ p = First(kind) + (workers[w].next - 1) /\ p \in Nat
      /\ workers[w].next - 1 \in Nat /\ workers[w].next - 1 < Length(kind)
      /\ workers[w].result \in Seq(Entry) /\ workers[w].run \in Nat /\ ~workers[w].failed
      /\ Shown(kind, workers[w].next - 1, workers[w].run, workers[w].result, runs[j])
  BY <1>0, <1>2, <1>3, AtPoint
<1>6. noted = IF kind = "single" \/ p = 0 THEN workers[w].result
              ELSE Append(workers[w].result, [point |-> p, run |-> run])
  BY <1>0 DEF Noted
<1>7. /\ Distinct(after)
      /\ Shown(kind, workers[w].next, FirstRun(workers[w].run, run), noted, after)
  <2>1. after = Append(runs[j], p)
    OBVIOUS
  <2> HIDE DEF kind, noted, after
  <2>2. PICK n : n = workers[w].next - 1
    OBVIOUS
  <2>3. /\ n \in Nat /\ n < Length(kind) /\ p = First(kind) + n /\ kind \in Kinds
        /\ Shown(kind, n, workers[w].run, workers[w].result, runs[j])
    BY <2>2, <1>4, <1>5
  <2>4. runs[j] \in Seq(Nat) /\ Distinct(runs[j]) /\ workers[w].result \in Seq(Entry)
    BY <1>4, <1>5
  <2>5. PICK m : m = workers[w].next
    OBVIOUS
  <2>7. m = n + 1
    <3>1. workers[w].next \in Nat
      BY <1>4 DEF Worker
    <3> QED BY <2>2, <2>5, <3>1
  <2>6. Shown(kind, m, FirstRun(workers[w].run, run), noted, after)
    BY <2>7, <2>1, <2>3, <2>4, <1>1, <1>6, SuccessShown
  <2>8. Distinct(after)
    BY <2>1, <2>3, <2>4, SuccessDistinct
  <2> QED BY <2>2, <2>5, <2>6, <2>8
<1>8. run \in Nat /\ Len(runs[j]) \in Nat
  BY <1>1, <1>4, LenProperties
<1>9. noted \in Seq(Entry)
  <2>1. [point |-> p, run |-> run] \in Entry
    BY <1>5, <1>8 DEF Entry
  <2>2. Append(workers[w].result, [point |-> p, run |-> run]) \in Seq(Entry)
    BY <2>1, <1>5, AppendProperties
  <2> QED BY <2>2, <1>5, <1>6
<1>10. /\ base \in Worker /\ base.phase = "executing" /\ base.next = workers[w].next
       /\ base.job = j /\ base.stale = workers[w].stale /\ ~base.failed
       /\ base.run = FirstRun(workers[w].run, run) /\ base.result = noted
  <2>1. FirstRun(workers[w].run, run) \in Nat
    BY <1>5, <1>8 DEF FirstRun
  <2> HIDE DEF noted
  <2> QED BY <2>1, <1>0, <1>3, <1>4, <1>5, <1>9 DEF Worker
<1>11. /\ runs'[j] = after /\ \A i \in JobIds : i # j => runs'[i] = runs[i]
       /\ runs' \in [JobIds -> Seq(Nat)] /\ after \in Seq(Nat) /\ Len(after) = Len(runs[j]) + 1
  <2>1. after \in Seq(Nat) /\ Len(after) = Len(runs[j]) + 1
    BY <1>4, <1>5, AppendProperties
  <2> QED BY <2>1, <1>3, <1>4
<1>12. /\ k \in Worker /\ k.job = j /\ k.stale = workers[w].stale
       /\ k.phase \in {"executing", "marking"}
       /\ IF k.phase = "executing"
          THEN /\ k.next <= Length(jobs[k.job].kind) /\ ~k.failed
               /\ Shown(jobs[k.job].kind, k.next - 1, k.run, k.result, after)
          ELSE ~k.failed =>
               Shown(jobs[k.job].kind, Length(jobs[k.job].kind), k.run, k.result, after)
  <2>1. Shown(jobs[base.job].kind, base.next, base.run, base.result, after)
    <3> HIDE DEF base, noted, after
    <3> QED BY <1>7, <1>10
  <2>2. base.job = workers[w].job
    BY <1>0, <1>10
  <2> HIDE DEF base, after
  <2> QED BY <2>1, <2>2, <1>3, <1>10, AdvancedFacts
<1>13. \A i \in JobIds : Settles(i) /\ JobInv(i)'
  <2>1. Settles(j) /\ JobInv(j)'
    <3>1. jobs'[j] = jobs[j] /\ runs'[j] = after /\ jobs[j].run \in Nat
      BY <1>3, <1>4, <1>11 DEF Job
    <3> HIDE DEF after
    <3> QED BY <3>1, <1>4, <1>7, <1>8, <1>11 DEF Settles, JobInv
  <2>2. ASSUME NEW i \in JobIds, i # j PROVE Settles(i) /\ JobInv(i)'
    <3>1. jobs'[i] = jobs[i] /\ runs'[i] = runs[i] /\ JobInv(i)
      BY <1>3, <1>11, <2>2 DEF IInv
    <3> QED BY <3>1 DEF Settles, JobInv
  <2> QED BY <2>1, <2>2
<1>14. ASSUME NEW v \in Workers, v # w PROVE Undisturbed(v)
  <2>1. WorkerInv(v)
    BY DEF IInv
  <2>2. Executing(v) => workers[v].job # j
    BY <1>0, <1>3, <1>14 DEF IInv, Apart, Executing
  <2> QED BY <1>3, <1>11, <2>1, <2>2 DEF Undisturbed, WorkerInv
<1> HIDE DEF kind, after, noted, base, k
<1>15. k.job = workers[w].job /\ jobs'[k.job].status \notin {"queued", "completed"}
       /\ jobs' \in [JobIds -> Job] /\ runs'[k.job] = after
  BY <1>0, <1>3, <1>4, <1>11, <1>12
<1> QED BY <1>3, <1>11, <1>12, <1>13, <1>14, <1>15, WorkStep

\* A worker's notes change and the tables stay.
LEMMA NotesStep ==
  ASSUME IInv, NEW w \in Workers, workers[w].phase = "executing",
         NEW k \in Worker, Set(w, k), k.job = workers[w].job,
         k.phase \in {"executing", "marking"}, k.stale = workers[w].stale,
         UNCHANGED <<clock, jobs, runs, requests, lock, faults>>,
         IF k.phase = "executing"
         THEN /\ k.next <= Length(jobs[k.job].kind) /\ ~k.failed
              /\ Shown(jobs[k.job].kind, k.next - 1, k.run, k.result, runs[k.job])
         ELSE ~k.failed =>
              Shown(jobs[k.job].kind, Length(jobs[k.job].kind), k.run, k.result, runs[k.job])
  PROVE  IInv'
<1>1. jobs[k.job].status \notin {"queued", "completed"}
  BY AtWork
<1>2. /\ jobs' \in [JobIds -> Job] /\ runs' \in [JobIds -> Seq(Nat)]
      /\ \A j \in JobIds : Settles(j) /\ JobInv(j)'
      /\ \A v \in Workers : Undisturbed(v)
  BY TablesStay
<1> QED BY <1>1, <1>2, WorkStep

\* The job is to be marked failed.
LEMMA FailedStep ==
  ASSUME IInv, NEW w \in Workers, workers[w].phase = "executing",
         Set(w, [workers[w] EXCEPT !.phase = "marking", !.failed = TRUE]),
         UNCHANGED <<clock, jobs, runs, requests, lock, faults>>
  PROVE  IInv'
<1> DEFINE k == [workers[w] EXCEPT !.phase = "marking", !.failed = TRUE]
<1>1. workers[w] \in Worker
  BY AtWork
<1>2. /\ k \in Worker /\ k.job = workers[w].job /\ k.phase = "marking" /\ k.failed
      /\ k.stale = workers[w].stale /\ Set(w, k)
  BY <1>1 DEF Worker, Phases
<1> HIDE DEF k
<1> QED BY <1>2, NotesStep

\* The job's request is refused.
LEMMA BuildFailsStep ==
  ASSUME IInv, NEW w \in Workers, BuildFails(w)
  PROVE  IInv'
BY FailedStep DEF BuildFails

\* A point fails, or the full window and the job with it.
LEMMA RunFailsStep ==
  ASSUME IInv, NEW w \in Workers, RunFails(w)
  PROVE  IInv'
<1>0. PICK j : j = workers[w].job
  OBVIOUS
<1>1. PICK p : p = Point(w)
  OBVIOUS
<1>2. PICK kind : kind = jobs[j].kind
  OBVIOUS
<1>3. /\ workers[w].phase = "executing"
      /\ UNCHANGED <<clock, jobs, runs, requests, lock, faults>>
      /\ Set(w, AfterFailure(w))
  BY DEF RunFails
<1>4. CASE p = 0
  BY <1>1, <1>3, <1>4, FailedStep DEF AfterFailure
<1>5. CASE p # 0
  <2>1. PICK noted : noted = Append(workers[w].result, [point |-> p, run |-> 0])
    OBVIOUS
  <2>2. PICK n : n = workers[w].next - 1
    OBVIOUS
  <2>3. /\ Typed /\ workers[w] \in Worker /\ j \in JobIds /\ kind \in Kinds
        /\ runs[j] \in Seq(Nat)
    BY <1>0, <1>2, <1>3, AtWork
  <2>4. /\ p = First(kind) + n /\ p \in Nat /\ n \in Nat /\ n < Length(kind)
        /\ workers[w].result \in Seq(Entry) /\ workers[w].run \in Nat /\ ~workers[w].failed
        /\ Shown(kind, n, workers[w].run, workers[w].result, runs[j])
    BY <1>0, <1>1, <1>2, <1>3, <2>2, AtPoint
  <2>5. PICK m : m = workers[w].next
    OBVIOUS
  <2>6. m = n + 1
    <3>1. workers[w].next \in Nat
      BY <2>3 DEF Worker
    <3> QED BY <3>1, <2>2, <2>5
  <2>7. kind # "single" /\ Shown(kind, m, workers[w].run, noted, runs[j])
    <3>1. kind # "single"
      BY <1>5, <2>3, <2>4, NotSingle
    <3>2. Shown(kind, m, workers[w].run, noted, runs[j])
      BY <1>5, <2>1, <2>3, <2>4, <2>6, FailureShown
    <3> QED BY <3>1, <3>2
  <2>8. noted \in Seq(Entry)
    <3>1. [point |-> p, run |-> 0] \in Entry
      BY <2>4 DEF Entry
    <3> QED BY <3>1, <2>1, <2>4, AppendProperties
  <2> DEFINE base == [workers[w] EXCEPT !.result = noted]
             k == Advanced(w, base)
  <2>9. /\ base \in Worker /\ base.phase = "executing" /\ base.next = m
        /\ base.job = j /\ base.stale = workers[w].stale /\ ~base.failed
        /\ base.run = workers[w].run /\ base.result = noted
    BY <1>0, <1>3, <2>3, <2>4, <2>5, <2>8 DEF Worker
  <2>10. Set(w, k)
    <3>1. Noted(workers[w], p, 0) = noted
      BY <1>0, <1>2, <1>5, <2>1, <2>7 DEF Noted
    <3> QED BY <3>1, <1>1, <1>3, <1>5 DEF AfterFailure
  <2>11. /\ k \in Worker /\ k.job = j /\ k.stale = workers[w].stale
         /\ k.phase \in {"executing", "marking"}
         /\ IF k.phase = "executing"
            THEN /\ k.next <= Length(jobs[k.job].kind) /\ ~k.failed
                 /\ Shown(jobs[k.job].kind, k.next - 1, k.run, k.result, runs[j])
            ELSE ~k.failed =>
                 Shown(jobs[k.job].kind, Length(jobs[k.job].kind), k.run, k.result, runs[j])
    <3> HIDE DEF base
    <3>1. Shown(jobs[base.job].kind, base.next, base.run, base.result, runs[j])
      BY <1>2, <2>7, <2>9
    <3>2. base.job = workers[w].job /\ base.next = workers[w].next
      BY <1>0, <2>5, <2>9
    <3> QED BY <3>1, <3>2, <1>3, <2>9, AdvancedFacts
  <2> HIDE DEF base, k
  <2>12. k.job = workers[w].job
    BY <1>0, <2>11
  <2> QED BY <1>3, <2>10, <2>11, <2>12, NotesStep
<1> QED BY <1>4, <1>5

\* The job is marked with what its plan has left.
LEMMA MarkStep ==
  ASSUME IInv, NEW w \in Workers, Mark(w)
  PROVE  IInv'
<1>0. PICK j : j = workers[w].job
  OBVIOUS
<1>1. /\ workers[w].phase = "marking" /\ UNCHANGED <<clock, runs, requests, lock, faults>>
      /\ Typed /\ clock' \in 1 .. MaxClock /\ faults' \in 0 .. MaxFaults
  BY DEF Mark, IInv, Typed
<1>2. CASE jobs' = jobs /\ Set(w, Down)
  BY <1>1, <1>2, DownIsTyped, LoopIsTyped, TablesStay, IdleStep
<1>3. CASE jobs[j].status # "gone"
  <2>1. /\ workers[w] \in Worker /\ j \in JobIds /\ jobs[j] \in Job /\ jobs[j].kind \in Kinds
        /\ runs[j] \in Seq(Nat) /\ JobInv(j) /\ WorkerInv(w)
        /\ jobs[j].status \notin {"queued", "completed"}
        /\ jobs \in [JobIds -> Job]
    BY <1>0, <1>1, AtWork, Facts
  <2>2. PICK row : row = IF workers[w].failed THEN [jobs[j] EXCEPT !.status = "failed"]
                         ELSE [jobs[j] EXCEPT !.status = "completed", !.run = workers[w].run,
                                              !.result = workers[w].result]
    OBVIOUS
  <2>3. jobs' = [jobs EXCEPT ![j] = row] /\ Set(w, [Down EXCEPT !.phase = "loop"])
    BY <1>0, <1>3, <2>2 DEF Mark
  <2>4. workers[w].run \in Nat /\ workers[w].result \in Seq(Entry)
    BY <2>1 DEF Worker
  <2>5. row \in Job
    BY <2>1, <2>2, <2>4 DEF Job
  <2>6. /\ jobs'[j] = row /\ \A i \in JobIds : i # j => jobs'[i] = jobs[i]
        /\ jobs' \in [JobIds -> Job]
    BY <2>1, <2>3, <2>5
  <2>7. /\ row.kind = jobs[j].kind /\ row.research = jobs[j].research
        /\ row.status = (IF workers[w].failed THEN "failed" ELSE "completed")
        /\ row.run = (IF workers[w].failed THEN jobs[j].run ELSE workers[w].run)
        /\ ~workers[w].failed => row.result = workers[w].result
    BY <2>1, <2>2 DEF Job
  <2>8. Executing(w) /\ jobs[j].status \in {"running", "failed", "gone"}
    BY <1>1, <2>1 DEF Executing, Job
  <2>9. Settles(j) /\ JobInv(j)'
    <3>1. Settles(j)
      BY <2>6, <2>7 DEF Settles
    <3>2. CASE workers[w].failed
      BY <3>1, <3>2, <1>1, <2>1, <2>6, <2>7 DEF JobInv
    <3>3. CASE ~workers[w].failed
      <4>1. Shown(jobs[j].kind, Length(jobs[j].kind), workers[w].run, workers[w].result, runs[j])
        BY <3>3, <1>0, <1>1, <2>1 DEF WorkerInv
      <4>2. workers[w].run <= Len(runs[j])
        <5>1. runs[j] # <<>> => Len(runs[j]) >= 1
          BY <2>1, EmptySeq, LenProperties
        <5> QED BY <4>1, <5>1, <2>1, LenProperties DEF Shown
      <4>3. Shown(row.kind, Length(row.kind), row.run, row.result, runs[j]) /\ row.run <= Len(runs[j])
        BY <3>3, <4>1, <4>2, <2>7
      <4>4. runs'[j] = runs[j] /\ jobs'[j] = row /\ row.status = "completed"
        BY <3>3, <1>1, <2>6, <2>7
      <4> QED BY <3>1, <4>3, <4>4, <2>1 DEF JobInv
    <3> QED BY <3>1, <3>2, <3>3
  <2>10. \A i \in JobIds : Settles(i) /\ JobInv(i)'
    <3>1. ASSUME NEW i \in JobIds, i # j PROVE Settles(i) /\ JobInv(i)'
      <4>1. jobs'[i] = jobs[i] /\ runs'[i] = runs[i] /\ JobInv(i)
        BY <1>1, <2>6, <3>1 DEF IInv
      <4> QED BY <4>1 DEF Settles, JobInv
    <3> QED BY <3>1, <2>9
  <2>11. ASSUME NEW v \in Workers, v # w PROVE Undisturbed(v)
    <3>1. WorkerInv(v) /\ Apart
      BY DEF IInv
    <3>2. Executing(v) => workers[v].job # j
      BY <1>0, <2>8, <2>11, <3>1 DEF Apart
    <3>3. workers[v].phase = "claiming" => workers[v].job # j
      BY <2>1, <3>1 DEF WorkerInv
    <3> QED BY <1>1, <2>6, <2>7, <3>1, <3>2, <3>3 DEF Undisturbed, WorkerInv
  <2> QED BY <1>1, <2>3, <2>6, <2>10, <2>11, LoopIsTyped, IdleStep
<1> QED BY <1>0, <1>2, <1>3 DEF Mark

-----------------------------------------------------------------------------
(***************************************************************************)
(* The invariant, and the properties that follow from it.                  *)
(***************************************************************************)
\* Nothing changes.
LEMMA StutterStep ==
  ASSUME IInv, UNCHANGED vars
  PROVE  IInv'
<1>1. /\ Typed /\ Locked /\ Room
      /\ UNCHANGED <<clock, jobs, runs, requests, lock, workers, faults>>
  BY DEF IInv, vars
<1>2. Locked' /\ Room'
  BY <1>1 DEF Locked, Room, ResearchPending, Pending, JobIds
<1> QED BY <1>1, <1>2, RequestStep DEF Typed

\* The invariant is inductive.
LEMMA NextStep ==
  ASSUME IInv, [Next]_vars
  PROVE  IInv'
<1>1. ASSUME NEW c \in Callers, CheckCapacity(c) PROVE IInv'
  BY <1>1, CheckCapacityStep
<1>2. ASSUME NEW c \in Callers, Refuse(c) PROVE IInv'
  BY <1>2, RefuseStep
<1>3. ASSUME NEW c \in Callers, NEW kind \in Kinds, Submit(c, kind) PROVE IInv'
  BY <1>3, SubmitStep
<1>4. ASSUME NEW kind \in Kinds, SubmitAsAdmin(kind) PROVE IInv'
  BY <1>4, SubmitAsAdminStep
<1>5. ASSUME NEW w \in Workers, Work(w) PROVE IInv'
  BY <1>5, BootStep, FailStaleRunningStep, EvictFinishedStep, ClaimNextQueuedStep, CommitClaimStep,
     RunSucceedsStep, RunFailsStep, BuildFailsStep, MarkStep DEF Work
<1>6. ASSUME NEW w \in Workers, Stop(w) \/ Crash(w) PROVE IInv'
  BY <1>6, StopStep, CrashStep
<1>7. CASE Tick
  BY <1>7, TickStep
<1>8. CASE UNCHANGED vars
  BY <1>8, StutterStep
<1> QED BY <1>1, <1>2, <1>3, <1>4, <1>5, <1>6, <1>7, <1>8 DEF Next

\* IInv holds in every behaviour: the queue's tables, locks and workers stay
\* in step through submissions, claims, crashes and restarts.
THEOREM JobsInvariant == Spec => []IInv
BY InitStep, NextStep, PTL DEF Spec

\* ResearchBounded: requests that count the queue at the same time do not fill
\* it beyond the ceiling (check_research_capacity's transaction lock).
THEOREM ResearchBoundedAlways == Spec => []ResearchBounded
<1>1. IInv => ResearchBounded
  BY DEF IInv, Room, ResearchBounded, ResearchPending
<1> QED BY <1>1, JobsInvariant, PTL

\* What a completed row shows, from the whole of its plan.
LEMMA WholeResult ==
  ASSUME NEW j, JobInv(j), jobs[j] \in Job, runs[j] \in Seq(Nat),
         jobs[j].status = "completed"
  PROVE  /\ jobs[j].run = IF DOMAIN runs[j] = {} THEN 0 ELSE 1
         /\ jobs[j].kind # "sweep" => jobs[j].run # 0 /\ runs[j][jobs[j].run] = 0
         /\ Len(jobs[j].result) = Entries(jobs[j].kind, Length(jobs[j].kind))
         /\ \A i \in DOMAIN jobs[j].result :
              /\ jobs[j].result[i].point = i
              /\ jobs[j].result[i].run # 0 =>
                   jobs[j].result[i].run \in DOMAIN runs[j] /\ runs[j][jobs[j].result[i].run] = i
         /\ \A r \in DOMAIN runs[j] : runs[j][r] # 0 =>
              runs[j][r] \in DOMAIN jobs[j].result /\ jobs[j].result[runs[j][r]].run = r
         /\ DOMAIN jobs[j].result \in SUBSET (Nat \ {0}) /\ DOMAIN runs[j] \in SUBSET (Nat \ {0})
<1>1. /\ jobs[j].kind \in Kinds /\ jobs[j].result \in Seq(Entry)
      /\ Shown(jobs[j].kind, Length(jobs[j].kind), jobs[j].run, jobs[j].result, runs[j])
  BY DEF Job, JobInv
<1>2. Length(jobs[j].kind) \in Nat \ {0}
  BY <1>1, PlanFacts
<1>3. DOMAIN runs[j] = {} <=> runs[j] = <<>>
  <2>1. Len(runs[j]) \in Nat /\ DOMAIN runs[j] = 1 .. Len(runs[j])
    BY LenProperties
  <2>2. Len(runs[j]) # 0 => 1 \in DOMAIN runs[j]
    BY <2>1
  <2>3. Len(runs[j]) = 0 => DOMAIN runs[j] = {}
    BY <2>1
  <2>4. runs[j] = <<>> <=> Len(runs[j]) = 0
    BY EmptySeq
  <2> QED BY <2>2, <2>3, <2>4
<1>4. /\ Len(jobs[j].result) \in Nat /\ DOMAIN jobs[j].result = 1 .. Len(jobs[j].result)
      /\ Len(runs[j]) \in Nat /\ DOMAIN runs[j] = 1 .. Len(runs[j])
  BY <1>1, LenProperties
<1>5. DOMAIN jobs[j].result \in SUBSET (Nat \ {0}) /\ DOMAIN runs[j] \in SUBSET (Nat \ {0})
  BY <1>4
<1>6. jobs[j].kind # "sweep" => runs[j] # <<>> /\ runs[j][1] = 0
  BY <1>1, <1>2 DEF Shown
<1>7. jobs[j].run = IF runs[j] = <<>> THEN 0 ELSE 1
  BY <1>1 DEF Shown
<1>8. jobs[j].run = IF DOMAIN runs[j] = {} THEN 0 ELSE 1
  BY <1>3, <1>7
<1>9. jobs[j].kind # "sweep" => jobs[j].run # 0 /\ runs[j][jobs[j].run] = 0
  BY <1>6, <1>7
<1>10. Len(jobs[j].result) = Entries(jobs[j].kind, Length(jobs[j].kind))
  BY <1>1 DEF Shown
<1>11. /\ \A i \in DOMAIN jobs[j].result :
            /\ jobs[j].result[i].point = i
            /\ jobs[j].result[i].run # 0 =>
                 jobs[j].result[i].run \in DOMAIN runs[j] /\ runs[j][jobs[j].result[i].run] = i
       /\ \A r \in DOMAIN runs[j] : runs[j][r] # 0 =>
            runs[j][r] \in DOMAIN jobs[j].result /\ jobs[j].result[runs[j][r]].run = r
  BY <1>1 DEF Shown
<1> QED BY <1>5, <1>8, <1>9, <1>10, <1>11

\* ResultIsWhole: no point of a job ends twice, and a completed job shows the
\* first run that ended and one entry per point, naming this job's run of it.
THEOREM ResultIsWholeAlways == Spec => []ResultIsWhole
<1>1. ASSUME IInv PROVE ResultIsWhole
  <2>1. ASSUME NEW j \in JobIds
        PROVE  \A r, s \in DOMAIN runs[j] : runs[j][r] = runs[j][s] => r = s
    BY <1>1 DEF IInv, JobInv, Distinct
  <2>2. ASSUME NEW j \in JobIds, jobs[j].status = "completed"
        PROVE  /\ jobs[j].run = IF DOMAIN runs[j] = {} THEN 0 ELSE 1
               /\ jobs[j].kind # "sweep" => jobs[j].run # 0 /\ runs[j][jobs[j].run] = 0
               /\ Len(jobs[j].result) = CASE jobs[j].kind = "single" -> 0
                                          [] jobs[j].kind = "sweep" -> Points
                                          [] jobs[j].kind = "stability" -> Windows
               /\ \A i \in DOMAIN jobs[j].result :
                    /\ jobs[j].result[i].point = i
                    /\ jobs[j].result[i].run # 0 =>
                         jobs[j].result[i].run \in DOMAIN runs[j] /\ runs[j][jobs[j].result[i].run] = i
               /\ {jobs[j].result[i].run : i \in DOMAIN jobs[j].result} \ {0}
                    = {r \in DOMAIN runs[j] : runs[j][r] # 0}
    <3>1. JobInv(j) /\ jobs[j] \in Job /\ runs[j] \in Seq(Nat)
      BY <1>1, Facts DEF IInv
    <3> DEFINE result == jobs[j].result
               ended == runs[j]
    <3>2. /\ jobs[j].run = IF DOMAIN ended = {} THEN 0 ELSE 1
          /\ jobs[j].kind # "sweep" => jobs[j].run # 0 /\ ended[jobs[j].run] = 0
          /\ Len(result) = Entries(jobs[j].kind, Length(jobs[j].kind))
      BY <3>1, <2>2, WholeResult
    <3>3. /\ \A i \in DOMAIN result :
               /\ result[i].point = i
               /\ result[i].run # 0 => result[i].run \in DOMAIN ended /\ ended[result[i].run] = i
          /\ \A r \in DOMAIN ended : ended[r] # 0 =>
               ended[r] \in DOMAIN result /\ result[ended[r]].run = r
          /\ DOMAIN result \in SUBSET (Nat \ {0}) /\ DOMAIN ended \in SUBSET (Nat \ {0})
      BY <3>1, <2>2, WholeResult
    <3>4. Entries(jobs[j].kind, Length(jobs[j].kind)) =
            CASE jobs[j].kind = "single" -> 0
              [] jobs[j].kind = "sweep" -> Points
              [] jobs[j].kind = "stability" -> Windows
      <4>1. jobs[j].kind \in {"single", "sweep", "stability"} /\ Windows \in Nat
        BY <3>1, JobsAssumption DEF Job
      <4> QED BY <4>1 DEF Entries, Length
    <3> HIDE DEF result, ended
    <3>5. {result[i].run : i \in DOMAIN result} \ {0} \subseteq {r \in DOMAIN ended : ended[r] # 0}
      BY <3>3
    <3>6. {r \in DOMAIN ended : ended[r] # 0} \subseteq {result[i].run : i \in DOMAIN result} \ {0}
      BY <3>3
    <3>7. {result[i].run : i \in DOMAIN result} \ {0} = {r \in DOMAIN ended : ended[r] # 0}
      BY <3>5, <3>6
    <3> QED BY <3>2, <3>3, <3>4, <3>7 DEF result, ended
  <2> QED BY <2>1, <2>2 DEF ResultIsWhole
<1> QED BY <1>1, JobsInvariant, PTL

-----------------------------------------------------------------------------
(***************************************************************************)
(* The points in the runs table are points of a plan.                      *)
(***************************************************************************)
Top == Max({Points, Windows})
InPlan == \A j \in JobIds : \A r \in DOMAIN runs[j] : runs[j][r] <= Top

\* The greater of the two lengths.
LEMMA TopIsGreatest == Top \in Nat /\ Points <= Top /\ Windows <= Top
<1>1. Points \in Nat /\ Windows \in Nat
  BY JobsAssumption
<1>2. \E m \in {Points, Windows} : \A q \in {Points, Windows} : m >= q
  BY <1>1
<1>3. Top \in {Points, Windows} /\ \A q \in {Points, Windows} : Top >= q
  BY <1>2 DEF Top, Max
<1> QED BY <1>1, <1>3

\* No run has ended.
LEMMA InPlanInit == Init => InPlan
BY DEF Init, InPlan, JobIds

\* A run that ends is the next point of a plan.
LEMMA InPlanNext ==
  ASSUME IInv, InPlan, [Next]_vars
  PROVE  InPlan'
<1>1. Typed /\ jobs \in Seq(Job) /\ Len(jobs) \in Nat /\ runs \in Seq(Seq(Nat)) /\ Len(runs) = Len(jobs)
      /\ runs \in [JobIds -> Seq(Nat)] /\ JobIds = 1 .. Len(jobs)
      /\ jobs' \in Seq(Job) /\ Len(jobs') \in Nat /\ runs' \in Seq(Seq(Nat)) /\ Len(runs') = Len(jobs')
  <2>1. Typed /\ Typed'
    BY NextStep DEF IInv
  <2>2. Len(jobs') \in Nat
    BY <2>1, LenProperties DEF Typed
  <2> QED BY <2>1, <2>2, Facts DEF Typed
<1>2. ASSUME runs' = runs PROVE InPlan'
  <2>1. JobIds' = JobIds
    BY <1>1, <1>2 DEF JobIds
  <2> QED BY <1>2, <2>1 DEF InPlan
<1>3. ASSUME runs' = Append(runs, <<>>) PROVE InPlan'
  <2>1. /\ Len(runs') = Len(runs) + 1 /\ runs'[Len(runs) + 1] = <<>>
        /\ \A i \in 1 .. Len(runs) : runs'[i] = runs[i]
    <3>1. <<>> \in Seq(Nat)
      OBVIOUS
    <3> QED BY <1>1, <1>3, <3>1, AppendProperties
  <2>2. JobIds' = 1 .. (Len(runs) + 1)
    BY <1>1, <2>1 DEF JobIds
  <2>3. ASSUME NEW j \in JobIds', NEW r \in DOMAIN runs'[j] PROVE runs'[j][r] <= Top
    <3>1. DOMAIN (<<>>) = {}
      OBVIOUS
    <3>2. j # Len(runs) + 1
      <4>1. runs'[j] # <<>>
        BY <2>3, <3>1
      <4> QED BY <4>1, <2>1
    <3>3. j \in 1 .. Len(runs)
      BY <1>1, <2>2, <3>2
    <3>4. j \in JobIds /\ runs'[j] = runs[j]
      BY <1>1, <2>1, <3>3
    <3> QED BY <2>3, <3>4 DEF InPlan
  <2> QED BY <2>3 DEF InPlan
<1>4. ASSUME NEW w \in Workers, RunSucceeds(w) PROVE InPlan'
  <2>0. PICK j : j = workers[w].job
    OBVIOUS
  <2>1. PICK p : p = Point(w)
    OBVIOUS
  <2>2. /\ workers[w].phase = "executing" /\ jobs' = jobs
        /\ runs' = [runs EXCEPT ![j] = Append(runs[j], p)]
    BY <1>4, <2>0, <2>1 DEF RunSucceeds, WithRun
  <2>3. j \in JobIds /\ runs[j] \in Seq(Nat) /\ jobs[j].kind \in Kinds
    BY <2>0, <2>2, AtWork
  <2>4. /\ p = First(jobs[j].kind) + (workers[w].next - 1) /\ p \in Nat
        /\ workers[w].next - 1 \in Nat /\ workers[w].next - 1 < Length(jobs[j].kind)
    BY <2>0, <2>1, <2>2, AtPoint
  <2>5. p <= Top
    <3>1. jobs[j].kind \in {"single", "sweep", "stability"} /\ Points \in Nat /\ Windows \in Nat
      BY <2>3, JobsAssumption
    <3> QED BY <2>4, <3>1, TopIsGreatest DEF First, Length
  <2>6. /\ runs'[j] = Append(runs[j], p) /\ \A i \in JobIds : i # j => runs'[i] = runs[i]
        /\ JobIds' = JobIds
    BY <1>1, <2>2, <2>3 DEF JobIds
  <2>7. ASSUME NEW r \in DOMAIN Append(runs[j], p) PROVE Append(runs[j], p)[r] <= Top
    <3>1. /\ Append(runs[j], p) \in Seq(Nat) /\ Len(Append(runs[j], p)) = Len(runs[j]) + 1
          /\ \A i \in 1 .. Len(runs[j]) : Append(runs[j], p)[i] = runs[j][i]
          /\ Append(runs[j], p)[Len(runs[j]) + 1] = p
      BY <2>3, <2>4, AppendProperties
    <3>2. DOMAIN Append(runs[j], p) = 1 .. (Len(runs[j]) + 1) /\ Len(runs[j]) \in Nat
          /\ DOMAIN runs[j] = 1 .. Len(runs[j])
      BY <2>3, <3>1, LenProperties
    <3>3. r \in 1 .. Len(runs[j]) \/ r = Len(runs[j]) + 1
      BY <2>7, <3>2
    <3>4. \A i \in DOMAIN runs[j] : runs[j][i] <= Top
      BY <2>3 DEF InPlan
    <3> QED BY <2>5, <3>1, <3>2, <3>3, <3>4
  <2>8. ASSUME NEW i \in JobIds, NEW r \in DOMAIN runs'[i] PROVE runs'[i][r] <= Top
    <3>1. CASE i = j
      BY <2>6, <2>7, <2>8, <3>1
    <3>2. CASE i # j
      BY <2>6, <2>8, <3>2 DEF InPlan
    <3> QED BY <3>1, <3>2
  <2> QED BY <2>6, <2>8 DEF InPlan
<1>5. ASSUME runs' # runs
      PROVE  runs' = Append(runs, <<>>) \/ \E w \in Workers : RunSucceeds(w)
  BY <1>5 DEF Next, vars, CheckCapacity, Refuse, Submit, SubmitAsAdmin, Work, Stop, Crash, Tick, Boot,
     FailStaleRunning, EvictFinished, ClaimNextQueued, CommitClaim, RunFails, BuildFails, Mark
<1> QED BY <1>2, <1>3, <1>4, <1>5

\* TypeOK: the rows, the notes of the workers and the places in the plans have
\* the values the code gives them.
THEOREM TypeOKAlways == Spec => []TypeOK
<1>1. ASSUME IInv, InPlan PROVE TypeOK
  <2>1. /\ Typed /\ Len(jobs) \in Nat /\ JobIds = 1 .. Len(jobs) /\ runs \in [JobIds -> Seq(Nat)]
        /\ \A j \in JobIds : jobs[j] \in Job /\ runs[j] \in Seq(Nat)
        /\ \A w \in Workers : workers[w] \in Worker
    BY <1>1, Facts DEF IInv
  <2>2. ASSUME NEW j \in JobIds
        PROVE  /\ jobs[j].status \in {"queued", "running", "completed", "failed", "gone"}
               /\ jobs[j].run \in 0 .. Len(runs[j]) /\ jobs[j].claiming \in Workers \cup {None}
    <3>1. jobs[j] \in Job /\ Len(runs[j]) \in Nat /\ jobs[j].run <= Len(runs[j])
      BY <1>1, <2>1, LenProperties DEF IInv, JobInv
    <3> QED BY <3>1 DEF Job
  <2>3. ASSUME NEW j \in JobIds, NEW r \in DOMAIN runs[j] PROVE runs[j][r] \in 0 .. Top
    <3>1. runs[j] \in Seq(Nat) /\ r \in DOMAIN runs[j]
      BY <2>1
    <3>2. runs[j][r] \in Nat /\ runs[j][r] <= Top
      BY <1>1, <3>1, LenProperties DEF InPlan
    <3> QED BY <3>2, TopIsGreatest
  <2>4. ASSUME NEW w \in Workers
        PROVE  /\ workers[w].phase \in Phases
               /\ workers[w].job \in 0 .. Len(jobs)
               /\ workers[w].phase = "executing" => workers[w].next \in DOMAIN JobPlan(w)
    <3>1. workers[w].phase \in Phases /\ workers[w].job \in Nat /\ workers[w].job <= Len(jobs)
      BY <1>1, <2>1 DEF Worker, IInv, WorkerInv
    <3>2. ASSUME workers[w].phase = "executing" PROVE workers[w].next \in DOMAIN JobPlan(w)
      <4>1. jobs[workers[w].job].kind \in Kinds
        BY <1>1, <3>2, AtWork
      <4>2. /\ DOMAIN JobPlan(w) = 1 .. Length(jobs[workers[w].job].kind)
            /\ Length(jobs[workers[w].job].kind) \in Nat
        BY <4>1, PlanFacts DEF JobPlan
      <4>3. workers[w].next \in Nat \ {0} /\ workers[w].next <= Length(jobs[workers[w].job].kind)
        BY <1>1, <2>1, <3>2 DEF Worker, IInv, WorkerInv
      <4> QED BY <4>2, <4>3
    <3> QED BY <2>1, <3>1, <3>2
  <2>5. /\ clock \in 1 .. MaxClock /\ faults \in 0 .. MaxFaults
        /\ requests \in [Callers -> {"idle", "admitted"}] /\ lock \in Callers \cup {None}
        /\ DOMAIN runs = JobIds
    BY <2>1 DEF Typed
  <2> QED BY <2>2, <2>3, <2>4, <2>5 DEF TypeOK, Phases, Top
<1>2. Init => InPlan /\ IInv
  BY InPlanInit, InitStep
<1>3. IInv /\ InPlan /\ [Next]_vars => IInv' /\ InPlan'
  BY InPlanNext, NextStep
<1> QED BY <1>1, <1>2, <1>3, PTL DEF Spec

-----------------------------------------------------------------------------
(***************************************************************************)
(* One worker executes at a time: what has finished is not written over.   *)
(***************************************************************************)
\* A row that keeps its place among the orphans.
LEMMA OrphanKept ==
  ASSUME NEW j, Orphan(j), jobs'[j].status \in {"running", "failed", "gone"},
         \A v \in Workers : Executing(v)' /\ workers'[v].job = j => Executing(v) /\ workers[v].job = j
  PROVE  Orphan(j)'
BY DEF Orphan

\* What a step of worker w has to show.
LEMMA AloneWork ==
  ASSUME AloneInv, NEW w \in Workers,
         \A v \in Workers : v # w => workers'[v] = workers[v],
         JobIds \subseteq JobIds',
         \A v \in Workers : Executing(v)' => jobs'[workers'[v].job].status = "running",
         workers'[w].phase = "booting" => \A j \in workers'[w].stale : Orphan(j)',
         \A j \in JobIds : jobs[j].status \in {"running", "failed", "gone"} =>
                             jobs'[j].status \in {"running", "failed", "gone"}
                             \/ (Executing(w) /\ workers[w].job = j),
         Executing(w)' => (Executing(w) /\ workers'[w].job = workers[w].job)
                          \/ jobs[workers'[w].job].status = "queued"
  PROVE  Alone'
<1>1. ASSUME NEW v \in Workers, workers'[v].phase = "booting", NEW j \in workers'[v].stale
      PROVE  Orphan(j)'
  <2>1. CASE v = w
    BY <1>1, <2>1
  <2>2. CASE v # w
    <3>1. workers[v].phase = "booting" /\ j \in workers[v].stale /\ Orphan(j) /\ j \in JobIds
      BY <1>1, <2>2 DEF AloneInv, Alone, IInv, WorkerInv
    <3>2. jobs'[j].status \in {"running", "failed", "gone"}
      BY <3>1 DEF Orphan
    <3>3. ASSUME NEW u \in Workers, Executing(u)', workers'[u].job = j
          PROVE  Executing(u) /\ workers[u].job = j
      BY <3>1, <3>3 DEF Executing, Orphan
    <3> QED BY <3>1, <3>2, <3>3, OrphanKept
  <2> QED BY <2>1, <2>2
<1> QED BY <1>1 DEF Alone

\* A step of worker w between two jobs that leaves every job's row.
LEMMA AloneIdle ==
  ASSUME AloneInv, IInv', NEW w \in Workers, NEW k \in Worker, Set(w, k),
         k.phase \in {"down", "loop", "polling", "claiming"}, jobs' = jobs
  PROVE  Alone' /\ Claims' /\ \A j \in JobIds : Final(j)
<1>1. /\ workers'[w] = k /\ \A v \in Workers : v # w => workers'[v] = workers[v]
  BY OneSet DEF AloneInv, IInv
<1>2. ~Executing(w)' /\ JobIds' = JobIds
  BY <1>1 DEF Executing, JobIds
<1>3. \A v \in Workers : Executing(v)' => jobs'[workers'[v].job].status = "running"
  BY <1>1, <1>2 DEF AloneInv, Alone, Executing
<1>4. Alone'
  BY <1>1, <1>2, <1>3, AloneWork
<1>5. Claims' /\ \A j \in JobIds : Final(j)
  BY <1>2 DEF AloneInv, Claims, Final
<1> QED BY <1>4, <1>5

\* A new row is nobody's.
LEMMA AloneSubmitted ==
  ASSUME AloneInv, IInv', workers' = workers, NEW kind \in Kinds, NEW research \in BOOLEAN,
         jobs' = Append(jobs, NewJob(kind, research)), runs' = Append(runs, <<>>)
  PROVE  Alone' /\ Claims' /\ \A j \in JobIds : Final(j)
<1>1. /\ JobIds \subseteq JobIds' /\ \A j \in JobIds : jobs'[j] = jobs[j]
      /\ \A j \in JobIds' : j \notin JobIds => jobs'[j].claiming = None
  <2>1. Typed /\ jobs \in Seq(Job) /\ Len(jobs) \in Nat /\ JobIds = 1 .. Len(jobs)
    BY Facts DEF AloneInv, IInv
  <2>2. NewJob(kind, research) \in Job /\ NewJob(kind, research).claiming = None
    BY <2>1, NewJobIsTyped DEF NewJob
  <2>3. /\ Len(jobs') = Len(jobs) + 1 /\ jobs'[Len(jobs) + 1] = NewJob(kind, research)
        /\ \A j \in 1 .. Len(jobs) : jobs'[j] = jobs[j]
    BY <2>1, <2>2, AppendProperties
  <2>4. JobIds' = 1 .. (Len(jobs) + 1)
    BY <2>3 DEF JobIds
  <2> QED BY <2>1, <2>2, <2>3, <2>4
<1>2. ASSUME NEW w \in Workers, Executing(w)'
      PROVE  jobs'[workers'[w].job].status = "running"
  <2>1. Executing(w) /\ workers[w] = workers'[w] /\ workers[w].job \in JobIds
    <3>1. Executing(w) /\ workers'[w] = workers[w]
      BY <1>2 DEF Executing
    <3>2. workers[w].phase \in {"claiming", "executing", "marking"}
      BY <3>1 DEF Executing
    <3> QED BY <3>1, <3>2, AtWork DEF AloneInv
  <2> QED BY <2>1, <1>1 DEF AloneInv, Alone
<1>3. ASSUME NEW w \in Workers, workers'[w].phase = "booting", NEW j \in workers'[w].stale
      PROVE  Orphan(j)'
  <2>1. Orphan(j) /\ j \in JobIds
    BY <1>3 DEF AloneInv, Alone, IInv, WorkerInv
  <2> QED BY <2>1, <1>1 DEF Orphan, Executing
<1>4. Alone'
  BY <1>2, <1>3 DEF Alone
<1>5. Claims' /\ \A j \in JobIds : Final(j)
  BY <1>1 DEF AloneInv, Claims, Final
<1> QED BY <1>4, <1>5

\* Steps that leave the rows and the workers.
LEMMA AloneStutter ==
  ASSUME AloneInv, jobs' = jobs, workers' = workers
  PROVE  Alone' /\ Claims' /\ \A j \in JobIds : Final(j)
BY DEF AloneInv, Alone, Claims, Final, Orphan, Executing, JobIds

\* With nobody executing, the running rows are orphans.
LEMMA AloneBoot ==
  ASSUME AloneInv, IInv', ~Overlap, NEW w \in Workers, Boot(w)
  PROVE  Alone' /\ Claims' /\ \A j \in JobIds : Final(j)
<1> DEFINE k == [Down EXCEPT !.phase = "booting",
                             !.stale = {j \in JobIds : jobs[j].status = "running"}]
<1>1. /\ jobs' = jobs /\ \A v \in Workers : ~Executing(v)
      /\ workers' = [workers EXCEPT ![w] = k] /\ workers \in [Workers -> Worker]
  BY DEF Boot, Set, AloneInv, IInv, Typed
<1>2. /\ k.phase = "booting" /\ k.stale = {j \in JobIds : jobs[j].status = "running"}
  BY DEF Down
<1> HIDE DEF k
<1>3. /\ workers'[w] = k /\ \A v \in Workers : v # w => workers'[v] = workers[v]
  BY <1>1
<1>4. \A v \in Workers : ~Executing(v)'
  BY <1>1, <1>2, <1>3 DEF Executing
<1>5. \A j \in workers'[w].stale : Orphan(j)'
  BY <1>1, <1>2, <1>3, <1>4 DEF Orphan
<1>6. JobIds' = JobIds
  BY <1>1 DEF JobIds
<1>7. Alone'
  BY <1>1, <1>3, <1>4, <1>5, <1>6, AloneWork
<1>8. Claims' /\ \A j \in JobIds : Final(j)
  BY <1>1, <1>6 DEF AloneInv, Claims, Final
<1> QED BY <1>7, <1>8

\* Only orphans are failed.
LEMMA AloneFailStale ==
  ASSUME AloneInv, IInv', NEW w \in Workers, FailStaleRunning(w)
  PROVE  Alone' /\ Claims' /\ \A j \in JobIds : Final(j)
<1>1. Typed /\ workers[w].phase = "booting"
  BY DEF FailStaleRunning, AloneInv, IInv
<1>2. CASE jobs' = jobs /\ Set(w, Down)
  BY <1>2, DownIsTyped, LoopIsTyped, AloneIdle
<1>3. CASE /\ \A j \in workers[w].stale : jobs[j].status # "gone"
           /\ jobs' = [j \in JobIds |-> IF j \in workers[w].stale
                                        THEN [jobs[j] EXCEPT !.status = "failed"] ELSE jobs[j]]
           /\ Set(w, [Down EXCEPT !.phase = "loop"])
  <2> DEFINE k == [Down EXCEPT !.phase = "loop"]
  <2>1. k \in Worker /\ k.phase = "loop"
    BY LoopIsTyped
  <2>2. Set(w, k)
    BY <1>3
  <2> HIDE DEF k
  <2>3. /\ workers'[w] = k /\ \A v \in Workers : v # w => workers'[v] = workers[v]
    BY <1>1, <2>1, <2>2, OneSet
  <2>4. /\ \A j \in JobIds : jobs[j] \in Job
        /\ \A j \in JobIds : j \notin workers[w].stale => jobs'[j] = jobs[j]
        /\ \A j \in JobIds \cap workers[w].stale : jobs'[j] = [jobs[j] EXCEPT !.status = "failed"]
    BY <1>1, <1>3, Facts
  <2>5. ASSUME NEW j \in JobIds, j \in workers[w].stale
        PROVE  /\ jobs'[j].status = "failed" /\ jobs'[j].claiming = jobs[j].claiming
               /\ jobs[j].status \in {"running", "failed"}
               /\ jobs[j].status = "failed" => jobs'[j] = jobs[j]
    <3>1. jobs[j].status \in {"running", "failed"}
      BY <1>1, <1>3, <2>5 DEF AloneInv, Alone, Orphan
    <3>2. jobs'[j] = [jobs[j] EXCEPT !.status = "failed"] /\ jobs[j] \in Job
      BY <2>4, <2>5
    <3> QED BY <3>1, <3>2 DEF Job
  <2>6. JobIds' = JobIds
    <3>1. jobs' \in [JobIds -> Job]
      <4>1. \A j \in JobIds : [jobs[j] EXCEPT !.status = "failed"] \in Job
        BY <2>4 DEF Job
      <4> QED BY <4>1, <2>4, <1>3
    <3> QED BY <3>1, <1>1, TableKept
  <2>7. ASSUME NEW v \in Workers, Executing(v)'
        PROVE  jobs'[workers'[v].job].status = "running"
    <3>1. v # w /\ workers'[v] = workers[v] /\ Executing(v)
      BY <2>1, <2>3, <2>7 DEF Executing
    <3>2. workers[v].job \in JobIds /\ jobs[workers[v].job].status = "running"
      BY <3>1, AtWork DEF AloneInv, Alone, Executing
    <3>3. workers[v].job \notin workers[w].stale
      BY <1>1, <3>1 DEF AloneInv, Alone, Orphan
    <3> QED BY <3>1, <3>2, <3>3, <2>4
  <2>8. \A j \in JobIds : jobs[j].status \in {"running", "failed", "gone"} =>
                            jobs'[j].status \in {"running", "failed", "gone"}
    BY <2>4, <2>5
  <2>9. ~Executing(w)'
    BY <2>1, <2>3 DEF Executing
  <2>10. Alone'
    BY <2>1, <2>3, <2>6, <2>7, <2>8, <2>9, AloneWork
  <2>11. Claims' /\ \A j \in JobIds : Final(j)
    BY <2>4, <2>5, <2>6 DEF AloneInv, Claims, Final
  <2> QED BY <2>10, <2>11
<1> QED BY <1>2, <1>3 DEF FailStaleRunning

\* Only finished rows are evicted.
LEMMA AloneEvict ==
  ASSUME AloneInv, IInv', NEW w \in Workers, EvictFinished(w)
  PROVE  Alone' /\ Claims' /\ \A j \in JobIds : Final(j)
<1> DEFINE k == [workers[w] EXCEPT !.phase = "polling"]
<1>1. Typed /\ workers[w] \in Worker
  BY Facts DEF AloneInv, IInv
<1>2. k \in Worker /\ k.phase = "polling"
  BY <1>1 DEF Worker, Phases
<1>3. Set(w, k)
  BY DEF EvictFinished
<1> HIDE DEF k
<1>4. /\ workers'[w] = k /\ \A v \in Workers : v # w => workers'[v] = workers[v]
  BY <1>1, <1>2, <1>3, OneSet
<1>5. /\ \A j \in JobIds : jobs'[j] = jobs[j]
           \/ /\ jobs[j].status \in {"completed", "failed"} /\ jobs'[j].status = "gone"
              /\ jobs'[j].claiming = jobs[j].claiming
      /\ JobIds' = JobIds
  <2>1. \A j \in JobIds : jobs[j] \in Job
    BY <1>1, Facts
  <2>2. jobs' = [j \in JobIds |->
                IF jobs[j].status \in {"completed", "failed"} /\ jobs[j].created + TTL < clock
                THEN [jobs[j] EXCEPT !.status = "gone"] ELSE jobs[j]]
    BY DEF EvictFinished
  <2>3. jobs' \in [JobIds -> Job]
    <3>1. DOMAIN jobs' = JobIds /\ \A j \in JobIds : jobs'[j] \in Job
      BY <2>1, <2>2 DEF Job
    <3> QED BY <3>1, <2>2
  <2>4. JobIds' = JobIds
    BY <2>3, <1>1, TableKept
  <2>5. ASSUME NEW j \in JobIds
        PROVE  jobs'[j] = jobs[j]
               \/ /\ jobs[j].status \in {"completed", "failed"} /\ jobs'[j].status = "gone"
                  /\ jobs'[j].claiming = jobs[j].claiming
    BY <2>1, <2>2 DEF Job
  <2> QED BY <2>4, <2>5
<1>6. ASSUME NEW v \in Workers, Executing(v)'
      PROVE  jobs'[workers'[v].job].status = "running"
  <2>1. v # w /\ workers'[v] = workers[v] /\ Executing(v)
    BY <1>2, <1>4, <1>6 DEF Executing
  <2>2. workers[v].job \in JobIds /\ jobs[workers[v].job].status = "running"
    BY <2>1, AtWork DEF AloneInv, Alone, Executing
  <2> QED BY <2>1, <2>2, <1>5
<1>7. ~Executing(w)'
  BY <1>2, <1>4 DEF Executing
<1>8. Alone'
  BY <1>2, <1>4, <1>5, <1>6, <1>7, AloneWork
<1>9. Claims' /\ \A j \in JobIds : Final(j)
  BY <1>5 DEF AloneInv, Claims, Final
<1> QED BY <1>8, <1>9

\* Worker w writes the row it claims or has executed.
LEMMA AloneOneRow ==
  ASSUME AloneInv, IInv', NEW w \in Workers, NEW k \in Worker, Set(w, k), k.phase # "booting",
         NEW m \in JobIds, jobs' \in [JobIds -> Job],
         \A i \in JobIds : i # m => jobs'[i] = jobs[i],
         jobs[m].status = "queued" \/ (Executing(w) /\ workers[w].job = m),
         k.phase \in {"executing", "marking"} => k.job = m /\ jobs'[m].status = "running"
                                                 /\ jobs[m].status = "queued",
         jobs'[m].claiming # None => jobs'[m].status = "queued", Final(m)
  PROVE  Alone' /\ Claims' /\ \A j \in JobIds : Final(j)
<1>1. /\ workers'[w] = k /\ JobIds' = JobIds
      /\ \A v \in Workers : v # w => workers'[v] = workers[v]
  BY OneSet, TableKept DEF AloneInv, IInv
<1>2. Executing(w)' => k.job = m /\ jobs'[m].status = "running" /\ jobs[m].status = "queued"
  BY <1>1 DEF Executing
<1>3. ASSUME NEW v \in Workers, Executing(v)'
      PROVE  jobs'[workers'[v].job].status = "running"
  <2>1. CASE v = w
    BY <1>1, <1>2, <1>3, <2>1
  <2>2. CASE v # w
    <3>1. workers'[v] = workers[v] /\ Executing(v)
      BY <1>1, <1>3, <2>2 DEF Executing
    <3>2. workers[v].job \in JobIds /\ jobs[workers[v].job].status = "running"
      BY <3>1, AtWork DEF AloneInv, Alone, Executing
    <3>3. workers[v].job # m
      BY <2>2, <3>1, <3>2 DEF AloneInv, IInv, Apart
    <3> QED BY <1>1, <3>1, <3>2, <3>3
  <2> QED BY <2>1, <2>2
<1>4. \A j \in JobIds : jobs[j].status \in {"running", "failed", "gone"} =>
                          jobs'[j].status \in {"running", "failed", "gone"}
                          \/ (Executing(w) /\ workers[w].job = j)
  OBVIOUS
<1>5. workers'[w].phase # "booting" /\ (Executing(w)' => jobs[workers'[w].job].status = "queued")
  BY <1>1, <1>2
<1>6. Alone'
  BY <1>1, <1>3, <1>4, <1>5, AloneWork
<1>7. Claims'
  BY <1>1 DEF AloneInv, Claims
<1>8. \A j \in JobIds : Final(j)
  BY DEF Final
<1> QED BY <1>6, <1>7, <1>8

\* A claim is on a queued row.
LEMMA AloneClaim ==
  ASSUME AloneInv, IInv', NEW w \in Workers, ClaimNextQueued(w)
  PROVE  Alone' /\ Claims' /\ \A j \in JobIds : Final(j)
<1>1. Typed /\ workers[w] \in Worker
  BY Facts DEF AloneInv, IInv
<1>2. CASE Claimable = {}
  <2> DEFINE k == [workers[w] EXCEPT !.phase = "loop"]
  <2>1. Set(w, k) /\ jobs' = jobs
    BY <1>2 DEF ClaimNextQueued
  <2>2. k \in Worker /\ k.phase = "loop"
    BY <1>1 DEF Worker, Phases
  <2> HIDE DEF k
  <2> QED BY <2>1, <2>2, AloneIdle
<1>3. CASE Claimable # {}
  <2>0. PICK m : m = Min(Claimable)
    OBVIOUS
  <2> DEFINE k == [Down EXCEPT !.phase = "claiming", !.job = m]
  <2>1. m \in JobIds /\ jobs[m].status = "queued" /\ jobs[m] \in Job
    BY <1>1, <1>3, <2>0, MinClaimable, Facts DEF Claimable
  <2>2. Set(w, k) /\ jobs' = [jobs EXCEPT ![m].claiming = w]
    BY <1>3, <2>0 DEF ClaimNextQueued
  <2>3. k \in Worker /\ k.phase = "claiming"
    <3>1. m \in Nat
      BY <1>1, <2>1, Facts
    <3> QED BY <3>1, DownIsTyped DEF Down, Worker, Phases
  <2>4. /\ jobs'[m] = [jobs[m] EXCEPT !.claiming = w]
        /\ \A j \in JobIds : j # m => jobs'[j] = jobs[j]
        /\ jobs' \in [JobIds -> Job]
    <3>1. [jobs[m] EXCEPT !.claiming = w] \in Job
      BY <2>1 DEF Job
    <3>2. jobs \in [JobIds -> Job]
      BY <1>1, Facts
    <3> QED BY <2>1, <2>2, <3>1, <3>2
  <2>5. jobs'[m].status = "queued"
    BY <2>1, <2>4 DEF Job
  <2> HIDE DEF k
  <2>6. Final(m)
    BY <2>1, <2>5 DEF Final
  <2> QED BY <2>1, <2>2, <2>3, <2>4, <2>5, <2>6, AloneOneRow
<1> QED BY <1>2, <1>3

\* The claimed row is running from here on.
LEMMA AloneCommit ==
  ASSUME AloneInv, IInv', NEW w \in Workers, CommitClaim(w)
  PROVE  Alone' /\ Claims' /\ \A j \in JobIds : Final(j)
<1>0. PICK j : j = workers[w].job
  OBVIOUS
<1> DEFINE k == [workers[w] EXCEPT !.phase = "executing"]
           row == [jobs[j] EXCEPT !.status = "running", !.claiming = None]
<1>1. /\ workers[w].phase = "claiming" /\ Set(w, k)
      /\ jobs' = [jobs EXCEPT ![j].status = "running", ![j].claiming = None]
  BY <1>0 DEF CommitClaim
<1>2. /\ Typed /\ workers[w] \in Worker /\ j \in JobIds /\ jobs[j] \in Job /\ WorkerInv(w)
      /\ jobs \in [JobIds -> Job]
  BY <1>0, <1>1, AtWork, Facts DEF AloneInv
<1>3. jobs[j].status = "queued"
  BY <1>0, <1>1, <1>2 DEF WorkerInv
<1>4. k \in Worker /\ k.job = j /\ k.phase = "executing"
  BY <1>0, <1>2 DEF Worker, Phases
<1>5. row \in Job /\ row.status = "running" /\ row.claiming = None
  BY <1>2 DEF Job
<1>6. /\ jobs'[j] = row /\ \A i \in JobIds : i # j => jobs'[i] = jobs[i]
      /\ jobs' \in [JobIds -> Job]
  <2>1. jobs' = [jobs EXCEPT ![j] = row]
    BY <1>1, <1>2
  <2> HIDE DEF row
  <2> QED BY <2>1, <1>2, <1>5
<1> HIDE DEF k, row
<1>7. Final(j)
  BY <1>3, <1>5, <1>6 DEF Final
<1> QED BY <1>1, <1>2, <1>3, <1>4, <1>5, <1>6, <1>7, AloneOneRow

\* The row that is marked was running.
LEMMA AloneMark ==
  ASSUME AloneInv, IInv', NEW w \in Workers, Mark(w)
  PROVE  Alone' /\ Claims' /\ \A j \in JobIds : Final(j)
<1>0. PICK j : j = workers[w].job
  OBVIOUS
<1>1. workers[w].phase = "marking" /\ Typed /\ Executing(w)
  BY DEF Mark, AloneInv, IInv, Executing
<1>2. CASE jobs' = jobs /\ Set(w, Down)
  BY <1>2, DownIsTyped, LoopIsTyped, AloneIdle
<1>3. CASE jobs[j].status # "gone"
  <2>1. /\ workers[w] \in Worker /\ j \in JobIds /\ jobs[j] \in Job
        /\ jobs \in [JobIds -> Job] /\ jobs[j].status = "running" /\ jobs[j].claiming = None
    BY <1>0, <1>1, AtWork, Facts DEF AloneInv, Alone, Claims
  <2>2. PICK row : row = IF workers[w].failed THEN [jobs[j] EXCEPT !.status = "failed"]
                         ELSE [jobs[j] EXCEPT !.status = "completed", !.run = workers[w].run,
                                              !.result = workers[w].result]
    OBVIOUS
  <2>3. jobs' = [jobs EXCEPT ![j] = row] /\ Set(w, [Down EXCEPT !.phase = "loop"])
    BY <1>0, <1>3, <2>2 DEF Mark
  <2>4. workers[w].run \in Nat /\ workers[w].result \in Seq(Entry)
    BY <2>1 DEF Worker
  <2>5. row \in Job
    BY <2>1, <2>2, <2>4 DEF Job
  <2>6. row.status \in {"completed", "failed"} /\ row.claiming = None
    BY <2>1, <2>2 DEF Job
  <2>7. /\ jobs'[j] = row /\ \A i \in JobIds : i # j => jobs'[i] = jobs[i]
        /\ jobs' \in [JobIds -> Job]
    BY <2>1, <2>3, <2>5
  <2>8. Final(j)
    BY <2>1, <2>6, <2>7 DEF Final
  <2> QED BY <1>0, <1>1, <2>1, <2>3, <2>6, <2>7, <2>8, LoopIsTyped, AloneOneRow
<1> QED BY <1>0, <1>2, <1>3 DEF Mark

\* The worker goes on with its job, or comes to mark it.
LEMMA AloneAtWork ==
  ASSUME AloneInv, IInv', NEW w \in Workers, NEW k, Set(w, k), jobs' = jobs, Executing(w),
         k.phase \in {"executing", "marking"}, k.job = workers[w].job
  PROVE  Alone' /\ Claims' /\ \A j \in JobIds : Final(j)
<1>1. workers \in [Workers -> Worker]
  BY DEF AloneInv, IInv, Typed
<1>2. workers'[w] = k /\ \A v \in Workers : v # w => workers'[v] = workers[v]
  BY <1>1 DEF Set
<1>3. JobIds' = JobIds /\ \A v \in Workers : Executing(v)' => Executing(v) /\ workers'[v].job = workers[v].job
  BY <1>2 DEF JobIds, Executing
<1>4. \A v \in Workers : Executing(v)' => jobs'[workers'[v].job].status = "running"
  BY <1>3 DEF AloneInv, Alone
<1>5. Alone'
  BY <1>2, <1>3, <1>4, AloneWork
<1>6. Claims' /\ \A j \in JobIds : Final(j)
  BY <1>3 DEF AloneInv, Claims, Final
<1> QED BY <1>5, <1>6

\* The points of a plan leave the row.
LEMMA AloneRun ==
  ASSUME AloneInv, IInv', NEW w \in Workers, RunSucceeds(w) \/ RunFails(w) \/ BuildFails(w)
  PROVE  Alone' /\ Claims' /\ \A j \in JobIds : Final(j)
<1>1. workers[w].phase = "executing" /\ jobs' = jobs /\ workers[w] \in Worker /\ Executing(w)
  BY Facts DEF AloneInv, IInv, RunSucceeds, RunFails, BuildFails, Executing
<1>2. ASSUME NEW base, DOMAIN base = DOMAIN workers[w], base.phase = "executing",
             base.job = workers[w].job, Set(w, Advanced(w, base))
      PROVE  Alone' /\ Claims' /\ \A j \in JobIds : Final(j)
  <2>1. Advanced(w, base).phase \in {"executing", "marking"} /\ Advanced(w, base).job = base.job
    BY <1>1, <1>2 DEF Advanced, Worker
  <2> QED BY <1>1, <1>2, <2>1, AloneAtWork
<1>3. CASE Set(w, [workers[w] EXCEPT !.phase = "marking", !.failed = TRUE])
  <2> DEFINE k == [workers[w] EXCEPT !.phase = "marking", !.failed = TRUE]
  <2>1. k.phase = "marking" /\ k.job = workers[w].job
    BY <1>1 DEF Worker
  <2> HIDE DEF k
  <2>2. Set(w, k)
    BY <1>3 DEF k
  <2> QED BY <1>1, <2>1, <2>2, AloneAtWork
<1>4. CASE RunSucceeds(w)
  <2> DEFINE run == Len(runs[workers[w].job]) + 1
             base == [workers[w] EXCEPT !.run = FirstRun(@, run),
                                        !.result = Noted(workers[w], Point(w), run)]
  <2>1. Set(w, Advanced(w, base))
    BY <1>4 DEF RunSucceeds
  <2>2. DOMAIN base = DOMAIN workers[w] /\ base.phase = "executing" /\ base.job = workers[w].job
    BY <1>1 DEF Worker
  <2> HIDE DEF base
  <2> QED BY <1>2, <2>1, <2>2
<1>5. CASE RunFails(w) /\ Point(w) # 0
  <2> DEFINE base == [workers[w] EXCEPT !.result = Noted(workers[w], Point(w), 0)]
  <2>1. Set(w, Advanced(w, base))
    BY <1>5 DEF RunFails, AfterFailure
  <2>2. DOMAIN base = DOMAIN workers[w] /\ base.phase = "executing" /\ base.job = workers[w].job
    BY <1>1 DEF Worker
  <2> HIDE DEF base
  <2> QED BY <1>2, <2>1, <2>2
<1>6. CASE (RunFails(w) /\ Point(w) = 0) \/ BuildFails(w)
  BY <1>3, <1>6 DEF RunFails, AfterFailure, BuildFails
<1> QED BY <1>4, <1>5, <1>6

\* A crash lets go of a claim, and leaves a running row an orphan to be.
LEMMA AloneCrash ==
  ASSUME AloneInv, IInv', NEW w \in Workers, Crash(w)
  PROVE  Alone' /\ Claims' /\ \A j \in JobIds : Final(j)
<1>1. /\ Typed /\ Set(w, Down) /\ \A j \in JobIds : jobs[j] \in Job
  BY Facts DEF AloneInv, IInv, Crash
<1>2. /\ workers'[w] = Down /\ \A v \in Workers : v # w => workers'[v] = workers[v]
      /\ Down.phase = "down"
  BY <1>1, DownIsTyped, OneSet DEF Down
<1>3. JobIds' = JobIds
  <2>1. \A j \in JobIds : [jobs[j] EXCEPT !.claiming = None] \in Job
    BY <1>1 DEF Job
  <2>2. jobs' \in [JobIds -> Job]
    BY <1>1, <2>1 DEF Crash
  <2> QED BY <1>1, <2>2, TableKept
<1>4. ASSUME NEW j \in JobIds
      PROVE  /\ jobs'[j].status = jobs[j].status
             /\ jobs'[j].claiming \in {jobs[j].claiming, None}
             /\ jobs[j].claiming # w => jobs'[j] = jobs[j]
  BY <1>1 DEF Crash, Job
<1>5. ~Executing(w)'
  BY <1>2 DEF Executing
<1>6. ASSUME NEW v \in Workers, Executing(v)'
      PROVE  jobs'[workers'[v].job].status = "running"
  <2>1. v # w /\ workers'[v] = workers[v] /\ Executing(v)
    BY <1>2, <1>5, <1>6 DEF Executing
  <2>2. workers[v].job \in JobIds /\ jobs[workers[v].job].status = "running"
    BY <2>1, AtWork DEF AloneInv, Alone, Executing
  <2> QED BY <2>1, <2>2, <1>4
<1>7. Alone'
  BY <1>2, <1>3, <1>4, <1>5, <1>6, AloneWork
<1>8. Claims'
  BY <1>3, <1>4 DEF AloneInv, Claims
<1>9. ASSUME NEW j \in JobIds PROVE Final(j)
  <2>1. jobs[j].status # "queued" => jobs'[j] = jobs[j]
    BY <1>4, JobsAssumption DEF AloneInv, Claims
  <2> QED BY <1>4, <2>1 DEF Final
<1> QED BY <1>7, <1>8, <1>9

\* A stop between jobs.
LEMMA AloneStop ==
  ASSUME AloneInv, IInv', NEW w \in Workers, Stop(w)
  PROVE  Alone' /\ Claims' /\ \A j \in JobIds : Final(j)
BY DownIsTyped, LoopIsTyped, AloneIdle DEF Stop

\* Nobody executes at the start.
LEMMA AloneInit == Init => AloneInv
<1> SUFFICES ASSUME Init PROVE AloneInv
  OBVIOUS
<1>1. IInv /\ JobIds = {}
  BY InitStep DEF Init, JobIds
<1>2. \A w \in Workers : workers[w].phase = "down"
  BY DEF Init, Down
<1> QED BY <1>1, <1>2 DEF AloneInv, Alone, Claims, Executing

\* The invariant is inductive, and no step disturbs a finished row.
LEMMA AloneNext ==
  ASSUME AloneInv, ~Overlap, [Next]_vars
  PROVE  AloneInv' /\ \A j \in JobIds : Final(j)
<1>1. IInv'
  BY NextStep DEF AloneInv
<1> DEFINE Kept == Alone' /\ Claims' /\ \A j \in JobIds : Final(j)
<1>2. ASSUME NEW c \in Callers, CheckCapacity(c) PROVE Kept
  BY <1>2, AloneStutter DEF CheckCapacity
<1>3. ASSUME NEW c \in Callers, Refuse(c) PROVE Kept
  BY <1>3, AloneStutter DEF Refuse
<1>4. ASSUME NEW c \in Callers, NEW kind \in Kinds, Submit(c, kind) PROVE Kept
  BY <1>1, <1>4, AloneSubmitted DEF Submit
<1>5. ASSUME NEW kind \in Kinds, SubmitAsAdmin(kind) PROVE Kept
  BY <1>1, <1>5, AloneSubmitted DEF SubmitAsAdmin
<1>6. ASSUME NEW w \in Workers, Work(w) PROVE Kept
  BY <1>1, <1>6, AloneBoot, AloneFailStale, AloneEvict, AloneClaim, AloneCommit, AloneRun,
     AloneMark DEF Work
<1>7. ASSUME NEW w \in Workers, Stop(w) \/ Crash(w) PROVE Kept
  BY <1>1, <1>7, AloneStop, AloneCrash
<1>8. ASSUME Tick PROVE Kept
  BY <1>8, AloneStutter DEF Tick
<1>9. ASSUME UNCHANGED vars PROVE Kept
  BY <1>9, AloneStutter DEF vars
<1>10. Kept
  BY <1>2, <1>3, <1>4, <1>5, <1>6, <1>7, <1>8, <1>9 DEF Next
<1> QED BY <1>1, <1>10 DEF AloneInv

\* FinishedIsFinal, while no worker starts beside one that executes: a job's
\* outcome is not written over by another worker's restart or mark, and only
\* a finished job is evicted.
THEOREM FinishedIsFinalAlways ==
  ASSUME ~Overlap
  PROVE  Spec => FinishedIsFinal
<1>1. Init => AloneInv
  BY AloneInit
<1>2. AloneInv /\ [Next]_vars => AloneInv'
  BY AloneNext
<1>3. AloneInv /\ [Next]_vars =>
        [\A j \in JobIds :
           /\ jobs[j].status \in {"completed", "failed"} =>
                jobs'[j] = jobs[j] \/ jobs'[j].status = "gone"
           /\ jobs[j].status \in {"queued", "running"} => jobs'[j].status # "gone"
           /\ jobs[j].status = "gone" => jobs'[j].status = "gone"]_vars
  BY AloneNext DEF Final
<1> QED BY <1>1, <1>2, <1>3, PTL DEF Spec, FinishedIsFinal

=============================================================================
