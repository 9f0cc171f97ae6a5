----------------------------- MODULE Supervisor -----------------------------
(***************************************************************************)
(* The desired-state supervisor and the life of the runs it starts.        *)
(*                                                                         *)
(* One supervisor process reconciles in-process run tasks to the enabled   *)
(* run_assignments rows (core/supervisor.py).  A task walks through the    *)
(* stages of run_shadow / run_live and Engine.run: it prepares a resume    *)
(* (core/resume.py), claims its run row (core/recorder.py), processes      *)
(* candles, winds down and leaves a halt reason in the audit log.  The     *)
(* API writes assignments and control events; the process may crash, the   *)
(* database may fail under one task, and a task may stall.                 *)
(*                                                                         *)
(* Durable state (Postgres): assignments, settings, runs.                  *)
(* Process memory, lost by a restart: pc, rows, live, killed, backoff,     *)
(* markers, tasks.                                                         *)
(***************************************************************************)
EXTENDS Naturals, Sequences, FiniteSets

None == "none"

CONSTANTS
  Assignments,  \* ids of run_assignments rows
  Primary,      \* the assignment PUT /settings keeps in sync
  Slots,        \* strategy + pair + timeframe (and mode): what claims a slot
  Params,       \* strategy parameters: the rest of the resume identity
  Fees,         \* effective fees: a change restarts a run, its ledger goes on
  Startable,    \* the slots whose strategy is loaded and may run on this host
  Tasks,        \* identities of asyncio tasks
  Commands,     \* the control commands operators issue
  Broadcast,    \* whether operators also address all runs at once (run_id null)
  Faults,       \* the faults that happen: "crash", "stall", "db", "audit",
                \* "fail", "replay"
  MaxRuns,      \* bound: run rows
  MaxFills,     \* bound: fills recorded by one run
  MaxEdits,     \* bound: updates of an assignment row
  MaxCommands,  \* bound: control commands
  MaxFaults     \* bound: faults

ASSUME SupervisorAssumption ==
  /\ Primary \in Assignments
  /\ None \notin Tasks
  /\ Slots # {} /\ Params # {} /\ Fees # {}
  /\ Startable \subseteq Slots
  /\ Commands \subseteq {"kill", "pause", "resume", "switch"}
  /\ Broadcast \in BOOLEAN
  /\ MaxRuns \in Nat /\ MaxFills \in Nat /\ MaxEdits \in Nat
  /\ MaxCommands \in Nat /\ MaxFaults \in Nat

VARIABLES
  assignments,  \* RunAssignmentRow: enabled, slot, params, updated_at
  settings,     \* the slot the shadow_* settings name
  runs,         \* RunRow, oldest first: a row's index orders started_at
  pc,           \* where the supervisor's pass is; "down" with no process
  rows,         \* the assignments this pass listed
  live,         \* live: assignment -> its task, or None
  killed,       \* killed: assignment -> run (0 for no entry), updated_at observed
  backoff,      \* assignments whose last failure is within RESTART_BACKOFF
  markers,      \* tasks a pending _mark_watchdog_stopped waits for
  tasks,        \* the run tasks of the process
  spent         \* the commands and faults the environment has used

dbVars == <<assignments, settings, runs>>
procVars == <<pc, rows, live, killed, backoff, markers>>
vars == <<assignments, settings, runs, pc, rows, live, killed, backoff,
          markers, tasks, spent>>

(***************************************************************************)
(* Rows and tasks.                                                         *)
(***************************************************************************)
Config == [slot : Slots, params : Params, fees : Fees]

\* config_hash: what a predecessor and its successor must share.
Identity(config) == <<config.slot, config.params>>

AssignmentRow == [enabled : BOOLEAN, config : Config, updated : 0 .. MaxEdits]

\* How the engine came to its end; a history of the run, not a column.
Cause == {None, "stop", "dry", "kill", "switch", "risk", "fail", "cancel"}

\* Recorded fills by row of a resume chain; <<>> for a fresh start.
Carry == UNION {[S -> 0 .. MaxFills] : S \in SUBSET (1 .. MaxRuns)}

RunRow ==
  [aid      : Assignments,
   config   : Config,
   status   : {"running", "completed", "halted", "failed"},
   reason   : {None, "superseded", "watchdog", "orphan"},   \* metrics.halt_reason
   audit    : {None, "stop", "kill", "switch", "risk"},     \* record_halt's event
   risk     : {"incomplete", "ok", "halted"},               \* risk_state
   resumed  : 0 .. MaxRuns,                                 \* resumed_from
   fills    : 0 .. MaxFills,                                \* recorded fills
   command  : Commands \cup {None},    \* latest control event since started_at
   carried  : Carry,    \* history: what its ledger was rebuilt from
   cause    : Cause,    \* history: how its engine ended
   held     : BOOLEAN]  \* history: killed, not yet released, no stop on its way

Phase == {"free", "preparing", "prepared", "claiming", "claimed", "idle",
          "candle", "flushed", "ending", "auditing", "done"}

Task ==
  [phase    : Phase,
   aid      : Assignments,
   config   : Config,
   stop     : BOOLEAN,                        \* its stop event
   cancel   : BOOLEAN,                        \* task.cancel() not delivered yet
   stale    : BOOLEAN,                        \* no fresh snapshot for too long
   resume   : 0 .. MaxRuns,                   \* predecessor of prepare_resume
   carried  : Carry,                          \* what prepare_resume replayed
   run      : 0 .. MaxRuns,                   \* its run row, 0 before the claim
   buffered : 0 .. 1,                         \* fills in the recorder's buffer
   owed     : {None, "incomplete", "ok", "halted"},  \* checkpoint in that buffer
   early    : Commands \cup {None},           \* command the probe saw before the row
   cause    : Cause,
   outcome  : {None, "returned", "raised", "cancelled"}]

FreeTask ==
  [phase |-> "free", aid |-> Primary,
   config |-> CHOOSE c \in Config : TRUE,
   stop |-> FALSE, cancel |-> FALSE, stale |-> FALSE, resume |-> 0,
   carried |-> <<>>, run |-> 0, buffered |-> 0, owed |-> None, early |-> None,
   cause |-> None, outcome |-> None]

NotKilled == [run |-> 0, observed |-> 0]

RunIds == 1 .. Len(runs)

RunsOf(a) == {r \in RunIds : runs[r].aid = a}

Newest(S) == IF S = {} THEN 0 ELSE CHOOSE r \in S : \A q \in S : q <= r

\* _latest_run_row: the newest run started for an assignment, 0 when none is.
LatestRunRow(a) == Newest(RunsOf(a))

\* _live_run_ids: the newest running row of an enabled assignment.  Every row
\* carries its assignment's id here; rows from before it did match by market.
LiveRunId(a) ==
  Newest({r \in RunsOf(a) : assignments[a].enabled /\ runs[r].status = "running"})

\* _chain_rows: the resume chain ending at tip, the least set of rows that
\* holds it and every row one of its rows resumed from; {} without a tip.
ChainRows(rs, tip) ==
  {q \in 1 .. Len(rs) :
     /\ tip # 0
     /\ \A S \in SUBSET (1 .. Len(rs)) :
          tip \in S /\ (\A s \in S : rs[s].resumed # 0 => rs[s].resumed \in S) => q \in S}

\* Mutant of Replayed: only the predecessor's own fills are replayed.
ReplayedTipOnly(rs, tip) == [q \in {tip} \cap (1 .. Len(rs)) |-> rs[q].fills]

\* _load_fills and replay_fills: what a successor's ledger is rebuilt from,
\* the fills every row of the chain has recorded.
Replayed(rs, tip) == [q \in ChainRows(rs, tip) |-> rs[q].fills]

(***************************************************************************)
(* The supervisor's decisions (core/supervisor.py, core/resume.py).        *)
(***************************************************************************)
\* classify_end, from a finished task and the latest command of its row.
ClassifyEnd(stopRequested, failed, latestCommand) ==
  CASE stopRequested              -> "stopped"
    [] ~stopRequested /\ failed   -> "crashed"
    [] OTHER -> IF latestCommand = "kill" THEN "killed"
                ELSE IF latestCommand = "switch" THEN "restart" ELSE "crashed"

\* Mutant of ResumeCleared: a row as old as the kill clears it.
ResumeClearedAtOnce(k, row) ==
  runs[k.run].command = "resume" \/ row.updated >= k.observed

\* resume_cleared, with the killed entry and the listed assignment row.
ResumeCleared(k, row) ==
  runs[k.run].command = "resume" \/ row.updated > k.observed

\* Desired rows and what reconcile does with them.
Desired == {a \in Assignments : rows[a].enabled}

HeldDown == backoff \cup {a \in Assignments : killed[a].run # 0}

\* Mutant of ToStop: a row that is no longer desired does not stop its run.
ToStopChanged ==
  {a \in Desired : live[a] # None /\ rows[a].config # tasks[live[a]].config}

ToStop ==
  {a \in Assignments : /\ live[a] # None
                       /\ a \notin Desired \/ rows[a].config # tasks[live[a]].config}

ToStart == {a \in Desired : live[a] = None /\ a \notin HeldDown}

\* Mutants of Supersede: nothing is superseded; the claiming row is not excluded.
SupersedeNone(rs, a, slot, except) == rs

SupersedeItself(rs, a, slot, except) ==
  [r \in 1 .. Len(rs) |->
     IF rs[r].aid = a /\ rs[r].config.slot = slot /\ rs[r].status = "running"
     THEN [rs[r] EXCEPT !.status = "halted", !.reason = "superseded"]
     ELSE rs[r]]

\* supersede_stale_runs: halt the other running rows of the slot.
Supersede(rs, a, slot, except) ==
  [r \in 1 .. Len(rs) |->
     IF /\ rs[r].aid = a
        /\ rs[r].config.slot = slot
        /\ rs[r].status = "running"
        /\ r # except
     THEN [rs[r] EXCEPT !.status = "halted", !.reason = "superseded"]
     ELSE rs[r]]

\* Mutants of IsResumable: the audit log is not asked; new fees break the chain.
IsResumableUnaudited(row, config) ==
  /\ row.status \in {"completed", "halted"}
  /\ row.reason # "orphan"
  /\ Identity(row.config) = Identity(config)

IsResumableSameFees(row, config) ==
  /\ \/ row.status = "halted" /\ row.reason \in {"superseded", "watchdog"}
     \/ row.reason = None /\ row.status \in {"completed", "halted"}
  /\ row.config = config

\* is_resumable, for a row whose strategy version has not changed.
IsResumable(row, config) ==
  /\ row.status # "running"
  /\ \/ row.status = "halted" /\ row.reason \in {"superseded", "watchdog"}
     \/ /\ row.reason = None
        /\ \/ row.status = "completed"
           \/ row.status = "halted" /\ row.audit \in {None, "stop"}
  /\ Identity(row.config) = Identity(config)

\* Mutant of ResumeDecision: a persisted risk halt is not refused.
ResumeDecisionPastHalt(rs, a, config) ==
  LET p == Newest({r \in 1 .. Len(rs) : rs[r].aid = a /\ rs[r].status # "running"})
  IN  IF p = 0 THEN [kind |-> "fresh", run |-> 0]
      ELSE IF rs[p].risk = "incomplete" THEN [kind |-> "refuse", run |-> p]
      ELSE IF IsResumable(rs[p], config) THEN [kind |-> "resume", run |-> p]
      ELSE [kind |-> "fresh", run |-> 0]

\* What prepare_resume answers: a predecessor, a fresh start, or a refusal.
ResumeDecision(rs, a, config) ==
  LET p == Newest({r \in 1 .. Len(rs) : rs[r].aid = a /\ rs[r].status # "running"})
  IN  CASE p = 0 -> [kind |-> "fresh", run |-> 0]
        [] p # 0 /\ Identity(rs[p].config) = Identity(config) /\ rs[p].risk # "ok"
             -> [kind |-> "refuse", run |-> p]
        [] OTHER -> IF IsResumable(rs[p], config)
                    THEN [kind |-> "resume", run |-> p]
                    ELSE [kind |-> "fresh", run |-> 0]

\* A row the supervisor or the engine ends without the engine's own finish.
Halt(row, reason) == [row EXCEPT !.status = "halted", !.reason = reason]

(***************************************************************************)
(* The API: assignments, settings and control commands.                    *)
(***************************************************************************)
Edit(a, enabled, config) ==
  /\ assignments' = [assignments EXCEPT ![a] =
       [enabled |-> enabled, config |-> config, updated |-> @.updated + 1]]

\* Whatever held a killed run down is released by an update of its row.
Released(rs, a) ==
  [r \in 1 .. Len(rs) |-> IF rs[r].aid = a THEN [rs[r] EXCEPT !.held = FALSE] ELSE rs[r]]

\* PUT or DELETE /assignments/{id}: any fields, and updated_at moves.
UpdateAssignment(a) ==
  /\ assignments[a].updated < MaxEdits
  /\ \E enabled \in BOOLEAN, config \in Config : Edit(a, enabled, config)
  /\ runs' = Released(runs, a)
  /\ UNCHANGED <<settings, procVars, tasks, spent>>

\* PUT /settings: a 'switch' for the running rows of the old slot, and the
\* primary assignment moves to the new one, in one transaction.
PutSettings ==
  /\ assignments[Primary].updated < MaxEdits
  /\ "switch" \in Commands
  /\ \E slot \in Slots \ {settings} :
       /\ settings' = slot
       /\ Edit(Primary, assignments[Primary].enabled,
               [assignments[Primary].config EXCEPT !.slot = slot])
  /\ runs' = Released([r \in RunIds |->
                         IF runs[r].status = "running" /\ runs[r].config.slot = settings
                         THEN [runs[r] EXCEPT !.command = "switch"]
                         ELSE runs[r]], Primary)
  /\ UNCHANGED <<procVars, tasks, spent>>

Commanded(row, command) ==
  [row EXCEPT !.command = command, !.held = @ /\ command # "resume"]

\* POST /control/{command} for one run.
ControlRun(r, command) ==
  /\ spent.commands < MaxCommands
  /\ spent' = [spent EXCEPT !.commands = @ + 1]
  /\ runs' = [runs EXCEPT ![r] = Commanded(@, command)]
  /\ UNCHANGED <<assignments, settings, procVars, tasks>>

\* POST /control/{command} for all runs: every row that exists, and every
\* task whose probe exists already.
ControlAll(command) ==
  /\ Broadcast
  /\ spent.commands < MaxCommands
  /\ spent' = [spent EXCEPT !.commands = @ + 1]
  /\ runs' = [r \in RunIds |-> Commanded(runs[r], command)]
  /\ tasks' = [t \in Tasks |-> IF tasks[t].phase = "claiming"
                               THEN [tasks[t] EXCEPT !.early = command] ELSE tasks[t]]
  /\ UNCHANGED <<assignments, settings, procVars>>

Control ==
  \E command \in Commands \ {"switch"} :
    ControlAll(command) \/ \E r \in RunIds : ControlRun(r, command)

\* A fault of this kind happens.
Fault(kind) ==
  /\ kind \in Faults
  /\ spent.faults < MaxFaults
  /\ spent' = [spent EXCEPT !.faults = @ + 1]

(***************************************************************************)
(* A run task: run_shadow / run_live around Engine.run.                    *)
(***************************************************************************)
\* A cancelled task does nothing but take its CancelledError.
At(t, phase) == tasks[t].phase = phase /\ ~tasks[t].cancel

Move(t, phase) == tasks' = [tasks EXCEPT ![t].phase = phase]

Finish(t, outcome) ==
  tasks' = [tasks EXCEPT ![t].phase = "done", ![t].outcome = outcome]

\* prepare_resume: claim the slot, then carry a predecessor, start fresh or
\* refuse; only an answer lets the run go on to build its engine.  A chain that
\* misses a row or its starting cash, or whose replay the ledger refuses
\* (module TradingEngine reaches one), is not carried: the start is fresh.
PrepareResume(t) ==
  /\ At(t, "preparing")
  /\ LET tk == tasks[t]
         rs == Supersede(runs, tk.aid, tk.config.slot, 0)
         answer == ResumeDecision(rs, tk.aid, tk.config)
     IN  /\ runs' = IF answer.kind = "refuse" THEN runs ELSE rs
         /\ IF answer.kind = "refuse"
            THEN Finish(t, "raised") /\ UNCHANGED spent
            ELSE \E p \in {answer.run, 0} :
                   /\ IF p = answer.run THEN UNCHANGED spent ELSE Fault("replay")
                   /\ tasks' = [tasks EXCEPT ![t].phase = "prepared", ![t].resume = p,
                                             ![t].carried = Replayed(rs, p)]
  /\ UNCHANGED <<assignments, settings, procVars>>

\* The control probe is built: commands from here on address this run.
BuildEngine(t) ==
  /\ At(t, "prepared")
  /\ Move(t, "claiming")
  /\ UNCHANGED <<dbVars, procVars, spent>>

\* Recorder.start: the run row and the supersession in one transaction.
ClaimSlot(t) ==
  /\ At(t, "claiming")
  /\ Len(runs) < MaxRuns
  /\ LET tk  == tasks[t]
         row == [aid |-> tk.aid, config |-> tk.config, status |-> "running",
                 reason |-> None, audit |-> None, risk |-> "incomplete",
                 resumed |-> tk.resume, fills |-> 0, command |-> None,
                 carried |-> tk.carried, cause |-> None, held |-> FALSE]
     IN  runs' = Supersede(Append(runs, row), tk.aid, tk.config.slot, Len(runs) + 1)
  /\ tasks' = [tasks EXCEPT ![t].phase = "claimed", ![t].run = Len(runs) + 1]
  /\ UNCHANGED <<assignments, settings, procVars, spent>>

\* Fills a live run's reconciliation recovered, and the first checkpoint.
FirstCheckpoint(t) ==
  /\ At(t, "claimed")
  /\ \E n \in 0 .. 1 :
       /\ n <= MaxFills
       /\ runs' = [runs EXCEPT ![tasks[t].run].risk = "ok", ![tasks[t].run].fills = n]
  /\ Move(t, "idle")
  /\ UNCHANGED <<assignments, settings, procVars, spent>>

\* A failure before the engine's loop: the task raises, no row is finished.
StartFails(t) ==
  /\ Fault("fail")
  /\ At(t, "preparing") \/ At(t, "prepared") \/ At(t, "claiming") \/ At(t, "claimed")
  /\ Finish(t, "raised")
  /\ UNCHANGED <<dbVars, procVars>>

\* Mutant of BeginCandle: the checkpoint stays complete while a candle runs.
BeginCandleUnmarked(t) ==
  /\ At(t, "idle") /\ ~tasks[t].stop
  /\ \E n \in 0 .. 1 :
       /\ runs[tasks[t].run].fills + n <= MaxFills
       /\ tasks' = [tasks EXCEPT ![t].phase = "candle", ![t].buffered = n]
  /\ UNCHANGED <<dbVars, procVars, spent>>

\* A candle arrives: the incomplete marker commits before anything else, and
\* the venue's fills enter the ledger and the recorder's buffer.
BeginCandle(t) ==
  /\ At(t, "idle")
  /\ ~tasks[t].stop
  /\ runs' = [runs EXCEPT ![tasks[t].run].risk = "incomplete"]
  /\ \E n \in 0 .. 1 :
       /\ runs[tasks[t].run].fills + n <= MaxFills
       /\ tasks' = [tasks EXCEPT ![t].phase = "candle", ![t].buffered = n]
  /\ UNCHANGED <<assignments, settings, procVars, spent>>

\* The buffer as Recorder.flush commits it.
Flushed(row, tk) ==
  [row EXCEPT !.fills = @ + tk.buffered, !.risk = IF tk.owed = None THEN @ ELSE tk.owed]

\* The equity snapshot and the per-candle flush; a candle delivered late
\* leaves the run's newest snapshot old.
FlushCandle(t) ==
  /\ At(t, "candle")
  /\ runs' = [runs EXCEPT ![tasks[t].run] = Flushed(@, tasks[t])]
  /\ \E stale \in {FALSE, tasks[t].stale} :
       tasks' = [tasks EXCEPT ![t].phase = "flushed", ![t].buffered = 0, ![t].stale = stale]
  /\ UNCHANGED <<assignments, settings, procVars, spent>>

\* Mutant of Probe: only broadcasts are seen.
ProbeBroadcastsOnly(t) == tasks[t].early

\* What the probe answers: the newest command since it was built.
Probe(t) ==
  IF runs[tasks[t].run].command # None THEN runs[tasks[t].run].command ELSE tasks[t].early

\* The run is to stop anyway, for what its row says or said when the pass under
\* way listed it: a stop wins over a kill (classify_end).
StopOnItsWay(t) ==
  LET a == tasks[t].aid
      Undesired(row) == ~row.enabled \/ row.config # tasks[t].config
  IN  \/ tasks[t].stop
      \/ Undesired(assignments[a])
      \/ pc \in {"watch", "refresh", "plan"} /\ Undesired(rows[a])

\* The rest of a candle: risk rail (a perp's liquidation adds a fill), control
\* probe, strategy, and the complete checkpoint.  A halted rail or a kill or
\* switch ends the loop.
EndCandle(t) ==
  /\ At(t, "flushed")
  /\ \E halted \in BOOLEAN, n \in 0 .. 1 :
       LET cause == IF halted THEN "risk"
                    ELSE IF Probe(t) \in {"kill", "switch"} THEN Probe(t) ELSE None
           row == runs[tasks[t].run]
       IN  /\ n = 0 \/ (halted /\ row.fills < MaxFills)
           /\ runs' = [runs EXCEPT ![tasks[t].run] =
                         [row EXCEPT !.risk = IF halted THEN "halted" ELSE "ok",
                                     !.fills = @ + n,
                                     !.cause = cause,
                                     !.held = cause = "kill" /\ ~StopOnItsWay(t)]]
           /\ tasks' = [tasks EXCEPT ![t].phase = IF cause = None THEN "idle" ELSE "ending",
                                     ![t].cause = cause]
  /\ UNCHANGED <<assignments, settings, procVars, spent>>

\* The loop is over.  An interrupted record_risk leaves its checkpoint in the
\* recorder's buffer: the incomplete marker before a candle, the complete one
\* after it.
Owed(t) ==
  CASE tasks[t].phase = "idle"    -> {None, "incomplete"}
    [] tasks[t].phase = "flushed" -> {None, "ok", "halted"}
    [] OTHER                      -> {None}

Ending(t, cause, owed) ==
  /\ tasks' = [tasks EXCEPT ![t].phase = "ending", ![t].cause = cause,
                            ![t].cancel = FALSE, ![t].owed = owed]
  /\ runs' = [runs EXCEPT ![tasks[t].run].cause = cause]

\* The stop event: the candle stream dries up, or the loop's top sees it.
SeeStop(t) ==
  /\ At(t, "idle")
  /\ tasks[t].stop
  /\ \E cause \in {"dry", "stop"} : Ending(t, cause, None)
  /\ UNCHANGED <<assignments, settings, procVars, spent>>

\* An exception inside the loop: strategy, candle timeout, database, stream.
RunFails(t) ==
  /\ Fault("fail")
  /\ At(t, "idle") \/ At(t, "candle") \/ At(t, "flushed")
  /\ \E owed \in Owed(t) : Ending(t, "fail", owed)
  /\ UNCHANGED <<assignments, settings, procVars>>

StatusOf(cause) ==
  CASE cause = "dry"                -> "completed"
    [] cause \in {"fail", "cancel"} -> "failed"
    [] OTHER                        -> "halted"

\* How the task ends once its engine ended for a cause, unless it audits first.
OutcomeOf(cause) ==
  CASE cause = "dry"    -> "returned"
    [] cause = "fail"   -> "raised"
    [] cause = "cancel" -> "cancelled"
    [] OTHER            -> None

\* _wind_down: flush what is buffered, then write the final status; finish
\* clears metrics.  A database failure may lose the status or both, and is
\* logged; a failure before finish raises out of the engine.
WindDown(t) ==
  /\ At(t, "ending")
  /\ LET tk == tasks[t]
         flushed == Flushed(runs[tk.run], tk)
         final == [flushed EXCEPT !.status = StatusOf(tk.cause), !.reason = None]
     IN  \E row \in {runs[tk.run], flushed, final}, raises \in BOOLEAN :
           /\ raises => row = runs[tk.run]
           /\ IF row = final /\ ~raises THEN UNCHANGED spent ELSE Fault("db")
           /\ runs' = [runs EXCEPT ![tk.run] = row]
           /\ tasks' = [tasks EXCEPT
                ![t].buffered = 0, ![t].owed = None,
                ![t].outcome = IF raises THEN "raised" ELSE OutcomeOf(tk.cause),
                ![t].phase = IF raises \/ OutcomeOf(tk.cause) # None
                             THEN "done" ELSE "auditing"]
  /\ UNCHANGED <<assignments, settings, procVars>>

\* record_halt: the halt reason goes to the audit log; it never raises.
RecordHalt(t) ==
  /\ At(t, "auditing")
  /\ \/ runs' = [runs EXCEPT ![tasks[t].run].audit = tasks[t].cause] /\ UNCHANGED spent
     \/ Fault("audit") /\ UNCHANGED runs
  /\ Finish(t, "returned")
  /\ UNCHANGED <<assignments, settings, procVars>>

\* The CancelledError reaches the task at its await.  Inside the loop the
\* engine winds down; before or after it nothing more is written.
TakeCancel(t) ==
  /\ tasks[t].cancel
  /\ IF tasks[t].phase \in {"idle", "candle", "flushed"}
     THEN \E owed \in Owed(t) : Ending(t, "cancel", owed)
     ELSE /\ tasks' = [tasks EXCEPT ![t].cancel = FALSE,
                                    ![t].phase = "done",
                                    ![t].outcome = IF tasks[t].phase = "done"
                                                   THEN @ ELSE "cancelled"]
          /\ UNCHANGED runs
  /\ UNCHANGED <<assignments, settings, procVars, spent>>

\* The environment keeps a task from making progress past the threshold.
Stall(t) ==
  /\ Fault("stall")
  /\ tasks[t].phase \notin {"free", "done"}
  /\ ~tasks[t].stale
  /\ tasks' = [tasks EXCEPT ![t].stale = TRUE]
  /\ UNCHANGED <<dbVars, procVars>>

TaskStep(t) ==
  \/ PrepareResume(t) \/ BuildEngine(t) \/ ClaimSlot(t) \/ FirstCheckpoint(t)
  \/ BeginCandle(t) \/ FlushCandle(t) \/ EndCandle(t) \/ SeeStop(t)
  \/ WindDown(t) \/ RecordHalt(t) \/ TakeCancel(t)

(***************************************************************************)
(* The supervisor: one pass is reap, list, watch, refresh, plan.  API      *)
(* calls and tasks interleave where a pass awaits the database.            *)
(***************************************************************************)
\* What _reap_finished concludes for a done task of assignment a; the control
\* command is read only when the task neither raised nor was stopped.
EndKind(a) ==
  LET tk == tasks[live[a]]
      r == LatestRunRow(a)
      asks == tk.outcome # "raised" /\ ~tk.stop /\ r # 0
  IN  ClassifyEnd(tk.stop, tk.outcome = "raised", IF asks THEN runs[r].command ELSE None)

Reap ==
  /\ pc = "reap"
  /\ LET over == {a \in Assignments : live[a] # None /\ tasks[live[a]].phase = "done"}
     IN  /\ live' = [a \in Assignments |-> IF a \in over THEN None ELSE live[a]]
         /\ killed' = [a \in Assignments |->
              IF a \in over /\ EndKind(a) = "killed"
              THEN [run |-> LatestRunRow(a), observed |-> assignments[a].updated]
              ELSE killed[a]]
         /\ backoff' = backoff \cup {a \in over : EndKind(a) = "crashed"}
         /\ tasks' = [t \in Tasks |-> IF \E a \in over : live[a] = t THEN FreeTask ELSE tasks[t]]
  /\ pc' = "list"
  /\ UNCHANGED <<dbVars, rows, markers, spent>>

ListAssignments ==
  /\ pc = "list"
  /\ rows' = assignments
  /\ pc' = "watch"
  /\ UNCHANGED <<dbVars, live, killed, backoff, markers, tasks, spent>>

\* _stalled_runs: desired tasks without progress, once any row of theirs exists.
Stalled ==
  {a \in Desired : live[a] # None /\ LatestRunRow(a) # 0 /\ tasks[live[a]].stale}

\* Mutants of Watch: the task is popped and not cancelled; it is cancelled and
\* keeps its place.
WatchWithoutCancel ==
  /\ pc = "watch"
  /\ live' = [a \in Assignments |-> IF a \in Stalled THEN None ELSE live[a]]
  /\ backoff' = backoff \cup Stalled
  /\ markers' = markers \cup {live[a] : a \in Stalled}
  /\ pc' = "refresh"
  /\ UNCHANGED <<dbVars, rows, killed, tasks, spent>>

WatchKeepingPlace ==
  /\ pc = "watch"
  /\ LET stalled == {live[a] : a \in Stalled}
     IN  tasks' = [t \in Tasks |->
           IF t \in stalled THEN [tasks[t] EXCEPT !.cancel = @ \/ tasks[t].phase # "done"]
           ELSE tasks[t]]
  /\ pc' = "refresh"
  /\ UNCHANGED <<dbVars, rows, live, killed, backoff, markers, spent>>

\* Pop and cancel the stalled tasks, back off, and leave a marker for each.
Watch ==
  /\ pc = "watch"
  /\ LET popped == {live[a] : a \in Stalled}
     IN  /\ live' = [a \in Assignments |-> IF a \in Stalled THEN None ELSE live[a]]
         /\ tasks' = [t \in Tasks |->
              IF t \in popped THEN [tasks[t] EXCEPT !.cancel = @ \/ tasks[t].phase # "done"]
              ELSE tasks[t]]
         /\ backoff' = backoff \cup Stalled
         /\ markers' = markers \cup popped
  /\ pc' = "refresh"
  /\ UNCHANGED <<dbVars, rows, killed, spent>>

RefreshKilled ==
  /\ pc = "refresh"
  /\ killed' = [a \in Assignments |->
       IF killed[a].run # 0 /\ (~rows[a].enabled \/ ResumeCleared(killed[a], rows[a]))
       THEN NotKilled ELSE killed[a]]
  /\ pc' = "plan"
  /\ UNCHANGED <<dbVars, rows, live, backoff, markers, tasks, spent>>

NewTask(a) ==
  [FreeTask EXCEPT !.phase = "preparing", !.aid = a, !.config = rows[a].config]

\* reconcile: stop what is not desired, start what is missing.  A row that
\* may not start here backs off; a start clears the backoff.
Plan ==
  /\ pc = "plan"
  /\ LET blocked == {a \in ToStart : rows[a].config.slot \notin Startable}
         starting == ToStart \ blocked
         stopping == {live[a] : a \in ToStop}
     IN  \E given \in [starting -> {t \in Tasks : tasks[t].phase = "free"}] :
           /\ \A a, b \in starting : given[a] = given[b] => a = b
           /\ live' = [a \in Assignments |-> IF a \in starting THEN given[a] ELSE live[a]]
           /\ tasks' = [t \in Tasks |->
                IF \E a \in starting : given[a] = t
                THEN NewTask(CHOOSE a \in starting : given[a] = t)
                ELSE IF t \in stopping THEN [tasks[t] EXCEPT !.stop = TRUE] ELSE tasks[t]]
           /\ backoff' = (backoff \cup blocked) \ starting
  /\ pc' = "reap"
  /\ UNCHANGED <<dbVars, rows, killed, markers, spent>>

\* RESTART_BACKOFF passes.
BackoffExpires(a) ==
  /\ a \in backoff
  /\ backoff' = backoff \ {a}
  /\ UNCHANGED <<dbVars, pc, rows, live, killed, markers, tasks, spent>>

\* _mark_watchdog_stopped: once the cancelled task is over, the newest run
\* row of its assignment is halted with the watchdog's reason; an exception
\* of the task other than the cancellation ends the marker instead.
MarkWatchdogStopped(t) ==
  /\ t \in markers
  /\ tasks[t].phase = "done"
  /\ LET r == LatestRunRow(tasks[t].aid)
     IN  runs' = IF r = 0 \/ tasks[t].outcome = "raised"
                 THEN runs
                 ELSE [runs EXCEPT ![r] = Halt(@, "watchdog")]
  /\ markers' = markers \ {t}
  /\ tasks' = [tasks EXCEPT ![t] = FreeTask]
  /\ UNCHANGED <<assignments, settings, pc, rows, live, killed, backoff, spent>>

(***************************************************************************)
(* The process: a graceful stop, a crash, and the next start.              *)
(***************************************************************************)
ProcessGone ==
  /\ pc' = "down"
  /\ live' = [a \in Assignments |-> None]
  /\ killed' = [a \in Assignments |-> NotKilled]
  /\ backoff' = {}
  /\ markers' = {}
  /\ tasks' = [t \in Tasks |-> FreeTask]
  /\ UNCHANGED <<dbVars, rows>>

Crash ==
  /\ Fault("crash")
  /\ pc # "down"
  /\ ProcessGone

\* The supervisor's own stop event, seen between passes, or a database failure
\* under its pass: every live task is asked to stop.
Shutdown ==
  /\ Fault("crash")
  /\ pc = "reap" \/ ("db" \in Faults /\ pc \in {"list", "watch", "refresh"})
  /\ pc' = "stopping"
  /\ tasks' = [t \in Tasks |-> IF \E a \in Assignments : live[a] = t
                               THEN [tasks[t] EXCEPT !.stop = TRUE] ELSE tasks[t]]
  /\ UNCHANGED <<dbVars, rows, live, killed, backoff, markers>>

\* gather: the live tasks are over, and the process exits.  A task that hangs
\* keeps it waiting until the container runtime kills the process.
Exit ==
  /\ pc = "stopping"
  /\ \A a \in Assignments :
       live[a] # None => tasks[live[a]].phase = "done" \/ tasks[live[a]].stale
  /\ ProcessGone
  /\ UNCHANGED spent

\* halt_orphan_runs, then the first pass.
Boot ==
  /\ pc = "down"
  /\ LET slots == {assignments[a].config.slot : a \in {b \in Assignments : assignments[b].enabled}}
     IN  runs' = [r \in RunIds |->
                    IF runs[r].status = "running" /\ runs[r].config.slot \notin slots
                    THEN Halt(runs[r], "orphan") ELSE runs[r]]
  /\ pc' = "reap"
  /\ UNCHANGED <<assignments, settings, rows, live, killed, backoff, markers, tasks, spent>>

Pass == Reap \/ ListAssignments \/ Watch \/ RefreshKilled \/ Plan

Init ==
  /\ \E config \in [Assignments -> Config] :
       assignments = [a \in Assignments |->
                        [enabled |-> TRUE, config |-> config[a], updated |-> 0]]
  /\ settings = assignments[Primary].config.slot
  /\ runs = <<>>
  /\ pc = "down"
  /\ rows = assignments
  /\ live = [a \in Assignments |-> None]
  /\ killed = [a \in Assignments |-> NotKilled]
  /\ backoff = {}
  /\ markers = {}
  /\ tasks = [t \in Tasks |-> FreeTask]
  /\ spent = [commands |-> 0, faults |-> 0]

Next ==
  \/ \E a \in Assignments : UpdateAssignment(a) \/ BackoffExpires(a)
  \/ PutSettings \/ Control
  \/ Pass \/ Shutdown \/ Exit \/ Crash \/ Boot
  \/ \E t \in Tasks : TaskStep(t) \/ StartFails(t) \/ RunFails(t) \/ Stall(t)
                      \/ MarkWatchdogStopped(t)

Spec == Init /\ [][Next]_vars

-----------------------------------------------------------------------------
(***************************************************************************)
(* Type invariant.                                                         *)
(***************************************************************************)
\* Every row, task and supervisor variable holds a value of its kind.
TypeOK ==
  /\ assignments \in [Assignments -> AssignmentRow]
  /\ settings \in Slots
  /\ runs \in Seq(RunRow) /\ Len(runs) <= MaxRuns
  /\ pc \in {"down", "reap", "list", "watch", "refresh", "plan", "stopping"}
  /\ rows \in [Assignments -> AssignmentRow]
  /\ live \in [Assignments -> Tasks \cup {None}]
  /\ killed \in [Assignments -> [run : 0 .. MaxRuns, observed : 0 .. MaxEdits]]
  /\ backoff \subseteq Assignments
  /\ markers \subseteq Tasks
  /\ tasks \in [Tasks -> Task]
  /\ spent \in [commands : 0 .. MaxCommands, faults : 0 .. MaxFaults]

(***************************************************************************)
(* Safety.                                                                 *)
(***************************************************************************)
Trading(t) ==
  tasks[t].phase \in {"idle", "candle", "flushed"} /\ ~tasks[t].cancel

\* An assignment never has two tasks that go on trading: a replacement may
\* start while a cancelled predecessor is still winding down, never while
\* one still processes candles (run_supervisor's live dict and its pop).
OneTrader ==
  \A t, u \in Tasks :
    Trading(t) /\ Trading(u) /\ tasks[t].aid = tasks[u].aid => t = u

\* One running row per slot of an assignment, whatever the order of claims,
\* late wind-downs and markers (supersede_stale_runs).
OneRunningRow ==
  \A r, q \in RunIds :
    /\ runs[r].status = "running" /\ runs[q].status = "running"
    /\ runs[r].aid = runs[q].aid /\ runs[r].config.slot = runs[q].config.slot
    => r = q

\* A resumed run's ledger is the ledger its predecessors recorded: no fill
\* enters the chain behind a successor that has rebuilt it (replay_fills,
\* the incomplete checkpoint and the refusal of prepare_resume).
LedgerContinuity ==
  \A r \in RunIds :
    runs[r].resumed # 0 => runs[r].carried = Replayed(runs, runs[r].resumed)

\* No row has two successors: a resume chain is a line (prepare_resume).
ChainIsALine ==
  \A r, q \in RunIds :
    runs[r].resumed # 0 /\ runs[r].resumed = runs[q].resumed => r = q

\* A run stopped by the risk rail is never resumed, not even after the
\* watchdog or a supersession rewrote its row (saved.halted in prepare_resume).
RiskHaltNotResumed ==
  \A r \in RunIds : runs[r].resumed # 0 => runs[runs[r].resumed].cause # "risk"

\* README: a run stopped by the kill switch or a strategy switch does not
\* resume; its successor starts fresh.
KilledNotResumed ==
  \A r \in RunIds :
    runs[r].resumed # 0 => runs[runs[r].resumed].cause \notin {"kill", "switch"}

\* README: GET /assignments lists each row's live run.  While no task hangs, the
\* run it lists is the one that trades: edits, kills, restarts and claims never
\* end the row of a run that trades on, nor put another in front of it.  With a
\* hung task they may: its marker halts the newest row of the assignment, the
\* replacement's, while that one trades.
TradingRowIsRunning ==
  \A t \in Tasks :
    Trading(t) /\ assignments[tasks[t].aid].enabled => LiveRunId(tasks[t].aid) = tasks[t].run

(***************************************************************************)
(* Action properties.                                                      *)
(***************************************************************************)
\* Module docstring: a run killed through the control channel stays down
\* until a resume command targets it or its assignment row is updated.  A run
\* the supervisor is stopping anyway is replaced, as classify_end says.
KilledStaysDown ==
  [][\A a \in Assignments :
       live[a] = None /\ live'[a] # None /\ LatestRunRow(a) # 0
         => ~runs[LatestRunRow(a)].held]_vars

\* A chain that ended by a crash of the process or a graceful stop is resumed
\* or refused, never silently started over at the starting cash, while its
\* identity stays the same (is_resumable).  Excepted are rows halted as orphans
\* and, spending a fault of the kind "replay", a chain that cannot be rebuilt:
\* prepare_resume starts that one over with no more than a warning in its log.
NoSilentReset ==
  [][\A t \in Tasks :
       tasks[t].phase = "preparing" /\ tasks'[t].phase = "prepared" /\ tasks'[t].resume = 0
         /\ UNCHANGED spent
         => LET p == LatestRunRow(tasks[t].aid)
            IN  p # 0 =>
                  \/ runs'[p].cause \notin {None, "stop", "dry"}
                  \/ runs'[p].reason = "orphan"
                  \/ runs'[p].status = "running"
                  \/ Identity(runs'[p].config) # Identity(tasks[t].config)]_vars

-----------------------------------------------------------------------------
(***************************************************************************)
(* The chain of runs implements the ledger chain.                          *)
(***************************************************************************)
Books ==
  [r \in RunIds |-> [prev |-> runs[r].resumed, base |-> runs[r].carried,
                     own |-> runs[r].fills]]

Chain == INSTANCE LedgerChain WITH books <- Books, Amounts <- 0 .. MaxFills

\* Claims, candles, late wind-downs, markers and restarts, in any order, move
\* the runs' fills only as LedgerChain allows: a fresh book, one successor of a
\* book that records no more, or a record in a book nobody succeeded.
ImplementsLedgerChain == Chain!Spec

-----------------------------------------------------------------------------
(***************************************************************************)
(* Liveness.                                                               *)
(*                                                                         *)
(* The supervisor's loop never stops, the container runtime restarts the   *)
(* process, backoffs run out, markers run once their task is over, and     *)
(* candles keep coming to a task that does not hang.  A hung task may stay *)
(* wherever it is, cancelled or not.                                       *)
(***************************************************************************)
Fairness ==
  /\ WF_vars(Pass) /\ WF_vars(Boot) /\ WF_vars(Exit)
  /\ \A a \in Assignments : WF_vars(BackoffExpires(a))
  /\ \A t \in Tasks : /\ WF_vars(~tasks[t].stale /\ TaskStep(t))
                      /\ WF_vars(MarkWatchdogStopped(t))

FairSpec == Spec /\ Fairness

\* The desired state is reached: a run of the configuration trades.
InForce(a) ==
  /\ live[a] # None
  /\ Trading(live[a])
  /\ tasks[live[a]].config = assignments[a].config

\* What may keep an assignment from trading: it is disabled, may not run here
\* or is held down, or its chain is refused; the last is the model's bound.
Excused(a) ==
  LET config == assignments[a].config
  IN  \/ ~assignments[a].enabled
      \/ config.slot \notin Startable
      \/ killed[a].run # 0
      \/ /\ live[a] = None
         /\ ResumeDecision(Supersede(runs, a, config.slot, 0), a, config).kind = "refuse"
      \/ Len(runs) = MaxRuns

HungBeforeAnyRow(a) ==
  live[a] # None /\ tasks[live[a]].stale /\ LatestRunRow(a) = 0

\* Whatever is edited, killed, hung or crashed, an assignment comes back to
\* trading its present configuration unless something excuses it; the watchdog
\* does not see a first start that hangs (_stalled_runs skips it).
DesiredIsReached ==
  \A a \in Assignments : []<>(InForce(a) \/ Excused(a) \/ HungBeforeAnyRow(a))

\* A disabled assignment does not keep a run, except one that hangs: the
\* watchdog watches only what is desired.
StopIsHonoured ==
  \A a \in Assignments :
    []<>(live[a] = None \/ assignments[a].enabled \/ tasks[live[a]].stale
         \/ Len(runs) = MaxRuns)

\* A kill addressed to a run that trades ends its trading, unless a newer
\* command replaces it or the task hangs (DbControlProbe, Engine.run).
KillTakesEffect ==
  \A t \in Tasks :
    (Trading(t) /\ runs[tasks[t].run].command = "kill")
      ~> (~Trading(t) \/ tasks[t].stale \/ runs[tasks[t].run].command # "kill")

=============================================================================
