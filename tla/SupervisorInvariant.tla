------------------------- MODULE SupervisorInvariant -------------------------
(***************************************************************************)
(* The inductive invariant behind the safety properties of Supervisor.     *)
(*                                                                         *)
(* None of OneTrader, LedgerContinuity, ChainIsALine or RiskHaltNotResumed *)
(* is inductive: each rests on who still holds a run row, on what that     *)
(* task may still write to it, and on what the row's checkpoint says of    *)
(* its fills meanwhile.                                                    *)
(***************************************************************************)
EXTENDS Supervisor

Starting == {"preparing", "prepared", "claiming"}

Looping == {"claimed", "idle", "candle", "flushed"}

\* Who answers for a task: its assignment's entry in live, or the marker the
\* watchdog left when it popped and cancelled the task.
Ownership ==
  /\ \A a \in Assignments : live[a] # None =>
       /\ tasks[live[a]].aid = a
       /\ tasks[live[a]].phase # "free"
       /\ ~tasks[live[a]].cancel
       /\ live[a] \notin markers
  /\ \A t \in Tasks : tasks[t].phase # "free" =>
       live[tasks[t].aid] = t \/ t \in markers
  /\ \A t \in Tasks : tasks[t].phase = "free" => ~tasks[t].cancel
  /\ \A t \in markers : tasks[t].cancel \/ tasks[t].phase \in {"ending", "auditing", "done"}

\* A task has a row of its own assignment from its claim on, and to itself.
RowHeld ==
  /\ \A t \in Tasks :
       /\ tasks[t].run <= Len(runs)
       /\ tasks[t].phase \in Starting \cup {"free"} => tasks[t].run = 0
       /\ tasks[t].phase \in Looping \cup {"ending", "auditing"} =>
            tasks[t].run # 0
       /\ tasks[t].run # 0 => runs[tasks[t].run].aid = tasks[t].aid
  /\ \A t, u \in Tasks : tasks[t].run # 0 /\ tasks[t].run = tasks[u].run => t = u

\* Fills wait in a buffer only under the incomplete marker, and a risk halt
\* stands in the row from the moment the engine sees it.
MarkedBy(tk, row) ==
  /\ tk.phase \in {"claimed", "candle", "flushed"} => row.risk = "incomplete"
  /\ tk.phase \notin {"candle", "ending", "done"} => tk.buffered = 0
  /\ tk.phase \notin {"ending", "done"} => tk.owed = None
  /\ tk.phase = "ending" /\ tk.buffered = 1 => row.risk = "incomplete" /\ tk.owed = None
  /\ tk.phase \in {"candle", "ending"} => row.fills + tk.buffered <= MaxFills
  /\ tk.phase = "claimed" => row.fills = 0
  /\ tk.phase \in Looping => row.cause = None
  /\ tk.phase = "ending" /\ row.cause = "risk" => tk.owed = None
  /\ tk.phase = "auditing" => OutcomeOf(tk.cause) = None

Marked == \A t \in Tasks : MarkedBy(tasks[t], runs[tasks[t].run])

HaltStands == \A r \in RunIds : runs[r].cause = "risk" => runs[r].risk = "halted"

\* A task that records no fill any more.
Still(tk) ==
  \/ tk.phase = "idle" /\ tk.cancel
  \/ tk.phase = "ending" /\ tk.buffered = 0
  \/ tk.phase \in {"auditing", "done"}

\* Whoever still holds row p records no fill in it and finds no risk halt.
Quiet(p) ==
  /\ runs[p].cause # "risk"
  /\ \A t \in Tasks : tasks[t].run = p => Still(tasks[t])

SameSlot(p, aid, config) == runs[p].aid = aid /\ runs[p].config.slot = config.slot

\* What a claimed successor rests on.
Succession ==
  \A r \in RunIds :
    /\ runs[r].carried = Replayed(runs, runs[r].resumed)
    /\ runs[r].resumed # 0 =>
         /\ runs[r].resumed < r
         /\ SameSlot(runs[r].resumed, runs[r].aid, runs[r].config)
         /\ Quiet(runs[r].resumed)

\* What a successor that has prepared and not yet claimed rests on.
Prepared ==
  \A t \in Tasks : tasks[t].phase \in {"prepared", "claiming"} /\ ~tasks[t].cancel =>
    LET p == tasks[t].resume
    IN  /\ tasks[t].carried = Replayed(runs, p)
        /\ p # 0 =>
             /\ p \in RunIds
             /\ SameSlot(p, tasks[t].aid, tasks[t].config)
             /\ Quiet(p)
             /\ \A r \in RunIds : runs[r].resumed # p

\* Everything that must hold together for one step to preserve it.
IInv ==
  /\ TypeOK /\ Ownership /\ RowHeld /\ Marked /\ HaltStands
  /\ Succession /\ Prepared /\ ChainIsALine

-----------------------------------------------------------------------------
(***************************************************************************)
(* How a run's row tells its end.                                          *)
(*                                                                         *)
(* OneRunningRow is inductive.  NoSilentReset, TradingRowIsRunning,        *)
(* KilledNotResumed and KilledStaysDown rest on what a row's status, halt  *)
(* reason and audit event may say for the cause its engine ended for; the  *)
(* last three hold only while the faults named here do not happen.         *)
(***************************************************************************)
Ended == {"ending", "auditing"}

\* What is written of an end is what the engine ended for.
RowTells(row) ==
  /\ row.reason # None => row.status = "halted"
  /\ row.status = "failed" => row.cause \in {"fail", "cancel"}
  /\ row.audit # None => row.audit = row.cause

TaskTells(tk, row) ==
  /\ tk.phase \in Ended => row.cause = tk.cause
  /\ tk.run # 0 => row.config = tk.config
  /\ tk.phase # "done" => tk.outcome = None

Recorded ==
  /\ \A r \in RunIds : RowTells(runs[r])
  /\ \A t \in Tasks : TaskTells(tasks[t], runs[tasks[t].run])

\* No task hangs: the watchdog finds nothing to cancel.
NothingHangs == "stall" \notin Faults

\* Then a task's row is its assignment's newest, and runs while it trades.
Fronts(t) ==
  tasks[t].phase \in Looping =>
    /\ tasks[t].run = LatestRunRow(tasks[t].aid)
    /\ runs[tasks[t].run].status = "running"

InFront ==
  NothingHangs =>
    /\ markers = {}
    /\ pc = "down" => \A t \in Tasks : tasks[t].phase = "free"
    /\ \A t \in Tasks : ~tasks[t].cancel /\ ~tasks[t].stale /\ Fronts(t)

\* Every end is written, and its halt reason audited.
EndsAreWritten == Faults \subseteq {"fail"}

Killed(r) == runs[r].cause \in {"kill", "switch"}

\* Then a killed row is not resumable, or its task has still to make it so.
KillTold(r) ==
  \/ \E t \in Tasks : tasks[t].run = r /\ tasks[t].phase = "ending"
  \/ /\ runs[r].status = "halted" /\ runs[r].reason = None
     /\ \/ runs[r].audit = runs[r].cause
        \/ \E t \in Tasks : tasks[t].run = r /\ tasks[t].phase = "auditing"

NotCarried(t) ==
  tasks[t].phase \in {"prepared", "claiming"} /\ tasks[t].resume # 0
    => ~Killed(tasks[t].resume)

KillIsWritten ==
  EndsAreWritten =>
    /\ pc # "stopping"
    /\ \A r \in RunIds : Killed(r) => KillTold(r)
    /\ \A t \in Tasks : NotCarried(t)
    /\ KilledNotResumed

\* A kill addressed to one run is the last word on it but for a resume, its
\* status is written, and the process lives on.
KillIsHeard ==
  /\ Faults \subseteq {"audit", "fail"}
  /\ Commands \subseteq {"kill", "resume"}
  /\ ~Broadcast

\* What holds a killed run down: its task until it is reaped, then its entry
\* in killed, which nothing the pass has listed clears.
Wanted(r, row) == row.enabled /\ row.config = runs[r].config

HeldBy(r) ==
  LET a == runs[r].aid
  IN  /\ r = LatestRunRow(a)
      /\ runs[r].cause = "kill" /\ runs[r].command = "kill"
      /\ Wanted(r, assignments[a])
      /\ pc \in {"watch", "refresh", "plan"} => Wanted(r, rows[a])
      /\ live[a] = None =>
           killed[a].run = r /\ killed[a].observed = assignments[a].updated
      /\ live[a] # None =>
           /\ tasks[live[a]].run = r
           /\ tasks[live[a]].phase \in Ended \cup {"done"}
           /\ ~tasks[live[a]].stop /\ tasks[live[a]].outcome # "raised"

KillHolds ==
  KillIsHeard =>
    /\ pc # "stopping"
    /\ \A t \in Tasks : tasks[t].early = None
    /\ \A a \in Assignments : rows[a].updated <= assignments[a].updated
    /\ \A r \in RunIds : runs[r].held => HeldBy(r)

\* What must hold together for these, on top of IInv.
EndInv == OneRunningRow /\ Recorded /\ InFront /\ KillIsWritten /\ KillHolds

=============================================================================
