--------------------------- MODULE SupervisorProofs ---------------------------
(***************************************************************************)
(* Proofs about Supervisor, for every value of its constants: IInv is      *)
(* inductive, and the safety properties follow from it.                    *)
(*                                                                         *)
(* Most steps move one task and its row, or rewrite columns IInv does not  *)
(* read; the first sections prove IInv once for each of these shapes, and  *)
(* an action's proof then shows that the action has the shape.             *)
(***************************************************************************)
EXTENDS SupervisorInvariant, DataLemmas

-----------------------------------------------------------------------------
(***************************************************************************)
(* The newest of a set of rows.                                            *)
(***************************************************************************)
\* A nonempty set of row ids has a newest one.
LEMMA NewestIsGreatest ==
  ASSUME NEW n \in Nat, NEW S \in SUBSET (1 .. n), S # {}
  PROVE  /\ Newest(S) \in S
         /\ \A q \in S : q <= Newest(S)
<1>1. S \in SUBSET Int /\ IsFiniteSet(S)
  <2>1. IsFiniteSet(1 .. n) /\ 1 .. n \subseteq Int
    BY FS_Interval
  <2> QED BY <2>1, FS_Subset
<1>2. PICK r \in S : \A q \in S : q <= r
  BY <1>1, HasGreatest
<1> QED BY <1>2 DEF Newest

-----------------------------------------------------------------------------
(***************************************************************************)
(* Resume chains.                                                          *)
(***************************************************************************)
Linked(rs) == \A q \in 1 .. Len(rs) : rs[q].resumed \in 0 .. Len(rs)

ClosedIn(rs, S) == \A s \in S : rs[s].resumed # 0 => rs[s].resumed \in S

\* The definition of ChainRows, by membership.
LEMMA ChainMember ==
  ASSUME NEW rs, NEW tip, NEW q
  PROVE  q \in ChainRows(rs, tip) <=>
           /\ q \in 1 .. Len(rs)
           /\ tip # 0
           /\ \A S \in SUBSET (1 .. Len(rs)) : tip \in S /\ ClosedIn(rs, S) => q \in S
BY DEF ChainRows, ClosedIn

\* No tip, no chain.
LEMMA NoChain == ASSUME NEW rs PROVE ChainRows(rs, 0) = {}
BY DEF ChainRows

\* A chain holds its tip, stays within the table and follows every pointer.
LEMMA ChainIsClosed ==
  ASSUME NEW rs, Linked(rs), NEW tip \in 1 .. Len(rs), Len(rs) \in Nat
  PROVE  /\ ChainRows(rs, tip) \subseteq 1 .. Len(rs)
         /\ tip \in ChainRows(rs, tip)
         /\ ClosedIn(rs, ChainRows(rs, tip))
<1>1. ChainRows(rs, tip) \subseteq 1 .. Len(rs)
  BY DEF ChainRows
<1>2. tip \in ChainRows(rs, tip)
  <2>1. tip # 0
    OBVIOUS
  <2> QED BY <2>1, ChainMember
<1>3. ClosedIn(rs, ChainRows(rs, tip))
  <2> SUFFICES ASSUME NEW s \in ChainRows(rs, tip), rs[s].resumed # 0
               PROVE  rs[s].resumed \in ChainRows(rs, tip)
    BY DEF ClosedIn
  <2>1. rs[s].resumed \in 1 .. Len(rs)
    BY <1>1 DEF Linked
  <2>2. tip # 0
    OBVIOUS
  <2>3. ASSUME NEW S \in SUBSET (1 .. Len(rs)), tip \in S, ClosedIn(rs, S)
        PROVE  rs[s].resumed \in S
    <3>1. s \in S
      BY <2>3, ChainMember
    <3> QED BY <3>1, <2>3 DEF ClosedIn
  <2> QED BY <2>1, <2>2, <2>3, ChainMember
<1> QED BY <1>1, <1>2, <1>3

\* It is the least such set.
LEMMA ChainIsLeast ==
  ASSUME NEW rs, NEW tip, NEW S \in SUBSET (1 .. Len(rs)), tip \in S, ClosedIn(rs, S)
  PROVE  ChainRows(rs, tip) \subseteq S
BY ChainMember

\* Every row of a chain but its tip has a successor in the chain.
LEMMA ChainMembersSucceeded ==
  ASSUME NEW rs, Linked(rs), NEW tip \in 1 .. Len(rs), Len(rs) \in Nat,
         NEW q \in ChainRows(rs, tip), q # tip
  PROVE  \E r \in 1 .. Len(rs) : rs[r].resumed = q /\ rs[r].resumed # 0
<1> SUFFICES ASSUME \A r \in 1 .. Len(rs) : rs[r].resumed # 0 => rs[r].resumed # q
             PROVE  FALSE
  OBVIOUS
<1> DEFINE S == ChainRows(rs, tip) \ {q}
<1>1. S \in SUBSET (1 .. Len(rs)) /\ tip \in S
  BY ChainIsClosed
<1>2. ClosedIn(rs, S)
  BY <1>1, ChainIsClosed DEF ClosedIn
<1>3. ChainRows(rs, tip) \subseteq S
  <2> HIDE DEF S
  <2> QED BY <1>1, <1>2, ChainIsLeast
<1> QED BY <1>3

\* A chain is its tip and the chain of the tip's predecessor.
LEMMA ChainFromPredecessor ==
  ASSUME NEW rs, Linked(rs), NEW tip \in 1 .. Len(rs), Len(rs) \in Nat
  PROVE  ChainRows(rs, tip) = {tip} \cup ChainRows(rs, rs[tip].resumed)
<1> DEFINE p == rs[tip].resumed
           S == {tip} \cup ChainRows(rs, p)
<1>1. p \in 0 .. Len(rs)
  BY DEF Linked
<1>2. CASE p = 0
  <2>1. S = {tip}
    BY <1>2, NoChain
  <2>2. ClosedIn(rs, S)
    BY <2>1, <1>2 DEF ClosedIn
  <2>3. ChainRows(rs, tip) \subseteq S
    <3>1. S \in SUBSET (1 .. Len(rs)) /\ tip \in S
      BY <2>1
    <3> HIDE DEF S
    <3> QED BY <3>1, <2>2, ChainIsLeast
  <2> QED BY <2>1, <2>3, ChainIsClosed
<1>3. CASE p # 0
  <2>1. p \in 1 .. Len(rs)
    BY <1>1, <1>3
  <2>2. /\ ChainRows(rs, p) \subseteq 1 .. Len(rs)
        /\ p \in ChainRows(rs, p)
        /\ ClosedIn(rs, ChainRows(rs, p))
    BY <2>1, ChainIsClosed
  <2>3. S \in SUBSET (1 .. Len(rs)) /\ tip \in S /\ ClosedIn(rs, S)
    BY <2>2 DEF ClosedIn
  <2>4. ChainRows(rs, tip) \subseteq S
    <3> HIDE DEF S
    <3> QED BY <2>3, ChainIsLeast
  <2>5. /\ ChainRows(rs, tip) \in SUBSET (1 .. Len(rs))
        /\ tip \in ChainRows(rs, tip)
        /\ ClosedIn(rs, ChainRows(rs, tip))
    BY ChainIsClosed
  <2>6. p \in ChainRows(rs, tip)
    BY <2>5, <1>3 DEF ClosedIn
  <2>7. ChainRows(rs, p) \subseteq ChainRows(rs, tip)
    BY <2>5, <2>6, ChainIsLeast
  <2> QED BY <2>4, <2>5, <2>7
<1> QED BY <1>2, <1>3

\* New rows and rewritten columns leave a chain alone while its pointers stay.
LEMMA ChainIsStable ==
  ASSUME NEW rs, NEW new, Linked(rs), Len(rs) \in Nat, Len(new) \in Nat,
         Len(rs) <= Len(new),
         \A q \in 1 .. Len(rs) : new[q].resumed = rs[q].resumed,
         NEW tip \in 0 .. Len(rs)
  PROVE  ChainRows(new, tip) = ChainRows(rs, tip)
<1>1. CASE tip = 0
  BY <1>1, NoChain
<1>2. CASE tip # 0
  <2> DEFINE C == ChainRows(rs, tip)
  <2>1. tip \in 1 .. Len(rs)
    BY <1>2
  <2>2. C \subseteq 1 .. Len(rs) /\ tip \in C /\ ClosedIn(rs, C)
    BY <2>1, ChainIsClosed
  <2>3. C \in SUBSET (1 .. Len(new)) /\ ClosedIn(new, C)
    <3>1. 1 .. Len(rs) \subseteq 1 .. Len(new)
      OBVIOUS
    <3> QED BY <2>2, <3>1 DEF ClosedIn
  <2>4. ChainRows(new, tip) \subseteq C
    <3> HIDE DEF C
    <3> QED BY <2>2, <2>3, ChainIsLeast
  <2>5. ASSUME NEW q \in C, NEW S \in SUBSET (1 .. Len(new)), tip \in S, ClosedIn(new, S)
        PROVE  q \in S
    <3> DEFINE R == S \cap (1 .. Len(rs))
    <3>1. R \in SUBSET (1 .. Len(rs)) /\ tip \in R
      BY <2>1, <2>5
    <3>2. ClosedIn(rs, R)
      <4> SUFFICES ASSUME NEW s \in R, rs[s].resumed # 0 PROVE rs[s].resumed \in R
        BY DEF ClosedIn
      <4>1. rs[s].resumed \in 1 .. Len(rs)
        BY DEF Linked
      <4>2. rs[s].resumed \in S
        BY <2>5 DEF ClosedIn
      <4> QED BY <4>1, <4>2
    <3>3. C \subseteq R
      <4> HIDE DEF R
      <4> QED BY <3>1, <3>2, ChainIsLeast
    <3> QED BY <3>3
  <2>6. C \subseteq ChainRows(new, tip)
    <3> SUFFICES ASSUME NEW q \in C PROVE q \in ChainRows(new, tip)
      OBVIOUS
    <3>1. q \in 1 .. Len(new) /\ tip # 0
      BY <2>2, <2>1
    <3> HIDE DEF C
    <3> QED BY <3>1, <2>5, ChainMember
  <2> QED BY <2>4, <2>6
<1> QED BY <1>1, <1>2

-----------------------------------------------------------------------------
(***************************************************************************)
(* What a step leaves alone.                                               *)
(***************************************************************************)
\* The columns of a row that IInv reads and only its claim or its task write.
SameLinks(r) ==
  /\ runs'[r].aid = runs[r].aid
  /\ runs'[r].config = runs[r].config
  /\ runs'[r].resumed = runs[r].resumed
  /\ runs'[r].carried = runs[r].carried

SameLedger(r) ==
  /\ runs'[r].fills = runs[r].fills
  /\ runs'[r].risk = runs[r].risk
  /\ runs'[r].cause = runs[r].cause

\* A step that writes neither.
LedgersStay == Len(runs') = Len(runs) /\ \A r \in RunIds : SameLinks(r) /\ SameLedger(r)

\* The fields of a task that IInv reads, but for a cancellation.
SameTask(u) ==
  /\ tasks'[u].phase = tasks[u].phase
  /\ tasks'[u].aid = tasks[u].aid
  /\ tasks'[u].config = tasks[u].config
  /\ tasks'[u].resume = tasks[u].resume
  /\ tasks'[u].carried = tasks[u].carried
  /\ tasks'[u].run = tasks[u].run
  /\ tasks'[u].buffered = tasks[u].buffered
  /\ tasks'[u].owed = tasks[u].owed
  /\ tasks'[u].cause = tasks[u].cause

\* A task that is over for its run, or has not got one.
NoRun(u) ==
  /\ tasks[u].phase \in {"free", "preparing"}
  /\ tasks[u].run = 0
  /\ tasks[u].buffered = 0
  /\ tasks[u].owed = None

Claimless(tk) == tk.phase \in {"prepared", "claiming"} /\ ~tk.cancel

Over(tk) == tk.cancel \/ tk.phase \in {"ending", "auditing", "done"}

\* What the type invariant says of one row, one task and the lengths.
LEMMA TypeFacts ==
  ASSUME TypeOK
  PROVE  /\ Len(runs) \in Nat /\ Len(runs) <= MaxRuns /\ MaxRuns \in Nat /\ MaxFills \in Nat
         /\ runs \in Seq(RunRow)
         /\ \A r \in RunIds : runs[r] \in RunRow
         /\ \A t \in Tasks : tasks[t] \in Task
         /\ RunIds = 1 .. Len(runs)
BY SupervisorAssumption, LenProperties, ElementOfSeq DEF TypeOK, RunIds

\* Rows point into the table.
LEMMA RowsAreLinked ==
  ASSUME TypeOK, Succession
  PROVE  Linked(runs)
<1> SUFFICES ASSUME NEW q \in 1 .. Len(runs) PROVE runs[q].resumed \in 0 .. Len(runs)
  BY DEF Linked
<1>1. Len(runs) \in Nat /\ runs[q] \in RunRow /\ MaxRuns \in Nat
  BY TypeFacts DEF RunIds
<1>2. runs[q].resumed \in 0 .. MaxRuns
  BY <1>1 DEF RunRow
<1>3. runs[q].resumed = 0 \/ runs[q].resumed < q
  BY DEF Succession, RunIds
<1> QED BY <1>1, <1>2, <1>3

\* Every row of a succeeded row's chain records no fill any more.
LEMMA ChainIsQuiet ==
  ASSUME TypeOK, Succession, NEW p \in RunIds, Quiet(p),
         NEW q \in ChainRows(runs, p)
  PROVE  q \in RunIds /\ Quiet(q)
<1>1. Linked(runs) /\ Len(runs) \in Nat /\ p \in 1 .. Len(runs)
  BY RowsAreLinked, TypeFacts DEF RunIds
<1>2. q \in 1 .. Len(runs)
  BY <1>1, ChainIsClosed
<1>3. CASE q = p
  BY <1>2, <1>3 DEF RunIds
<1>4. CASE q # p
  <2>1. PICK r \in 1 .. Len(runs) : runs[r].resumed = q /\ runs[r].resumed # 0
    BY <1>1, <1>4, ChainMembersSucceeded
  <2> QED BY <2>1, <1>2 DEF Succession, RunIds
<1> QED BY <1>3, <1>4

\* A chain whose rows record no fill any more is replayed alike after a step.
LEMMA ReplayedAlike ==
  ASSUME TypeOK, TypeOK', Succession, Len(runs) <= Len(runs'),
         \A r \in RunIds : SameLinks(r),
         \A r \in RunIds : Quiet(r) => runs'[r].fills = runs[r].fills,
         NEW p \in 0 .. Len(runs), p # 0 => Quiet(p)
  PROVE  Replayed(runs', p) = Replayed(runs, p)
<1>1. Linked(runs) /\ Len(runs) \in Nat /\ Len(runs') \in Nat
  BY RowsAreLinked, TypeFacts, LenProperties DEF TypeOK
<1>2. ChainRows(runs', p) = ChainRows(runs, p)
  <2>1. \A q \in 1 .. Len(runs) : runs'[q].resumed = runs[q].resumed
    BY DEF SameLinks, RunIds
  <2> QED BY <1>1, <2>1, ChainIsStable
<1>3. \A q \in ChainRows(runs, p) : runs'[q].fills = runs[q].fills
  <2>1. CASE p = 0
    BY <2>1, NoChain
  <2>2. CASE p # 0
    <3>1. p \in RunIds
      BY <1>1, <2>2 DEF RunIds
    <3> QED BY <3>1, <2>2, ChainIsQuiet
  <2> QED BY <2>1, <2>2
<1> QED BY <1>2, <1>3 DEF Replayed

-----------------------------------------------------------------------------
(***************************************************************************)
(* Parts of IInv that a step preserves by its shape.                       *)
(***************************************************************************)
\* Steps that keep the table's links, and the silence of silent rows, keep
\* what the successors among the old rows rest on.
LEMMA SuccessorsKept ==
  ASSUME TypeOK, TypeOK', Succession, Len(runs) <= Len(runs'),
         \A r \in RunIds : SameLinks(r),
         \A r \in RunIds : Quiet(r) => runs'[r].fills = runs[r].fills /\ Quiet(r)',
         NEW r \in RunIds
  PROVE  /\ runs'[r].carried = Replayed(runs', runs'[r].resumed)
         /\ runs'[r].resumed # 0 =>
              /\ runs'[r].resumed < r
              /\ SameSlot(runs[r].resumed, runs[r].aid, runs[r].config)'
              /\ Quiet(runs[r].resumed)'
<1>1. RunIds = 1 .. Len(runs) /\ Len(runs) \in Nat
  BY TypeFacts
<1>2. SameLinks(r)
  OBVIOUS
<1>3. /\ runs[r].carried = Replayed(runs, runs[r].resumed)
      /\ runs[r].resumed # 0 =>
           /\ runs[r].resumed < r
           /\ SameSlot(runs[r].resumed, runs[r].aid, runs[r].config)
           /\ Quiet(runs[r].resumed)
  BY DEF Succession
<1>4. runs[r].resumed \in 0 .. Len(runs)
  BY RowsAreLinked, <1>1 DEF Linked
<1>5. runs'[r].carried = Replayed(runs', runs'[r].resumed)
  <2>1. Replayed(runs', runs[r].resumed) = Replayed(runs, runs[r].resumed)
    BY <1>3, <1>4, ReplayedAlike
  <2> QED BY <2>1, <1>2, <1>3 DEF SameLinks
<1>6. ASSUME runs[r].resumed # 0
      PROVE  /\ SameSlot(runs[r].resumed, runs[r].aid, runs[r].config)'
             /\ Quiet(runs[r].resumed)'
  <2>1. runs[r].resumed \in RunIds
    BY <1>1, <1>4, <1>6
  <2>2. SameLinks(runs[r].resumed)
    BY <2>1
  <2> QED BY <2>1, <2>2, <1>2, <1>3, <1>6 DEF SameSlot, SameLinks
<1> QED BY <1>2, <1>3, <1>5, <1>6 DEF SameLinks

\* They keep what a task that has prepared rests on, but for new rows.
LEMMA PreparedTaskKept ==
  ASSUME TypeOK, TypeOK', Succession, Prepared, Len(runs) <= Len(runs'),
         \A r \in RunIds : SameLinks(r),
         \A r \in RunIds : Quiet(r) => runs'[r].fills = runs[r].fills /\ Quiet(r)',
         NEW u \in Tasks, Claimless(tasks[u]),
         tasks'[u].aid = tasks[u].aid, tasks'[u].config = tasks[u].config,
         tasks'[u].resume = tasks[u].resume, tasks'[u].carried = tasks[u].carried
  PROVE  /\ tasks'[u].carried = Replayed(runs', tasks'[u].resume)
         /\ tasks'[u].resume # 0 =>
              /\ tasks'[u].resume \in RunIds
              /\ SameSlot(tasks[u].resume, tasks[u].aid, tasks[u].config)'
              /\ Quiet(tasks[u].resume)'
              /\ \A r \in RunIds : runs'[r].resumed # tasks'[u].resume
<1> DEFINE p == tasks[u].resume
<1>1. RunIds = 1 .. Len(runs) /\ Len(runs) \in Nat
  BY TypeFacts
<1>2. /\ tasks[u].carried = Replayed(runs, p)
      /\ p # 0 =>
           /\ p \in RunIds
           /\ SameSlot(p, tasks[u].aid, tasks[u].config)
           /\ Quiet(p)
           /\ \A r \in RunIds : runs[r].resumed # p
  BY DEF Prepared, Claimless
<1>3. p \in 0 .. Len(runs)
  BY <1>1, <1>2
<1>4. Replayed(runs', p) = Replayed(runs, p)
  BY <1>2, <1>3, ReplayedAlike
<1>5. ASSUME p # 0
      PROVE  /\ SameSlot(p, tasks[u].aid, tasks[u].config)'
             /\ Quiet(p)'
             /\ \A r \in RunIds : runs'[r].resumed # p
  <2>1. p \in RunIds /\ SameLinks(p)
    BY <1>2, <1>5
  <2> QED BY <2>1, <1>2, <1>5 DEF SameSlot, SameLinks
<1> QED BY <1>2, <1>4, <1>5

\* With no new row, the three links of IInv stand.
LEMMA LinksKept ==
  ASSUME TypeOK, TypeOK', Succession, Prepared, ChainIsALine,
         Len(runs') = Len(runs),
         \A r \in RunIds : SameLinks(r),
         \A r \in RunIds : Quiet(r) => runs'[r].fills = runs[r].fills /\ Quiet(r)',
         \A u \in Tasks : Claimless(tasks'[u]) =>
           /\ Claimless(tasks[u])
           /\ tasks'[u].aid = tasks[u].aid /\ tasks'[u].config = tasks[u].config
           /\ tasks'[u].resume = tasks[u].resume /\ tasks'[u].carried = tasks[u].carried
  PROVE  Succession' /\ Prepared' /\ ChainIsALine'
<1>1. RunIds' = RunIds /\ Len(runs) \in Nat /\ Len(runs) <= Len(runs')
  BY TypeFacts DEF RunIds
<1>2. Succession'
  BY <1>1, SuccessorsKept DEF Succession
<1>3. Prepared'
  BY <1>1, PreparedTaskKept DEF Prepared, Claimless
<1>4. ChainIsALine'
  BY <1>1 DEF ChainIsALine, SameLinks
<1> QED BY <1>2, <1>3, <1>4

\* Steps under which no task changes hands.
LEMMA OwnershipKept ==
  ASSUME TypeOK, Ownership, live' = live, markers' = markers,
         \A u \in Tasks :
           /\ tasks'[u].aid = tasks[u].aid
           /\ tasks'[u].phase = "free" <=> tasks[u].phase = "free"
           /\ tasks'[u].cancel => tasks[u].cancel
           /\ Over(tasks[u]) => Over(tasks'[u])
  PROVE  Ownership'
<1>1. \A a \in Assignments : live[a] # None => live[a] \in Tasks
  BY DEF TypeOK
<1>2. \A t \in markers : t \in Tasks
  BY DEF TypeOK
<1> QED BY <1>1, <1>2 DEF Ownership, Over

\* Steps under which no task gets a row.
LEMMA RowHeldKept ==
  ASSUME TypeOK, RowHeld, Len(runs') = Len(runs),
         \A r \in RunIds : SameLinks(r),
         \A u \in Tasks :
           \/ NoRun(u)'
           \/ /\ tasks'[u].run = tasks[u].run
              /\ tasks'[u].aid = tasks[u].aid
              /\ tasks'[u].phase \in Starting \cup {"free"} =>
                   tasks[u].phase \in Starting \cup {"free"}
              /\ tasks'[u].phase \in Looping \cup {"ending", "auditing"} =>
                   tasks[u].phase \in Looping \cup {"ending", "auditing"}
  PROVE  RowHeld'
<1>1. \A u \in Tasks : tasks[u].run \in Nat /\ tasks[u].run <= Len(runs)
  BY TypeFacts DEF RowHeld, Task
<1>2. Len(runs) \in Nat /\ RunIds = 1 .. Len(runs)
  BY TypeFacts
<1>3. \A u \in Tasks :
        /\ tasks'[u].run <= Len(runs')
        /\ tasks'[u].phase \in Starting \cup {"free"} => tasks'[u].run = 0
        /\ tasks'[u].phase \in Looping \cup {"ending", "auditing"} => tasks'[u].run # 0
        /\ tasks'[u].run # 0 => runs'[tasks'[u].run].aid = tasks'[u].aid
  <2> SUFFICES ASSUME NEW u \in Tasks
               PROVE  /\ tasks'[u].run <= Len(runs')
                      /\ tasks'[u].phase \in Starting \cup {"free"} => tasks'[u].run = 0
                      /\ tasks'[u].phase \in Looping \cup {"ending", "auditing"} =>
                           tasks'[u].run # 0
                      /\ tasks'[u].run # 0 => runs'[tasks'[u].run].aid = tasks'[u].aid
    OBVIOUS
  <2>1. CASE NoRun(u)'
    BY <2>1, <1>2 DEF NoRun, Looping
  <2>2. CASE ~NoRun(u)'
    BY <2>2, <1>1, <1>2 DEF RowHeld, SameLinks
  <2> QED BY <2>1, <2>2
<1>4. \A t, u \in Tasks : tasks'[t].run # 0 /\ tasks'[t].run = tasks'[u].run => t = u
  <2>1. \A u \in Tasks : tasks'[u].run # 0 => tasks'[u].run = tasks[u].run
    BY DEF NoRun
  <2> QED BY <2>1 DEF RowHeld
<1> QED BY <1>3, <1>4 DEF RowHeld

\* A task that keeps its fields, and whose row keeps its ledger, stays marked.
LEMMA MarkedTaskKept ==
  ASSUME TypeOK, RowHeld, NEW u \in Tasks, SameTask(u), MarkedBy(tasks[u], runs[tasks[u].run]),
         tasks[u].run # 0 => SameLedger(tasks[u].run)
  PROVE  MarkedBy(tasks'[u], runs'[tasks'[u].run])
<1>1. tasks[u].run = 0 => tasks[u].phase \notin Looping \cup {"ending", "auditing"}
  BY DEF RowHeld
<1>2. CASE tasks[u].run = 0
  <2>1. tasks[u].phase \notin {"claimed", "candle", "flushed", "ending"}
        /\ tasks[u].phase \notin Looping
    BY <1>1, <1>2 DEF Looping
  <2> QED BY <2>1 DEF MarkedBy, SameTask
<1>3. CASE tasks[u].run # 0
  BY <1>3 DEF MarkedBy, SameTask, SameLedger
<1> QED BY <1>2, <1>3

\* A task that has no run owes no row anything.
LEMMA NoRunIsMarked ==
  ASSUME NEW u \in Tasks, NoRun(u)'
  PROVE  MarkedBy(tasks'[u], runs'[tasks'[u].run])
BY DEF NoRun, MarkedBy, Looping

-----------------------------------------------------------------------------
(***************************************************************************)
(* The two shapes of a step.                                               *)
(***************************************************************************)
\* Steps in which every task keeps its fields, but for a cancellation, or
\* gives its place up, and no row changes its links or its ledger.
LEMMA TasksGoOn ==
  ASSUME IInv, TypeOK', Len(runs') = Len(runs),
         \A r \in RunIds : SameLinks(r) /\ SameLedger(r),
         \A u \in Tasks : NoRun(u)' \/ (SameTask(u) /\ (tasks[u].cancel => tasks'[u].cancel))
  PROVE  RowHeld' /\ Marked' /\ HaltStands' /\ Succession' /\ Prepared' /\ ChainIsALine'
<1> USE DEF IInv
<1>1. RowHeld'
  <2>1. \A u \in Tasks : NoRun(u)' \/ SameTask(u)
    OBVIOUS
  <2> QED BY <2>1, RowHeldKept DEF SameTask
<1>2. Marked'
  <2> SUFFICES ASSUME NEW u \in Tasks PROVE MarkedBy(tasks'[u], runs'[tasks'[u].run])
    BY DEF Marked
  <2>1. CASE NoRun(u)'
    BY <2>1, NoRunIsMarked
  <2>2. CASE SameTask(u)
    <3>1. tasks[u].run # 0 => tasks[u].run \in RunIds
      BY TypeFacts DEF RowHeld, Task
    <3> QED BY <2>2, <3>1, MarkedTaskKept DEF Marked
  <2> QED BY <2>1, <2>2
<1>3. HaltStands'
  BY DEF HaltStands, RunIds, SameLedger
<1>4. ASSUME NEW r \in RunIds, Quiet(r)
      PROVE  runs'[r].fills = runs[r].fills /\ Quiet(r)'
  <2>1. runs'[r].fills = runs[r].fills /\ runs'[r].cause # "risk"
    BY <1>4 DEF SameLedger, Quiet
  <2>2. ASSUME NEW u \in Tasks, tasks'[u].run = r
        PROVE  Still(tasks'[u])
    <3>1. r # 0
      BY TypeFacts
    <3>2. SameTask(u) /\ (tasks[u].cancel => tasks'[u].cancel)
      BY <2>2, <3>1 DEF NoRun
    <3> QED BY <3>2, <2>2, <1>4 DEF SameTask, Still, Quiet
  <2> QED BY <2>1, <2>2 DEF Quiet
<1>5. ASSUME NEW u \in Tasks, Claimless(tasks'[u])
      PROVE  /\ Claimless(tasks[u])
             /\ tasks'[u].aid = tasks[u].aid /\ tasks'[u].config = tasks[u].config
             /\ tasks'[u].resume = tasks[u].resume /\ tasks'[u].carried = tasks[u].carried
  BY <1>5 DEF SameTask, Claimless, NoRun
<1>6. Succession' /\ Prepared' /\ ChainIsALine'
  BY <1>4, <1>5, LinksKept
<1> QED BY <1>1, <1>2, <1>3, <1>6

\* Steps that touch nothing IInv reads.
LEMMA Inert ==
  ASSUME IInv, TypeOK', Len(runs') = Len(runs), live' = live, markers' = markers,
         \A r \in RunIds : SameLinks(r) /\ SameLedger(r),
         \A u \in Tasks : SameTask(u) /\ tasks'[u].cancel = tasks[u].cancel
  PROVE  IInv'
<1>1. Ownership'
  BY OwnershipKept DEF IInv, SameTask, Over
<1>2. \A u \in Tasks : NoRun(u)' \/ (SameTask(u) /\ (tasks[u].cancel => tasks'[u].cancel))
  OBVIOUS
<1> QED BY <1>1, <1>2, TasksGoOn DEF IInv

\* Steps of one task that has its place and keeps its row, or has none: it may
\* move on, write its own row's ledger unless it is still, and take a
\* cancellation by winding down.
LEMMA OneTaskStep ==
  ASSUME IInv, TypeOK', Len(runs') = Len(runs), live' = live, markers' = markers,
         NEW t \in Tasks,
         \A u \in Tasks : u # t => tasks'[u] = tasks[u],
         \A r \in RunIds : SameLinks(r) /\ (r # tasks[t].run => SameLedger(r)),
         tasks'[t].aid = tasks[t].aid,
         tasks'[t].run = tasks[t].run,
         tasks[t].phase # "free", tasks'[t].phase # "free",
         tasks'[t].cancel => tasks[t].cancel,
         Over(tasks[t]) => Over(tasks'[t]),
         tasks'[t].phase \in Starting => tasks[t].phase \in Starting,
         tasks'[t].phase \in Looping \cup {"ending", "auditing"} =>
           tasks[t].phase \in Looping \cup {"ending", "auditing"},
         Claimless(tasks'[t]) =>
           /\ Claimless(tasks[t])
           /\ tasks'[t].config = tasks[t].config
           /\ tasks'[t].resume = tasks[t].resume /\ tasks'[t].carried = tasks[t].carried,
         MarkedBy(tasks'[t], runs'[tasks'[t].run]),
         tasks[t].run # 0 =>
           LET r == tasks[t].run
           IN  /\ runs'[r].cause = "risk" => runs'[r].risk = "halted"
               /\ Still(tasks[t]) =>
                    /\ Still(tasks'[t])
                    /\ runs'[r].fills = runs[r].fills
                    /\ runs'[r].cause = "risk" => runs[r].cause = "risk"
  PROVE  IInv'
<1> USE DEF IInv
<1> DEFINE own == tasks[t].run
<1>1. Ownership'
  <2> SUFFICES ASSUME NEW u \in Tasks
               PROVE  /\ tasks'[u].aid = tasks[u].aid
                      /\ tasks'[u].phase = "free" <=> tasks[u].phase = "free"
                      /\ tasks'[u].cancel => tasks[u].cancel
                      /\ Over(tasks[u]) => Over(tasks'[u])
    BY OwnershipKept
  <2>1. CASE u = t
    BY <2>1
  <2>2. CASE u # t
    BY <2>2 DEF Over
  <2> QED BY <2>1, <2>2
<1>2. RowHeld'
  <2>1. \A u \in Tasks :
           /\ tasks'[u].run = tasks[u].run
           /\ tasks'[u].aid = tasks[u].aid
           /\ tasks'[u].phase \in Starting \cup {"free"} =>
                tasks[u].phase \in Starting \cup {"free"}
           /\ tasks'[u].phase \in Looping \cup {"ending", "auditing"} =>
                tasks[u].phase \in Looping \cup {"ending", "auditing"}
    OBVIOUS
  <2> QED BY <2>1, RowHeldKept
<1>3. own # 0 => own \in RunIds
  BY TypeFacts DEF RowHeld, Task
<1>4. \A u \in Tasks : u # t /\ tasks[u].run # 0 => tasks[u].run \in RunIds /\ tasks[u].run # own
  BY TypeFacts DEF RowHeld, Task
<1>5. Marked'
  <2> SUFFICES ASSUME NEW u \in Tasks, u # t PROVE MarkedBy(tasks'[u], runs'[tasks'[u].run])
    BY DEF Marked
  <2>1. SameTask(u)
    BY DEF SameTask
  <2>2. tasks[u].run # 0 => SameLedger(tasks[u].run)
    BY <1>4
  <2> QED BY <2>1, <2>2, MarkedTaskKept DEF Marked
<1>6. HaltStands'
  <2> SUFFICES ASSUME NEW r \in RunIds, runs'[r].cause = "risk"
               PROVE  runs'[r].risk = "halted"
    BY DEF HaltStands, RunIds
  <2>1. CASE r = own
    BY <2>1, TypeFacts
  <2>2. CASE r # own
    BY <2>2 DEF SameLedger, HaltStands
  <2> QED BY <2>1, <2>2
<1>7. ASSUME NEW r \in RunIds, Quiet(r)
      PROVE  runs'[r].fills = runs[r].fills /\ Quiet(r)'
  <2>1. r # 0
    BY TypeFacts
  <2>2. CASE r = own
    <3>1. Still(tasks[t])
      BY <1>7, <2>2 DEF Quiet
    <3>2. /\ Still(tasks'[t])
          /\ runs'[r].fills = runs[r].fills
          /\ runs'[r].cause # "risk"
      BY <3>1, <2>1, <2>2, <1>7 DEF Quiet
    <3>3. \A u \in Tasks : tasks'[u].run = r => u = t
      BY <2>1, <2>2, <1>4
    <3> QED BY <3>2, <3>3 DEF Quiet
  <2>3. CASE r # own
    <3>1. SameLedger(r)
      BY <2>3
    <3>2. ASSUME NEW u \in Tasks, tasks'[u].run = r
          PROVE  Still(tasks'[u])
      <4>1. u # t
        BY <3>2, <2>3
      <4> QED BY <4>1, <3>2, <1>7 DEF Quiet, Still
    <3> QED BY <3>1, <3>2, <1>7 DEF Quiet, SameLedger
  <2> QED BY <2>2, <2>3
<1>8. ASSUME NEW u \in Tasks, Claimless(tasks'[u])
      PROVE  /\ Claimless(tasks[u])
             /\ tasks'[u].aid = tasks[u].aid /\ tasks'[u].config = tasks[u].config
             /\ tasks'[u].resume = tasks[u].resume /\ tasks'[u].carried = tasks[u].carried
  <2>1. CASE u = t
    BY <2>1, <1>8
  <2>2. CASE u # t
    BY <2>2, <1>8 DEF Claimless
  <2> QED BY <2>1, <2>2
<1>9. Succession' /\ Prepared' /\ ChainIsALine'
  <2>1. \A r \in RunIds : SameLinks(r)
    OBVIOUS
  <2> QED BY <2>1, <1>7, <1>8, LinksKept
<1> QED BY <1>1, <1>2, <1>5, <1>6, <1>9

-----------------------------------------------------------------------------
(***************************************************************************)
(* The steps of a run task.                                                *)
(***************************************************************************)
\* A fault spends from the environment's allowance.
LEMMA FaultTyped ==
  ASSUME TypeOK, NEW kind, Fault(kind)
  PROVE  spent' \in [commands : 0 .. MaxCommands, faults : 0 .. MaxFaults]
<1>1. spent \in [commands : 0 .. MaxCommands, faults : 0 .. MaxFaults]
  BY DEF TypeOK
<1>2. spent.faults + 1 \in 0 .. MaxFaults
  BY <1>1, SupervisorAssumption DEF Fault
<1>3. spent' = [spent EXCEPT !.faults = spent.faults + 1]
  BY DEF Fault
<1> QED BY <1>1, <1>2, <1>3

\* A step of tasks and rows is well typed when they are.
LEMMA TypeOKByTasks ==
  ASSUME TypeOK, UNCHANGED <<assignments, settings, procVars>>,
         spent' \in [commands : 0 .. MaxCommands, faults : 0 .. MaxFaults],
         runs' \in Seq(RunRow), Len(runs') <= MaxRuns,
         tasks' \in [Tasks -> Task]
  PROVE  TypeOK'
BY DEF TypeOK, procVars

\* One row rewritten.
LEMMA RowWritten ==
  ASSUME TypeOK, NEW r \in RunIds, NEW row \in RunRow, runs' = [runs EXCEPT ![r] = row]
  PROVE  /\ runs' \in Seq(RunRow)
         /\ Len(runs') = Len(runs)
         /\ runs'[r] = row
         /\ \A q \in RunIds : q # r => runs'[q] = runs[q]
BY RowReplaced, TypeFacts

\* One task rewritten.
LEMMA TaskWritten ==
  ASSUME TypeOK, NEW t \in Tasks, NEW tk \in Task, tasks' = [tasks EXCEPT ![t] = tk]
  PROVE  /\ tasks' \in [Tasks -> Task]
         /\ tasks'[t] = tk
         /\ \A u \in Tasks : u # t => tasks'[u] = tasks[u]
BY DEF TypeOK

\* A task moves on and writes no row's ledger or links.
LEMMA TaskMoves ==
  ASSUME IInv, NEW t \in Tasks, NEW tk \in Task,
         tasks' = [tasks EXCEPT ![t] = tk],
         UNCHANGED <<dbVars, procVars>>,
         spent' \in [commands : 0 .. MaxCommands, faults : 0 .. MaxFaults],
         tk.aid = tasks[t].aid, tk.run = tasks[t].run,
         tasks[t].phase # "free", tk.phase # "free",
         tk.cancel => tasks[t].cancel,
         Over(tasks[t]) => Over(tk),
         tk.phase \in Starting => tasks[t].phase \in Starting,
         tk.phase \in Looping \cup {"ending", "auditing"} =>
           tasks[t].phase \in Looping \cup {"ending", "auditing"},
         Claimless(tk) =>
           /\ Claimless(tasks[t])
           /\ tk.config = tasks[t].config
           /\ tk.resume = tasks[t].resume /\ tk.carried = tasks[t].carried,
         MarkedBy(tk, runs[tk.run]),
         Still(tasks[t]) => Still(tk)
  PROVE  IInv'
<1>1. /\ tasks' \in [Tasks -> Task]
      /\ tasks'[t] = tk
      /\ \A u \in Tasks : u # t => tasks'[u] = tasks[u]
  BY TaskWritten DEF IInv
<1>2. runs' = runs /\ live' = live /\ markers' = markers
  BY DEF dbVars, procVars
<1>3. TypeOK'
  BY <1>1, TypeOKByTasks, <1>2 DEF IInv, TypeOK, dbVars
<1>4. \A r \in RunIds : SameLinks(r) /\ SameLedger(r)
  BY <1>2 DEF SameLinks, SameLedger
<1>5. tasks[t].run # 0 =>
        (runs'[tasks[t].run].cause = "risk" => runs'[tasks[t].run].risk = "halted")
  <2>1. tasks[t].run # 0 => tasks[t].run \in RunIds
    BY TypeFacts DEF IInv, RowHeld, Task
  <2> QED BY <1>2, <2>1 DEF IInv, HaltStands
<1> QED BY <1>1, <1>2, <1>3, <1>4, <1>5, OneTaskStep

\* A task that holds a row moves on and writes its ledger.
LEMMA TaskWrites ==
  ASSUME IInv, NEW t \in Tasks, NEW tk \in Task, NEW row \in RunRow,
         tasks' = [tasks EXCEPT ![t] = tk],
         runs' = [runs EXCEPT ![tasks[t].run] = row],
         UNCHANGED <<assignments, settings, procVars>>,
         spent' \in [commands : 0 .. MaxCommands, faults : 0 .. MaxFaults],
         tk.aid = tasks[t].aid, tk.run = tasks[t].run,
         tasks[t].phase \in Looping \cup {"ending", "auditing"},
         tk.phase \in Looping \cup {"ending", "auditing", "done"},
         tk.cancel => tasks[t].cancel,
         Over(tasks[t]) => Over(tk),
         MarkedBy(tk, row),
         row.cause = "risk" => row.risk = "halted",
         LET old == runs[tasks[t].run]
         IN  /\ row.aid = old.aid /\ row.config = old.config
             /\ row.resumed = old.resumed /\ row.carried = old.carried
             /\ Still(tasks[t]) =>
                  /\ Still(tk)
                  /\ row.fills = old.fills
                  /\ row.cause = "risk" => old.cause = "risk"
  PROVE  IInv'
<1> DEFINE own == tasks[t].run
<1>1. /\ tasks' \in [Tasks -> Task]
      /\ tasks'[t] = tk
      /\ \A u \in Tasks : u # t => tasks'[u] = tasks[u]
  BY TaskWritten DEF IInv
<1>2. own \in RunIds
  BY TypeFacts DEF IInv, RowHeld, Task
<1>3. /\ runs' \in Seq(RunRow)
      /\ Len(runs') = Len(runs)
      /\ runs'[own] = row
      /\ \A q \in RunIds : q # own => runs'[q] = runs[q]
  <2> HIDE DEF own
  <2>1. runs' = [runs EXCEPT ![own] = row]
    BY DEF own
  <2> QED BY ZenonT(60), <1>2, <2>1, RowWritten DEF IInv
<1>4. TypeOK'
  BY <1>1, <1>3, TypeOKByTasks, TypeFacts DEF IInv
<1>5. live' = live /\ markers' = markers
  BY DEF procVars
<1>6. \A r \in RunIds : SameLinks(r) /\ (r # own => SameLedger(r))
  <2> SUFFICES ASSUME NEW r \in RunIds PROVE SameLinks(r) /\ (r # own => SameLedger(r))
    OBVIOUS
  <2>1. CASE r = own
    BY <2>1, <1>3 DEF SameLinks
  <2>2. CASE r # own
    BY <2>2, <1>3 DEF SameLinks, SameLedger
  <2> QED BY <2>1, <2>2
<1>7. MarkedBy(tasks'[t], runs'[tasks'[t].run])
  BY <1>1, <1>3
<1>8. ~Claimless(tk) /\ tk.phase \notin Starting /\ tk.phase # "free" /\ tasks[t].phase # "free"
  BY DEF Claimless, Starting, Looping
<1> QED BY <1>1, <1>3, <1>4, <1>5, <1>6, <1>7, <1>8, OneTaskStep

\* The two shapes, one proof per handler of a run task.
LEMMA BuildEngineStep ==
  ASSUME IInv, NEW t \in Tasks, BuildEngine(t)
  PROVE  IInv'
<1> DEFINE tk == [tasks[t] EXCEPT !.phase = "claiming"]
<1>1. /\ tasks[t] \in Task /\ tasks[t].phase = "prepared" /\ ~tasks[t].cancel
      /\ tasks' = [tasks EXCEPT ![t] = tk]
      /\ UNCHANGED <<dbVars, procVars, spent>>
  BY TypeFacts DEF BuildEngine, At, Move, IInv
<1>2. /\ tk \in Task /\ tk.phase = "claiming"
      /\ tk.aid = tasks[t].aid /\ tk.config = tasks[t].config /\ tk.run = tasks[t].run
      /\ tk.resume = tasks[t].resume /\ tk.carried = tasks[t].carried
      /\ tk.cancel = tasks[t].cancel /\ tk.buffered = tasks[t].buffered
      /\ tk.owed = tasks[t].owed
  BY <1>1 DEF Task, Phase
<1> HIDE DEF tk
<1>3. MarkedBy(tasks[t], runs[tasks[t].run])
  BY DEF IInv, Marked
<1>4. MarkedBy(tk, runs[tk.run])
  BY <1>1, <1>2, <1>3 DEF MarkedBy, Looping
<1>5. spent' \in [commands : 0 .. MaxCommands, faults : 0 .. MaxFaults]
  BY <1>1 DEF IInv, TypeOK
<1> QED BY <1>1, <1>2, <1>4, <1>5, TaskMoves DEF Claimless, Over, Still, Starting, Looping

\* A start fails: the task ends without a row or leaves it failed.
LEMMA StartFailsStep ==
  ASSUME IInv, NEW t \in Tasks, StartFails(t)
  PROVE  IInv'
<1> DEFINE tk == [tasks[t] EXCEPT !.phase = "done", !.outcome = "raised"]
<1>1. /\ tasks[t] \in Task /\ ~tasks[t].cancel
      /\ tasks[t].phase \in {"preparing", "prepared", "claiming", "claimed"}
      /\ tasks' = [tasks EXCEPT ![t] = tk]
      /\ UNCHANGED <<dbVars, procVars>>
  BY TypeFacts DEF StartFails, At, Finish, IInv
<1>2. /\ tk \in Task /\ tk.phase = "done"
      /\ tk.aid = tasks[t].aid /\ tk.run = tasks[t].run
      /\ tk.cancel = tasks[t].cancel
  BY <1>1 DEF Task, Phase
<1> HIDE DEF tk
<1>3. MarkedBy(tk, runs[tk.run])
  BY <1>2 DEF MarkedBy, Looping
<1>4. spent' \in [commands : 0 .. MaxCommands, faults : 0 .. MaxFaults]
  BY FaultTyped DEF IInv, StartFails
<1> QED BY <1>1, <1>2, <1>3, <1>4, TaskMoves DEF Claimless, Over, Still, Starting, Looping

\* A task goes stale: only its staleness changes.
LEMMA StallStep ==
  ASSUME IInv, NEW t \in Tasks, Stall(t)
  PROVE  IInv'
<1> DEFINE tk == [tasks[t] EXCEPT !.stale = TRUE]
<1>1. /\ tasks[t] \in Task /\ tasks[t].phase # "free"
      /\ tasks' = [tasks EXCEPT ![t] = tk]
      /\ UNCHANGED <<dbVars, procVars>>
  BY TypeFacts DEF Stall, IInv
<1>2. /\ tk \in Task /\ tk.phase = tasks[t].phase
      /\ tk.aid = tasks[t].aid /\ tk.config = tasks[t].config /\ tk.run = tasks[t].run
      /\ tk.resume = tasks[t].resume /\ tk.carried = tasks[t].carried
      /\ tk.cancel = tasks[t].cancel /\ tk.buffered = tasks[t].buffered
      /\ tk.owed = tasks[t].owed /\ tk.cause = tasks[t].cause
  BY <1>1 DEF Task
<1> HIDE DEF tk
<1>3. MarkedBy(tasks[t], runs[tasks[t].run])
  BY DEF IInv, Marked
<1>4. MarkedBy(tk, runs[tk.run])
  BY <1>1, <1>2, <1>3 DEF MarkedBy, Looping
<1>5. spent' \in [commands : 0 .. MaxCommands, faults : 0 .. MaxFaults]
  BY FaultTyped DEF IInv, Stall
<1>6. (Over(tasks[t]) => Over(tk)) /\ (Still(tasks[t]) => Still(tk))
  BY <1>2 DEF Over, Still
<1>7. Claimless(tk) => Claimless(tasks[t])
  BY <1>2 DEF Claimless
<1> QED BY <1>1, <1>2, <1>4, <1>5, <1>6, <1>7, TaskMoves

\* The row a task holds is in the table.
LEMMA OwnRow ==
  ASSUME IInv, NEW t \in Tasks, tasks[t].phase \in Looping \cup {"ending", "auditing"}
  PROVE  /\ tasks[t] \in Task
         /\ tasks[t].run \in RunIds
         /\ runs[tasks[t].run] \in RunRow
         /\ MarkedBy(tasks[t], runs[tasks[t].run])
         /\ runs[tasks[t].run].cause = "risk" => runs[tasks[t].run].risk = "halted"
BY TypeFacts DEF IInv, RowHeld, Task, Marked, HaltStands

\* The first checkpoint, and the fill its reconciliation may have recovered.
LEMMA FirstCheckpointStep ==
  ASSUME IInv, NEW t \in Tasks, FirstCheckpoint(t)
  PROVE  IInv'
<1>1. PICK n \in 0 .. 1 :
        /\ n <= MaxFills
        /\ runs' = [runs EXCEPT ![tasks[t].run].risk = "ok", ![tasks[t].run].fills = n]
  BY DEF FirstCheckpoint
<1> DEFINE old == runs[tasks[t].run]
           tk  == [tasks[t] EXCEPT !.phase = "idle"]
           row == [old EXCEPT !.risk = "ok", !.fills = n]
<1>2. /\ tasks[t].phase = "claimed" /\ ~tasks[t].cancel
      /\ tasks' = [tasks EXCEPT ![t] = tk]
      /\ UNCHANGED <<assignments, settings, procVars, spent>>
      /\ runs' = [runs EXCEPT ![tasks[t].run] = row]
  BY <1>1 DEF FirstCheckpoint, At, Move
<1>3. /\ tasks[t] \in Task /\ old \in RunRow /\ MarkedBy(tasks[t], old)
      /\ n \in 0 .. MaxFills
  BY <1>1, <1>2, OwnRow, TypeFacts DEF IInv, Looping
<1>4. /\ tk \in Task /\ tk.phase = "idle"
      /\ tk.aid = tasks[t].aid /\ tk.run = tasks[t].run
      /\ tk.cancel = tasks[t].cancel /\ tk.buffered = tasks[t].buffered
      /\ tk.owed = tasks[t].owed
  BY <1>3 DEF Task, Phase
<1>5. /\ row \in RunRow
      /\ row.aid = old.aid /\ row.config = old.config
      /\ row.resumed = old.resumed /\ row.carried = old.carried
      /\ row.cause = old.cause
  BY <1>3 DEF RunRow
<1> HIDE DEF tk, row
<1>6. MarkedBy(tk, row) /\ row.cause = None
  BY <1>2, <1>3, <1>4, <1>5 DEF MarkedBy, Looping
<1>7. spent' \in [commands : 0 .. MaxCommands, faults : 0 .. MaxFaults]
  BY <1>2 DEF IInv, TypeOK
<1> QED BY <1>2, <1>4, <1>5, <1>6, <1>7, TaskWrites DEF Over, Still, Looping, None

\* A candle begins: the row is marked incomplete before a fill can wait for it.
LEMMA BeginCandleStep ==
  ASSUME IInv, NEW t \in Tasks, BeginCandle(t)
  PROVE  IInv'
<1>1. PICK n \in 0 .. 1 :
        /\ runs[tasks[t].run].fills + n <= MaxFills
        /\ tasks' = [tasks EXCEPT ![t].phase = "candle", ![t].buffered = n]
  BY DEF BeginCandle
<1> DEFINE old == runs[tasks[t].run]
           tk  == [tasks[t] EXCEPT !.phase = "candle", !.buffered = n]
           row == [old EXCEPT !.risk = "incomplete"]
<1>2. /\ tasks[t].phase = "idle" /\ ~tasks[t].cancel
      /\ tasks' = [tasks EXCEPT ![t] = tk]
      /\ UNCHANGED <<assignments, settings, procVars, spent>>
      /\ runs' = [runs EXCEPT ![tasks[t].run] = row]
  BY <1>1 DEF BeginCandle, At
<1>3. tasks[t] \in Task /\ old \in RunRow /\ MarkedBy(tasks[t], old)
  BY <1>2, OwnRow DEF Looping
<1>4. /\ tk \in Task /\ tk.phase = "candle"
      /\ tk.aid = tasks[t].aid /\ tk.run = tasks[t].run
      /\ tk.cancel = tasks[t].cancel /\ tk.buffered = n
      /\ tk.owed = tasks[t].owed
  BY <1>3 DEF Task, Phase
<1>5. /\ row \in RunRow /\ row.risk = "incomplete" /\ row.fills = old.fills
      /\ row.aid = old.aid /\ row.config = old.config
      /\ row.resumed = old.resumed /\ row.carried = old.carried
      /\ row.cause = old.cause
  BY <1>3 DEF RunRow
<1>6. old.fills + n <= MaxFills
  BY <1>1
<1> HIDE DEF tk, row, old
<1>7. MarkedBy(tk, row) /\ row.cause = None
  BY <1>2, <1>3, <1>4, <1>5, <1>6 DEF MarkedBy, Looping
<1>8. spent' \in [commands : 0 .. MaxCommands, faults : 0 .. MaxFaults]
  BY <1>2 DEF IInv, TypeOK
<1> QED BY <1>2, <1>4, <1>5, <1>7, <1>8, TaskWrites DEF Over, Still, Looping, None, old

\* What a flush makes of a row.
LEMMA FlushedRow ==
  ASSUME NEW row \in RunRow, NEW tk \in Task, row.fills + tk.buffered <= MaxFills
  PROVE  /\ Flushed(row, tk) \in RunRow
         /\ Flushed(row, tk).fills = row.fills + tk.buffered
         /\ Flushed(row, tk).risk = (IF tk.owed = None THEN row.risk ELSE tk.owed)
         /\ Flushed(row, tk).aid = row.aid /\ Flushed(row, tk).config = row.config
         /\ Flushed(row, tk).resumed = row.resumed /\ Flushed(row, tk).carried = row.carried
         /\ Flushed(row, tk).cause = row.cause
<1> DEFINE fills == row.fills + tk.buffered
           risk  == IF tk.owed = None THEN row.risk ELSE tk.owed
<1>1. fills \in 0 .. MaxFills
  <2>1. row.fills \in 0 .. MaxFills /\ tk.buffered \in 0 .. 1
    BY DEF RunRow, Task
  <2> QED BY <2>1, SupervisorAssumption
<1>2. risk \in {"incomplete", "ok", "halted"}
  BY DEF RunRow, Task
<1>3. Flushed(row, tk) = [row EXCEPT !.fills = fills, !.risk = risk]
  BY DEF Flushed
<1> HIDE DEF fills, risk
<1>4. /\ [row EXCEPT !.fills = fills, !.risk = risk] \in RunRow
      /\ [row EXCEPT !.fills = fills, !.risk = risk].fills = fills
      /\ [row EXCEPT !.fills = fills, !.risk = risk].risk = risk
      /\ [row EXCEPT !.fills = fills, !.risk = risk].aid = row.aid
      /\ [row EXCEPT !.fills = fills, !.risk = risk].config = row.config
      /\ [row EXCEPT !.fills = fills, !.risk = risk].resumed = row.resumed
      /\ [row EXCEPT !.fills = fills, !.risk = risk].carried = row.carried
      /\ [row EXCEPT !.fills = fills, !.risk = risk].cause = row.cause
  BY <1>1, <1>2 DEF RunRow
<1> QED BY <1>3, <1>4 DEF fills, risk

\* The buffered fill is committed to the row of the task.
LEMMA FlushCandleStep ==
  ASSUME IInv, NEW t \in Tasks, FlushCandle(t)
  PROVE  IInv'
<1>1. PICK stale \in BOOLEAN :
        tasks' = [tasks EXCEPT ![t].phase = "flushed", ![t].buffered = 0, ![t].stale = stale]
  <2>1. tasks[t].stale \in BOOLEAN
    BY TypeFacts DEF IInv, Task
  <2> QED BY <2>1 DEF FlushCandle
<1> DEFINE old == runs[tasks[t].run]
           tk  == [tasks[t] EXCEPT !.phase = "flushed", !.buffered = 0, !.stale = stale]
           row == Flushed(old, tasks[t])
<1>2. /\ tasks[t].phase = "candle" /\ ~tasks[t].cancel
      /\ tasks' = [tasks EXCEPT ![t] = tk]
      /\ UNCHANGED <<assignments, settings, procVars, spent>>
      /\ runs' = [runs EXCEPT ![tasks[t].run] = row]
  BY <1>1 DEF FlushCandle, At
<1>3. tasks[t] \in Task /\ old \in RunRow /\ MarkedBy(tasks[t], old)
  BY <1>2, OwnRow DEF Looping
<1>4. /\ tk \in Task /\ tk.phase = "flushed" /\ tk.buffered = 0
      /\ tk.aid = tasks[t].aid /\ tk.run = tasks[t].run
      /\ tk.cancel = tasks[t].cancel
      /\ tk.owed = tasks[t].owed
  <2> DEFINE empty == 0
  <2>1. empty \in 0 .. 1 /\ tk = [tasks[t] EXCEPT !.phase = "flushed", !.buffered = empty,
                                                  !.stale = stale]
    OBVIOUS
  <2> HIDE DEF empty
  <2>2. tk \in Task
    BY <1>3, <2>1 DEF Task, Phase
  <2> QED BY <2>2, <1>3 DEF Task
<1>5. /\ row \in RunRow /\ row.risk = old.risk
      /\ row.aid = old.aid /\ row.config = old.config
      /\ row.resumed = old.resumed /\ row.carried = old.carried
      /\ row.cause = old.cause
  <2>1. old.fills + tasks[t].buffered <= MaxFills /\ tasks[t].owed = None
    BY <1>2, <1>3 DEF MarkedBy
  <2> QED BY <2>1, <1>3, FlushedRow
<1> HIDE DEF tk, row, old
<1>6. MarkedBy(tk, row) /\ row.cause = None
  BY <1>2, <1>3, <1>4, <1>5 DEF MarkedBy, Looping
<1>7. spent' \in [commands : 0 .. MaxCommands, faults : 0 .. MaxFaults]
  BY <1>2 DEF IInv, TypeOK
<1> QED BY <1>2, <1>4, <1>5, <1>6, <1>7, TaskWrites DEF Over, Still, Looping, None, old

\* A candle ends: the row is complete or halted, and the cause of an end is noted.
LEMMA EndCandleStep ==
  ASSUME IInv, NEW t \in Tasks, EndCandle(t)
  PROVE  IInv'
<1> DEFINE old == runs[tasks[t].run]
           causeOf(halted) == IF halted THEN "risk"
                              ELSE IF Probe(t) \in {"kill", "switch"} THEN Probe(t) ELSE None
           rowOf(halted, n) ==
             [old EXCEPT !.risk = IF halted THEN "halted" ELSE "ok",
                         !.fills = @ + n,
                         !.cause = causeOf(halted),
                         !.held = causeOf(halted) = "kill" /\ ~StopOnItsWay(t)]
<1>1. PICK halted \in BOOLEAN, n \in 0 .. 1 :
        /\ n = 0 \/ (halted /\ old.fills < MaxFills)
        /\ runs' = [runs EXCEPT ![tasks[t].run] = rowOf(halted, n)]
        /\ tasks' = [tasks EXCEPT
             ![t].phase = IF causeOf(halted) = None THEN "idle" ELSE "ending",
             ![t].cause = causeOf(halted)]
  BY DEF EndCandle
<1> DEFINE cause == causeOf(halted)
           risk  == IF halted THEN "halted" ELSE "ok"
           fills == old.fills + n
           phase == IF cause = None THEN "idle" ELSE "ending"
           held  == cause = "kill" /\ ~StopOnItsWay(t)
           tk    == [tasks[t] EXCEPT !.phase = phase, !.cause = cause]
           row   == [old EXCEPT !.risk = risk, !.fills = fills, !.cause = cause, !.held = held]
<1>2. /\ tasks[t].phase = "flushed" /\ ~tasks[t].cancel
      /\ tasks' = [tasks EXCEPT ![t] = tk]
      /\ UNCHANGED <<assignments, settings, procVars, spent>>
      /\ runs' = [runs EXCEPT ![tasks[t].run] = row]
  <2>1. tasks' = [tasks EXCEPT ![t] = tk]
    BY <1>1
  <2>2. runs' = [runs EXCEPT ![tasks[t].run] = row]
    BY <1>1
  <2> QED BY <2>1, <2>2 DEF EndCandle, At
<1>3. tasks[t] \in Task /\ old \in RunRow /\ MarkedBy(tasks[t], old)
  BY <1>2, OwnRow DEF Looping
<1>4. /\ cause \in {"risk", "kill", "switch", None} /\ (cause = "risk" => risk = "halted")
      /\ risk \in {"incomplete", "ok", "halted"}
      /\ fills \in 0 .. MaxFills
      /\ phase = (IF cause = None THEN "idle" ELSE "ending")
      /\ held \in BOOLEAN
  <2>1. cause \in {"risk", "kill", "switch", None} /\ (cause = "risk" => risk = "halted")
    BY DEF None
  <2>2. fills \in 0 .. MaxFills
    <3>1. old.fills \in 0 .. MaxFills /\ n \in 0 .. 1
      BY <1>3 DEF RunRow
    <3> QED BY <3>1, <1>1, SupervisorAssumption
  <2>3. held \in BOOLEAN
    OBVIOUS
  <2> QED BY <2>1, <2>2, <2>3
<1> HIDE DEF cause, risk, fills, phase, held
<1>5. /\ tk \in Task /\ tk.phase = phase /\ tk.cause = cause
      /\ tk.buffered = tasks[t].buffered /\ tk.owed = tasks[t].owed
      /\ tk.aid = tasks[t].aid /\ tk.run = tasks[t].run
      /\ tk.cancel = tasks[t].cancel
  BY <1>3, <1>4 DEF Task, Phase, Cause
<1>6. /\ row \in RunRow /\ row.risk = risk /\ row.cause = cause /\ row.fills = fills
      /\ row.aid = old.aid /\ row.config = old.config
      /\ row.resumed = old.resumed /\ row.carried = old.carried
  BY <1>3, <1>4 DEF RunRow, Cause
<1> HIDE DEF tk, row, old
<1>7. MarkedBy(tk, row)
  <2>1. tk.buffered = 0 /\ tk.owed = None /\ phase \in {"idle", "ending"}
    BY <1>2, <1>3, <1>4, <1>5 DEF MarkedBy
  <2>2. row.fills + tk.buffered <= MaxFills
    BY <2>1, <1>4, <1>6
  <2> QED BY <2>1, <2>2, <1>4, <1>5, <1>6 DEF MarkedBy, Looping
<1>8. spent' \in [commands : 0 .. MaxCommands, faults : 0 .. MaxFaults]
  BY <1>2 DEF IInv, TypeOK
<1> QED BY <1>2, <1>4, <1>5, <1>6, <1>7, <1>8, TaskWrites DEF Over, Still, Looping, old

\* The loop ends for a cause that is neither a command nor the risk rail.
LEMMA EndingStep ==
  ASSUME IInv, NEW t \in Tasks, tasks[t].phase \in {"idle", "candle", "flushed"},
         NEW cause \in {"dry", "stop", "fail", "cancel"}, NEW owed \in Owed(t),
         Ending(t, cause, owed),
         UNCHANGED <<assignments, settings, procVars>>,
         spent' \in [commands : 0 .. MaxCommands, faults : 0 .. MaxFaults]
  PROVE  IInv'
<1> DEFINE old == runs[tasks[t].run]
           tk  == [tasks[t] EXCEPT !.phase = "ending", !.cause = cause,
                                   !.cancel = FALSE, !.owed = owed]
           row == [old EXCEPT !.cause = cause]
<1>1. /\ tasks' = [tasks EXCEPT ![t] = tk]
      /\ runs' = [runs EXCEPT ![tasks[t].run] = row]
  BY DEF Ending
<1>2. tasks[t] \in Task /\ old \in RunRow /\ MarkedBy(tasks[t], old)
  BY OwnRow DEF Looping
<1>3. /\ owed \in {None, "incomplete", "ok", "halted"}
      /\ tasks[t].phase = "candle" => owed = None
  BY DEF Owed
<1>4. /\ tk \in Task /\ tk.phase = "ending" /\ tk.cancel = FALSE
      /\ tk.buffered = tasks[t].buffered /\ tk.owed = owed
      /\ tk.aid = tasks[t].aid /\ tk.run = tasks[t].run
  BY <1>2, <1>3 DEF Task, Phase, Cause
<1>5. /\ row \in RunRow /\ row.risk = old.risk /\ row.cause = cause /\ row.fills = old.fills
      /\ row.aid = old.aid /\ row.config = old.config
      /\ row.resumed = old.resumed /\ row.carried = old.carried
  BY <1>2 DEF RunRow, Cause
<1>6. old.fills \in 0 .. MaxFills /\ tasks[t].buffered \in 0 .. 1
  BY <1>2 DEF RunRow, Task
<1> HIDE DEF tk, row, old
<1>7. MarkedBy(tk, row)
  <2>1. row.fills + tk.buffered <= MaxFills
    <3>1. CASE tasks[t].phase = "candle"
      BY <3>1, <1>2, <1>4, <1>5 DEF MarkedBy
    <3>2. CASE tasks[t].phase # "candle"
      BY <3>2, <1>2, <1>4, <1>5, <1>6 DEF MarkedBy
    <3> QED BY <3>1, <3>2
  <2>2. tk.buffered = 1 => row.risk = "incomplete" /\ tk.owed = None
    BY <1>2, <1>3, <1>4, <1>5 DEF MarkedBy
  <2> QED BY <2>1, <2>2, <1>4, <1>5 DEF MarkedBy, Looping
<1>8. Still(tasks[t]) => Still(tk)
  BY <1>2, <1>4 DEF Still, MarkedBy
<1> QED BY <1>1, <1>4, <1>5, <1>7, <1>8, TaskWrites DEF Over, Looping, old

\* The task sees its stop event and leaves the loop.
LEMMA SeeStopStep ==
  ASSUME IInv, NEW t \in Tasks, SeeStop(t)
  PROVE  IInv'
<1>1. PICK cause \in {"dry", "stop"} : Ending(t, cause, None)
  BY DEF SeeStop
<1>2. tasks[t].phase = "idle" /\ UNCHANGED <<assignments, settings, procVars, spent>>
  BY DEF SeeStop, At
<1>3. None \in Owed(t)
  BY <1>2 DEF Owed
<1>4. spent' \in [commands : 0 .. MaxCommands, faults : 0 .. MaxFaults]
  BY <1>2 DEF IInv, TypeOK
<1> QED BY <1>1, <1>2, <1>3, <1>4, EndingStep

\* The run fails inside the loop: it is to be wound down.
LEMMA RunFailsStep ==
  ASSUME IInv, NEW t \in Tasks, RunFails(t)
  PROVE  IInv'
<1>1. PICK owed \in Owed(t) : Ending(t, "fail", owed)
  BY DEF RunFails
<1>2. spent' \in [commands : 0 .. MaxCommands, faults : 0 .. MaxFaults]
  BY FaultTyped DEF IInv, RunFails
<1> QED BY <1>1, <1>2, EndingStep DEF RunFails, At

\* The wind-down commits what is buffered and then the status; either can fail.
LEMMA WindDownStep ==
  ASSUME IInv, NEW t \in Tasks, WindDown(t)
  PROVE  IInv'
<1> DEFINE old     == runs[tasks[t].run]
           flushed == Flushed(old, tasks[t])
           final   == [flushed EXCEPT !.status = StatusOf(tasks[t].cause), !.reason = None]
           after(raises) == IF raises THEN "raised" ELSE OutcomeOf(tasks[t].cause)
           phaseOf(raises) == IF raises \/ OutcomeOf(tasks[t].cause) # None
                              THEN "done" ELSE "auditing"
<1>1. PICK row \in {old, flushed, final}, raises \in BOOLEAN :
        /\ IF row = final /\ ~raises THEN UNCHANGED spent ELSE Fault("db")
        /\ runs' = [runs EXCEPT ![tasks[t].run] = row]
        /\ tasks' = [tasks EXCEPT ![t].buffered = 0, ![t].owed = None,
                                  ![t].outcome = after(raises),
                                  ![t].phase = phaseOf(raises)]
  BY DEF WindDown
<1>2. tasks[t].phase = "ending" /\ ~tasks[t].cancel
      /\ UNCHANGED <<assignments, settings, procVars>>
  BY DEF WindDown, At
<1>3. /\ tasks[t] \in Task /\ old \in RunRow /\ MarkedBy(tasks[t], old)
      /\ old.cause = "risk" => old.risk = "halted"
  BY <1>2, OwnRow
<1> DEFINE outcome == after(raises)
           phase   == phaseOf(raises)
           tk      == [tasks[t] EXCEPT !.buffered = 0, !.owed = None,
                                       !.outcome = outcome, !.phase = phase]
<1>4. tasks' = [tasks EXCEPT ![t] = tk]
  BY <1>1
<1>5. /\ outcome \in {None, "returned", "raised", "cancelled"}
      /\ phase \in {"done", "auditing"}
      /\ phase = "auditing" => OutcomeOf(tasks[t].cause) = None
  BY DEF OutcomeOf
<1>6. flushed \in RunRow /\ flushed.aid = old.aid /\ flushed.config = old.config
      /\ flushed.resumed = old.resumed /\ flushed.carried = old.carried
      /\ flushed.cause = old.cause
      /\ flushed.fills = old.fills + tasks[t].buffered
      /\ (old.cause = "risk" => flushed.risk = old.risk)
  <2>1. old.fills + tasks[t].buffered <= MaxFills
    BY <1>2, <1>3 DEF MarkedBy
  <2>2. old.cause = "risk" => tasks[t].owed = None
    BY <1>2, <1>3 DEF MarkedBy
  <2> HIDE DEF old
  <2> QED BY <2>1, <2>2, <1>3, FlushedRow
<1> HIDE DEF outcome, phase, flushed
<1>7. /\ final \in RunRow /\ final.aid = flushed.aid /\ final.config = flushed.config
      /\ final.resumed = flushed.resumed /\ final.carried = flushed.carried
      /\ final.cause = flushed.cause /\ final.fills = flushed.fills
      /\ final.risk = flushed.risk
  <2>1. StatusOf(tasks[t].cause) \in {"running", "completed", "halted", "failed"}
    BY DEF StatusOf
  <2> QED BY <2>1, <1>6 DEF RunRow
<1>8. /\ tk \in Task /\ tk.phase = phase /\ tk.cause = tasks[t].cause
      /\ tk.buffered = 0 /\ tk.owed = None
      /\ tk.aid = tasks[t].aid /\ tk.run = tasks[t].run
      /\ tk.cancel = tasks[t].cancel
  <2> DEFINE empty == 0
  <2>1. empty \in 0 .. 1 /\ tk = [tasks[t] EXCEPT !.buffered = empty, !.owed = None,
                                                  !.outcome = outcome, !.phase = phase]
    OBVIOUS
  <2> HIDE DEF empty
  <2>2. tk \in Task
    BY <1>3, <1>5, <2>1 DEF Task, Phase
  <2> QED BY <2>2, <1>3 DEF Task
<1> HIDE DEF final, tk
<1>9. /\ row \in RunRow /\ row.aid = old.aid /\ row.config = old.config
      /\ row.resumed = old.resumed /\ row.carried = old.carried
      /\ row.cause = old.cause
      /\ row.fills \in {old.fills, old.fills + tasks[t].buffered}
      /\ (old.cause = "risk" => row.risk = old.risk)
  BY <1>3, <1>6, <1>7
<1>10. old.fills + 0 = old.fills
  BY <1>3 DEF RunRow
<1> HIDE DEF old
<1>11. MarkedBy(tk, row)
  BY <1>5, <1>8 DEF MarkedBy, Looping
<1>12. Still(tasks[t]) => Still(tk) /\ row.fills = old.fills
  BY <1>2, <1>5, <1>8, <1>9, <1>10 DEF Still
<1>13. spent' \in [commands : 0 .. MaxCommands, faults : 0 .. MaxFaults]
  <2>1. CASE Fault("db")
    BY <2>1, FaultTyped DEF IInv
  <2>2. CASE UNCHANGED spent
    BY <2>2 DEF IInv, TypeOK
  <2> QED BY <2>1, <2>2, <1>1
<1>14. row.cause = "risk" => row.risk = "halted"
  BY <1>3, <1>9
<1>15. runs' = [runs EXCEPT ![tasks[t].run] = row] /\ tk.phase # "free"
  BY <1>1, <1>5, <1>8
<1>16. /\ tasks[t].phase \in Looping \cup {"ending", "auditing"}
       /\ tk.phase \in Looping \cup {"ending", "auditing", "done"}
       /\ Over(tk)
  BY <1>2, <1>5, <1>8 DEF Over
<1> QED BY <1>2, <1>4, <1>8, <1>9, <1>11, <1>12, <1>13, <1>14, <1>15, <1>16, TaskWrites DEF old

\* The reason of a halt is audited, or the write is lost.
LEMMA RecordHaltStep ==
  ASSUME IInv, NEW t \in Tasks, RecordHalt(t)
  PROVE  IInv'
<1> DEFINE old == runs[tasks[t].run]
           tk  == [tasks[t] EXCEPT !.phase = "done", !.outcome = "returned"]
           row == [old EXCEPT !.audit = tasks[t].cause]
<1>1. /\ tasks[t].phase = "auditing" /\ ~tasks[t].cancel
      /\ tasks' = [tasks EXCEPT ![t] = tk]
      /\ UNCHANGED <<assignments, settings, procVars>>
  BY DEF RecordHalt, At, Finish
<1>2. \/ UNCHANGED spent /\ runs' = [runs EXCEPT ![tasks[t].run] = row]
      \/ Fault("audit") /\ UNCHANGED runs
  BY DEF RecordHalt
<1>3. tasks[t] \in Task /\ old \in RunRow /\ MarkedBy(tasks[t], old) /\ tasks[t].run \in RunIds
      /\ (old.cause = "risk" => old.risk = "halted")
  BY <1>1, OwnRow
<1>4. /\ tk \in Task /\ tk.phase = "done"
      /\ tk.aid = tasks[t].aid /\ tk.run = tasks[t].run
      /\ tk.cancel = tasks[t].cancel
  BY <1>3 DEF Task, Phase
<1>5. tasks[t].cause \in {None, "stop", "kill", "switch", "risk"}
  <2>1. OutcomeOf(tasks[t].cause) = None
    BY <1>1, <1>3 DEF MarkedBy
  <2>2. tasks[t].cause \in Cause
    BY <1>3 DEF Task
  <2> QED BY <2>1, <2>2 DEF OutcomeOf, Cause, None
<1>6. /\ row \in RunRow /\ row.risk = old.risk /\ row.cause = old.cause /\ row.fills = old.fills
      /\ row.aid = old.aid /\ row.config = old.config
      /\ row.resumed = old.resumed /\ row.carried = old.carried
  BY <1>3, <1>5 DEF RunRow
<1>7. runs' = runs => runs' = [runs EXCEPT ![tasks[t].run] = old]
  BY TypeFacts DEF IInv, TypeOK
<1> HIDE DEF tk, row, old
<1>8. MarkedBy(tk, row) /\ MarkedBy(tk, old)
  BY <1>4 DEF MarkedBy, Looping
<1>9. spent' \in [commands : 0 .. MaxCommands, faults : 0 .. MaxFaults]
  <2>1. CASE Fault("audit")
    BY <2>1, FaultTyped DEF IInv
  <2>2. CASE UNCHANGED spent
    BY <2>2 DEF IInv, TypeOK
  <2> QED BY <2>1, <2>2, <1>2
<1>10. PICK new \in {row, old} : runs' = [runs EXCEPT ![tasks[t].run] = new]
  BY <1>2, <1>7
<1>11. /\ new \in RunRow /\ new.risk = old.risk /\ new.cause = old.cause
       /\ new.fills = old.fills
       /\ new.aid = old.aid /\ new.config = old.config
       /\ new.resumed = old.resumed /\ new.carried = old.carried
       /\ MarkedBy(tk, new)
  BY <1>3, <1>6, <1>8
<1>12. /\ tasks[t].phase \in Looping \cup {"ending", "auditing"}
       /\ tk.phase \in Looping \cup {"ending", "auditing", "done"}
       /\ Over(tk) /\ Still(tk)
  BY <1>1, <1>4 DEF Over, Still
<1> QED BY <1>1, <1>3, <1>4, <1>9, <1>10, <1>11, <1>12, TaskWrites DEF old

\* A cancellation is delivered: the engine winds down, or the task ends at once.
LEMMA TakeCancelStep ==
  ASSUME IInv, NEW t \in Tasks, TakeCancel(t)
  PROVE  IInv'
<1>1. tasks[t].cancel /\ UNCHANGED <<assignments, settings, procVars, spent>>
  BY DEF TakeCancel
<1>2. tasks[t] \in Task /\ tasks[t].phase # "free"
  BY <1>1, TypeFacts DEF IInv, Ownership
<1>3. spent' \in [commands : 0 .. MaxCommands, faults : 0 .. MaxFaults]
  BY <1>1 DEF IInv, TypeOK
<1>4. CASE tasks[t].phase \in {"idle", "candle", "flushed"}
  <2>1. PICK owed \in Owed(t) : Ending(t, "cancel", owed)
    BY <1>4 DEF TakeCancel
  <2> QED BY <2>1, <1>1, <1>3, <1>4, EndingStep
<1>5. CASE tasks[t].phase \notin {"idle", "candle", "flushed"}
  <2> DEFINE outcome == IF tasks[t].phase = "done" THEN tasks[t].outcome ELSE "cancelled"
             tk == [tasks[t] EXCEPT !.cancel = FALSE, !.phase = "done", !.outcome = outcome]
  <2>1. tasks' = [tasks EXCEPT ![t] = tk] /\ UNCHANGED runs
    BY <1>5 DEF TakeCancel
  <2>2. outcome \in {None, "returned", "raised", "cancelled"}
    BY <1>2 DEF Task
  <2> HIDE DEF outcome
  <2>3. /\ tk \in Task /\ tk.phase = "done" /\ tk.cancel = FALSE
        /\ tk.aid = tasks[t].aid /\ tk.run = tasks[t].run
    BY <1>2, <2>2 DEF Task, Phase
  <2> HIDE DEF tk
  <2>4. MarkedBy(tk, runs[tk.run])
    BY <2>3 DEF MarkedBy, Looping
  <2>5. Over(tk) /\ Still(tk) /\ ~Claimless(tk)
        /\ tk.phase \notin Starting /\ tk.phase \notin Looping \cup {"ending", "auditing"}
    BY <2>3 DEF Over, Still, Claimless, Starting, Looping
  <2>6. UNCHANGED <<dbVars, procVars>>
    BY <1>1, <2>1 DEF dbVars
  <2> QED BY <1>2, <1>3, <2>1, <2>3, <2>4, <2>5, <2>6, TaskMoves
<1> QED BY <1>4, <1>5

-----------------------------------------------------------------------------
(***************************************************************************)
(* The API, the environment and the supervisor.                            *)
(***************************************************************************)
\* Every row rewritten.
LEMMA RowsWritten ==
  ASSUME TypeOK, NEW f \in [RunIds -> RunRow], runs' = f
  PROVE  /\ runs' \in Seq(RunRow)
         /\ Len(runs') = Len(runs)
         /\ Len(runs') <= MaxRuns
BY TypeFacts, FunctionIsSeq DEF RunIds

\* The newest row of an assignment is in the table, or there is none.
LEMMA NewestTyped ==
  ASSUME TypeOK, NEW S \in SUBSET RunIds
  PROVE  /\ Newest(S) \in 0 .. Len(runs)
         /\ S # {} => Newest(S) \in S /\ \A q \in S : q <= Newest(S)
         /\ S = {} => Newest(S) = 0
<1>1. Len(runs) \in Nat /\ RunIds = 1 .. Len(runs)
  BY TypeFacts
<1>2. CASE S = {}
  BY <1>1, <1>2 DEF Newest
<1>3. CASE S # {}
  <2>1. Newest(S) \in S /\ \A q \in S : q <= Newest(S)
    BY <1>1, <1>3, NewestIsGreatest
  <2>2. Newest(S) \in 1 .. Len(runs)
    BY <2>1, <1>1
  <2>3. Newest(S) \in 0 .. Len(runs)
    BY <2>2, <1>1
  <2> QED BY <2>1, <2>3, <1>3
<1> QED BY <1>2, <1>3

\* The newest row of an assignment is a row of the table, or none.
LEMMA LatestTyped ==
  ASSUME TypeOK, NEW a
  PROVE  LatestRunRow(a) \in 0 .. Len(runs) /\ LatestRunRow(a) \in 0 .. MaxRuns
<1>1. RunsOf(a) \in SUBSET RunIds
  BY DEF RunsOf
<1>2. LatestRunRow(a) \in 0 .. Len(runs)
  BY <1>1, NewestTyped DEF LatestRunRow
<1> QED BY <1>2, TypeFacts

\* A free task is a task without a run.
LEMMA FreeTaskTyped ==
  /\ FreeTask \in Task
  /\ FreeTask.phase = "free" /\ FreeTask.run = 0 /\ FreeTask.buffered = 0
  /\ FreeTask.owed = None /\ FreeTask.cancel = FALSE /\ FreeTask.stop = FALSE
<1>1. <<>> \in Carry
  <2>1. <<>> \in Seq(0 .. MaxFills) /\ Len(<<>>) = 0
    BY EmptySeq
  <2>2. <<>> \in [1 .. 0 -> 0 .. MaxFills]
    BY <2>1, LenProperties
  <2>3. 1 .. 0 \in SUBSET (1 .. MaxRuns)
    BY SupervisorAssumption
  <2> QED BY <2>2, <2>3 DEF Carry
<1>2. (CHOOSE c \in Config : TRUE) \in Config
  <2>1. PICK s \in Slots, p \in Params, f \in Fees : TRUE
    BY SupervisorAssumption
  <2>2. [slot |-> s, params |-> p, fees |-> f] \in Config
    BY DEF Config
  <2> QED BY <2>2
<1>3. 0 \in 0 .. MaxRuns /\ 0 \in 0 .. 1 /\ Primary \in Assignments
  BY SupervisorAssumption
<1> DEFINE config == CHOOSE c \in Config : TRUE
<1>4. config \in Config
  BY <1>2
<1>5. FreeTask = [phase |-> "free", aid |-> Primary, config |-> config,
                  stop |-> FALSE, cancel |-> FALSE, stale |-> FALSE, resume |-> 0,
                  carried |-> <<>>, run |-> 0, buffered |-> 0, owed |-> None, early |-> None,
                  cause |-> None, outcome |-> None]
  BY DEF FreeTask
<1> HIDE DEF config
<1> QED BY <1>1, <1>3, <1>4, <1>5 DEF Task, Phase, Cause

\* A release changes what holds a row down, no more.
LEMMA ReleasedRows ==
  ASSUME NEW rs \in Seq(RunRow), NEW a
  PROVE  LET new == Released(rs, a)
         IN  /\ new \in [1 .. Len(rs) -> RunRow]
             /\ \A r \in 1 .. Len(rs) :
                  /\ new[r].aid = rs[r].aid /\ new[r].config = rs[r].config
                  /\ new[r].resumed = rs[r].resumed /\ new[r].carried = rs[r].carried
                  /\ new[r].fills = rs[r].fills /\ new[r].risk = rs[r].risk
                  /\ new[r].cause = rs[r].cause
<1>1. \A r \in 1 .. Len(rs) : rs[r] \in RunRow
  BY ElementOfSeq
<1> QED BY ZenonT(60), <1>1 DEF Released, RunRow

\* An edit of an assignment may release a row and touches no ledger.
LEMMA UpdateAssignmentStep ==
  ASSUME IInv, NEW a \in Assignments, UpdateAssignment(a)
  PROVE  IInv' /\ LedgersStay
<1> USE DEF IInv
<1>1. /\ assignments[a].updated < MaxEdits
      /\ runs' = Released(runs, a)
      /\ UNCHANGED <<settings, procVars, tasks, spent>>
  BY DEF UpdateAssignment
<1>2. PICK enabled \in BOOLEAN, config \in Config :
        assignments' = [assignments EXCEPT ![a] =
          [enabled |-> enabled, config |-> config, updated |-> assignments[a].updated + 1]]
  BY DEF UpdateAssignment, Edit
<1>3. assignments' \in [Assignments -> AssignmentRow]
  <2>1. assignments[a].updated \in 0 .. MaxEdits
    BY DEF TypeOK, AssignmentRow
  <2>2. assignments[a].updated + 1 \in 0 .. MaxEdits
    BY <2>1, <1>1, SupervisorAssumption
  <2> QED BY <2>2, <1>2 DEF TypeOK, AssignmentRow
<1>4. /\ Released(runs, a) \in [RunIds -> RunRow]
      /\ \A r \in RunIds : LET new == Released(runs, a)[r]
                           IN  /\ new.aid = runs[r].aid /\ new.config = runs[r].config
                               /\ new.resumed = runs[r].resumed /\ new.carried = runs[r].carried
                               /\ new.fills = runs[r].fills /\ new.risk = runs[r].risk
                               /\ new.cause = runs[r].cause
  BY TypeFacts, ReleasedRows
<1>5. /\ runs' \in Seq(RunRow) /\ Len(runs') = Len(runs) /\ Len(runs') <= MaxRuns
  BY <1>1, <1>4, RowsWritten
<1>6. TypeOK'
  BY <1>1, <1>3, <1>5 DEF TypeOK, procVars
<1>7. \A r \in RunIds : SameLinks(r) /\ SameLedger(r)
  BY <1>1, <1>4 DEF SameLinks, SameLedger
<1>8. \A u \in Tasks : SameTask(u) /\ tasks'[u].cancel = tasks[u].cancel
  BY <1>1 DEF SameTask
<1>9. live' = live /\ markers' = markers
  BY <1>1 DEF procVars
<1> QED BY <1>5, <1>6, <1>7, <1>8, <1>9, Inert DEF LedgersStay

\* A switch of the settings signals runs and edits the primary assignment.
LEMMA PutSettingsStep ==
  ASSUME IInv, PutSettings
  PROVE  IInv' /\ LedgersStay
<1> USE DEF IInv
<1> DEFINE switched == [r \in RunIds |->
             IF runs[r].status = "running" /\ runs[r].config.slot = settings
             THEN [runs[r] EXCEPT !.command = "switch"] ELSE runs[r]]
<1>1. /\ assignments[Primary].updated < MaxEdits
      /\ "switch" \in Commands
      /\ runs' = Released(switched, Primary)
      /\ UNCHANGED <<procVars, tasks, spent>>
  BY DEF PutSettings
<1>2. PICK slot \in Slots :
        /\ settings' = slot
        /\ assignments' = [assignments EXCEPT ![Primary] =
             [enabled |-> assignments[Primary].enabled,
              config |-> [assignments[Primary].config EXCEPT !.slot = slot],
              updated |-> assignments[Primary].updated + 1]]
  BY DEF PutSettings, Edit
<1>3. assignments' \in [Assignments -> AssignmentRow]
  <2>1. Primary \in Assignments /\ assignments[Primary] \in AssignmentRow
    BY SupervisorAssumption DEF TypeOK
  <2>2. assignments[Primary].updated + 1 \in 0 .. MaxEdits
    BY <2>1, <1>1, SupervisorAssumption DEF AssignmentRow
  <2>3. [assignments[Primary].config EXCEPT !.slot = slot] \in Config
    BY <2>1 DEF AssignmentRow, Config
  <2>4. assignments[Primary].enabled \in BOOLEAN
    BY <2>1 DEF AssignmentRow
  <2> QED BY <2>1, <2>2, <2>3, <2>4, <1>2 DEF TypeOK, AssignmentRow
<1>4. /\ switched \in [RunIds -> RunRow]
      /\ \A r \in RunIds : LET new == switched[r]
                           IN  /\ new.aid = runs[r].aid /\ new.config = runs[r].config
                               /\ new.resumed = runs[r].resumed /\ new.carried = runs[r].carried
                               /\ new.fills = runs[r].fills /\ new.risk = runs[r].risk
                               /\ new.cause = runs[r].cause
  <2>1. SUFFICES ASSUME NEW r \in RunIds
                 PROVE  /\ switched[r] \in RunRow
                        /\ switched[r].aid = runs[r].aid
                        /\ switched[r].config = runs[r].config
                        /\ switched[r].resumed = runs[r].resumed
                        /\ switched[r].carried = runs[r].carried
                        /\ switched[r].fills = runs[r].fills
                        /\ switched[r].risk = runs[r].risk
                        /\ switched[r].cause = runs[r].cause
    OBVIOUS
  <2>2. runs[r] \in RunRow
    BY <2>1, TypeFacts
  <2>3. switched[r] = runs[r] \/ switched[r] = [runs[r] EXCEPT !.command = "switch"]
    BY <2>1
  <2>4. "switch" \in {None} \cup Commands
    BY <1>1
  <2> HIDE DEF switched
  <2> QED BY <2>2, <2>3, <2>4 DEF RunRow
<1>5. switched \in Seq(RunRow) /\ Len(switched) = Len(runs)
  BY <1>4, FunctionIsSeq, TypeFacts
<1> HIDE DEF switched
<1>6. /\ Released(switched, Primary) \in [RunIds -> RunRow]
      /\ \A r \in RunIds : LET new == Released(switched, Primary)[r]
                               old == switched[r]
                           IN  /\ new.aid = old.aid /\ new.config = old.config
                               /\ new.resumed = old.resumed /\ new.carried = old.carried
                               /\ new.fills = old.fills /\ new.risk = old.risk
                               /\ new.cause = old.cause
  BY <1>5, TypeFacts, ReleasedRows
<1>7. /\ runs' \in Seq(RunRow) /\ Len(runs') = Len(runs) /\ Len(runs') <= MaxRuns
  BY <1>1, <1>6, RowsWritten
<1>8. TypeOK'
  BY <1>1, <1>2, <1>3, <1>7 DEF TypeOK, procVars
<1>9. \A r \in RunIds : SameLinks(r) /\ SameLedger(r)
  BY <1>1, <1>4, <1>6 DEF SameLinks, SameLedger
<1>10. \A u \in Tasks : SameTask(u) /\ tasks'[u].cancel = tasks[u].cancel
  BY <1>1 DEF SameTask
<1>11. live' = live /\ markers' = markers
  BY <1>1 DEF procVars
<1> QED BY <1>7, <1>8, <1>9, <1>10, <1>11, Inert DEF LedgersStay

\* A command changes a row's command and what holds it down, no more.
LEMMA CommandedRow ==
  ASSUME NEW row \in RunRow, NEW command \in Commands
  PROVE  LET new == Commanded(row, command)
         IN  /\ new \in RunRow
             /\ new.aid = row.aid /\ new.config = row.config
             /\ new.resumed = row.resumed /\ new.carried = row.carried
             /\ new.fills = row.fills /\ new.risk = row.risk /\ new.cause = row.cause
<1> DEFINE held == row.held /\ command # "resume"
<1>1. held \in BOOLEAN
  OBVIOUS
<1>2. Commanded(row, command) = [row EXCEPT !.command = command, !.held = held]
  BY DEF Commanded
<1> HIDE DEF held
<1> QED BY <1>1, <1>2 DEF RunRow

\* A command spends from the operators' allowance.
LEMMA CommandTyped ==
  ASSUME TypeOK, spent.commands < MaxCommands,
         spent' = [spent EXCEPT !.commands = spent.commands + 1]
  PROVE  spent' \in [commands : 0 .. MaxCommands, faults : 0 .. MaxFaults]
<1>1. spent \in [commands : 0 .. MaxCommands, faults : 0 .. MaxFaults]
  BY DEF TypeOK
<1>2. spent.commands + 1 \in 0 .. MaxCommands
  BY <1>1, SupervisorAssumption
<1> QED BY <1>1, <1>2

\* A command reaches the rows it addresses and the tasks that are about to claim.
LEMMA ControlStep ==
  ASSUME IInv, Control
  PROVE  IInv' /\ LedgersStay
<1> USE DEF IInv
<1>1. PICK command \in Commands :
        ControlAll(command) \/ \E r \in RunIds : ControlRun(r, command)
  BY DEF Control
<1>2. /\ UNCHANGED <<assignments, settings, procVars>>
      /\ spent' \in [commands : 0 .. MaxCommands, faults : 0 .. MaxFaults]
  BY <1>1, CommandTyped DEF ControlAll, ControlRun
<1>3. live' = live /\ markers' = markers
  BY <1>2 DEF procVars
<1>4. CASE ControlAll(command)
  <2> DEFINE f == [r \in RunIds |-> Commanded(runs[r], command)]
             g == [t \in Tasks |-> IF tasks[t].phase = "claiming"
                                   THEN [tasks[t] EXCEPT !.early = command] ELSE tasks[t]]
  <2>1. runs' = f /\ tasks' = g
    BY <1>4 DEF ControlAll
  <2>2. f \in [RunIds -> RunRow]
    BY CommandedRow, TypeFacts
  <2>3. g \in [Tasks -> Task]
    BY TypeFacts DEF Task
  <2>4. /\ runs' \in Seq(RunRow) /\ Len(runs') = Len(runs) /\ Len(runs') <= MaxRuns
    <3> HIDE DEF f
    <3> QED BY <2>1, <2>2, RowsWritten
  <2>5. TypeOK'
    BY <1>2, <2>1, <2>3, <2>4, TypeOKByTasks
  <2>6. \A r \in RunIds : SameLinks(r) /\ SameLedger(r)
    BY <2>1, CommandedRow, TypeFacts DEF SameLinks, SameLedger
  <2>7. \A u \in Tasks : SameTask(u) /\ tasks'[u].cancel = tasks[u].cancel
    BY <2>1, TypeFacts DEF SameTask, Task
  <2> QED BY <1>3, <2>4, <2>5, <2>6, <2>7, Inert DEF LedgersStay
<1>5. ASSUME NEW r \in RunIds, ControlRun(r, command) PROVE IInv' /\ LedgersStay
  <2> DEFINE row == Commanded(runs[r], command)
  <2>1. runs' = [runs EXCEPT ![r] = row] /\ tasks' = tasks
    BY <1>5 DEF ControlRun
  <2>2. /\ row \in RunRow /\ row.aid = runs[r].aid /\ row.config = runs[r].config
        /\ row.resumed = runs[r].resumed /\ row.carried = runs[r].carried
        /\ row.fills = runs[r].fills /\ row.risk = runs[r].risk /\ row.cause = runs[r].cause
    BY CommandedRow, TypeFacts
  <2> HIDE DEF row
  <2>3. /\ runs' \in Seq(RunRow) /\ Len(runs') = Len(runs)
        /\ runs'[r] = row /\ \A q \in RunIds : q # r => runs'[q] = runs[q]
    BY <2>1, <2>2, RowWritten
  <2>4. TypeOK'
    BY <1>2, <2>1, <2>3, TypeOKByTasks, TypeFacts DEF TypeOK
  <2>5. \A q \in RunIds : SameLinks(q) /\ SameLedger(q)
    BY <2>2, <2>3 DEF SameLinks, SameLedger
  <2>6. \A u \in Tasks : SameTask(u) /\ tasks'[u].cancel = tasks[u].cancel
    BY <2>1 DEF SameTask
  <2> QED BY <1>3, <2>3, <2>4, <2>5, <2>6, Inert DEF LedgersStay
<1> QED BY <1>1, <1>4, <1>5

\* Steps of the supervisor that neither rows, tasks nor their places see.
LEMMA QuietPassStep ==
  ASSUME IInv, ListAssignments \/ RefreshKilled \/ \E a \in Assignments : BackoffExpires(a)
  PROVE  IInv'
<1> USE DEF IInv
<1>1. runs' = runs /\ tasks' = tasks /\ live' = live /\ markers' = markers
  BY DEF ListAssignments, RefreshKilled, BackoffExpires, dbVars
<1>2. TypeOK'
  <2>1. CASE ListAssignments
    BY <2>1 DEF TypeOK, ListAssignments, dbVars
  <2>2. CASE RefreshKilled
    <3>1. NotKilled \in [run : 0 .. MaxRuns, observed : 0 .. MaxEdits]
      BY SupervisorAssumption DEF NotKilled
    <3>2. killed' \in [Assignments -> [run : 0 .. MaxRuns, observed : 0 .. MaxEdits]]
      BY <2>2, <3>1 DEF TypeOK, RefreshKilled
    <3> QED BY <2>2, <3>2 DEF TypeOK, RefreshKilled, dbVars
  <2>3. CASE \E a \in Assignments : BackoffExpires(a)
    BY <2>3 DEF TypeOK, BackoffExpires, dbVars
  <2> QED BY <2>1, <2>2, <2>3
<1>3. \A r \in RunIds : SameLinks(r) /\ SameLedger(r)
  BY <1>1 DEF SameLinks, SameLedger
<1>4. \A u \in Tasks : SameTask(u) /\ tasks'[u].cancel = tasks[u].cancel
  BY <1>1 DEF SameTask
<1> QED BY <1>1, <1>2, <1>3, <1>4, Inert

\* A graceful stop asks every live task to stop.
LEMMA ShutdownStep ==
  ASSUME IInv, Shutdown
  PROVE  IInv'
<1> USE DEF IInv
<1> DEFINE g == [t \in Tasks |-> IF \E a \in Assignments : live[a] = t
                                 THEN [tasks[t] EXCEPT !.stop = TRUE] ELSE tasks[t]]
<1>1. /\ tasks' = g /\ pc' = "stopping"
      /\ UNCHANGED <<dbVars, rows, live, killed, backoff, markers>>
  BY DEF Shutdown
<1>2. g \in [Tasks -> Task]
  <2>1. \A t \in Tasks : [tasks[t] EXCEPT !.stop = TRUE] \in Task
    BY ZenonT(60), TypeFacts DEF Task
  <2> QED BY <2>1, TypeFacts
<1>3. spent' \in [commands : 0 .. MaxCommands, faults : 0 .. MaxFaults]
  BY FaultTyped DEF Shutdown
<1>4. TypeOK'
  BY <1>1, <1>2, <1>3 DEF TypeOK, dbVars
<1>5. \A u \in Tasks : SameTask(u) /\ tasks'[u].cancel = tasks[u].cancel
  BY <1>1, TypeFacts DEF SameTask, Task
<1>6. \A r \in RunIds : SameLinks(r) /\ SameLedger(r)
  BY <1>1 DEF SameLinks, SameLedger, dbVars
<1> QED BY <1>1, <1>4, <1>5, <1>6, Inert DEF dbVars

\* A row ended by the supervisor keeps its links and its ledger.
LEMMA HaltedRow ==
  ASSUME NEW row \in RunRow, NEW reason \in {None, "superseded", "watchdog", "orphan"}
  PROVE  LET new == Halt(row, reason)
         IN  /\ new \in RunRow /\ new.status = "halted"
             /\ new.aid = row.aid /\ new.config = row.config
             /\ new.resumed = row.resumed /\ new.carried = row.carried
             /\ new.fills = row.fills /\ new.risk = row.risk /\ new.cause = row.cause
BY DEF Halt, RunRow

\* A new process halts the runs it finds running, and supervises none yet.
LEMMA BootStep ==
  ASSUME IInv, Boot
  PROVE  IInv' /\ LedgersStay
<1> USE DEF IInv
<1> DEFINE slots == {assignments[a].config.slot : a \in {b \in Assignments : assignments[b].enabled}}
           f == [r \in RunIds |-> IF runs[r].status = "running" /\ runs[r].config.slot \notin slots
                                  THEN Halt(runs[r], "orphan") ELSE runs[r]]
<1>1. /\ runs' = f /\ pc' = "reap"
      /\ UNCHANGED <<assignments, settings, rows, live, killed, backoff, markers, tasks, spent>>
  BY DEF Boot
<1> HIDE DEF slots
<1>2. /\ f \in [RunIds -> RunRow]
      /\ \A r \in RunIds : /\ f[r].aid = runs[r].aid /\ f[r].config = runs[r].config
                           /\ f[r].resumed = runs[r].resumed /\ f[r].carried = runs[r].carried
                           /\ f[r].fills = runs[r].fills /\ f[r].risk = runs[r].risk
                           /\ f[r].cause = runs[r].cause
  BY HaltedRow, TypeFacts
<1> HIDE DEF f
<1>3. /\ runs' \in Seq(RunRow) /\ Len(runs') = Len(runs) /\ Len(runs') <= MaxRuns
  BY <1>1, <1>2, RowsWritten
<1>4. TypeOK'
  BY <1>1, <1>3 DEF TypeOK
<1>5. \A r \in RunIds : SameLinks(r) /\ SameLedger(r)
  BY <1>1, <1>2 DEF SameLinks, SameLedger
<1>6. \A u \in Tasks : SameTask(u) /\ tasks'[u].cancel = tasks[u].cancel
  BY <1>1 DEF SameTask
<1> QED BY <1>1, <1>3, <1>4, <1>5, <1>6, Inert DEF LedgersStay

\* The process is gone, and every task with it.
LEMMA ProcessGoneStep ==
  ASSUME IInv, ProcessGone,
         spent' \in [commands : 0 .. MaxCommands, faults : 0 .. MaxFaults]
  PROVE  IInv'
<1> USE DEF IInv
<1>1. /\ live' = [a \in Assignments |-> None] /\ markers' = {}
      /\ tasks' = [t \in Tasks |-> FreeTask]
      /\ UNCHANGED <<dbVars, rows>>
  BY DEF ProcessGone
<1>2. TypeOK'
  <2>1. NotKilled \in [run : 0 .. MaxRuns, observed : 0 .. MaxEdits]
    BY SupervisorAssumption DEF NotKilled
  <2>2. tasks' \in [Tasks -> Task]
    BY <1>1, FreeTaskTyped
  <2>3. live' \in [Assignments -> Tasks \cup {None}]
    BY <1>1
  <2>4. killed' \in [Assignments -> [run : 0 .. MaxRuns, observed : 0 .. MaxEdits]]
    BY <2>1 DEF ProcessGone
  <2> QED BY <2>2, <2>3, <2>4, <1>1 DEF TypeOK, ProcessGone, dbVars
<1>3. \A u \in Tasks : NoRun(u)'
  BY <1>1, FreeTaskTyped DEF NoRun
<1>4. \A r \in RunIds : SameLinks(r) /\ SameLedger(r)
  BY <1>1 DEF SameLinks, SameLedger, dbVars
<1>5. Ownership'
  BY <1>1, FreeTaskTyped DEF Ownership
<1> QED BY <1>1, <1>2, <1>3, <1>4, <1>5, TasksGoOn DEF dbVars

\* Finished tasks are popped, and their assignments killed, backed off or free again.
LEMMA ReapStep ==
  ASSUME IInv, Reap
  PROVE  IInv'
<1> USE DEF IInv
<1> DEFINE over == {a \in Assignments : live[a] # None /\ tasks[live[a]].phase = "done"}
<1>1. /\ live' = [a \in Assignments |-> IF a \in over THEN None ELSE live[a]]
      /\ killed' = [a \in Assignments |->
           IF a \in over /\ EndKind(a) = "killed"
           THEN [run |-> LatestRunRow(a), observed |-> assignments[a].updated]
           ELSE killed[a]]
      /\ backoff' = backoff \cup {a \in over : EndKind(a) = "crashed"}
      /\ tasks' = [t \in Tasks |-> IF \E a \in over : live[a] = t THEN FreeTask ELSE tasks[t]]
      /\ pc' = "list"
      /\ UNCHANGED <<dbVars, rows, markers, spent>>
  BY DEF Reap
<1>2. over \subseteq Assignments
  OBVIOUS
<1>3. TypeOK'
  <2>1. tasks' \in [Tasks -> Task]
    BY <1>1, FreeTaskTyped, TypeFacts
  <2>2. live' \in [Assignments -> Tasks \cup {None}]
    BY <1>1 DEF TypeOK
  <2>3. killed' \in [Assignments -> [run : 0 .. MaxRuns, observed : 0 .. MaxEdits]]
    <3>1. \A a \in Assignments :
            [run |-> LatestRunRow(a), observed |-> assignments[a].updated]
              \in [run : 0 .. MaxRuns, observed : 0 .. MaxEdits]
      BY LatestTyped DEF TypeOK, AssignmentRow
    <3> QED BY <1>1, <3>1 DEF TypeOK
  <2>4. backoff' \subseteq Assignments
    BY <1>1, <1>2 DEF TypeOK
  <2> QED BY <2>1, <2>2, <2>3, <2>4, <1>1 DEF TypeOK, dbVars
<1>4. \A u \in Tasks : NoRun(u)' \/ (SameTask(u) /\ (tasks[u].cancel => tasks'[u].cancel))
  BY <1>1, FreeTaskTyped DEF NoRun, SameTask
<1>5. \A r \in RunIds : SameLinks(r) /\ SameLedger(r)
  BY <1>1 DEF SameLinks, SameLedger, dbVars
<1>6. Ownership'
  <2>1. \A a \in Assignments : live'[a] # None => live'[a] = live[a] /\ a \notin over
    BY <1>1
  <2>2. \A a \in Assignments : live'[a] # None =>
          live[a] \in Tasks /\ ~\E b \in over : live[b] = live[a]
    BY <2>1 DEF Ownership, TypeOK
  <2>3. \A a \in Assignments : live'[a] # None => tasks'[live'[a]] = tasks[live[a]]
    BY <1>1, <2>1, <2>2
  <2>4. \A t \in markers : t \in Tasks /\ tasks'[t] = tasks[t]
    BY <1>1 DEF Ownership, TypeOK
  <2>5. ASSUME NEW t \in Tasks, tasks'[t].phase # "free"
        PROVE  live'[tasks'[t].aid] = t \/ t \in markers'
    <3>1. tasks'[t] = tasks[t] /\ ~\E a \in over : live[a] = t
      BY <1>1, <2>5, FreeTaskTyped
    <3>2. tasks[t].aid \in Assignments
      BY TypeFacts DEF Task
    <3> QED BY <1>1, <3>1, <3>2, <2>5 DEF Ownership
  <2>6. ASSUME NEW t \in Tasks, tasks'[t].phase = "free"
        PROVE  ~tasks'[t].cancel
    BY <1>1, <2>6, FreeTaskTyped DEF Ownership
  <2>7. markers' = markers
    BY <1>1
  <2> QED BY <2>1, <2>3, <2>4, <2>5, <2>6, <2>7 DEF Ownership
<1> QED BY <1>1, <1>3, <1>4, <1>5, <1>6, TasksGoOn DEF dbVars

\* Stalled tasks are popped and cancelled, with a marker left for each.
LEMMA WatchStep ==
  ASSUME IInv, Watch
  PROVE  IInv'
<1> USE DEF IInv
<1> DEFINE popped == {live[a] : a \in Stalled}
           cut(t) == [tasks[t] EXCEPT !.cancel = tasks[t].cancel \/ tasks[t].phase # "done"]
<1>1. /\ live' = [a \in Assignments |-> IF a \in Stalled THEN None ELSE live[a]]
      /\ tasks' = [t \in Tasks |-> IF t \in popped THEN cut(t) ELSE tasks[t]]
      /\ backoff' = backoff \cup Stalled
      /\ markers' = markers \cup popped
      /\ pc' = "refresh"
      /\ UNCHANGED <<dbVars, rows, killed, spent>>
  BY DEF Watch
<1>2. Stalled \subseteq Assignments /\ \A a \in Stalled : live[a] # None
  BY DEF Stalled, Desired
<1>3. popped \subseteq Tasks
  BY <1>2 DEF TypeOK
<1>4. ASSUME NEW t \in Tasks
      PROVE  /\ cut(t) \in Task
             /\ cut(t).phase = tasks[t].phase /\ cut(t).aid = tasks[t].aid
             /\ cut(t).config = tasks[t].config /\ cut(t).resume = tasks[t].resume
             /\ cut(t).carried = tasks[t].carried /\ cut(t).run = tasks[t].run
             /\ cut(t).buffered = tasks[t].buffered /\ cut(t).owed = tasks[t].owed
             /\ cut(t).cause = tasks[t].cause
             /\ cut(t).cancel = (tasks[t].cancel \/ tasks[t].phase # "done")
  <2> DEFINE cancel == tasks[t].cancel \/ tasks[t].phase # "done"
  <2>1. cancel \in BOOLEAN /\ cut(t) = [tasks[t] EXCEPT !.cancel = cancel]
    OBVIOUS
  <2>2. tasks[t] \in Task
    BY TypeFacts
  <2> HIDE DEF cancel
  <2>3. /\ [tasks[t] EXCEPT !.cancel = cancel] \in Task
        /\ [tasks[t] EXCEPT !.cancel = cancel].phase = tasks[t].phase
        /\ [tasks[t] EXCEPT !.cancel = cancel].aid = tasks[t].aid
        /\ [tasks[t] EXCEPT !.cancel = cancel].config = tasks[t].config
        /\ [tasks[t] EXCEPT !.cancel = cancel].resume = tasks[t].resume
        /\ [tasks[t] EXCEPT !.cancel = cancel].carried = tasks[t].carried
        /\ [tasks[t] EXCEPT !.cancel = cancel].run = tasks[t].run
        /\ [tasks[t] EXCEPT !.cancel = cancel].buffered = tasks[t].buffered
        /\ [tasks[t] EXCEPT !.cancel = cancel].owed = tasks[t].owed
        /\ [tasks[t] EXCEPT !.cancel = cancel].cause = tasks[t].cause
        /\ [tasks[t] EXCEPT !.cancel = cancel].cancel = cancel
    BY <2>1, <2>2 DEF Task
  <2> HIDE DEF cut
  <2> QED BY <2>1, <2>3 DEF cancel
<1> HIDE DEF cut, popped
<1>5. TypeOK'
  <2>1. tasks' \in [Tasks -> Task]
    BY <1>1, <1>4, TypeFacts
  <2>2. live' \in [Assignments -> Tasks \cup {None}]
    BY <1>1 DEF TypeOK
  <2>3. backoff' \subseteq Assignments /\ markers' \subseteq Tasks
    BY <1>1, <1>2, <1>3 DEF TypeOK
  <2> QED BY <2>1, <2>2, <2>3, <1>1 DEF TypeOK, dbVars
<1>6. \A u \in Tasks : SameTask(u) /\ (tasks[u].cancel => tasks'[u].cancel)
  BY <1>1, <1>4 DEF SameTask
<1>7. \A r \in RunIds : SameLinks(r) /\ SameLedger(r)
  BY <1>1 DEF SameLinks, SameLedger, dbVars
<1>8. \A a, b \in Assignments : live[a] # None /\ live[a] = live[b] => a = b
  BY DEF Ownership
<1>9. Ownership'
  <2>1. ASSUME NEW a \in Assignments, live'[a] # None
        PROVE  /\ tasks'[live'[a]].aid = a
               /\ tasks'[live'[a]].phase # "free"
               /\ ~tasks'[live'[a]].cancel
               /\ live'[a] \notin markers'
    <3>1. live'[a] = live[a] /\ a \notin Stalled
      BY <1>1, <2>1
    <3>2. live[a] \in Tasks /\ live[a] \notin popped
      BY <1>2, <1>8, <2>1, <3>1 DEF TypeOK, popped
    <3>3. tasks'[live[a]] = tasks[live[a]]
      BY <1>1, <3>2
    <3> QED BY <1>1, <2>1, <3>1, <3>2, <3>3 DEF Ownership
  <2>2. ASSUME NEW t \in Tasks, tasks'[t].phase # "free"
        PROVE  live'[tasks'[t].aid] = t \/ t \in markers'
    <3>1. tasks'[t].phase = tasks[t].phase /\ tasks'[t].aid = tasks[t].aid
          /\ tasks[t].aid \in Assignments
      BY <1>6, TypeFacts DEF SameTask, Task
    <3>2. live[tasks[t].aid] = t \/ t \in markers
      BY <3>1, <2>2 DEF Ownership
    <3>3. CASE tasks[t].aid \in Stalled
      BY <1>1, <3>1, <3>2, <3>3 DEF popped
    <3>4. CASE tasks[t].aid \notin Stalled
      BY <1>1, <3>1, <3>2, <3>4
    <3> QED BY <3>3, <3>4
  <2>3. ASSUME NEW t \in Tasks, tasks'[t].phase = "free"
        PROVE  ~tasks'[t].cancel
    <3>1. tasks[t].phase = "free"
      BY <1>6, <2>3 DEF SameTask
    <3>2. t \notin popped
      BY <1>2, <3>1 DEF Ownership, popped
    <3> QED BY <1>1, <3>1, <3>2 DEF Ownership
  <2>4. ASSUME NEW t \in markers'
        PROVE  tasks'[t].cancel \/ tasks'[t].phase \in {"ending", "auditing", "done"}
    <3>1. CASE t \in popped
      BY <1>1, <1>3, <1>4, <3>1
    <3>2. CASE t \in markers
      BY <1>6, <3>2 DEF Ownership, SameTask, TypeOK
    <3> QED BY <3>1, <3>2, <1>1
  <2> QED BY <2>1, <2>2, <2>3, <2>4 DEF Ownership
<1> QED BY <1>1, <1>5, <1>6, <1>7, <1>9, TasksGoOn DEF dbVars

\* Tasks that are not desired are asked to stop, and missing ones are started.
LEMMA PlanStep ==
  ASSUME IInv, Plan
  PROVE  IInv'
<1> USE DEF IInv
<1> DEFINE blocked  == {a \in ToStart : rows[a].config.slot \notin Startable}
           starting == ToStart \ blocked
           stopping == {live[a] : a \in ToStop}
           stopped(t) == [tasks[t] EXCEPT !.stop = TRUE]
<1>1. PICK given \in [starting -> {t \in Tasks : tasks[t].phase = "free"}] :
        /\ \A a, b \in starting : given[a] = given[b] => a = b
        /\ live' = [a \in Assignments |-> IF a \in starting THEN given[a] ELSE live[a]]
        /\ tasks' = [t \in Tasks |->
             IF \E a \in starting : given[a] = t
             THEN NewTask(CHOOSE a \in starting : given[a] = t)
             ELSE IF t \in stopping THEN stopped(t) ELSE tasks[t]]
        /\ backoff' = (backoff \cup blocked) \ starting
  BY DEF Plan
<1>2. pc' = "reap" /\ UNCHANGED <<dbVars, rows, killed, markers, spent>>
  BY DEF Plan
<1>3. /\ starting \subseteq Assignments /\ blocked \subseteq Assignments
      /\ \A a \in starting : live[a] = None
  BY DEF ToStart, Desired
<1>4. \A a \in starting : given[a] \in Tasks /\ tasks[given[a]].phase = "free"
  BY <1>1
<1>5. ASSUME NEW a \in Assignments
      PROVE  /\ NewTask(a) \in Task
             /\ NewTask(a).phase = "preparing" /\ NewTask(a).aid = a
             /\ NewTask(a).run = 0 /\ NewTask(a).buffered = 0 /\ NewTask(a).owed = None
             /\ NewTask(a).cancel = FALSE
  <2>1. rows[a].config \in Config
    BY DEF TypeOK, AssignmentRow
  <2> QED BY <2>1, FreeTaskTyped DEF NewTask, Task, Phase
<1>6. ASSUME NEW t \in Tasks
      PROVE  /\ stopped(t) \in Task
             /\ stopped(t).phase = tasks[t].phase /\ stopped(t).aid = tasks[t].aid
             /\ stopped(t).config = tasks[t].config /\ stopped(t).resume = tasks[t].resume
             /\ stopped(t).carried = tasks[t].carried /\ stopped(t).run = tasks[t].run
             /\ stopped(t).buffered = tasks[t].buffered /\ stopped(t).owed = tasks[t].owed
             /\ stopped(t).cause = tasks[t].cause /\ stopped(t).cancel = tasks[t].cancel
  BY TypeFacts DEF Task
<1> HIDE DEF blocked, starting, stopping, stopped
<1>7. ASSUME NEW a \in starting
      PROVE  /\ a \in Assignments /\ given[a] \in Tasks
             /\ tasks'[given[a]] = NewTask(a)
             /\ tasks'[given[a]].phase = "preparing" /\ tasks'[given[a]].aid = a
             /\ ~tasks'[given[a]].cancel
             /\ NoRun(given[a])'
  <2>1. (CHOOSE b \in starting : given[b] = given[a]) = a
    BY <1>1
  <2>2. a \in Assignments /\ given[a] \in Tasks
    BY <1>3, <1>4
  <2>3. tasks'[given[a]] = NewTask(a)
    BY <2>1, <2>2, <1>1
  <2>4. /\ tasks'[given[a]].phase = "preparing" /\ tasks'[given[a]].aid = a
        /\ tasks'[given[a]].run = 0 /\ tasks'[given[a]].buffered = 0
        /\ tasks'[given[a]].owed = None /\ tasks'[given[a]].cancel = FALSE
    BY <2>2, <2>3, <1>5
  <2> QED BY <2>2, <2>3, <2>4 DEF NoRun
<1>8. \A t \in Tasks : (\A a \in starting : given[a] # t) =>
        tasks'[t] = stopped(t) \/ tasks'[t] = tasks[t]
  BY <1>1
<1>9. TypeOK'
  <2>1. tasks' \in [Tasks -> Task]
    <3>1. \A t \in Tasks : tasks'[t] \in Task
      <4> SUFFICES ASSUME NEW t \in Tasks PROVE tasks'[t] \in Task
        OBVIOUS
      <4>1. CASE \E a \in starting : given[a] = t
        <5>1. PICK a \in starting : given[a] = t
          BY <4>1
        <5>2. a \in Assignments /\ tasks'[given[a]] = NewTask(a)
          BY <1>7
        <5> QED BY <5>1, <5>2, <1>5
      <4>2. CASE \A a \in starting : given[a] # t
        BY <4>2, <1>6, <1>8, TypeFacts
      <4> QED BY <4>1, <4>2
    <3> QED BY <3>1, <1>1
  <2>2. live' \in [Assignments -> Tasks \cup {None}]
    BY <1>1, <1>4 DEF TypeOK
  <2>3. backoff' \subseteq Assignments
    BY <1>1, <1>3 DEF TypeOK
  <2> QED BY <2>1, <2>2, <2>3, <1>2 DEF TypeOK, dbVars
<1>10. ASSUME NEW t \in Tasks
       PROVE  \/ \E a \in starting : given[a] = t /\ NoRun(t)'
              \/ /\ \A a \in starting : given[a] # t
                 /\ SameTask(t) /\ tasks'[t].cancel = tasks[t].cancel
  <2>1. CASE \E a \in starting : given[a] = t
    BY <2>1, <1>7
  <2>2. CASE \A a \in starting : given[a] # t
    BY <2>2, <1>6, <1>8 DEF SameTask
  <2> QED BY <2>1, <2>2
<1>11. \A r \in RunIds : SameLinks(r) /\ SameLedger(r)
  BY <1>2 DEF SameLinks, SameLedger, dbVars
<1>12. \A t \in markers : t \in Tasks /\ tasks[t].phase # "free"
  BY DEF Ownership, TypeOK
<1>13. Ownership'
  <2>1. ASSUME NEW a \in Assignments, live'[a] # None
        PROVE  /\ tasks'[live'[a]].aid = a
               /\ tasks'[live'[a]].phase # "free"
               /\ ~tasks'[live'[a]].cancel
               /\ live'[a] \notin markers'
    <3>1. CASE a \in starting
      <4>1. live'[a] = given[a] /\ given[a] \notin markers
        BY <3>1, <1>1, <1>4, <1>12
      <4> QED BY <3>1, <4>1, <1>2, <1>7
    <3>2. CASE a \notin starting
      <4>1. live'[a] = live[a] /\ live[a] \in Tasks /\ tasks[live[a]].phase # "free"
        BY <3>2, <2>1, <1>1 DEF Ownership, TypeOK
      <4>2. \A b \in starting : given[b] # live[a]
        BY <4>1, <1>4
      <4>3. SameTask(live[a]) /\ tasks'[live[a]].cancel = tasks[live[a]].cancel
        BY <4>1, <4>2, <1>10
      <4> QED BY <2>1, <4>1, <4>3, <1>2 DEF Ownership, SameTask
    <3> QED BY <3>1, <3>2
  <2>2. ASSUME NEW t \in Tasks, tasks'[t].phase # "free"
        PROVE  live'[tasks'[t].aid] = t \/ t \in markers'
    <3>1. CASE \E a \in starting : given[a] = t
      <4>1. PICK a \in starting : given[a] = t
        BY <3>1
      <4>2. a \in Assignments /\ tasks'[given[a]].aid = a
        BY <1>7
      <4>3. live'[a] = given[a]
        BY <4>2, <1>1
      <4> QED BY <4>1, <4>2, <4>3
    <3>2. CASE \A a \in starting : given[a] # t
      <4>1. SameTask(t)
        BY <3>2, <1>10
      <4>2. live[tasks[t].aid] = t \/ t \in markers
        BY <4>1, <2>2 DEF Ownership, SameTask
      <4>3. tasks[t].aid \in Assignments /\ t # None
        BY TypeFacts, SupervisorAssumption DEF Task
      <4> QED BY <4>1, <4>2, <4>3, <1>1, <1>2, <1>3 DEF SameTask
    <3> QED BY <3>1, <3>2
  <2>3. ASSUME NEW t \in Tasks, tasks'[t].phase = "free"
        PROVE  ~tasks'[t].cancel
    <3>1. CASE \E a \in starting : given[a] = t
      BY <3>1, <1>7
    <3>2. CASE \A a \in starting : given[a] # t
      BY <3>2, <2>3, <1>10 DEF Ownership, SameTask
    <3> QED BY <3>1, <3>2
  <2>4. ASSUME NEW t \in markers'
        PROVE  tasks'[t].cancel \/ tasks'[t].phase \in {"ending", "auditing", "done"}
    <3>1. t \in markers /\ t \in Tasks /\ \A a \in starting : given[a] # t
      BY <1>2, <1>4, <1>12, <2>4
    <3> QED BY <3>1, <1>10 DEF Ownership, SameTask
  <2> QED BY <2>1, <2>2, <2>3, <2>4 DEF Ownership
<1>14. \A u \in Tasks : NoRun(u)' \/ (SameTask(u) /\ (tasks[u].cancel => tasks'[u].cancel))
  BY <1>10
<1> QED BY <1>2, <1>9, <1>11, <1>13, <1>14, TasksGoOn DEF dbVars

\* The row of a task the watchdog ended is halted, once the task is over.
LEMMA MarkWatchdogStoppedStep ==
  ASSUME IInv, NEW t \in Tasks, MarkWatchdogStopped(t)
  PROVE  IInv' /\ LedgersStay
<1> USE DEF IInv
<1> DEFINE r == LatestRunRow(tasks[t].aid)
<1>1. /\ t \in markers /\ tasks[t].phase = "done"
      /\ runs' = IF r = 0 \/ tasks[t].outcome = "raised"
                 THEN runs ELSE [runs EXCEPT ![r] = Halt(runs[r], "watchdog")]
      /\ markers' = markers \ {t}
      /\ tasks' = [tasks EXCEPT ![t] = FreeTask]
      /\ UNCHANGED <<assignments, settings, pc, rows, live, killed, backoff, spent>>
  BY DEF MarkWatchdogStopped
<1>2. r \in 0 .. Len(runs)
  BY LatestTyped
<1> HIDE DEF r
<1>3. /\ runs' \in Seq(RunRow) /\ Len(runs') = Len(runs)
      /\ \A q \in RunIds : SameLinks(q) /\ SameLedger(q)
  <2>1. CASE runs' = runs
    BY <2>1, TypeFacts DEF SameLinks, SameLedger
  <2>2. CASE runs' # runs
    <3> DEFINE row == Halt(runs[r], "watchdog")
    <3>1. r \in RunIds /\ runs' = [runs EXCEPT ![r] = row]
      BY <1>1, <1>2, <2>2, TypeFacts
    <3>2. /\ row \in RunRow
          /\ row.aid = runs[r].aid /\ row.config = runs[r].config
          /\ row.resumed = runs[r].resumed /\ row.carried = runs[r].carried
          /\ row.fills = runs[r].fills /\ row.risk = runs[r].risk /\ row.cause = runs[r].cause
      BY <3>1, TypeFacts, HaltedRow
    <3> HIDE DEF row
    <3>3. /\ runs' \in Seq(RunRow) /\ Len(runs') = Len(runs)
          /\ runs'[r] = row /\ \A q \in RunIds : q # r => runs'[q] = runs[q]
      BY <3>1, <3>2, RowWritten
    <3> QED BY <3>2, <3>3 DEF SameLinks, SameLedger
  <2> QED BY <2>1, <2>2
<1>4. /\ tasks' \in [Tasks -> Task] /\ tasks'[t] = FreeTask
      /\ \A u \in Tasks : u # t => tasks'[u] = tasks[u]
  BY <1>1, FreeTaskTyped, TaskWritten
<1>5. TypeOK'
  BY <1>1, <1>3, <1>4 DEF TypeOK
<1>6. \A u \in Tasks : NoRun(u)' \/ (SameTask(u) /\ (tasks[u].cancel => tasks'[u].cancel))
  BY <1>4, FreeTaskTyped DEF NoRun, SameTask
<1>7. Ownership'
  <2>1. \A a \in Assignments : live[a] # None => live[a] \in Tasks /\ live[a] # t
    BY <1>1 DEF Ownership, TypeOK
  <2>2. \A u \in markers' : u \in markers /\ u \in Tasks /\ u # t
    BY <1>1 DEF TypeOK
  <2>3. \A u \in Tasks : tasks'[u].phase # "free" => u # t
    BY <1>4, FreeTaskTyped
  <2>4. ASSUME NEW u \in Tasks, tasks'[u].phase = "free" PROVE ~tasks'[u].cancel
    BY <1>4, <2>4, FreeTaskTyped DEF Ownership
  <2> QED BY <1>1, <1>4, <2>1, <2>2, <2>3, <2>4 DEF Ownership
<1> QED BY <1>3, <1>5, <1>6, <1>7, TasksGoOn DEF LedgersStay

-----------------------------------------------------------------------------
(***************************************************************************)
(* Preparing a resume and claiming the slot.                               *)
(***************************************************************************)
\* A supersession halts the running rows of a slot and touches no links and
\* no ledger.
LEMMA SupersededRows ==
  ASSUME NEW rs \in Seq(RunRow), NEW a, NEW slot, NEW except
  PROVE  LET new == Supersede(rs, a, slot, except)
         IN  /\ new \in Seq(RunRow) /\ Len(new) = Len(rs)
             /\ \A r \in 1 .. Len(rs) :
                  /\ new[r].aid = rs[r].aid /\ new[r].config = rs[r].config
                  /\ new[r].resumed = rs[r].resumed /\ new[r].carried = rs[r].carried
                  /\ new[r].fills = rs[r].fills /\ new[r].risk = rs[r].risk
                  /\ new[r].cause = rs[r].cause
                  /\ rs[r].aid = a /\ rs[r].config.slot = slot /\ r # except =>
                       new[r].status # "running"
<1> DEFINE new == Supersede(rs, a, slot, except)
           ended(r) == [rs[r] EXCEPT !.status = "halted", !.reason = "superseded"]
<1>1. \A r \in 1 .. Len(rs) : rs[r] \in RunRow
  BY ElementOfSeq
<1>2. ASSUME NEW r \in 1 .. Len(rs)
      PROVE  /\ ended(r) \in RunRow /\ ended(r).status = "halted"
             /\ ended(r).aid = rs[r].aid /\ ended(r).config = rs[r].config
             /\ ended(r).resumed = rs[r].resumed /\ ended(r).carried = rs[r].carried
             /\ ended(r).fills = rs[r].fills /\ ended(r).risk = rs[r].risk
             /\ ended(r).cause = rs[r].cause
  BY <1>1 DEF RunRow
<1>3. new = [r \in 1 .. Len(rs) |->
               IF /\ rs[r].aid = a /\ rs[r].config.slot = slot
                  /\ rs[r].status = "running" /\ r # except
               THEN ended(r) ELSE rs[r]]
  BY DEF Supersede
<1> HIDE DEF new, ended
<1>4. \A r \in 1 .. Len(rs) : new[r] \in {ended(r), rs[r]}
  BY <1>3
<1>5. new \in [1 .. Len(rs) -> RunRow]
  BY <1>1, <1>2, <1>3
<1>6. Len(rs) \in Nat
  BY LenProperties
<1>7. new \in Seq(RunRow) /\ Len(new) = Len(rs)
  BY <1>5, <1>6, FunctionIsSeq
<1>8. \A r \in 1 .. Len(rs) :
        /\ new[r].aid = rs[r].aid /\ new[r].config = rs[r].config
        /\ new[r].resumed = rs[r].resumed /\ new[r].carried = rs[r].carried
        /\ new[r].fills = rs[r].fills /\ new[r].risk = rs[r].risk
        /\ new[r].cause = rs[r].cause
  BY <1>2, <1>4
<1>9. \A r \in 1 .. Len(rs) :
        rs[r].aid = a /\ rs[r].config.slot = slot /\ r # except => new[r].status # "running"
  BY <1>2, <1>3
<1> QED BY <1>7, <1>8, <1>9 DEF new

\* Two tasks of one assignment are not both uncancelled and before their end.
LEMMA OneLiveTask ==
  ASSUME IInv, NEW t \in Tasks, NEW u \in Tasks,
         tasks[t].phase # "free", ~Over(tasks[t]),
         tasks[u].phase # "free", ~Over(tasks[u]),
         tasks[t].aid = tasks[u].aid
  PROVE  t = u
BY DEF IInv, Ownership, Over

\* A predecessor that prepare_resume answers has no successor yet, and its
\* task, should it still be there, records no fill any more.
LEMMA PredecessorIsQuiet ==
  ASSUME IInv, NEW t \in Tasks, tasks[t].phase = "preparing", ~tasks[t].cancel,
         LET rs == Supersede(runs, tasks[t].aid, tasks[t].config.slot, 0)
         IN  ResumeDecision(rs, tasks[t].aid, tasks[t].config).kind # "refuse",
         NEW p,
         p = ResumeDecision(Supersede(runs, tasks[t].aid, tasks[t].config.slot, 0),
                            tasks[t].aid, tasks[t].config).run,
         p # 0
  PROVE  /\ p \in RunIds
         /\ SameSlot(p, tasks[t].aid, tasks[t].config)
         /\ Quiet(p)
         /\ \A r \in RunIds : runs[r].resumed # p
<1> USE DEF IInv
<1> DEFINE a  == tasks[t].aid
           config == tasks[t].config
           rs == Supersede(runs, a, config.slot, 0)
           S  == {r \in 1 .. Len(rs) : rs[r].aid = a /\ rs[r].status # "running"}
           q  == Newest(S)
<1>1. /\ runs \in Seq(RunRow) /\ Len(runs) \in Nat /\ RunIds = 1 .. Len(runs)
      /\ \A r \in RunIds : runs[r] \in RunRow
  BY TypeFacts
<1>2. /\ Len(rs) = Len(runs)
      /\ \A r \in RunIds : /\ rs[r].aid = runs[r].aid /\ rs[r].config = runs[r].config
                           /\ rs[r].risk = runs[r].risk
                           /\ runs[r].aid = a /\ runs[r].config.slot = config.slot =>
                                rs[r].status # "running"
  BY <1>1, SupersededRows
<1> HIDE DEF rs
<1>3. S \in SUBSET RunIds
  BY <1>1, <1>2
<1>4. p = q /\ rs[q].risk = "ok" /\ Identity(rs[q].config) = Identity(config)
  <2>1. LET d == ResumeDecision(rs, a, config) IN d.kind # "refuse" /\ d.run = p
    BY DEF rs
  <2> QED BY <2>1 DEF ResumeDecision, IsResumable
<1>5. q \in S /\ \A r \in S : r <= q
  <2> HIDE DEF S
  <2> QED BY <1>3, <1>4, NewestTyped
<1> HIDE DEF q
<1>6. p \in RunIds /\ runs[p].aid = a /\ runs[p].config.slot = config.slot /\ runs[p].risk = "ok"
  BY <1>2, <1>3, <1>4, <1>5 DEF Identity
<1>7. Quiet(p)
  <2>1. runs[p].cause # "risk"
    BY <1>6 DEF HaltStands
  <2>2. ASSUME NEW u \in Tasks, tasks[u].run = p PROVE Still(tasks[u])
    <3>1. MarkedBy(tasks[u], runs[p]) /\ tasks[u].aid = a
      BY <2>2, <1>6 DEF Marked, RowHeld
    <3>2. tasks[u].run # 0 /\ tasks[u] \in Task
      BY <2>2, TypeFacts
    <3>3. tasks[u].phase \notin Starting \cup {"free"}
      BY <3>2 DEF RowHeld
    <3>4. tasks[u].phase \in {"idle", "ending", "auditing", "done"}
      BY <3>1, <3>2, <3>3, <1>6 DEF MarkedBy, Task, Phase, Starting
    <3>5. tasks[u].phase = "idle" => tasks[u].cancel
      <4> SUFFICES ASSUME tasks[u].phase = "idle", ~tasks[u].cancel PROVE FALSE
        OBVIOUS
      <4>1. t = u
        BY <3>1, OneLiveTask DEF Over
      <4> QED BY <4>1
    <3>6. tasks[u].phase = "ending" => tasks[u].buffered = 0
      <4>1. tasks[u].buffered \in {0, 1}
        BY <3>2 DEF Task
      <4> QED BY <4>1, <3>1, <1>6 DEF MarkedBy
    <3> QED BY <3>4, <3>5, <3>6 DEF Still
  <2> QED BY <2>1, <2>2 DEF Quiet
<1>8. ASSUME NEW r \in RunIds, runs[r].resumed = p PROVE FALSE
  <2>1. p < r /\ SameSlot(p, runs[r].aid, runs[r].config)
    BY <1>8 DEF Succession
  <2>2. r \in S
    BY <2>1, <1>1, <1>2, <1>6 DEF SameSlot
  <2> QED BY SMTT(40), <2>1, <2>2, <1>1, <1>4, <1>5, <1>6
<1> QED BY <1>6, <1>7, <1>8 DEF SameSlot

\* What a chain replays to is a carry.
LEMMA ReplayedTyped ==
  ASSUME NEW rs \in Seq(RunRow), Len(rs) <= MaxRuns, NEW p
  PROVE  Replayed(rs, p) \in Carry
<1>1. Len(rs) \in Nat /\ MaxRuns \in Nat
  BY LenProperties, SupervisorAssumption
<1>2. ChainRows(rs, p) \subseteq 1 .. Len(rs)
  BY DEF ChainRows
<1>3. \A q \in 1 .. Len(rs) : rs[q].fills \in 0 .. MaxFills
  <2>1. \A q \in 1 .. Len(rs) : rs[q] \in RunRow
    BY ElementOfSeq
  <2> QED BY <2>1 DEF RunRow
<1>4. ChainRows(rs, p) \in SUBSET (1 .. MaxRuns)
  BY <1>1, <1>2
<1>5. Replayed(rs, p) \in [ChainRows(rs, p) -> 0 .. MaxFills]
  BY <1>2, <1>3 DEF Replayed
<1> QED BY <1>4, <1>5 DEF Carry

\* The slot is claimed and a quiet predecessor carried, or the start is fresh or refused.
LEMMA PrepareResumeStep ==
  ASSUME IInv, NEW t \in Tasks, PrepareResume(t)
  PROVE  IInv' /\ LedgersStay
<1> USE DEF IInv
<1> DEFINE a  == tasks[t].aid
           rs == Supersede(runs, a, tasks[t].config.slot, 0)
           answer == ResumeDecision(rs, a, tasks[t].config)
<1>1. /\ tasks[t].phase = "preparing" /\ ~tasks[t].cancel
      /\ UNCHANGED <<assignments, settings, procVars>>
      /\ tasks[t] \in Task
  BY TypeFacts DEF PrepareResume, At
<1>2. spent' \in [commands : 0 .. MaxCommands, faults : 0 .. MaxFaults]
  <2>1. UNCHANGED spent \/ Fault("replay")
    BY DEF PrepareResume
  <2>2. CASE UNCHANGED spent
    BY <2>2 DEF TypeOK
  <2> QED BY <2>1, <2>2, FaultTyped
<1>3. CASE answer.kind = "refuse"
  <2> DEFINE tk == [tasks[t] EXCEPT !.phase = "done", !.outcome = "raised"]
  <2>1. runs' = runs /\ tasks' = [tasks EXCEPT ![t] = tk]
    BY <1>3 DEF PrepareResume, Finish
  <2>2. /\ tk \in Task /\ tk.phase = "done"
        /\ tk.aid = tasks[t].aid /\ tk.run = tasks[t].run
        /\ tk.cancel = tasks[t].cancel
    BY <1>1 DEF Task, Phase
  <2> HIDE DEF tk
  <2>3. MarkedBy(tk, runs[tk.run])
    BY <2>2 DEF MarkedBy, Looping
  <2>4. UNCHANGED <<dbVars, procVars>>
    BY <1>1, <2>1 DEF dbVars
  <2>5. LedgersStay
    BY <2>1 DEF LedgersStay, SameLinks, SameLedger
  <2>6. IInv'
    BY <1>1, <1>2, <2>1, <2>2, <2>3, <2>4, TaskMoves
       DEF Claimless, Over, Still, Starting, Looping
  <2> QED BY <2>5, <2>6
<1>4. CASE answer.kind # "refuse"
  <2>0. /\ runs' = rs
        /\ \E p \in {answer.run, 0} :
             tasks' = [tasks EXCEPT ![t].phase = "prepared", ![t].resume = p,
                                    ![t].carried = Replayed(rs, p)]
    BY <1>4 DEF PrepareResume
  <2> PICK p \in {answer.run, 0} :
         tasks' = [tasks EXCEPT ![t].phase = "prepared", ![t].resume = p,
                                ![t].carried = Replayed(rs, p)]
    BY <2>0
  <2> DEFINE carried == Replayed(rs, p)
             tk == [tasks[t] EXCEPT !.phase = "prepared", !.resume = p, !.carried = carried]
  <2>1. runs' = rs /\ tasks' = [tasks EXCEPT ![t] = tk]
    BY <2>0
  <2>2. /\ rs \in Seq(RunRow) /\ Len(rs) = Len(runs) /\ Len(rs) <= MaxRuns
        /\ \A r \in RunIds :
             /\ rs[r].aid = runs[r].aid /\ rs[r].config = runs[r].config
             /\ rs[r].resumed = runs[r].resumed /\ rs[r].carried = runs[r].carried
             /\ rs[r].fills = runs[r].fills /\ rs[r].risk = runs[r].risk
             /\ rs[r].cause = runs[r].cause
    BY SupersededRows, TypeFacts
  <2>3. p # 0 => /\ p \in RunIds
                 /\ SameSlot(p, a, tasks[t].config)
                 /\ Quiet(p)
                 /\ \A r \in RunIds : runs[r].resumed # p
    <3>1. ASSUME p # 0
          PROVE  /\ p \in RunIds
                 /\ SameSlot(p, a, tasks[t].config)
                 /\ Quiet(p)
                 /\ \A r \in RunIds : runs[r].resumed # p
      BY <1>1, <1>4, <3>1, PredecessorIsQuiet
    <3> QED BY <3>1
  <2>4. carried \in Carry /\ p \in 0 .. MaxRuns
    <3>1. carried \in Carry
      BY <2>2, ReplayedTyped
    <3>2. p # 0 => p \in 1 .. Len(runs)
      BY <2>3, TypeFacts
    <3> QED BY <3>1, <3>2, TypeFacts
  <2> HIDE DEF carried, rs
  <2>5. /\ tk \in Task /\ tk.phase = "prepared" /\ tk.resume = p /\ tk.carried = carried
        /\ tk.aid = tasks[t].aid /\ tk.config = tasks[t].config /\ tk.run = tasks[t].run
        /\ tk.cancel = tasks[t].cancel /\ tk.buffered = tasks[t].buffered
        /\ tk.owed = tasks[t].owed
    BY <1>1, <2>4 DEF Task, Phase
  <2> HIDE DEF tk
  <2>6. /\ tasks' \in [Tasks -> Task] /\ tasks'[t] = tk
        /\ \A u \in Tasks : u # t => tasks'[u] = tasks[u]
    BY <2>1, <2>5, TaskWritten
  <2>7. TypeOK'
    BY <1>1, <1>2, <2>1, <2>2, <2>6, TypeOKByTasks
  <2>8. /\ Len(runs') = Len(runs) /\ Len(runs) <= Len(runs') /\ RunIds' = RunIds
        /\ \A r \in RunIds : SameLinks(r) /\ SameLedger(r)
    BY <2>1, <2>2, TypeFacts DEF SameLinks, SameLedger, RunIds
  <2>9. tasks[t].run = 0
    BY <1>1 DEF RowHeld, Starting
  <2>10. ASSUME NEW r \in RunIds, Quiet(r)
         PROVE  runs'[r].fills = runs[r].fills /\ Quiet(r)'
    <3>1. \A u \in Tasks : tasks'[u].run = r => tasks[u].run = r /\ tasks'[u] = tasks[u]
      BY <2>5, <2>6, <2>9, TypeFacts
    <3>2. SameLedger(r)
      BY <2>8
    <3> QED BY <3>1, <3>2, <2>10 DEF Quiet, SameLedger
  <2>11. Ownership'
    <3>1. \A u \in Tasks : /\ tasks'[u].aid = tasks[u].aid
                           /\ tasks'[u].phase = "free" <=> tasks[u].phase = "free"
                           /\ tasks'[u].cancel => tasks[u].cancel
                           /\ Over(tasks[u]) => Over(tasks'[u])
      BY <1>1, <2>5, <2>6 DEF Over
    <3>2. live' = live /\ markers' = markers
      BY <1>1 DEF procVars
    <3> QED BY <3>1, <3>2, OwnershipKept
  <2>12. RowHeld'
    <3>1. \A u \in Tasks :
             /\ tasks'[u].run = tasks[u].run
             /\ tasks'[u].aid = tasks[u].aid
             /\ tasks'[u].phase \in Starting \cup {"free"} =>
                  tasks[u].phase \in Starting \cup {"free"}
             /\ tasks'[u].phase \in Looping \cup {"ending", "auditing"} =>
                  tasks[u].phase \in Looping \cup {"ending", "auditing"}
      BY <1>1, <2>5, <2>6 DEF Starting, Looping
    <3> QED BY <2>8, <3>1, RowHeldKept
  <2>13. Marked'
    <3>1. MarkedBy(tasks'[t], runs'[tasks'[t].run])
      <4>1. tasks[t].buffered = 0 /\ tasks[t].owed = None
        BY <1>1 DEF Marked, MarkedBy
      <4> QED BY <4>1, <2>5, <2>6 DEF MarkedBy, Looping
    <3>2. ASSUME NEW u \in Tasks, u # t
          PROVE  MarkedBy(tasks'[u], runs'[tasks'[u].run])
      <4>1. SameTask(u)
        BY <2>6, <3>2 DEF SameTask
      <4>2. tasks[u].run # 0 => tasks[u].run \in RunIds
        BY TypeFacts DEF RowHeld, Task
      <4> QED BY <4>1, <4>2, <2>8, MarkedTaskKept DEF Marked
    <3> QED BY <3>1, <3>2 DEF Marked
  <2>14. HaltStands'
    BY <2>8 DEF HaltStands, SameLedger
  <2>15. Succession'
    BY <2>7, <2>8, <2>10, SuccessorsKept DEF Succession
  <2>16. Prepared'
    <3> SUFFICES ASSUME NEW u \in Tasks, Claimless(tasks'[u])
                 PROVE  /\ tasks'[u].carried = Replayed(runs', tasks'[u].resume)
                        /\ tasks'[u].resume # 0 =>
                             /\ tasks'[u].resume \in RunIds
                             /\ SameSlot(tasks[u].resume, tasks[u].aid, tasks[u].config)'
                             /\ Quiet(tasks[u].resume)'
                             /\ \A r \in RunIds : runs'[r].resumed # tasks'[u].resume
      BY <2>8 DEF Prepared, Claimless
    <3>1. CASE u # t
      BY <3>1, <2>6, <2>7, <2>8, <2>10, PreparedTaskKept
    <3>2. CASE u = t
      <4>1. PICK q : q = p
        OBVIOUS
      <4>2. tasks'[u].carried = Replayed(runs', q) /\ tasks'[u].resume = q
        BY <3>2, <4>1, <2>1, <2>5, <2>6 DEF carried
      <4>3. q # 0 => /\ q \in RunIds
                     /\ SameSlot(q, a, tasks[t].config)
                     /\ Quiet(q)
                     /\ \A r \in RunIds : runs[r].resumed # q
        BY <4>1, <2>3
      <4>4. q # 0 => SameLinks(q) /\ Quiet(q)'
        BY <4>3, <2>8, <2>10
      <4>5. q # 0 => /\ runs'[q].aid = tasks'[u].aid
                     /\ runs'[q].config.slot = tasks'[u].config.slot
        BY <3>2, <4>3, <4>4, <2>5, <2>6 DEF SameSlot, SameLinks
      <4>6. q # 0 => \A r \in RunIds : runs'[r].resumed # q
        BY <4>3, <2>8 DEF SameLinks
      <4>7. q # 0 => SameSlot(tasks[u].resume, tasks[u].aid, tasks[u].config)'
        BY <4>2, <4>5 DEF SameSlot
      <4>8. q # 0 => Quiet(tasks[u].resume)'
        BY <4>2, <4>4 DEF Quiet
      <4> QED BY <4>2, <4>3, <4>6, <4>7, <4>8
    <3> QED BY <3>1, <3>2
  <2>17. ChainIsALine'
    BY <2>8 DEF ChainIsALine, SameLinks
  <2> QED BY <2>7, <2>8, <2>11, <2>12, <2>13, <2>14, <2>15, <2>16, <2>17 DEF LedgersStay
<1> QED BY <1>3, <1>4

\* A new row succeeds what was carried; no other row succeeds the same one.
LEMMA ClaimSlotStep ==
  ASSUME IInv, NEW t \in Tasks, ClaimSlot(t)
  PROVE  IInv'
<1> USE DEF IInv
<1> DEFINE n   == Len(runs) + 1
           p   == tasks[t].resume
           row == [aid |-> tasks[t].aid, config |-> tasks[t].config, status |-> "running",
                   reason |-> None, audit |-> None, risk |-> "incomplete",
                   resumed |-> tasks[t].resume, fills |-> 0, command |-> None,
                   carried |-> tasks[t].carried, cause |-> None, held |-> FALSE]
           tk  == [tasks[t] EXCEPT !.phase = "claimed", !.run = n]
           grown == Append(runs, row)
<1>1. /\ tasks[t].phase = "claiming" /\ ~tasks[t].cancel /\ Len(runs) < MaxRuns
      /\ UNCHANGED <<assignments, settings, procVars, spent>>
      /\ tasks' = [tasks EXCEPT ![t] = tk]
      /\ runs' = Supersede(grown, tasks[t].aid, tasks[t].config.slot, n)
  BY DEF ClaimSlot, At
<1>2. /\ runs \in Seq(RunRow) /\ Len(runs) \in Nat /\ MaxRuns \in Nat
      /\ RunIds = 1 .. Len(runs) /\ tasks[t] \in Task
      /\ MaxFills \in Nat
  BY TypeFacts
<1>3. /\ row \in RunRow /\ row.aid = tasks[t].aid /\ row.config = tasks[t].config
      /\ row.risk = "incomplete" /\ row.resumed = p /\ row.fills = 0
      /\ row.carried = tasks[t].carried /\ row.cause = None
  <2>1. 0 \in 0 .. MaxFills
    BY <1>2
  <2> QED BY <2>1, <1>2 DEF RunRow, Task, Cause
<1> HIDE DEF row
<1>4. /\ grown \in Seq(RunRow) /\ Len(grown) = n /\ grown[n] = row
      /\ \A r \in RunIds : grown[r] = runs[r]
  BY <1>2, <1>3, AppendProperties
<1> HIDE DEF grown
<1>5. /\ runs' \in Seq(RunRow) /\ Len(runs') = n
      /\ \A r \in 1 .. n :
           /\ runs'[r].aid = grown[r].aid /\ runs'[r].config = grown[r].config
           /\ runs'[r].resumed = grown[r].resumed /\ runs'[r].carried = grown[r].carried
           /\ runs'[r].fills = grown[r].fills /\ runs'[r].risk = grown[r].risk
           /\ runs'[r].cause = grown[r].cause
  BY <1>1, <1>4, SupersededRows
<1>6. /\ n \in 1 .. MaxRuns /\ n \in 0 .. MaxRuns /\ n \in Nat /\ RunIds' = RunIds \cup {n} /\ n \notin RunIds
      /\ Len(runs) <= Len(runs') /\ Len(runs') <= MaxRuns /\ n # 0
  BY <1>1, <1>2, <1>5 DEF RunIds
<1> HIDE DEF n
<1>7. \A r \in RunIds : SameLinks(r) /\ SameLedger(r)
  BY <1>4, <1>5, <1>6, <1>2 DEF SameLinks, SameLedger
<1>8. /\ runs'[n].aid = tasks[t].aid /\ runs'[n].config = tasks[t].config
      /\ runs'[n].risk = "incomplete" /\ runs'[n].resumed = p /\ runs'[n].fills = 0
      /\ runs'[n].carried = tasks[t].carried /\ runs'[n].cause = None
  BY <1>3, <1>4, <1>5, <1>6
<1>9. /\ tk \in Task /\ tk.phase = "claimed" /\ tk.run = n
      /\ tk.aid = tasks[t].aid /\ tk.cancel = tasks[t].cancel
      /\ tk.buffered = tasks[t].buffered /\ tk.owed = tasks[t].owed
  BY <1>2, <1>6 DEF Task, Phase
<1> HIDE DEF tk
<1>10. /\ tasks' \in [Tasks -> Task] /\ tasks'[t] = tk
       /\ \A u \in Tasks : u # t => tasks'[u] = tasks[u]
  BY <1>1, <1>9, TaskWritten
<1>11. TypeOK'
  BY <1>1, <1>5, <1>6, <1>10, TypeOKByTasks DEF TypeOK
<1>12. \A u \in Tasks : tasks[u].run # 0 => tasks[u].run \in RunIds
  BY TypeFacts DEF RowHeld, Task
<1>13. ASSUME NEW r \in RunIds, Quiet(r)
       PROVE  runs'[r].fills = runs[r].fills /\ Quiet(r)'
  <2>1. \A u \in Tasks : tasks'[u].run = r => tasks[u].run = r /\ tasks'[u] = tasks[u]
    BY <1>6, <1>9, <1>10
  <2>2. SameLedger(r)
    BY <1>7
  <2> QED BY <2>1, <2>2, <1>13 DEF Quiet, SameLedger
<1>14. Claimless(tasks[t]) /\ tasks[t].phase # "free" /\ ~Over(tasks[t])
  BY <1>1 DEF Claimless, Over
<1>15. /\ tasks[t].carried = Replayed(runs, p)
       /\ p # 0 =>
            /\ p \in RunIds
            /\ SameSlot(p, tasks[t].aid, tasks[t].config)
            /\ Quiet(p)
            /\ \A r \in RunIds : runs[r].resumed # p
  BY <1>14 DEF Prepared, Claimless
<1> HIDE DEF p
<1>16. Ownership'
  <2>1. \A u \in Tasks : /\ tasks'[u].aid = tasks[u].aid
                         /\ tasks'[u].phase = "free" <=> tasks[u].phase = "free"
                         /\ tasks'[u].cancel => tasks[u].cancel
                         /\ Over(tasks[u]) => Over(tasks'[u])
    BY <1>1, <1>9, <1>10 DEF Over
  <2>2. live' = live /\ markers' = markers
    BY <1>1 DEF procVars
  <2> QED BY <2>1, <2>2, OwnershipKept
<1>17. RowHeld'
  <2>1. \A u \in Tasks : u # t => tasks[u].run # n
    BY <1>6, <1>12
  <2>2. \A u \in Tasks : tasks[u].run \in Nat /\ tasks[u].run <= Len(runs')
    BY <1>2, <1>6, TypeFacts, <1>5 DEF RowHeld, Task
  <2>3. \A u \in Tasks : u # t /\ tasks[u].run # 0 => runs'[tasks[u].run].aid = tasks[u].aid
    BY <1>7, <1>12 DEF RowHeld, SameLinks
  <2>4. ASSUME NEW u \in Tasks
        PROVE  /\ tasks'[u].run <= Len(runs')
               /\ tasks'[u].phase \in Starting \cup {"free"} => tasks'[u].run = 0
               /\ tasks'[u].phase \in Looping \cup {"ending", "auditing"} => tasks'[u].run # 0
               /\ tasks'[u].run # 0 => runs'[tasks'[u].run].aid = tasks'[u].aid
    <3>1. CASE u = t
      BY <3>1, <1>5, <1>6, <1>8, <1>9, <1>10 DEF Starting
    <3>2. CASE u # t
      BY <3>2, <2>2, <2>3, <1>10 DEF RowHeld
    <3> QED BY <3>1, <3>2
  <2>5. \A v, u \in Tasks : tasks'[v].run # 0 /\ tasks'[v].run = tasks'[u].run => v = u
    BY <2>1, <1>9, <1>10 DEF RowHeld
  <2> QED BY <2>4, <2>5 DEF RowHeld
<1>18. Marked'
  <2>1. MarkedBy(tasks'[t], runs'[tasks'[t].run])
    <3>1. tasks[t].buffered = 0 /\ tasks[t].owed = None
      BY <1>1 DEF Marked, MarkedBy
    <3> QED BY <3>1, <1>8, <1>9, <1>10 DEF MarkedBy, Looping
  <2>2. ASSUME NEW u \in Tasks, u # t
        PROVE  MarkedBy(tasks'[u], runs'[tasks'[u].run])
    <3>1. SameTask(u)
      BY <1>10, <2>2 DEF SameTask
    <3> QED BY <3>1, <1>7, <1>12, MarkedTaskKept DEF Marked
  <2> QED BY <2>1, <2>2 DEF Marked
<1>19. HaltStands'
  BY <1>6, <1>7, <1>8 DEF HaltStands, SameLedger, None
<1>20. Succession'
  <2>1. ASSUME NEW r \in RunIds
        PROVE  /\ runs'[r].carried = Replayed(runs', runs'[r].resumed)
               /\ runs'[r].resumed # 0 =>
                    /\ runs'[r].resumed < r
                    /\ SameSlot(runs[r].resumed, runs[r].aid, runs[r].config)'
                    /\ Quiet(runs[r].resumed)'
    BY <1>6, <1>7, <1>11, <1>13, SuccessorsKept
  <2>2. PICK q, m : q = p /\ m = n
    OBVIOUS
  <2>3. /\ m \in RunIds' /\ RunIds' = RunIds \cup {m} /\ runs'[m].resumed = q
        /\ runs'[m].carried = Replayed(runs, q)
    BY <2>2, <1>6, <1>8, <1>15
  <2>4. Replayed(runs', q) = Replayed(runs, q)
    <3>1. q \in 0 .. Len(runs) /\ (q # 0 => Quiet(q))
      BY <2>2, <1>2, <1>15
    <3> QED BY <3>1, <1>6, <1>7, <1>11, <1>13, ReplayedAlike
  <2>5. ASSUME q # 0
        PROVE  /\ q < m /\ Quiet(q)'
               /\ runs'[q].aid = runs'[m].aid /\ runs'[q].config.slot = runs'[m].config.slot
    <3>1. q \in RunIds /\ SameLinks(q) /\ Quiet(q)' /\ SameSlot(q, tasks[t].aid, tasks[t].config)
      BY <1>7, <1>13, <1>15, <2>2, <2>5
    <3>2. q < m
      BY <3>1, <1>2, <2>2 DEF n
    <3>3. runs'[m].aid = tasks[t].aid /\ runs'[m].config = tasks[t].config
      BY <2>2, <1>8
    <3> QED BY <3>1, <3>2, <3>3 DEF SameSlot, SameLinks
  <2>6. /\ runs'[m].carried = Replayed(runs', runs'[m].resumed)
        /\ runs'[m].resumed # 0 =>
             /\ runs'[m].resumed < m
             /\ SameSlot(runs[m].resumed, runs[m].aid, runs[m].config)'
             /\ Quiet(runs[m].resumed)'
    <3>1. q # 0 => Quiet(runs[m].resumed)'
      BY <2>3, <2>5 DEF Quiet
    <3>2. q # 0 => SameSlot(runs[m].resumed, runs[m].aid, runs[m].config)'
      BY <2>3, <2>5 DEF SameSlot
    <3> QED BY <2>3, <2>4, <2>5, <3>1, <3>2
  <2> QED BY <2>1, <2>3, <2>6 DEF Succession
<1>21. Prepared'
  <2> SUFFICES ASSUME NEW u \in Tasks, Claimless(tasks'[u])
               PROVE  /\ tasks'[u].carried = Replayed(runs', tasks'[u].resume)
                      /\ tasks'[u].resume # 0 =>
                           /\ tasks'[u].resume \in RunIds'
                           /\ SameSlot(tasks[u].resume, tasks[u].aid, tasks[u].config)'
                           /\ Quiet(tasks[u].resume)'
                           /\ \A r \in RunIds' : runs'[r].resumed # tasks'[u].resume
    BY DEF Prepared, Claimless
  <2>1. u # t /\ tasks'[u] = tasks[u] /\ Claimless(tasks[u])
    BY <1>9, <1>10 DEF Claimless
  <2>2. /\ tasks'[u].carried = Replayed(runs', tasks'[u].resume)
        /\ tasks'[u].resume # 0 =>
             /\ tasks'[u].resume \in RunIds
             /\ SameSlot(tasks[u].resume, tasks[u].aid, tasks[u].config)'
             /\ Quiet(tasks[u].resume)'
             /\ \A r \in RunIds : runs'[r].resumed # tasks'[u].resume
    BY <2>1, <1>6, <1>7, <1>11, <1>13, PreparedTaskKept
  <2>3. ASSUME tasks[u].resume # 0, p = tasks[u].resume PROVE FALSE
    <3>1. SameSlot(p, tasks[u].aid, tasks[u].config) /\ SameSlot(p, tasks[t].aid, tasks[t].config)
      BY <2>1, <2>3, <1>15 DEF Prepared, Claimless
    <3>2. tasks[u].phase # "free" /\ ~Over(tasks[u])
      BY <2>1 DEF Claimless, Over
    <3> QED BY <3>1, <3>2, <2>1, <1>14, OneLiveTask DEF SameSlot
  <2> QED BY <2>1, <2>2, <2>3, <1>6, <1>8
<1>22. ChainIsALine'
  <2> SUFFICES ASSUME NEW r \in RunIds', NEW q \in RunIds',
                      runs'[r].resumed # 0, runs'[r].resumed = runs'[q].resumed
               PROVE  r = q
    BY DEF ChainIsALine
  <2>1. CASE r \in RunIds /\ q \in RunIds
    BY <2>1, <1>7 DEF ChainIsALine, SameLinks
  <2>2. CASE r = n /\ q \in RunIds
    BY <2>2, <1>7, <1>8, <1>15 DEF SameLinks
  <2>3. CASE r \in RunIds /\ q = n
    BY <2>3, <1>7, <1>8, <1>15 DEF SameLinks
  <2> QED BY <2>1, <2>2, <2>3, <1>6
<1> QED BY <1>11, <1>16, <1>17, <1>18, <1>19, <1>20, <1>21, <1>22

-----------------------------------------------------------------------------
(***************************************************************************)
(* IInv is inductive.                                                      *)
(***************************************************************************)
LEMMA InitStep ==
  ASSUME Init
  PROVE  IInv
<1>1. /\ runs = <<>> /\ pc = "down" /\ backoff = {} /\ markers = {}
      /\ rows = assignments
      /\ live = [a \in Assignments |-> None]
      /\ killed = [a \in Assignments |-> NotKilled]
      /\ tasks = [t \in Tasks |-> FreeTask]
      /\ spent = [commands |-> 0, faults |-> 0]
  BY DEF Init
<1>2. Len(runs) = 0 /\ runs \in Seq(RunRow) /\ RunIds = {}
  <2>1. runs \in Seq(RunRow) /\ Len(runs) = 0
    BY <1>1, EmptySeq
  <2> QED BY <2>1 DEF RunIds
<1>3. assignments \in [Assignments -> AssignmentRow] /\ settings \in Slots
  <2>1. PICK config \in [Assignments -> Config] :
          assignments = [a \in Assignments |->
                           [enabled |-> TRUE, config |-> config[a], updated |-> 0]]
    BY DEF Init
  <2>2. 0 \in 0 .. MaxEdits
    BY SupervisorAssumption
  <2>3. assignments \in [Assignments -> AssignmentRow]
    BY <2>1, <2>2 DEF AssignmentRow
  <2>4. assignments[Primary].config \in Config
    BY <2>1, SupervisorAssumption
  <2> QED BY <2>3, <2>4 DEF Init, Config
<1>4. FreeTask \in Task /\ \A t \in Tasks : tasks[t] = FreeTask
  BY <1>1, FreeTaskTyped
<1>5. TypeOK
  <2>1. 0 \in 0 .. MaxRuns /\ 0 \in 0 .. MaxEdits /\ 0 \in 0 .. MaxCommands
        /\ 0 \in 0 .. MaxFaults /\ 0 <= MaxRuns
    BY SupervisorAssumption
  <2>2. NotKilled \in [run : 0 .. MaxRuns, observed : 0 .. MaxEdits]
    BY <2>1 DEF NotKilled
  <2>3. spent \in [commands : 0 .. MaxCommands, faults : 0 .. MaxFaults]
    BY <1>1, <2>1
  <2>4. live \in [Assignments -> Tasks \cup {None}]
        /\ killed \in [Assignments -> [run : 0 .. MaxRuns, observed : 0 .. MaxEdits]]
        /\ tasks \in [Tasks -> Task]
    BY <1>1, <1>4, <2>2
  <2> QED BY <1>1, <1>2, <1>3, <2>1, <2>3, <2>4 DEF TypeOK
<1>6. Ownership
  BY <1>1, <1>4, FreeTaskTyped DEF Ownership
<1>7. RowHeld
  BY <1>2, <1>4, FreeTaskTyped DEF RowHeld, Looping
<1>8. Marked
  BY <1>4, FreeTaskTyped DEF Marked, MarkedBy, Looping
<1>9. HaltStands /\ Succession /\ ChainIsALine
  BY <1>2 DEF HaltStands, Succession, ChainIsALine
<1>10. Prepared
  BY <1>4, FreeTaskTyped DEF Prepared
<1> QED BY <1>5, <1>6, <1>7, <1>8, <1>9, <1>10 DEF IInv

\* The steps of a run's task.
LEMMA TaskStepStep ==
  ASSUME IInv, NEW t \in Tasks, TaskStep(t)
  PROVE  IInv'
BY PrepareResumeStep, BuildEngineStep, ClaimSlotStep, FirstCheckpointStep,
   BeginCandleStep, FlushCandleStep, EndCandleStep, SeeStopStep, WindDownStep,
   RecordHaltStep, TakeCancelStep DEF TaskStep

\* Every step of the system.
LEMMA NextStep ==
  ASSUME IInv, [Next]_vars
  PROVE  IInv'
<1>1. CASE UNCHANGED vars
  <2>1. TypeOK'
    BY <1>1 DEF IInv, TypeOK, vars
  <2> QED BY <2>1, <1>1, Inert DEF vars, SameLinks, SameLedger, SameTask
<1>2. CASE \E a \in Assignments : UpdateAssignment(a) \/ BackoffExpires(a)
  BY <1>2, UpdateAssignmentStep, QuietPassStep
<1>3. CASE PutSettings \/ Control
  BY <1>3, PutSettingsStep, ControlStep
<1>4. CASE Pass
  BY <1>4, ReapStep, WatchStep, PlanStep, QuietPassStep DEF Pass
<1>5. CASE Shutdown \/ Boot
  BY <1>5, ShutdownStep, BootStep
<1>6. CASE Exit
  <2>1. spent' \in [commands : 0 .. MaxCommands, faults : 0 .. MaxFaults]
    BY <1>6 DEF Exit, IInv, TypeOK
  <2> QED BY <2>1, <1>6, ProcessGoneStep DEF Exit
<1>7. CASE Crash
  <2>1. spent' \in [commands : 0 .. MaxCommands, faults : 0 .. MaxFaults]
    BY <1>7, FaultTyped DEF Crash, IInv
  <2> QED BY <2>1, <1>7, ProcessGoneStep DEF Crash
<1>8. CASE \E t \in Tasks : TaskStep(t) \/ StartFails(t) \/ RunFails(t) \/ Stall(t)
                            \/ MarkWatchdogStopped(t)
  BY <1>8, TaskStepStep, StartFailsStep, RunFailsStep, StallStep, MarkWatchdogStoppedStep
<1> QED BY <1>1, <1>2, <1>3, <1>4, <1>5, <1>6, <1>7, <1>8 DEF Next

\* The invariant holds of every reachable state, for any number of
\* assignments, tasks, rows, edits, commands and faults.
THEOREM Invariant == Spec => []IInv
<1>1. Init => IInv
  BY InitStep
<1>2. IInv /\ [Next]_vars => IInv'
  BY NextStep
<1> QED BY <1>1, <1>2, PTL DEF Spec

-----------------------------------------------------------------------------
(***************************************************************************)
(* What follows from it.                                                   *)
(***************************************************************************)
\* Every variable holds a value of its kind: no step writes outside the rows
\* and fields of the database, the process and its tasks.
THEOREM TypeCorrect == Spec => []TypeOK
<1>1. IInv => TypeOK
  BY DEF IInv
<1> QED BY <1>1, Invariant, PTL

\* An assignment never has two tasks that go on trading: whatever the
\* supervisor pops, cancels, starts or forgets (run_supervisor's live dict).
THEOREM OneTraderAlways == Spec => []OneTrader
<1>1. IInv => OneTrader
  <2> SUFFICES ASSUME IInv, NEW t \in Tasks, NEW u \in Tasks,
                      Trading(t), Trading(u), tasks[t].aid = tasks[u].aid
               PROVE  t = u
    BY DEF OneTrader
  <2>1. tasks[t].phase # "free" /\ ~Over(tasks[t]) /\ tasks[u].phase # "free" /\ ~Over(tasks[u])
    BY DEF Trading, Over
  <2> QED BY <2>1, OneLiveTask DEF IInv
<1> QED BY <1>1, Invariant, PTL

\* No row has two successors (prepare_resume picks the newest ended row, and a
\* row that has been succeeded is never the newest of its slot again).
THEOREM ChainIsALineAlways == Spec => []ChainIsALine
<1>1. IInv => ChainIsALine
  BY DEF IInv
<1> QED BY <1>1, Invariant, PTL

\* A resumed run's ledger is the ledger its predecessors recorded, whatever
\* winds down late behind it (replay_fills and the incomplete checkpoint).
THEOREM LedgerContinuityAlways == Spec => []LedgerContinuity
<1>1. IInv => LedgerContinuity
  BY DEF IInv, Succession, LedgerContinuity
<1> QED BY <1>1, Invariant, PTL

\* A run stopped by the risk rail is never resumed (saved.halted).
THEOREM RiskHaltNotResumedAlways == Spec => []RiskHaltNotResumed
<1>1. IInv => RiskHaltNotResumed
  BY DEF IInv, Succession, RiskHaltNotResumed, Quiet
<1> QED BY <1>1, Invariant, PTL

-----------------------------------------------------------------------------
(***************************************************************************)
(* The chain of runs implements the ledger chain: a claim opens a fresh    *)
(* book or the one successor of a book that records no more, a task's      *)
(* commit records in a book nobody succeeded, and every other step leaves  *)
(* the books alone.                                                        *)
(***************************************************************************)
Book == [prev : Nat, base : Carry, own : 0 .. MaxFills]

\* The mapped state, row by row.
BooksAreRows ==
  /\ Books \in Seq(Book)
  /\ Len(Books) = Len(runs)
  /\ DOMAIN Books = RunIds
  /\ Books = [r \in RunIds |-> Books[r]]
  /\ \A r \in RunIds : Books[r] = [prev |-> runs[r].resumed, base |-> runs[r].carried,
                                   own |-> runs[r].fills]

\* The books of the abstract chain, row by row.
LEMMA BooksOfRows == TypeOK => BooksAreRows
<1> SUFFICES ASSUME TypeOK PROVE BooksAreRows
  OBVIOUS
<1>1. RunIds = 1 .. Len(runs) /\ Len(runs) \in Nat /\ MaxRuns \in Nat
  BY TypeFacts
<1>2. \A r \in RunIds : /\ runs[r].resumed \in Nat /\ runs[r].carried \in Carry
                        /\ runs[r].fills \in 0 .. MaxFills
  BY <1>1, TypeFacts DEF RunRow
<1>3. Books \in [1 .. Len(runs) -> Book]
  BY <1>1, <1>2 DEF Books, Book
<1>4. Books \in Seq(Book) /\ Len(Books) = Len(runs)
  BY <1>1, <1>3, FunctionIsSeq
<1> QED BY <1>1, <1>4 DEF Books, BooksAreRows

\* The same of the books after a step.
LEMMA BooksOfNewRows == TypeOK' => BooksAreRows'
BY BooksOfRows, PTL

\* A step that keeps links and ledgers keeps the books.
LEMMA BooksStay ==
  ASSUME TypeOK, TypeOK', LedgersStay
  PROVE  UNCHANGED Books
BY TypeFacts DEF Books, LedgersStay, SameLinks, SameLedger, RunIds

\* A row that a task's fills may still reach has no successor.
LEMMA NotSucceeded ==
  ASSUME IInv, NEW t \in Tasks, tasks[t].run \in RunIds, ~Still(tasks[t])
  PROVE  ~Chain!Succeeded(tasks[t].run)
<1>1. ~Quiet(tasks[t].run)
  BY DEF Quiet
<1>2. \A r \in RunIds : runs[r].resumed # tasks[t].run
  <2>1. tasks[t].run # 0
    BY TypeFacts DEF IInv
  <2> QED BY <1>1, <2>1 DEF IInv, Succession
<1> QED BY <1>2, BooksOfRows DEF IInv, BooksAreRows, Chain!Succeeded, Chain!Ids

\* A task's write to its own row is a record in its book, or leaves it alone.
LEMMA OwnRowRecorded ==
  ASSUME IInv, TypeOK', NEW t \in Tasks,
         tasks[t].phase \in Looping \cup {"ending", "auditing"},
         NEW row \in RunRow, runs' = [runs EXCEPT ![tasks[t].run] = row],
         row.resumed = runs[tasks[t].run].resumed, row.carried = runs[tasks[t].run].carried,
         row.fills >= runs[tasks[t].run].fills,
         row.fills # runs[tasks[t].run].fills => ~Still(tasks[t])
  PROVE  [Chain!Next]_Books
<1> DEFINE r == tasks[t].run
<1>1. r \in RunIds /\ TypeOK
  BY OwnRow DEF IInv
<1>2. /\ Len(runs') = Len(runs) /\ runs'[r] = row
      /\ \A q \in RunIds : q # r => runs'[q] = runs[q]
  BY <1>1, RowWritten
<1>3. RunIds' = RunIds
  BY <1>2 DEF RunIds
<1>4. PICK id, fills : id = r /\ fills = row.fills
  OBVIOUS
<1>5. BooksAreRows /\ BooksAreRows'
  BY <1>1, BooksOfRows, BooksOfNewRows
<1>6. \A q \in RunIds : q # id => Books'[q] = Books[q]
  BY <1>1, <1>2, <1>3, <1>4, <1>5 DEF BooksAreRows
<1>7. Books'[id] = [Books[id] EXCEPT !.own = fills] /\ id \in RunIds
  <2>1. id \in RunIds /\ id \in RunIds'
    BY <1>1, <1>3, <1>4
  <2>2. Books[id] = [prev |-> runs[id].resumed, base |-> runs[id].carried,
                     own |-> runs[id].fills]
    BY <2>1, <1>5 DEF BooksAreRows
  <2>3. Books'[id] = [prev |-> runs'[id].resumed, base |-> runs'[id].carried,
                      own |-> runs'[id].fills]
    BY <2>1, <1>5 DEF BooksAreRows
  <2>4. /\ runs'[id].resumed = runs[id].resumed /\ runs'[id].carried = runs[id].carried
        /\ runs'[id].fills = fills
    BY <1>2, <1>4
  <2>5. Books'[id] = [prev |-> runs[id].resumed, base |-> runs[id].carried, own |-> fills]
    BY <2>3, <2>4
  <2> QED BY <2>1, <2>2, <2>5
<1>8. Books' = [Books EXCEPT ![id].own = fills]
  <2>1. DOMAIN Books = RunIds /\ Books' = [q \in RunIds |-> Books'[q]]
    BY <1>3, <1>5 DEF BooksAreRows
  <2>2. Books = [q \in RunIds |-> Books[q]]
    BY <1>5 DEF BooksAreRows
  <2> QED BY <2>1, <2>2, <1>6, <1>7
<1>9. Books[id].own = runs[id].fills /\ id \in Chain!Ids /\ fills \in 0 .. MaxFills
  BY <1>1, <1>4, <1>5 DEF RunRow, Chain!Ids, BooksAreRows
<1>10. CASE fills = Books[id].own
  <2>1. \A q \in RunIds : Books'[q] = Books[q]
    BY <1>6, <1>7, <1>9, <1>10, <1>5 DEF BooksAreRows
  <2>2. Books' = Books
    BY <2>1, <1>3, <1>5 DEF BooksAreRows
  <2> QED BY <2>2
<1>11. CASE fills # Books[id].own
  <2>1. ~Chain!Succeeded(id)
    BY <1>1, <1>4, <1>9, <1>11, NotSucceeded
  <2>2. fills > Books[id].own
    BY SMTT(40), <1>4, <1>9, <1>11, <1>1, TypeFacts DEF RunRow
  <2>3. Chain!Record(id)
    BY <2>1, <2>2, <1>8, <1>9 DEF Chain!Record
  <2> QED BY <2>3, <1>9 DEF Chain!Next
<1> QED BY <1>10, <1>11

\* A claim opens a fresh book, or the one successor of its predecessor's book.
LEMMA ClaimOpensBook ==
  ASSUME IInv, TypeOK', NEW t \in Tasks, ClaimSlot(t)
  PROVE  [Chain!Next]_Books
<1> DEFINE row == [aid |-> tasks[t].aid, config |-> tasks[t].config, status |-> "running",
                   reason |-> None, audit |-> None, risk |-> "incomplete",
                   resumed |-> tasks[t].resume, fills |-> 0, command |-> None,
                   carried |-> tasks[t].carried, cause |-> None, held |-> FALSE]
           grown == Append(runs, row)
<1>1. /\ tasks[t].phase = "claiming" /\ ~tasks[t].cancel
      /\ runs' = Supersede(grown, tasks[t].aid, tasks[t].config.slot, Len(runs) + 1)
  BY DEF ClaimSlot, At
<1>2. /\ runs \in Seq(RunRow) /\ Len(runs) \in Nat /\ MaxFills \in Nat
      /\ RunIds = 1 .. Len(runs) /\ tasks[t] \in Task /\ TypeOK
  BY TypeFacts DEF IInv
<1>3. /\ row \in RunRow /\ row.resumed = tasks[t].resume
      /\ row.carried = tasks[t].carried /\ row.fills = 0
  <2>1. 0 \in 0 .. MaxFills
    BY <1>2
  <2> QED BY <2>1, <1>2 DEF RunRow, Task, Cause
<1> HIDE DEF row
<1>4. PICK n, p, base : n = Len(runs) + 1 /\ p = tasks[t].resume /\ base = tasks[t].carried
  OBVIOUS
<1>5. /\ grown \in Seq(RunRow) /\ Len(grown) = n /\ grown[n] = row
      /\ \A r \in RunIds : grown[r] = runs[r]
  BY <1>2, <1>3, <1>4, AppendProperties
<1> HIDE DEF grown
<1>6. /\ Len(runs') = n
      /\ \A r \in 1 .. n : /\ runs'[r].resumed = grown[r].resumed
                           /\ runs'[r].carried = grown[r].carried
                           /\ runs'[r].fills = grown[r].fills
  BY <1>1, <1>5, SupersededRows
<1>7. /\ RunIds' = 1 .. n /\ n \in RunIds' /\ RunIds \subseteq RunIds'
  BY <1>2, <1>4, <1>6 DEF RunIds
<1>8. BooksAreRows /\ BooksAreRows'
  BY <1>2, BooksOfRows, BooksOfNewRows
<1> DEFINE book == [prev |-> p, base |-> base, own |-> 0]
<1>9. Books' = Append(Books, book)
  <2>1. /\ Books \in Seq(Book) /\ Books' \in Seq(Book) /\ Len(Books) = Len(runs)
        /\ Len(Books') = n
    BY <1>6, <1>8 DEF BooksAreRows
  <2>2. Books'[n] = book
    <3>1. Books'[n] = [prev |-> runs'[n].resumed, base |-> runs'[n].carried,
                       own |-> runs'[n].fills]
      BY <1>7, <1>8 DEF BooksAreRows
    <3> QED BY <3>1, <1>3, <1>4, <1>5, <1>6, <1>7
  <2>3. book \in Book
    <3>1. n \in 1 .. Len(Books')
      BY <1>2, <1>4, <2>1
    <3>2. Books'[n] \in Book
      BY <2>1, <3>1, ElementOfSeq
    <3> QED BY <3>2, <2>2
  <2>4. ASSUME NEW r \in RunIds PROVE Books'[r] = Books[r]
    <3>1. Books[r] = [prev |-> runs[r].resumed, base |-> runs[r].carried, own |-> runs[r].fills]
      BY <1>8 DEF BooksAreRows
    <3>2. Books'[r] = [prev |-> runs'[r].resumed, base |-> runs'[r].carried,
                       own |-> runs'[r].fills]
      BY <1>7, <1>8 DEF BooksAreRows
    <3> QED BY <3>1, <3>2, <1>5, <1>6, <1>7
  <2> HIDE DEF book
  <2> DEFINE new == Append(Books, book)
  <2>5. /\ new \in Seq(Book) /\ Len(new) = n /\ new[n] = book
        /\ \A r \in RunIds : new[r] = Books[r]
    BY <2>1, <2>3, <1>2, <1>4, AppendProperties
  <2> HIDE DEF new
  <2>6. \A r \in 1 .. n : r \in RunIds \/ r = n
    BY <1>2, <1>4
  <2>7. Books' = new
    BY <2>1, <2>2, <2>4, <2>5, <2>6, SeqEqual
  <2> QED BY <2>7 DEF new
<1>10. /\ base = Replayed(runs, p)
       /\ p # 0 => p \in RunIds /\ \A r \in RunIds : runs[r].resumed # p
  BY <1>1, <1>4 DEF IInv, Prepared
<1>11. CASE p = 0
  <2>1. base = Chain!NoBase
    BY <1>10, <1>11, NoChain DEF Replayed, Chain!NoBase
  <2> QED BY <2>1, <1>9, <1>11 DEF Chain!OpenFresh, Chain!Next
<1>12. CASE p # 0
  <2>1. p \in RunIds /\ p \in Chain!Ids /\ ~Chain!Succeeded(p)
    <3>1. DOMAIN Books = RunIds /\ \A r \in RunIds : Books[r].prev = runs[r].resumed
      BY <1>8 DEF BooksAreRows
    <3>2. p \in RunIds /\ \A r \in RunIds : runs[r].resumed # p
      BY <1>10, <1>12
    <3> QED BY <3>1, <3>2 DEF Chain!Ids, Chain!Succeeded
  <2>2. DOMAIN Books[p].base \cup {p} = ChainRows(runs, p)
    <3>1. Books[p].base = Replayed(runs, runs[p].resumed)
      BY <2>1, <1>8 DEF BooksAreRows, IInv, Succession
    <3>2. DOMAIN Books[p].base = ChainRows(runs, runs[p].resumed)
      BY <3>1 DEF Replayed
    <3>3. Linked(runs)
      BY RowsAreLinked DEF IInv
    <3> QED BY <3>2, <3>3, <2>1, <1>2, ChainFromPredecessor
  <2>3. \A q \in ChainRows(runs, p) : Books[q].own = runs[q].fills
    <3>1. ChainRows(runs, p) \subseteq RunIds
      BY DEF ChainRows, RunIds
    <3> QED BY <3>1, <1>8 DEF BooksAreRows
  <2>4. base = Chain!Total(p)
    BY <2>2, <2>3, <1>10 DEF Replayed, Chain!Total
  <2> QED BY <2>1, <2>4, <1>9 DEF Chain!Succeed, Chain!Next
<1> QED BY <1>11, <1>12

-----------------------------------------------------------------------------
(***************************************************************************)
(* The steps of a run's task that write its row.                           *)
(***************************************************************************)
LEMMA RowFills ==
  ASSUME NEW row \in RunRow
  PROVE  row.fills \in Nat /\ row.fills >= row.fills
<1>1. row.fills \in 0 .. MaxFills
  BY DEF RunRow
<1> QED BY <1>1, SupervisorAssumption

\* A first checkpoint records in a book nobody has succeeded.
LEMMA FirstCheckpointRecords ==
  ASSUME IInv, TypeOK', NEW t \in Tasks, FirstCheckpoint(t)
  PROVE  [Chain!Next]_Books
<1>1. PICK n \in 0 .. 1 :
        /\ n <= MaxFills
        /\ runs' = [runs EXCEPT ![tasks[t].run].risk = "ok", ![tasks[t].run].fills = n]
  BY DEF FirstCheckpoint
<1> DEFINE old == runs[tasks[t].run]
           row == [old EXCEPT !.risk = "ok", !.fills = n]
<1>2. tasks[t].phase = "claimed" /\ runs' = [runs EXCEPT ![tasks[t].run] = row]
  BY <1>1 DEF FirstCheckpoint, At
<1>3. old \in RunRow /\ MarkedBy(tasks[t], old) /\ n \in 0 .. MaxFills
  BY <1>1, <1>2, OwnRow, TypeFacts DEF IInv, Looping
<1>4. /\ row \in RunRow /\ row.resumed = old.resumed /\ row.carried = old.carried
      /\ row.fills = n
  BY <1>3 DEF RunRow
<1> HIDE DEF row
<1>5. old.fills = 0
  BY <1>2, <1>3 DEF MarkedBy
<1>6. row.fills >= old.fills /\ tasks[t].phase \in Looping /\ ~Still(tasks[t])
  BY <1>2, <1>3, <1>4, <1>5 DEF Still, Looping
<1> HIDE DEF old
<1> QED BY <1>2, <1>4, <1>6, OwnRowRecorded DEF old

\* A candle that begins records nothing.
LEMMA BeginCandleRecords ==
  ASSUME IInv, TypeOK', NEW t \in Tasks, BeginCandle(t)
  PROVE  [Chain!Next]_Books
<1> DEFINE old == runs[tasks[t].run]
           row == [old EXCEPT !.risk = "incomplete"]
<1>1. tasks[t].phase = "idle" /\ runs' = [runs EXCEPT ![tasks[t].run] = row]
  BY DEF BeginCandle, At
<1>2. old \in RunRow
  BY <1>1, OwnRow DEF Looping
<1>3. /\ row \in RunRow /\ row.resumed = old.resumed /\ row.carried = old.carried
      /\ row.fills = old.fills
  BY <1>2 DEF RunRow
<1> HIDE DEF row
<1>4. row.fills >= old.fills
  BY <1>2, <1>3, RowFills
<1> HIDE DEF old
<1> QED BY <1>1, <1>3, <1>4, OwnRowRecorded DEF Looping, old

\* A flush records in a book nobody has succeeded.
LEMMA FlushCandleRecords ==
  ASSUME IInv, TypeOK', NEW t \in Tasks, FlushCandle(t)
  PROVE  [Chain!Next]_Books
<1> DEFINE old == runs[tasks[t].run]
           row == Flushed(old, tasks[t])
<1>1. tasks[t].phase = "candle" /\ runs' = [runs EXCEPT ![tasks[t].run] = row]
  BY DEF FlushCandle, At
<1>2. tasks[t] \in Task /\ old \in RunRow /\ MarkedBy(tasks[t], old)
  BY <1>1, OwnRow DEF Looping
<1>3. old.fills + tasks[t].buffered <= MaxFills
  BY <1>1, <1>2 DEF MarkedBy
<1>4. /\ row \in RunRow /\ row.resumed = old.resumed /\ row.carried = old.carried
      /\ row.fills = old.fills + tasks[t].buffered
  <2> HIDE DEF old
  <2> QED BY <1>2, <1>3, FlushedRow
<1> HIDE DEF row
<1>5. row.fills >= old.fills
  BY <1>2, <1>4 DEF RunRow, Task
<1> QED BY <1>1, <1>4, <1>5, OwnRowRecorded DEF Looping, Still

\* The end of a candle records what a halt closes, or nothing.
LEMMA EndCandleRecords ==
  ASSUME IInv, TypeOK', NEW t \in Tasks, EndCandle(t)
  PROVE  [Chain!Next]_Books
<1> DEFINE old == runs[tasks[t].run]
           causeOf(halted) == IF halted THEN "risk"
                              ELSE IF Probe(t) \in {"kill", "switch"} THEN Probe(t) ELSE None
<1>1. PICK halted \in BOOLEAN, n \in 0 .. 1 :
        /\ n = 0 \/ (halted /\ old.fills < MaxFills)
        /\ runs' = [runs EXCEPT ![tasks[t].run] =
             [old EXCEPT !.risk = IF halted THEN "halted" ELSE "ok",
                         !.fills = @ + n,
                         !.cause = causeOf(halted),
                         !.held = causeOf(halted) = "kill" /\ ~StopOnItsWay(t)]]
  BY DEF EndCandle
<1> DEFINE cause == causeOf(halted)
           risk  == IF halted THEN "halted" ELSE "ok"
           fills == old.fills + n
           held  == cause = "kill" /\ ~StopOnItsWay(t)
           row   == [old EXCEPT !.risk = risk, !.fills = fills, !.cause = cause, !.held = held]
<1>2. tasks[t].phase = "flushed" /\ runs' = [runs EXCEPT ![tasks[t].run] = row]
  BY <1>1 DEF EndCandle, At
<1>3. old \in RunRow
  BY <1>2, OwnRow DEF Looping
<1>4. /\ cause \in {"risk", "kill", "switch", None} /\ risk \in {"incomplete", "ok", "halted"}
      /\ fills \in 0 .. MaxFills /\ fills >= old.fills /\ held \in BOOLEAN
  <2>1. old.fills \in 0 .. MaxFills /\ n \in 0 .. 1
    BY <1>3 DEF RunRow
  <2>2. fills \in 0 .. MaxFills /\ fills >= old.fills
    BY <2>1, <1>1, SupervisorAssumption
  <2>3. held \in BOOLEAN
    OBVIOUS
  <2>4. cause \in {"risk", "kill", "switch", None}
    OBVIOUS
  <2> QED BY <2>2, <2>3, <2>4
<1> HIDE DEF cause, risk, fills, held
<1>5. /\ row \in RunRow /\ row.fills = fills
      /\ row.resumed = old.resumed /\ row.carried = old.carried
  BY <1>3, <1>4 DEF RunRow, Cause
<1> HIDE DEF row
<1> QED BY <1>2, <1>4, <1>5, OwnRowRecorded DEF Looping, Still

\* The end of the loop records nothing.
LEMMA EndingRecords ==
  ASSUME IInv, TypeOK', NEW t \in Tasks, tasks[t].phase \in {"idle", "candle", "flushed"},
         NEW cause \in {"dry", "stop", "fail", "cancel"}, NEW owed, Ending(t, cause, owed)
  PROVE  [Chain!Next]_Books
<1> DEFINE old == runs[tasks[t].run]
           row == [old EXCEPT !.cause = cause]
<1>1. runs' = [runs EXCEPT ![tasks[t].run] = row]
  BY DEF Ending
<1>2. old \in RunRow
  BY OwnRow DEF Looping
<1>3. /\ row \in RunRow /\ row.resumed = old.resumed /\ row.carried = old.carried
      /\ row.fills = old.fills
  BY <1>2 DEF RunRow, Cause
<1> HIDE DEF row
<1>4. row.fills >= old.fills
  BY <1>2, <1>3, RowFills
<1> HIDE DEF old
<1> QED BY <1>1, <1>3, <1>4, OwnRowRecorded DEF Looping, old

\* A wind-down records what was buffered, in a book nobody has succeeded.
LEMMA WindDownRecords ==
  ASSUME IInv, TypeOK', NEW t \in Tasks, WindDown(t)
  PROVE  [Chain!Next]_Books
<1> DEFINE old     == runs[tasks[t].run]
           flushed == Flushed(old, tasks[t])
           final   == [flushed EXCEPT !.status = StatusOf(tasks[t].cause), !.reason = None]
<1>1. PICK row \in {old, flushed, final} : runs' = [runs EXCEPT ![tasks[t].run] = row]
  BY DEF WindDown
<1>2. tasks[t].phase = "ending"
  BY DEF WindDown, At
<1>3. tasks[t] \in Task /\ old \in RunRow /\ MarkedBy(tasks[t], old)
  BY <1>2, OwnRow
<1>4. /\ flushed \in RunRow /\ flushed.resumed = old.resumed /\ flushed.carried = old.carried
      /\ flushed.fills = old.fills + tasks[t].buffered
  <2>1. old.fills + tasks[t].buffered <= MaxFills
    BY <1>2, <1>3 DEF MarkedBy
  <2> HIDE DEF old
  <2> QED BY <2>1, <1>3, FlushedRow
<1> HIDE DEF flushed
<1>5. /\ final \in RunRow /\ final.fills = flushed.fills
      /\ final.resumed = flushed.resumed /\ final.carried = flushed.carried
  <2>1. StatusOf(tasks[t].cause) \in {"running", "completed", "halted", "failed"}
    BY DEF StatusOf
  <2> QED BY <2>1, <1>4 DEF RunRow
<1> HIDE DEF final
<1>6. old.fills \in Nat /\ tasks[t].buffered \in 0 .. 1
  BY <1>3, TypeFacts DEF RunRow, Task, IInv
<1>7. /\ row \in RunRow /\ row.resumed = old.resumed /\ row.carried = old.carried
      /\ row.fills \in {old.fills, old.fills + tasks[t].buffered}
  BY <1>3, <1>4, <1>5
<1>8. row.fills >= old.fills /\ (row.fills # old.fills => tasks[t].buffered # 0)
  BY <1>6, <1>7
<1> HIDE DEF old
<1>9. tasks[t].buffered # 0 => ~Still(tasks[t])
  BY <1>2 DEF Still
<1> QED BY <1>1, <1>2, <1>7, <1>8, <1>9, OwnRowRecorded DEF old

\* An audit event records nothing.
LEMMA RecordHaltRecords ==
  ASSUME IInv, TypeOK', NEW t \in Tasks, RecordHalt(t)
  PROVE  [Chain!Next]_Books
<1> DEFINE old == runs[tasks[t].run]
           row == [old EXCEPT !.audit = tasks[t].cause]
<1>1. tasks[t].phase = "auditing"
  BY DEF RecordHalt, At
<1>2. CASE runs' = runs
  BY <1>2, TypeFacts, BooksStay DEF IInv, LedgersStay, SameLinks, SameLedger
<1>3. CASE runs' # runs
  <2>1. runs' = [runs EXCEPT ![tasks[t].run] = row]
    BY <1>3 DEF RecordHalt
  <2>2. old \in RunRow /\ tasks[t] \in Task /\ MarkedBy(tasks[t], old)
    BY <1>1, OwnRow
  <2>3. tasks[t].cause \in {None, "stop", "kill", "switch", "risk"}
    <3>1. OutcomeOf(tasks[t].cause) = None /\ tasks[t].cause \in Cause
      BY <1>1, <2>2 DEF MarkedBy, Task
    <3> QED BY <3>1 DEF OutcomeOf, Cause, None
  <2>4. /\ row \in RunRow /\ row.resumed = old.resumed /\ row.carried = old.carried
        /\ row.fills = old.fills
    BY <2>2, <2>3 DEF RunRow
  <2> HIDE DEF row
  <2>5. row.fills >= old.fills
    BY <2>2, <2>4, RowFills
  <2> QED BY <1>1, <2>1, <2>4, <2>5, OwnRowRecorded
<1> QED BY <1>2, <1>3

-----------------------------------------------------------------------------
(***************************************************************************)
(* The refinement.                                                         *)
(***************************************************************************)
\* Steps of a task.
LEMMA TaskStepRecords ==
  ASSUME IInv, TypeOK', NEW t \in Tasks, TaskStep(t)
  PROVE  [Chain!Next]_Books
<1> USE DEF IInv
<1>1. CASE PrepareResume(t)
  BY <1>1, PrepareResumeStep, BooksStay
<1>2. CASE BuildEngine(t)
  BY <1>2, BooksStay DEF BuildEngine, dbVars, LedgersStay, SameLinks, SameLedger
<1>3. CASE SeeStop(t)
  <2>1. PICK cause \in {"dry", "stop"} : Ending(t, cause, None)
    BY <1>3 DEF SeeStop
  <2>2. tasks[t].phase = "idle"
    BY <1>3 DEF SeeStop, At
  <2> QED BY <2>1, <2>2, EndingRecords
<1>4. CASE TakeCancel(t)
  <2>1. CASE tasks[t].phase \in {"idle", "candle", "flushed"}
    <3>1. PICK owed \in Owed(t) : Ending(t, "cancel", owed)
      BY <1>4, <2>1 DEF TakeCancel
    <3> QED BY <2>1, <3>1, EndingRecords
  <2>2. CASE tasks[t].phase \notin {"idle", "candle", "flushed"}
    <3>1. runs' = runs
      BY <1>4, <2>2 DEF TakeCancel
    <3> QED BY <3>1, BooksStay DEF LedgersStay, SameLinks, SameLedger
  <2> QED BY <2>1, <2>2
<1> QED BY <1>1, <1>2, <1>3, <1>4, ClaimOpensBook, FirstCheckpointRecords, BeginCandleRecords,
           FlushCandleRecords, EndCandleRecords, WindDownRecords, RecordHaltRecords
        DEF TaskStep

\* Every step of the system is a step of the ledger chain, or a stutter.
LEMMA StepMaps ==
  ASSUME IInv, TypeOK', [Next]_vars
  PROVE  [Chain!Next]_Books
<1> USE DEF IInv
<1>1. CASE runs' = runs
  BY <1>1, BooksStay DEF LedgersStay, SameLinks, SameLedger
<1>2. CASE \E a \in Assignments : UpdateAssignment(a)
  BY <1>2, UpdateAssignmentStep, BooksStay
<1>3. CASE PutSettings \/ Control \/ Boot
  BY <1>3, PutSettingsStep, ControlStep, BootStep, BooksStay
<1>4. CASE \E t \in Tasks : TaskStep(t)
  BY <1>4, TaskStepRecords
<1>5. CASE \E t \in Tasks : MarkWatchdogStopped(t)
  BY <1>5, MarkWatchdogStoppedStep, BooksStay
<1>6. CASE \E t \in Tasks : RunFails(t)
  <2>1. PICK t \in Tasks : RunFails(t)
    BY <1>6
  <2>2. PICK owed \in Owed(t) : Ending(t, "fail", owed)
    BY <2>1 DEF RunFails
  <2>3. tasks[t].phase \in {"idle", "candle", "flushed"}
    BY <2>1 DEF RunFails, At
  <2> QED BY <2>2, <2>3, EndingRecords
<1>7. CASE Pass \/ Shutdown \/ Exit \/ Crash \/ \E a \in Assignments : BackoffExpires(a)
  <2>1. runs' = runs
    BY <1>7 DEF Pass, Reap, ListAssignments, Watch, RefreshKilled, Plan, Shutdown, Exit, Crash,
                ProcessGone, BackoffExpires, dbVars
  <2> QED BY <2>1, <1>1
<1>8. CASE \E t \in Tasks : StartFails(t) \/ Stall(t)
  <2>1. runs' = runs
    BY <1>8 DEF StartFails, Stall, dbVars
  <2> QED BY <2>1, <1>1
<1>9. CASE UNCHANGED vars
  BY <1>1, <1>9 DEF vars
<1> QED BY <1>2, <1>3, <1>4, <1>5, <1>6, <1>7, <1>8, <1>9 DEF Next

\* The runs' fills move only as LedgerChain allows, for any number of
\* assignments, tasks and rows, whatever crashes, stalls, fails or is edited.
THEOREM Refinement == Spec => ImplementsLedgerChain
<1>1. Init => Chain!Init
  <2> SUFFICES ASSUME Init PROVE Books = <<>>
    BY DEF Chain!Init
  <2>1. RunIds = {}
    BY EmptySeq DEF Init, RunIds
  <2>2. TypeOK
    BY InitStep DEF IInv
  <2>3. Books \in Seq(Book) /\ Len(Books) = 0
    BY <2>2, BooksOfRows, EmptySeq DEF BooksAreRows, Init
  <2> QED BY <2>3, EmptySeq
<1>2. IInv /\ TypeOK' /\ [Next]_vars => [Chain!Next]_Books
  BY StepMaps
<1> QED BY <1>1, <1>2, Invariant, TypeCorrect, PTL DEF Spec, ImplementsLedgerChain, Chain!Spec

-----------------------------------------------------------------------------
(***************************************************************************)
(* The ends of runs: EndInv is inductive on top of IInv, and what a row    *)
(* may say of its run, and who may start after it, follows.  Again the     *)
(* first sections prove EndInv once for each shape of a step.              *)
(***************************************************************************)
(***************************************************************************)
(* What a step leaves alone.                                               *)
(***************************************************************************)
\* The columns that tell how a run ended.
SameEnd(r) ==
  /\ runs'[r].status = runs[r].status
  /\ runs'[r].reason = runs[r].reason
  /\ runs'[r].audit = runs[r].audit
  /\ runs'[r].cause = runs[r].cause

\* A step that adds no row and ends none.
EndsStay == Len(runs') = Len(runs) /\ \A r \in RunIds : SameLinks(r) /\ SameEnd(r)

SameControl(r) == runs'[r].held = runs[r].held /\ runs'[r].command = runs[r].command

\* A task that keeps its row, and its place among the stages EndInv tells apart.
Carries(u) ==
  /\ tasks'[u].aid = tasks[u].aid
  /\ tasks'[u].config = tasks[u].config
  /\ tasks'[u].run = tasks[u].run
  /\ tasks'[u].cause = tasks[u].cause
  /\ tasks[u].phase \in Ended \/ tasks'[u].phase \in Ended =>
       tasks'[u].phase = tasks[u].phase
  /\ tasks'[u].phase \in Looping => tasks[u].phase \in Looping
  /\ tasks'[u].phase \in {"prepared", "claiming"} =>
       tasks[u].phase \in {"prepared", "claiming"} /\ tasks'[u].resume = tasks[u].resume
  /\ tasks'[u].phase # "done" => tasks'[u].outcome = None

\* A task whose row tells after the step what it told before it.
KeepsRow(u) ==
  /\ tasks'[u].config = tasks[u].config
  /\ tasks'[u].run = tasks[u].run
  /\ tasks'[u].phase \in Ended => tasks[u].phase \in Ended /\ tasks'[u].cause = tasks[u].cause
  /\ tasks'[u].phase # "done" => tasks'[u].outcome = None

\* A task whose place is given up, or given to a new run.
Vacated(u) ==
  /\ tasks'[u].phase \in {"free", "preparing"}
  /\ tasks'[u].run = 0
  /\ tasks'[u].outcome = None

\* The newest row of an assignment stays the newest while no row is added.
LEMMA LatestKept ==
  ASSUME Len(runs') = Len(runs), \A r \in RunIds : runs'[r].aid = runs[r].aid, NEW a
  PROVE  LatestRunRow(a)' = LatestRunRow(a)
<1>1. RunIds' = RunIds
  BY DEF RunIds
<1>2. RunsOf(a)' = RunsOf(a)
  BY <1>1 DEF RunsOf
<1> QED BY <1>2 DEF LatestRunRow

\* An assignment's newest row is one of its own, and none of its rows is newer.
LEMMA LatestIsNewest ==
  ASSUME TypeOK, NEW a
  PROVE  /\ LatestRunRow(a) \in 0 .. Len(runs)
         /\ LatestRunRow(a) # 0 => LatestRunRow(a) \in RunsOf(a)
         /\ \A r \in RunsOf(a) : r <= LatestRunRow(a)
         /\ RunsOf(a) # {} => LatestRunRow(a) # 0
<1>1. RunsOf(a) \in SUBSET RunIds
  BY DEF RunsOf
<1>2. /\ Newest(RunsOf(a)) \in 0 .. Len(runs)
      /\ RunsOf(a) # {} => Newest(RunsOf(a)) \in RunsOf(a) /\ \A q \in RunsOf(a) : q <= Newest(RunsOf(a))
      /\ RunsOf(a) = {} => Newest(RunsOf(a)) = 0
  BY <1>1, NewestTyped
<1>3. \A r \in RunsOf(a) : r # 0
  BY <1>1, TypeFacts
<1> QED BY <1>2, <1>3 DEF LatestRunRow

\* What the type invariant and IInv say of a task and its row.
LEMMA HeldRow ==
  ASSUME IInv, NEW t \in Tasks
  PROVE  /\ tasks[t] \in Task
         /\ tasks[t].run # 0 => tasks[t].run \in RunIds
         /\ tasks[t].phase \in Looping \cup Ended => tasks[t].run # 0
         /\ tasks[t].phase \in Starting \cup {"free"} => tasks[t].run = 0
         /\ tasks[t].run # 0 => runs[tasks[t].run].aid = tasks[t].aid
<1>1. tasks[t] \in Task /\ tasks[t].run \in Nat /\ RunIds = 1 .. Len(runs) /\ Len(runs) \in Nat
  BY TypeFacts DEF IInv, Task
<1> QED BY <1>1 DEF IInv, RowHeld, Ended

\* Without a watchdog's cancellation an assignment has one task at most.
LEMMA OneTask ==
  ASSUME IInv, markers = {}, NEW t \in Tasks, NEW u \in Tasks,
         tasks[t].phase # "free", tasks[u].phase # "free", tasks[t].aid = tasks[u].aid
  PROVE  t = u
BY DEF IInv, Ownership

-----------------------------------------------------------------------------
(***************************************************************************)
(* The shapes of a step.                                                   *)
(***************************************************************************)
\* No new row, no row back to running: one running row per slot stands.
LEMMA OneRunningKept ==
  ASSUME OneRunningRow, Len(runs') = Len(runs),
         \A r \in RunIds : SameLinks(r) /\ (runs'[r].status = "running" => runs[r].status = "running")
  PROVE  OneRunningRow'
<1>1. RunIds' = RunIds
  BY DEF RunIds
<1> QED BY <1>1 DEF OneRunningRow, SameLinks

\* Rows that tell their ends, and tasks that keep their rows, stay recorded.
LEMMA RecordedKept ==
  ASSUME IInv, Recorded, Len(runs') = Len(runs),
         \A r \in RunIds : SameLinks(r) /\ runs'[r].cause = runs[r].cause /\ RowTells(runs'[r]),
         \A u \in Tasks : Vacated(u) \/ KeepsRow(u)
  PROVE  Recorded'
<1>1. RunIds' = RunIds
  BY DEF RunIds
<1>2. ASSUME NEW u \in Tasks PROVE TaskTells(tasks'[u], runs'[tasks'[u].run])
  <2>1. CASE Vacated(u)
    BY <2>1 DEF Vacated, TaskTells, Ended
  <2>2. CASE KeepsRow(u)
    <3>1. TaskTells(tasks[u], runs[tasks[u].run])
      BY DEF Recorded
    <3>2. /\ tasks[u].run # 0 => tasks[u].run \in RunIds
          /\ tasks[u].phase \in Ended => tasks[u].run # 0
      BY HeldRow
    <3>3. tasks[u].run # 0 =>
            /\ runs'[tasks[u].run].cause = runs[tasks[u].run].cause
            /\ runs'[tasks[u].run].config = runs[tasks[u].run].config
      BY <3>2 DEF SameLinks
    <3> QED BY <2>2, <3>1, <3>2, <3>3 DEF TaskTells, KeepsRow
  <2> QED BY <2>1, <2>2
<1> QED BY <1>1, <1>2 DEF Recorded

\* Steps that write no end.
LEMMA EndsKept ==
  ASSUME IInv, EndInv, EndsStay,
         \A u \in Tasks : Vacated(u) \/ Carries(u),
         NothingHangs =>
           /\ markers' = {}
           /\ pc' = "down" => \A u \in Tasks : tasks'[u].phase = "free"
           /\ \A u \in Tasks : ~tasks'[u].cancel /\ ~tasks'[u].stale,
         EndsAreWritten =>
           /\ pc' # "stopping"
           /\ \A u \in Tasks : tasks[u].phase \in Ended => Carries(u)
  PROVE  OneRunningRow' /\ Recorded' /\ InFront' /\ KillIsWritten'
<1> USE DEF EndInv
<1>1. RunIds' = RunIds
  BY DEF RunIds, EndsStay
<1>2. OneRunningRow'
  BY OneRunningKept DEF EndsStay, SameEnd
<1>3. Recorded'
  <2>1. \A r \in RunIds : RowTells(runs'[r])
    BY DEF EndsStay, SameEnd, Recorded, RowTells
  <2>2. \A u \in Tasks : Carries(u) => KeepsRow(u)
    BY DEF Carries, KeepsRow
  <2> QED BY <2>1, <2>2, RecordedKept DEF EndsStay, SameEnd
<1>4. InFront'
  <2> SUFFICES ASSUME NothingHangs, NEW u \in Tasks, tasks'[u].phase \in Looping
               PROVE  /\ tasks'[u].run = Newest({r \in RunIds' : runs'[r].aid = tasks'[u].aid})
                      /\ runs'[tasks'[u].run].status = "running"
    BY DEF InFront, Fronts, LatestRunRow, RunsOf
  <2>1. Carries(u)
    BY DEF Vacated, Looping
  <2>2. /\ tasks[u].phase \in Looping
        /\ tasks[u].run = LatestRunRow(tasks[u].aid) /\ runs[tasks[u].run].status = "running"
    BY <2>1 DEF Carries, InFront, Fronts
  <2>3. tasks[u].run \in RunIds
    BY <2>2, HeldRow
  <2>4. {r \in RunIds' : runs'[r].aid = tasks'[u].aid} = RunsOf(tasks[u].aid)
    BY <1>1, <2>1 DEF Carries, RunsOf, EndsStay, SameLinks
  <2>5. runs'[tasks[u].run].status = runs[tasks[u].run].status
    BY <2>3 DEF EndsStay, SameEnd
  <2> QED BY <2>1, <2>2, <2>4, <2>5 DEF Carries, LatestRunRow
<1>5. KillIsWritten'
  <2> SUFFICES ASSUME EndsAreWritten
               PROVE  /\ \A r \in RunIds : Killed(r)' => KillTold(r)'
                      /\ \A u \in Tasks : NotCarried(u)'
                      /\ KilledNotResumed'
    BY <1>1 DEF KillIsWritten
  <2>1. \A r \in RunIds : Killed(r)' <=> Killed(r)
    BY DEF EndsStay, SameEnd, Killed
  <2>2. ASSUME NEW r \in RunIds, Killed(r)' PROVE KillTold(r)'
    <3>1. KillTold(r) /\ SameEnd(r)
      BY <2>1, <2>2 DEF KillIsWritten, EndsStay
    <3>2. ASSUME NEW u \in Tasks, tasks[u].run = r, tasks[u].phase \in Ended
          PROVE  tasks'[u].run = r /\ tasks'[u].phase = tasks[u].phase
      BY <3>2 DEF Carries
    <3> QED BY <3>1, <3>2 DEF KillTold, SameEnd, Ended
  <2>3. Linked(runs)
    BY RowsAreLinked DEF IInv
  <2>4. ASSUME NEW u \in Tasks, tasks'[u].phase \in {"prepared", "claiming"}, tasks'[u].resume # 0
        PROVE  ~Killed(tasks[u].resume)'
    <3>1. Carries(u)
      BY <2>4 DEF Vacated
    <3>2. /\ tasks'[u].resume = tasks[u].resume /\ ~Killed(tasks[u].resume)
          /\ tasks[u].phase \in {"prepared", "claiming"}
      BY <2>4, <3>1 DEF Carries, KillIsWritten, NotCarried
    <3>3. ~tasks[u].cancel
      BY DEF InFront, EndsAreWritten, NothingHangs
    <3>4. tasks[u].resume \in RunIds
      BY <3>2, <3>3, <2>4 DEF IInv, Prepared
    <3>5. PICK p : p = tasks[u].resume
      OBVIOUS
    <3>6. p \in RunIds /\ ~Killed(p) /\ p = tasks'[u].resume
      BY <3>2, <3>4, <3>5
    <3>7. runs'[p].cause = runs[p].cause
      BY <3>6 DEF EndsStay, SameEnd
    <3> QED BY <3>6, <3>7 DEF Killed
  <2>5. KilledNotResumed'
    <3>1. \A r \in RunIds : runs[r].resumed # 0 => runs[r].resumed \in RunIds
      BY <2>3 DEF Linked, RunIds
    <3>2. \A r \in RunIds : runs'[r].resumed = runs[r].resumed /\ runs'[r].cause = runs[r].cause
      BY DEF EndsStay, SameLinks, SameEnd
    <3> QED BY <1>1, <3>1, <3>2 DEF KilledNotResumed, KillIsWritten
  <2> QED BY <2>2, <2>4, <2>5 DEF NotCarried
<1> QED BY <1>2, <1>3, <1>4, <1>5

\* What holds a row down stays while nothing it rests on moves.
LEMMA HoldsOn ==
  ASSUME IInv, EndInv, UNCHANGED <<assignments, procVars>>, Len(runs') = Len(runs),
         \A r \in RunIds : SameLinks(r) /\ SameControl(r) /\ runs'[r].cause = runs[r].cause,
         KillIsHeard => \A u \in Tasks :
           /\ tasks[u].phase \in Ended \cup {"done"} => tasks'[u] = tasks[u]
           /\ tasks'[u].early = tasks[u].early
  PROVE  KillHolds'
<1> SUFFICES ASSUME KillIsHeard
             PROVE  /\ pc' # "stopping"
                    /\ \A t \in Tasks : tasks'[t].early = None
                    /\ \A a \in Assignments : rows'[a].updated <= assignments'[a].updated
                    /\ \A r \in RunIds' : runs'[r].held => HeldBy(r)'
  BY DEF KillHolds
<1> USE DEF EndInv
<1>1. RunIds' = RunIds
  BY DEF RunIds
<1>2. /\ pc' # "stopping"
      /\ \A t \in Tasks : tasks'[t].early = None
      /\ \A a \in Assignments : rows'[a].updated <= assignments'[a].updated
  BY DEF KillHolds, procVars
<1>3. ASSUME NEW r \in RunIds, runs'[r].held PROVE HeldBy(r)'
  <2>1. SameLinks(r) /\ SameControl(r) /\ runs'[r].cause = runs[r].cause
    OBVIOUS
  <2>2. HeldBy(r)
    BY <1>3, <2>1 DEF KillHolds, SameControl
  <2>3. PICK a : a = runs[r].aid
    OBVIOUS
  <2>4. LatestRunRow(a)' = LatestRunRow(a)
    BY LatestKept DEF SameLinks
  <2>5. a \in Assignments
    BY <2>3, TypeFacts DEF IInv, RunRow
  <2>6. live[a] # None => tasks'[live[a]] = tasks[live[a]]
    BY <2>2, <2>3, <2>5 DEF HeldBy, IInv, TypeOK
  <2>7. runs'[r].aid = a
    BY <2>1, <2>3 DEF SameLinks
  <2> QED BY <2>1, <2>2, <2>3, <2>4, <2>6, <2>7 DEF HeldBy, Wanted, SameLinks, SameControl, procVars
<1> QED BY <1>1, <1>2, <1>3

\* A task that writes no step of its run's end moves on.
LEMMA QuietTask ==
  ASSUME IInv, EndInv, NEW t \in Tasks, EndsStay,
         UNCHANGED <<assignments, procVars>>,
         \A r \in RunIds : SameControl(r),
         \A u \in Tasks : u # t => tasks'[u] = tasks[u],
         tasks[t].phase # "free", Carries(t),
         NothingHangs => ~tasks'[t].cancel /\ ~tasks'[t].stale,
         KillIsHeard => tasks[t].phase \notin Ended \cup {"done"},
         tasks'[t].early = tasks[t].early
  PROVE  EndInv'
<1>1. \A u \in Tasks : Carries(u)
  <2> SUFFICES ASSUME NEW u \in Tasks, u # t PROVE Carries(u)
    OBVIOUS
  <2>1. tasks'[u] = tasks[u] /\ TaskTells(tasks[u], runs[tasks[u].run])
    BY DEF EndInv, Recorded
  <2> QED BY <2>1 DEF Carries, TaskTells
<1>2. NothingHangs =>
        /\ markers' = {}
        /\ pc' = "down" => \A u \in Tasks : tasks'[u].phase = "free"
        /\ \A u \in Tasks : ~tasks'[u].cancel /\ ~tasks'[u].stale
  BY DEF EndInv, InFront, procVars
<1>3. EndsAreWritten => pc' # "stopping"
  BY DEF EndInv, KillIsWritten, procVars
<1>4. OneRunningRow' /\ Recorded' /\ InFront' /\ KillIsWritten'
  BY <1>1, <1>2, <1>3, EndsKept
<1>5. KillHolds'
  <2>1. KillIsHeard => \A u \in Tasks :
          /\ tasks[u].phase \in Ended \cup {"done"} => tasks'[u] = tasks[u]
          /\ tasks'[u].early = tasks[u].early
    OBVIOUS
  <2> QED BY <2>1, HoldsOn DEF EndsStay, SameEnd
<1> QED BY <1>4, <1>5 DEF EndInv

\* A task writes a step of its own run's end.
LEMMA OwnEnd ==
  ASSUME IInv, EndInv, NEW t \in Tasks, NEW own, own = tasks[t].run,
         tasks[t].phase \in Looping \cup Ended,
         Len(runs') = Len(runs),
         UNCHANGED <<assignments, procVars>>,
         \A r \in RunIds : SameLinks(r) /\ (r # own => SameEnd(r) /\ SameControl(r)),
         \A u \in Tasks : u # t => tasks'[u] = tasks[u],
         tasks'[t].aid = tasks[t].aid, tasks'[t].config = tasks[t].config,
         tasks'[t].run = own, tasks'[t].early = tasks[t].early,
         tasks'[t].phase \notin Starting \cup {"free"},
         RowTells(runs'[own]), TaskTells(tasks'[t], runs'[own]),
         runs'[own].status = "running" => runs[own].status = "running",
         tasks'[t].phase \in Looping =>
           tasks[t].phase \in Looping /\ runs'[own].status = runs[own].status,
         NothingHangs => ~tasks'[t].cancel /\ ~tasks'[t].stale,
         EndsAreWritten /\ Killed(own)' =>
           /\ \/ tasks'[t].phase = "ending"
              \/ /\ runs'[own].status = "halted" /\ runs'[own].reason = None
                 /\ runs'[own].audit = runs'[own].cause \/ tasks'[t].phase = "auditing"
           /\ Killed(own) \/ tasks[t].phase \in Looping,
         KillIsHeard /\ runs'[own].held => HeldBy(own)'
  PROVE  EndInv'
<1> USE DEF EndInv
<1>1. RunIds' = RunIds /\ own \in RunIds /\ own # 0 /\ runs[own].aid = tasks[t].aid
  BY HeldRow DEF RunIds
<1>2. \A u \in Tasks : u # t /\ tasks[u].run # 0 => tasks[u].run \in RunIds /\ tasks[u].run # own
  <2>1. \A u \in Tasks : tasks[u].run # 0 => tasks[u].run \in RunIds
    BY HeldRow
  <2> QED BY <2>1, <1>1 DEF IInv, RowHeld
<1>3. OneRunningRow'
  <2>1. \A r \in RunIds : runs'[r].status = "running" => runs[r].status = "running"
    BY DEF SameEnd
  <2> QED BY <2>1, OneRunningKept
<1>4. Recorded'
  <2>1. \A r \in RunIds : RowTells(runs'[r])
    BY DEF Recorded, RowTells, SameEnd
  <2>2. ASSUME NEW u \in Tasks, u # t PROVE TaskTells(tasks'[u], runs'[tasks'[u].run])
    <3>1. /\ TaskTells(tasks[u], runs[tasks[u].run]) /\ tasks'[u] = tasks[u]
          /\ tasks[u].phase \in Ended => tasks[u].run # 0
      BY <2>2, HeldRow DEF Recorded
    <3>2. tasks[u].run # 0 => SameEnd(tasks[u].run) /\ SameLinks(tasks[u].run)
      BY <1>2, <2>2
    <3> QED BY <3>1, <3>2 DEF TaskTells, SameEnd, SameLinks
  <2> QED BY <1>1, <2>1, <2>2 DEF Recorded
<1>5. \A a : LatestRunRow(a)' = LatestRunRow(a)
  BY LatestKept DEF SameLinks
<1>6. InFront'
  <2> SUFFICES ASSUME NothingHangs
               PROVE  /\ markers' = {}
                      /\ pc' = "down" => \A u \in Tasks : tasks'[u].phase = "free"
                      /\ \A u \in Tasks : ~tasks'[u].cancel /\ ~tasks'[u].stale
                      /\ \A u \in Tasks : Fronts(u)'
    BY DEF InFront
  <2>1. /\ markers' = {} /\ pc' # "down"
        /\ \A u \in Tasks : ~tasks'[u].cancel /\ ~tasks'[u].stale
    BY DEF InFront, procVars, Looping, Ended
  <2>2. ASSUME NEW u \in Tasks, tasks'[u].phase \in Looping
        PROVE  /\ tasks'[u].run = Newest({r \in RunIds' : runs'[r].aid = tasks'[u].aid})
               /\ runs'[tasks'[u].run].status = "running"
    <3>1. tasks'[u].run = tasks[u].run /\ tasks'[u].aid = tasks[u].aid /\ tasks[u].phase \in Looping
      BY <2>2
    <3>2. tasks[u].run = LatestRunRow(tasks[u].aid) /\ runs[tasks[u].run].status = "running"
      BY <3>1 DEF InFront, Fronts
    <3>3. {r \in RunIds' : runs'[r].aid = tasks'[u].aid} = RunsOf(tasks[u].aid)
      BY <1>1, <3>1 DEF RunsOf, SameLinks
    <3>4. runs'[tasks[u].run].status = "running"
      <4>1. CASE u = t
        BY <4>1, <2>2, <3>2
      <4>2. CASE u # t
        <5>1. tasks[u].run # 0
          BY <3>1, HeldRow
        <5>2. SameEnd(tasks[u].run)
          BY <5>1, <4>2, <1>2
        <5> QED BY <5>2, <3>2 DEF SameEnd
      <4> QED BY <4>1, <4>2
    <3> QED BY <3>1, <3>2, <3>3, <3>4 DEF LatestRunRow
  <2> QED BY <2>1, <2>2 DEF Fronts, LatestRunRow, RunsOf
<1>7. KillIsWritten'
  <2> SUFFICES ASSUME EndsAreWritten
               PROVE  /\ pc' # "stopping"
                      /\ \A r \in RunIds : Killed(r)' => KillTold(r)'
                      /\ \A u \in Tasks : NotCarried(u)'
                      /\ KilledNotResumed'
    BY <1>1 DEF KillIsWritten
  <2>1. pc' # "stopping"
    BY DEF KillIsWritten, procVars
  <2>2. ASSUME NEW r \in RunIds, Killed(r)' PROVE KillTold(r)'
    <3>1. CASE r = own
      BY <3>1, <2>2 DEF KillTold
    <3>2. CASE r # own
      <4>1. SameEnd(r) /\ KillTold(r)
        BY <3>2, <2>2 DEF SameEnd, Killed, KillIsWritten
      <4>2. \A u \in Tasks : tasks[u].run = r => u # t
        BY <3>2
      <4> QED BY <4>1, <4>2 DEF KillTold, SameEnd
    <3> QED BY <3>1, <3>2
  <2>3. ASSUME NEW p \in RunIds, Quiet(p), ~Killed(p) PROVE ~Killed(p)'
    <3>1. CASE p # own
      BY <3>1, <2>3 DEF SameEnd, Killed
    <3>2. CASE p = own
      <4>1. Still(tasks[t]) /\ ~tasks[t].cancel
        BY <3>2, <2>3 DEF Quiet, InFront, EndsAreWritten, NothingHangs
      <4>2. tasks[t].phase \notin Looping
        BY <4>1 DEF Still, Looping
      <4> QED BY <3>2, <4>2, <2>3
    <3> QED BY <3>1, <3>2
  <2>4. ASSUME NEW u \in Tasks, tasks'[u].phase \in {"prepared", "claiming"}, tasks'[u].resume # 0
        PROVE  runs'[tasks'[u].resume].cause \notin {"kill", "switch"}
    <3>1. u # t /\ tasks'[u] = tasks[u]
      BY <2>4 DEF Starting
    <3>2. ~Killed(tasks[u].resume) /\ ~tasks[u].cancel
      BY <2>4, <3>1 DEF KillIsWritten, NotCarried, InFront, EndsAreWritten, NothingHangs
    <3>3. tasks[u].resume \in RunIds /\ Quiet(tasks[u].resume)
      BY <3>1, <3>2, <2>4 DEF IInv, Prepared
    <3>4. PICK p : p = tasks[u].resume
      OBVIOUS
    <3>5. p \in RunIds /\ Quiet(p) /\ ~Killed(p)
      BY <3>2, <3>3, <3>4
    <3>6. ~Killed(p)'
      BY <3>5, <2>3
    <3> QED BY <3>1, <3>4, <3>6 DEF Killed
  <2>5. ASSUME NEW r \in RunIds, runs'[r].resumed # 0
        PROVE  runs'[runs'[r].resumed].cause \notin {"kill", "switch"}
    <3>1. runs'[r].resumed = runs[r].resumed
      BY DEF SameLinks
    <3>2. runs[r].resumed \in RunIds
      BY <2>5, <3>1, RowsAreLinked DEF Linked, RunIds, IInv
    <3>3. Quiet(runs[r].resumed) /\ ~Killed(runs[r].resumed)
      BY <2>5, <3>1 DEF IInv, Succession, KillIsWritten, KilledNotResumed, Killed
    <3>4. PICK p : p = runs[r].resumed
      OBVIOUS
    <3>5. p \in RunIds /\ Quiet(p) /\ ~Killed(p)
      BY <3>2, <3>3, <3>4
    <3>6. ~Killed(p)'
      BY <3>5, <2>3
    <3> QED BY <3>1, <3>4, <3>6 DEF Killed
  <2> QED BY <1>1, <2>1, <2>2, <2>4, <2>5 DEF NotCarried, KilledNotResumed, Killed
<1>8. KillHolds'
  <2> SUFFICES ASSUME KillIsHeard
               PROVE  /\ pc' # "stopping"
                      /\ \A u \in Tasks : tasks'[u].early = None
                      /\ \A a \in Assignments : rows'[a].updated <= assignments'[a].updated
                      /\ \A r \in RunIds : runs'[r].held => HeldBy(r)'
    BY <1>1 DEF KillHolds
  <2>1. /\ pc' # "stopping"
        /\ \A u \in Tasks : tasks'[u].early = None
        /\ \A a \in Assignments : rows'[a].updated <= assignments'[a].updated
    BY DEF KillHolds, procVars
  <2>2. ASSUME NEW r \in RunIds, runs'[r].held, r # own PROVE HeldBy(r)'
    <3>1. SameLinks(r) /\ SameEnd(r) /\ SameControl(r)
      BY <2>2
    <3>2. HeldBy(r)
      BY <2>2, <3>1 DEF KillHolds, SameControl
    <3>3. PICK a : a = runs[r].aid
      OBVIOUS
    <3>4. a \in Assignments
      BY <3>3, TypeFacts DEF IInv, RunRow
    <3>5. /\ r = LatestRunRow(a)
          /\ runs[r].cause = "kill" /\ runs[r].command = "kill"
          /\ Wanted(r, assignments[a])
          /\ pc \in {"watch", "refresh", "plan"} => Wanted(r, rows[a])
          /\ live[a] = None =>
               killed[a].run = r /\ killed[a].observed = assignments[a].updated
          /\ live[a] # None =>
               /\ tasks[live[a]].run = r
               /\ tasks[live[a]].phase \in Ended \cup {"done"}
               /\ ~tasks[live[a]].stop /\ tasks[live[a]].outcome # "raised"
      BY <3>2, <3>3 DEF HeldBy
    <3>6. live[a] # None => live[a] \in Tasks /\ live[a] # t
      BY <3>4, <3>5, <2>2 DEF IInv, TypeOK
    <3>7. live[a] # None => tasks'[live[a]] = tasks[live[a]]
      BY <3>6
    <3>8. /\ runs'[r].aid = a /\ runs'[r].config = runs[r].config
          /\ runs'[r].cause = "kill" /\ runs'[r].command = "kill"
      BY <3>1, <3>3, <3>5 DEF SameLinks, SameEnd, SameControl
    <3>9. /\ LatestRunRow(a)' = LatestRunRow(a) /\ pc' = pc /\ live' = live
          /\ killed' = killed /\ rows' = rows /\ assignments' = assignments
      BY <1>5 DEF procVars
    <3> HIDE DEF SameLinks, SameEnd, SameControl
    <3>10. /\ Wanted(r, assignments[a])'
           /\ pc' \in {"watch", "refresh", "plan"} => Wanted(r, rows[a])'
      BY <3>5, <3>9, <3>8 DEF Wanted
    <3>11. live'[a] = None =>
             killed'[a].run = r /\ killed'[a].observed = assignments'[a].updated
      BY <3>5, <3>9
    <3>12. live'[a] # None =>
             /\ tasks'[live'[a]].run = r
             /\ tasks'[live'[a]].phase \in Ended \cup {"done"}
             /\ ~tasks'[live'[a]].stop /\ tasks'[live'[a]].outcome # "raised"
      BY <3>5, <3>7, <3>9
    <3> QED BY <3>5, <3>8, <3>9, <3>10, <3>11, <3>12 DEF HeldBy
  <2> QED BY <2>1, <2>2
<1> QED BY <1>3, <1>4, <1>6, <1>7, <1>8

-----------------------------------------------------------------------------
(***************************************************************************)
(* The steps of a run task.                                                *)
(***************************************************************************)
\* One row rewritten, in a table that stays well typed.
LEMMA RowChanged ==
  ASSUME TypeOK, TypeOK', NEW r \in RunIds, NEW row, runs' = [runs EXCEPT ![r] = row]
  PROVE  /\ Len(runs') = Len(runs)
         /\ runs'[r] = row
         /\ \A q \in RunIds : q # r => runs'[q] = runs[q]
<1>1. /\ runs \in Seq(RunRow) /\ runs' \in Seq(RunRow)
      /\ Len(runs) \in Nat /\ Len(runs') \in Nat
      /\ DOMAIN runs = 1 .. Len(runs) /\ DOMAIN runs' = 1 .. Len(runs')
  BY LenProperties DEF TypeOK
<1>2. 1 .. Len(runs') = 1 .. Len(runs)
  BY <1>1
<1> QED BY <1>1, <1>2 DEF RunIds

\* Nothing is written of any run.
LEMMA NoRowChanged ==
  ASSUME runs' = runs
  PROVE  EndsStay /\ \A r \in RunIds : SameControl(r)
BY DEF EndsStay, SameLinks, SameEnd, SameControl

\* The row a task holds, and what holds for it before it ends.
LEMMA OwnEndRow ==
  ASSUME IInv, EndInv, NEW t \in Tasks, tasks[t].phase \in Looping \cup Ended
  PROVE  LET r == tasks[t].run
         IN  /\ tasks[t] \in Task /\ r \in RunIds /\ runs[r] \in RunRow
             /\ RowTells(runs[r]) /\ TaskTells(tasks[t], runs[r])
             /\ tasks[t].phase \in Looping =>
                  /\ runs[r].cause = None /\ runs[r].audit = None /\ runs[r].status # "failed"
                  /\ KillIsHeard => ~runs[r].held
<1> DEFINE r == tasks[t].run
<1>1. tasks[t] \in Task /\ r \in RunIds /\ runs[r] \in RunRow
  BY HeldRow, TypeFacts DEF IInv
<1>2. RowTells(runs[r]) /\ TaskTells(tasks[t], runs[r])
  BY <1>1 DEF EndInv, Recorded
<1>3. ASSUME tasks[t].phase \in Looping
      PROVE  runs[r].cause = None /\ runs[r].audit = None /\ runs[r].status # "failed"
  <2>1. runs[r].cause = None
    BY <1>3 DEF IInv, Marked, MarkedBy
  <2> QED BY <2>1, <1>2 DEF RowTells, None
<1>4. ASSUME tasks[t].phase \in Looping, KillIsHeard, runs[r].held PROVE FALSE
  <2>1. HeldBy(r)
    BY <1>1, <1>4 DEF EndInv, KillHolds
  <2>2. runs[r].cause = None /\ runs[r].cause = "kill"
    BY <2>1, <1>3, <1>4 DEF HeldBy
  <2> QED BY <2>2 DEF None
<1> QED BY <1>1, <1>2, <1>3, <1>4

\* The control probe is built.
LEMMA BuildEngineEnds ==
  ASSUME IInv, EndInv, NEW t \in Tasks, BuildEngine(t)
  PROVE  EndInv'
<1> DEFINE tk == [tasks[t] EXCEPT !.phase = "claiming"]
<1>1. /\ tasks[t] \in Task /\ tasks[t].phase = "prepared" /\ ~tasks[t].cancel
      /\ tasks' = [tasks EXCEPT ![t] = tk]
      /\ UNCHANGED <<dbVars, procVars, spent>>
  BY TypeFacts DEF BuildEngine, At, Move, IInv
<1>2. tasks'[t] = tk /\ \A u \in Tasks : u # t => tasks'[u] = tasks[u]
  BY <1>1 DEF IInv, TypeOK
<1>3. /\ tk.phase = "claiming" /\ tk.aid = tasks[t].aid /\ tk.config = tasks[t].config
      /\ tk.run = tasks[t].run /\ tk.resume = tasks[t].resume /\ tk.cause = tasks[t].cause
      /\ tk.cancel = tasks[t].cancel /\ tk.stale = tasks[t].stale /\ tk.early = tasks[t].early
      /\ tk.outcome = tasks[t].outcome
  BY <1>1 DEF Task
<1> HIDE DEF tk
<1>4. tasks[t].outcome = None
  BY <1>1 DEF EndInv, Recorded, TaskTells
<1>5. Carries(t)
  BY <1>1, <1>2, <1>3, <1>4 DEF Carries, Ended, Looping
<1>6. NothingHangs => ~tasks'[t].cancel /\ ~tasks'[t].stale
  BY <1>2, <1>3 DEF EndInv, InFront
<1>7. EndsStay /\ \A r \in RunIds : SameControl(r)
  BY <1>1, NoRowChanged DEF dbVars
<1> QED BY <1>1, <1>2, <1>3, <1>5, <1>6, <1>7, QuietTask DEF Ended, dbVars

\* A start that fails leaves no trace but its superseded row.
LEMMA StartFailsEnds ==
  ASSUME IInv, EndInv, NEW t \in Tasks, StartFails(t)
  PROVE  EndInv'
<1> DEFINE tk == [tasks[t] EXCEPT !.phase = "done", !.outcome = "raised"]
<1>1. /\ tasks[t] \in Task /\ ~tasks[t].cancel
      /\ tasks[t].phase \in {"preparing", "prepared", "claiming", "claimed"}
      /\ tasks' = [tasks EXCEPT ![t] = tk]
      /\ UNCHANGED <<dbVars, procVars>>
  BY TypeFacts DEF StartFails, At, Finish, IInv
<1>2. tasks'[t] = tk /\ \A u \in Tasks : u # t => tasks'[u] = tasks[u]
  BY <1>1 DEF IInv, TypeOK
<1>3. /\ tk.phase = "done" /\ tk.aid = tasks[t].aid /\ tk.config = tasks[t].config
      /\ tk.run = tasks[t].run /\ tk.cause = tasks[t].cause
      /\ tk.cancel = tasks[t].cancel /\ tk.stale = tasks[t].stale /\ tk.early = tasks[t].early
  BY <1>1 DEF Task
<1> HIDE DEF tk
<1>4. Carries(t)
  BY <1>1, <1>2, <1>3 DEF Carries, Ended, Looping
<1>5. NothingHangs => ~tasks'[t].cancel /\ ~tasks'[t].stale
  BY <1>2, <1>3 DEF EndInv, InFront
<1>6. EndsStay /\ \A r \in RunIds : SameControl(r)
  BY <1>1, NoRowChanged DEF dbVars
<1> QED BY <1>1, <1>2, <1>3, <1>4, <1>5, <1>6, QuietTask DEF Ended, dbVars

\* A task that hangs.
LEMMA StallEnds ==
  ASSUME IInv, EndInv, NEW t \in Tasks, Stall(t)
  PROVE  EndInv'
<1> DEFINE tk == [tasks[t] EXCEPT !.stale = TRUE]
<1>1. /\ tasks[t] \in Task /\ tasks[t].phase \notin {"free", "done"}
      /\ tasks' = [tasks EXCEPT ![t] = tk] /\ "stall" \in Faults
      /\ UNCHANGED <<dbVars, procVars>>
  BY TypeFacts DEF Stall, Fault, IInv
<1>2. tasks'[t] = tk /\ \A u \in Tasks : u # t => tasks'[u] = tasks[u]
  BY <1>1 DEF IInv, TypeOK
<1>3. /\ tk.phase = tasks[t].phase /\ tk.aid = tasks[t].aid /\ tk.config = tasks[t].config
      /\ tk.run = tasks[t].run /\ tk.cause = tasks[t].cause /\ tk.resume = tasks[t].resume
      /\ tk.early = tasks[t].early /\ tk.outcome = tasks[t].outcome
  BY <1>1 DEF Task
<1> HIDE DEF tk
<1>4. tasks[t].outcome = None
  BY <1>1 DEF EndInv, Recorded, TaskTells
<1>5. Carries(t)
  BY <1>2, <1>3, <1>4 DEF Carries
<1>6. ~NothingHangs /\ ~KillIsHeard
  BY <1>1 DEF NothingHangs, KillIsHeard
<1>7. EndsStay /\ \A r \in RunIds : SameControl(r)
  BY <1>1, NoRowChanged DEF dbVars
<1> QED BY <1>1, <1>2, <1>3, <1>5, <1>6, <1>7, QuietTask DEF dbVars

\* A candle's stages write the ledger's columns, and none that tells an end.
LEMMA LedgerWrite ==
  ASSUME IInv, EndInv, IInv', NEW t \in Tasks, NEW row, NEW tk,
         UNCHANGED <<assignments, procVars>>,
         runs' = [runs EXCEPT ![tasks[t].run] = row],
         tasks' = [tasks EXCEPT ![t] = tk],
         tasks[t].phase \in Looping, ~tasks[t].cancel,
         LET old == runs[tasks[t].run]
         IN  /\ row.aid = old.aid /\ row.config = old.config
             /\ row.resumed = old.resumed /\ row.carried = old.carried
             /\ row.status = old.status /\ row.reason = old.reason
             /\ row.audit = old.audit /\ row.cause = old.cause
             /\ row.held = old.held /\ row.command = old.command,
         tk.phase \in Looping, tk.stale => tasks[t].stale,
         tk.aid = tasks[t].aid, tk.config = tasks[t].config, tk.run = tasks[t].run,
         tk.cause = tasks[t].cause, tk.cancel = tasks[t].cancel, tk.early = tasks[t].early,
         tk.outcome = tasks[t].outcome
  PROVE  EndInv'
<1>1. PICK own \in RunIds : own = tasks[t].run
  BY OwnEndRow
<1>2. /\ Len(runs') = Len(runs) /\ runs'[own] = row
      /\ \A q \in RunIds : q # own => runs'[q] = runs[q]
  BY <1>1, RowChanged DEF IInv
<1>3. EndsStay /\ \A r \in RunIds : SameControl(r)
  <2> SUFFICES ASSUME NEW r \in RunIds PROVE SameLinks(r) /\ SameEnd(r) /\ SameControl(r)
    BY <1>2 DEF EndsStay
  <2>1. CASE r = own
    BY <2>1, <1>1, <1>2 DEF SameLinks, SameEnd, SameControl
  <2>2. CASE r # own
    BY <2>2, <1>2 DEF SameLinks, SameEnd, SameControl
  <2> QED BY <2>1, <2>2
<1>4. tasks'[t] = tk /\ \A u \in Tasks : u # t => tasks'[u] = tasks[u]
  BY DEF IInv, TypeOK
<1>5. tasks[t].outcome = None
  BY DEF EndInv, Recorded, TaskTells, Looping
<1>6. Carries(t)
  BY <1>4, <1>5 DEF Carries, Ended, Looping
<1>7. NothingHangs => ~tasks'[t].cancel /\ ~tasks'[t].stale
  BY <1>4 DEF EndInv, InFront
<1>8. tasks[t].phase \notin Ended \cup {"done", "free"}
  BY DEF Looping, Ended
<1> QED BY <1>3, <1>4, <1>6, <1>7, <1>8, QuietTask

\* The recovered fills and the first checkpoint.
LEMMA FirstCheckpointEnds ==
  ASSUME IInv, EndInv, NEW t \in Tasks, FirstCheckpoint(t)
  PROVE  EndInv'
<1>1. PICK n \in 0 .. 1 :
        runs' = [runs EXCEPT ![tasks[t].run].risk = "ok", ![tasks[t].run].fills = n]
  BY DEF FirstCheckpoint
<1> DEFINE old == runs[tasks[t].run]
           tk  == [tasks[t] EXCEPT !.phase = "idle"]
           row == [old EXCEPT !.risk = "ok", !.fills = n]
<1>2. /\ tasks[t].phase = "claimed" /\ ~tasks[t].cancel
      /\ tasks' = [tasks EXCEPT ![t] = tk]
      /\ UNCHANGED <<assignments, procVars>>
      /\ runs' = [runs EXCEPT ![tasks[t].run] = row]
  BY <1>1 DEF FirstCheckpoint, At, Move
<1>3. tasks[t] \in Task /\ old \in RunRow
  BY <1>2, OwnEndRow DEF Looping
<1>4. /\ tk.phase = "idle" /\ tk.stale = tasks[t].stale
      /\ tk.aid = tasks[t].aid /\ tk.config = tasks[t].config /\ tk.run = tasks[t].run
      /\ tk.cause = tasks[t].cause /\ tk.cancel = tasks[t].cancel /\ tk.early = tasks[t].early
      /\ tk.outcome = tasks[t].outcome
  BY <1>3 DEF Task
<1>5. /\ row.aid = old.aid /\ row.config = old.config
      /\ row.resumed = old.resumed /\ row.carried = old.carried
      /\ row.status = old.status /\ row.reason = old.reason
      /\ row.audit = old.audit /\ row.cause = old.cause
      /\ row.held = old.held /\ row.command = old.command
  BY <1>3 DEF RunRow
<1>6. IInv'
  BY FirstCheckpointStep
<1> HIDE DEF tk, row
<1> QED BY <1>2, <1>4, <1>5, <1>6, LedgerWrite DEF Looping

\* A candle arrives.
LEMMA BeginCandleEnds ==
  ASSUME IInv, EndInv, NEW t \in Tasks, BeginCandle(t)
  PROVE  EndInv'
<1>1. PICK n \in 0 .. 1 :
        tasks' = [tasks EXCEPT ![t].phase = "candle", ![t].buffered = n]
  BY DEF BeginCandle
<1> DEFINE old == runs[tasks[t].run]
           tk  == [tasks[t] EXCEPT !.phase = "candle", !.buffered = n]
           row == [old EXCEPT !.risk = "incomplete"]
<1>2. /\ tasks[t].phase = "idle" /\ ~tasks[t].cancel
      /\ tasks' = [tasks EXCEPT ![t] = tk]
      /\ UNCHANGED <<assignments, procVars>>
      /\ runs' = [runs EXCEPT ![tasks[t].run] = row]
  BY <1>1 DEF BeginCandle, At
<1>3. tasks[t] \in Task /\ old \in RunRow
  BY <1>2, OwnEndRow DEF Looping
<1>4. /\ tk.phase = "candle" /\ tk.stale = tasks[t].stale
      /\ tk.aid = tasks[t].aid /\ tk.config = tasks[t].config /\ tk.run = tasks[t].run
      /\ tk.cause = tasks[t].cause /\ tk.cancel = tasks[t].cancel /\ tk.early = tasks[t].early
      /\ tk.outcome = tasks[t].outcome
  BY <1>3 DEF Task
<1>5. /\ row.aid = old.aid /\ row.config = old.config
      /\ row.resumed = old.resumed /\ row.carried = old.carried
      /\ row.status = old.status /\ row.reason = old.reason
      /\ row.audit = old.audit /\ row.cause = old.cause
      /\ row.held = old.held /\ row.command = old.command
  BY <1>3 DEF RunRow
<1>6. IInv'
  BY BeginCandleStep
<1> HIDE DEF tk, row
<1> QED BY <1>2, <1>4, <1>5, <1>6, LedgerWrite DEF Looping

\* The per-candle flush.
LEMMA FlushCandleEnds ==
  ASSUME IInv, EndInv, NEW t \in Tasks, FlushCandle(t)
  PROVE  EndInv'
<1>1. PICK stale \in {FALSE, tasks[t].stale} :
        tasks' = [tasks EXCEPT ![t].phase = "flushed", ![t].buffered = 0, ![t].stale = stale]
  BY DEF FlushCandle
<1> DEFINE old == runs[tasks[t].run]
           tk  == [tasks[t] EXCEPT !.phase = "flushed", !.buffered = 0, !.stale = stale]
           row == Flushed(old, tasks[t])
<1>2. /\ tasks[t].phase = "candle" /\ ~tasks[t].cancel
      /\ tasks' = [tasks EXCEPT ![t] = tk]
      /\ UNCHANGED <<assignments, procVars>>
      /\ runs' = [runs EXCEPT ![tasks[t].run] = row]
  BY <1>1 DEF FlushCandle, At
<1>3. tasks[t] \in Task /\ old \in RunRow
  BY <1>2, OwnEndRow DEF Looping
<1>4. /\ tk.phase = "flushed" /\ tk.stale = stale
      /\ tk.aid = tasks[t].aid /\ tk.config = tasks[t].config /\ tk.run = tasks[t].run
      /\ tk.cause = tasks[t].cause /\ tk.cancel = tasks[t].cancel /\ tk.early = tasks[t].early
      /\ tk.outcome = tasks[t].outcome
  BY <1>3 DEF Task
<1>5. /\ row.aid = old.aid /\ row.config = old.config
      /\ row.resumed = old.resumed /\ row.carried = old.carried
      /\ row.status = old.status /\ row.reason = old.reason
      /\ row.audit = old.audit /\ row.cause = old.cause
      /\ row.held = old.held /\ row.command = old.command
  BY <1>3 DEF RunRow, Flushed
<1>6. IInv'
  BY FlushCandleStep
<1> HIDE DEF tk, row
<1>7. stale => tasks[t].stale
  BY <1>3 DEF Task
<1> QED BY <1>2, <1>4, <1>5, <1>6, <1>7, LedgerWrite DEF Looping

\* A task writes its run's end, or ends.
LEMMA EndWrite ==
  ASSUME IInv, EndInv, IInv', NEW t \in Tasks, NEW row, NEW tk,
         UNCHANGED <<assignments, procVars>>,
         runs' = [runs EXCEPT ![tasks[t].run] = row],
         tasks' = [tasks EXCEPT ![t] = tk],
         tasks[t].phase \in Looping \cup Ended,
         LET old == runs[tasks[t].run]
         IN  /\ row.aid = old.aid /\ row.config = old.config
             /\ row.resumed = old.resumed /\ row.carried = old.carried
             /\ row.command = old.command
             /\ row.status = "running" => old.status = "running"
             /\ tk.phase \in Looping => tasks[t].phase \in Looping /\ row.status = old.status
             /\ EndsAreWritten /\ row.cause \in {"kill", "switch"} =>
                  /\ \/ tk.phase = "ending"
                     \/ /\ row.status = "halted" /\ row.reason = None
                        /\ row.audit = row.cause \/ tk.phase = "auditing"
                  /\ old.cause = row.cause \/ tasks[t].phase \in Looping,
         tk.aid = tasks[t].aid, tk.config = tasks[t].config, tk.run = tasks[t].run,
         tk.early = tasks[t].early,
         tk.cancel => tasks[t].cancel, tk.stale => tasks[t].stale,
         tk.phase \notin Starting \cup {"free"},
         RowTells(row), TaskTells(tk, row),
         KillIsHeard /\ row.held =>
           /\ row.cause = "kill" /\ row.command = "kill"
           /\ tk.phase \in Ended \cup {"done"} /\ ~tk.stop /\ tk.outcome # "raised"
           /\ \/ HeldBy(tasks[t].run)
              \/ /\ tasks[t].phase \in Looping
                 /\ Wanted(tasks[t].run, assignments[tasks[t].aid])
                 /\ pc \in {"watch", "refresh", "plan"} =>
                      Wanted(tasks[t].run, rows[tasks[t].aid])
  PROVE  EndInv'
<1>1. PICK own \in RunIds : own = tasks[t].run
  BY OwnEndRow
<1>2. /\ Len(runs') = Len(runs) /\ runs'[own] = row
      /\ \A q \in RunIds : q # own => runs'[q] = runs[q]
  <2>1. /\ runs \in Seq(RunRow) /\ runs' \in Seq(RunRow)
    BY DEF IInv, TypeOK
  <2>2. /\ Len(runs) \in Nat /\ DOMAIN runs = 1 .. Len(runs)
        /\ Len(runs') \in Nat /\ DOMAIN runs' = 1 .. Len(runs')
    BY <2>1, LenProperties
  <2>3. runs' = [runs EXCEPT ![own] = row]
    BY <1>1
  <2>4. DOMAIN runs' = DOMAIN runs
    BY <2>3
  <2>5. Len(runs') = Len(runs)
    BY <2>2, <2>4
  <2>6. own \in DOMAIN runs
    BY <1>1, <2>2 DEF RunIds
  <2> QED BY <2>2, <2>3, <2>5, <2>6 DEF RunIds
<1>3. \A r \in RunIds : SameLinks(r) /\ (r # own => SameEnd(r) /\ SameControl(r))
  <2> SUFFICES ASSUME NEW r \in RunIds
               PROVE  SameLinks(r) /\ (r # own => SameEnd(r) /\ SameControl(r))
    OBVIOUS
  <2>1. CASE r = own
    BY <2>1, <1>1, <1>2 DEF SameLinks
  <2>2. CASE r # own
    BY <2>2, <1>2 DEF SameLinks, SameEnd, SameControl
  <2> QED BY <2>1, <2>2
<1>4. tasks'[t] = tk /\ \A u \in Tasks : u # t => tasks'[u] = tasks[u]
  BY DEF IInv, TypeOK
<1>5. NothingHangs => ~tasks'[t].cancel /\ ~tasks'[t].stale
  BY <1>4 DEF EndInv, InFront
<1>6. ASSUME KillIsHeard, runs'[own].held PROVE HeldBy(own)'
  <2>1. PICK a : a = runs[own].aid /\ a = tasks[t].aid
    BY <1>1, HeldRow, OwnEndRow DEF Ended, Looping
  <2>2. markers = {} /\ a \in Assignments
    BY <2>1, HeldRow, <1>6 DEF EndInv, InFront, NothingHangs, KillIsHeard, Task
  <2>3. live[a] = t /\ live[a] # None
    <3>1. tasks[t].phase # "free"
      BY DEF Looping, Ended
    <3> QED BY <2>1, <2>2, <3>1, SupervisorAssumption DEF IInv, Ownership
  <2>4. LatestRunRow(a)' = LatestRunRow(a)
    BY <1>2, <1>3, LatestKept DEF SameLinks
  <2>5. runs'[own].aid = a /\ runs'[own].config = runs[own].config
    BY <1>3, <2>1 DEF SameLinks
  <2>6. /\ own = LatestRunRow(a)
        /\ Wanted(own, assignments[a])
        /\ pc \in {"watch", "refresh", "plan"} => Wanted(own, rows[a])
    <3>1. CASE HeldBy(own)
      BY <3>1, <2>1 DEF HeldBy
    <3>2. CASE ~HeldBy(own)
      BY <3>2, <1>1, <1>2, <1>6, <2>1 DEF EndInv, InFront, Fronts, NothingHangs, KillIsHeard
    <3> QED BY <3>1, <3>2
  <2>7. /\ runs'[own].cause = "kill" /\ runs'[own].command = "kill"
        /\ tasks'[t].run = own /\ tasks'[t].phase \in Ended \cup {"done"}
        /\ ~tasks'[t].stop /\ tasks'[t].outcome # "raised"
    BY <1>1, <1>2, <1>4, <1>6
  <2>8. /\ assignments' = assignments /\ rows' = rows /\ pc' = pc /\ live' = live
    BY DEF procVars
  <2>9. /\ Wanted(own, assignments[a])'
        /\ pc' \in {"watch", "refresh", "plan"} => Wanted(own, rows[a])'
    BY <2>5, <2>6, <2>8 DEF Wanted
  <2>10. own = LatestRunRow(a)' /\ live'[a] = t /\ live'[a] # None
    BY <2>3, <2>4, <2>6, <2>8
  <2> QED BY <2>5, <2>7, <2>9, <2>10 DEF HeldBy
<1>7. /\ tasks'[t].aid = tasks[t].aid /\ tasks'[t].config = tasks[t].config
      /\ tasks'[t].run = own /\ tasks'[t].early = tasks[t].early
      /\ tasks'[t].phase \notin Starting \cup {"free"}
      /\ RowTells(runs'[own]) /\ TaskTells(tasks'[t], runs'[own])
      /\ runs'[own].status = "running" => runs[own].status = "running"
      /\ tasks'[t].phase \in Looping =>
           tasks[t].phase \in Looping /\ runs'[own].status = runs[own].status
  BY <1>1, <1>2, <1>4
<1>8. EndsAreWritten /\ Killed(own)' =>
        /\ \/ tasks'[t].phase = "ending"
           \/ /\ runs'[own].status = "halted" /\ runs'[own].reason = None
              /\ runs'[own].audit = runs'[own].cause \/ tasks'[t].phase = "auditing"
        /\ Killed(own) \/ tasks[t].phase \in Looping
  BY <1>1, <1>2, <1>4 DEF Killed
<1> QED BY <1>1, <1>2, <1>3, <1>4, <1>5, <1>6, <1>7, <1>8, OwnEnd

\* What the probe answers to a run that has only its own commands.
LEMMA ProbeIsTheCommand ==
  ASSUME EndInv, NEW t \in Tasks, KillIsHeard, Probe(t) = "kill"
  PROVE  runs[tasks[t].run].command = "kill"
BY DEF Probe, EndInv, KillHolds, None

\* The rest of a candle.
LEMMA EndCandleEnds ==
  ASSUME IInv, EndInv, NEW t \in Tasks, EndCandle(t)
  PROVE  EndInv'
<1> DEFINE old == runs[tasks[t].run]
           causeOf(halted) == IF halted THEN "risk"
                              ELSE IF Probe(t) \in {"kill", "switch"} THEN Probe(t) ELSE None
           rowOf(halted, n) ==
             [old EXCEPT !.risk = IF halted THEN "halted" ELSE "ok",
                         !.fills = @ + n,
                         !.cause = causeOf(halted),
                         !.held = causeOf(halted) = "kill" /\ ~StopOnItsWay(t)]
<1>1. PICK halted \in BOOLEAN, n \in 0 .. 1 :
        /\ runs' = [runs EXCEPT ![tasks[t].run] = rowOf(halted, n)]
        /\ tasks' = [tasks EXCEPT
             ![t].phase = IF causeOf(halted) = None THEN "idle" ELSE "ending",
             ![t].cause = causeOf(halted)]
  BY DEF EndCandle
<1> DEFINE cause == causeOf(halted)
           phase == IF cause = None THEN "idle" ELSE "ending"
           held  == cause = "kill" /\ ~StopOnItsWay(t)
           tk    == [tasks[t] EXCEPT !.phase = phase, !.cause = cause]
           row   == rowOf(halted, n)
<1>2. /\ tasks[t].phase = "flushed" /\ ~tasks[t].cancel
      /\ UNCHANGED <<assignments, procVars>>
      /\ tasks' = [tasks EXCEPT ![t] = tk]
      /\ runs' = [runs EXCEPT ![tasks[t].run] = row]
  <2>1. tasks' = [tasks EXCEPT ![t] = tk]
    BY <1>1
  <2>2. runs' = [runs EXCEPT ![tasks[t].run] = row]
    BY <1>1
  <2> QED BY <2>1, <2>2 DEF EndCandle, At
<1>3. /\ tasks[t] \in Task /\ old \in RunRow /\ RowTells(old) /\ TaskTells(tasks[t], old)
      /\ old.cause = None /\ old.audit = None /\ old.status # "failed"
  BY <1>2, OwnEndRow DEF Looping
<1>4. /\ cause \in {"risk", "kill", "switch", None}
      /\ cause = "kill" => Probe(t) = "kill"
      /\ phase = (IF cause = None THEN "idle" ELSE "ending")
  BY DEF None
<1>5. /\ tk.phase = phase /\ tk.cause = cause /\ tk.stop = tasks[t].stop
      /\ tk.aid = tasks[t].aid /\ tk.config = tasks[t].config /\ tk.run = tasks[t].run
      /\ tk.cancel = tasks[t].cancel /\ tk.stale = tasks[t].stale /\ tk.early = tasks[t].early
      /\ tk.outcome = tasks[t].outcome
  BY <1>3 DEF Task
<1>6. /\ row.aid = old.aid /\ row.config = old.config
      /\ row.resumed = old.resumed /\ row.carried = old.carried
      /\ row.command = old.command /\ row.status = old.status
      /\ row.reason = old.reason /\ row.audit = old.audit
      /\ row.cause = cause /\ row.held = held
  BY <1>3 DEF RunRow
<1>7. held => /\ cause = "kill" /\ ~tasks[t].stop
              /\ Wanted(tasks[t].run, assignments[tasks[t].aid])
              /\ pc \in {"watch", "refresh", "plan"} => Wanted(tasks[t].run, rows[tasks[t].aid])
  <2>1. old.config = tasks[t].config
    BY <1>2, <1>3, HeldRow DEF TaskTells, Looping
  <2> QED BY <2>1 DEF StopOnItsWay, Wanted
<1>8. tasks[t].outcome = None
  BY <1>2, <1>3 DEF TaskTells
<1> HIDE DEF tk, row, cause, phase, held
<1>9. RowTells(row) /\ TaskTells(tk, row)
  BY <1>3, <1>4, <1>5, <1>6, <1>8 DEF RowTells, TaskTells, None, Ended
<1>10. IInv'
  BY EndCandleStep
<1>11. KillIsHeard /\ row.held =>
         /\ row.cause = "kill" /\ row.command = "kill"
         /\ tk.phase \in Ended \cup {"done"} /\ ~tk.stop /\ tk.outcome # "raised"
         /\ tasks[t].phase \in Looping
         /\ Wanted(tasks[t].run, assignments[tasks[t].aid])
         /\ pc \in {"watch", "refresh", "plan"} => Wanted(tasks[t].run, rows[tasks[t].aid])
  <2> SUFFICES ASSUME KillIsHeard, row.held
               PROVE  /\ row.cause = "kill" /\ row.command = "kill"
                      /\ tk.phase \in Ended \cup {"done"} /\ ~tk.stop /\ tk.outcome # "raised"
                      /\ tasks[t].phase \in Looping
                      /\ Wanted(tasks[t].run, assignments[tasks[t].aid])
                      /\ pc \in {"watch", "refresh", "plan"} =>
                           Wanted(tasks[t].run, rows[tasks[t].aid])
    OBVIOUS
  <2>1. held /\ cause = "kill"
    BY <1>6, <1>7
  <2>2. old.command = "kill"
    BY <2>1, <1>4, ProbeIsTheCommand
  <2>3. phase = "ending"
    BY <2>1, <1>4 DEF None
  <2> QED BY <2>1, <2>2, <2>3, <1>2, <1>5, <1>6, <1>7, <1>8 DEF Ended, Looping, None
<1>12. /\ phase \in {"idle", "ending"}
       /\ cause # None => phase = "ending"
  BY <1>4
<1>13. /\ tasks[t].phase \in Looping /\ tk.phase \notin Starting \cup {"free"}
       /\ row.cause \in {"kill", "switch"} => tk.phase = "ending"
  BY <1>2, <1>5, <1>6, <1>12 DEF Looping, Ended, Starting, None
<1> HIDE DEF old
<1> QED BY <1>2, <1>5, <1>6, <1>9, <1>10, <1>11, <1>13, EndWrite DEF old

\* The loop is over for a cause that is neither a command nor the risk rail.
LEMMA EndingEnds ==
  ASSUME IInv, EndInv, IInv', NEW t \in Tasks, tasks[t].phase \in {"idle", "candle", "flushed"},
         NEW cause \in {"dry", "stop", "fail", "cancel"}, NEW owed,
         Ending(t, cause, owed),
         UNCHANGED <<assignments, settings, procVars>>
  PROVE  EndInv'
<1> DEFINE old == runs[tasks[t].run]
           tk  == [tasks[t] EXCEPT !.phase = "ending", !.cause = cause,
                                   !.cancel = FALSE, !.owed = owed]
           row == [old EXCEPT !.cause = cause]
<1>1. /\ tasks' = [tasks EXCEPT ![t] = tk]
      /\ runs' = [runs EXCEPT ![tasks[t].run] = row]
  BY DEF Ending
<1>2. /\ tasks[t] \in Task /\ old \in RunRow /\ RowTells(old) /\ TaskTells(tasks[t], old)
      /\ old.cause = None /\ old.audit = None /\ old.status # "failed"
      /\ KillIsHeard => ~old.held
  BY OwnEndRow DEF Looping
<1>3. /\ tk.phase = "ending" /\ tk.cancel = FALSE /\ tk.cause = cause
      /\ tk.aid = tasks[t].aid /\ tk.config = tasks[t].config /\ tk.run = tasks[t].run
      /\ tk.stale = tasks[t].stale /\ tk.early = tasks[t].early
      /\ tk.outcome = tasks[t].outcome
  BY <1>2 DEF Task
<1>4. /\ row.aid = old.aid /\ row.config = old.config
      /\ row.resumed = old.resumed /\ row.carried = old.carried
      /\ row.command = old.command /\ row.status = old.status
      /\ row.reason = old.reason /\ row.audit = old.audit
      /\ row.cause = cause /\ row.held = old.held
  BY <1>2 DEF RunRow
<1> HIDE DEF tk, row
<1>5. RowTells(row) /\ TaskTells(tk, row)
  BY <1>2, <1>3, <1>4 DEF RowTells, TaskTells
<1>6. /\ tk.phase \in Ended /\ tk.phase \notin Starting \cup {"free"} \cup Looping
      /\ tasks[t].phase \in Looping
  BY <1>3 DEF Ended, Starting, Looping
<1> HIDE DEF old
<1> QED BY <1>1, <1>2, <1>3, <1>4, <1>5, <1>6, EndWrite DEF old

\* The stop event ends the loop.
LEMMA SeeStopEnds ==
  ASSUME IInv, EndInv, NEW t \in Tasks, SeeStop(t)
  PROVE  EndInv'
<1>1. PICK cause \in {"dry", "stop"} : Ending(t, cause, None)
  BY DEF SeeStop
<1>2. tasks[t].phase = "idle" /\ UNCHANGED <<assignments, settings, procVars>>
  BY DEF SeeStop, At
<1>3. IInv'
  BY SeeStopStep
<1> QED BY <1>1, <1>2, <1>3, EndingEnds

\* An exception ends the loop.
LEMMA RunFailsEnds ==
  ASSUME IInv, EndInv, NEW t \in Tasks, RunFails(t)
  PROVE  EndInv'
<1>1. PICK owed \in Owed(t) : Ending(t, "fail", owed)
  BY DEF RunFails
<1>2. /\ tasks[t].phase \in {"idle", "candle", "flushed"}
      /\ UNCHANGED <<assignments, settings, procVars>>
  BY DEF RunFails, At
<1>3. IInv'
  BY RunFailsStep
<1> QED BY <1>1, <1>2, <1>3, EndingEnds

\* The wind-down: whatever of it the database takes, the row tells no more
\* than the engine's cause.
LEMMA WindDownEnds ==
  ASSUME IInv, EndInv, NEW t \in Tasks, WindDown(t)
  PROVE  EndInv'
<1> DEFINE old     == runs[tasks[t].run]
           flushed == Flushed(old, tasks[t])
           final   == [flushed EXCEPT !.status = StatusOf(tasks[t].cause), !.reason = None]
           after(raises) == IF raises THEN "raised" ELSE OutcomeOf(tasks[t].cause)
           phaseOf(raises) == IF raises \/ OutcomeOf(tasks[t].cause) # None
                              THEN "done" ELSE "auditing"
<1>1. PICK row \in {old, flushed, final}, raises \in BOOLEAN :
        /\ IF row = final /\ ~raises THEN UNCHANGED spent ELSE Fault("db")
        /\ runs' = [runs EXCEPT ![tasks[t].run] = row]
        /\ tasks' = [tasks EXCEPT ![t].buffered = 0, ![t].owed = None,
                                  ![t].outcome = after(raises),
                                  ![t].phase = phaseOf(raises)]
  BY DEF WindDown
<1> DEFINE outcome == after(raises)
           phase   == phaseOf(raises)
           tk      == [tasks[t] EXCEPT !.buffered = 0, !.owed = None,
                                       !.outcome = outcome, !.phase = phase]
<1>2. /\ tasks[t].phase = "ending" /\ ~tasks[t].cancel
      /\ UNCHANGED <<assignments, procVars>>
      /\ tasks' = [tasks EXCEPT ![t] = tk]
  <2>1. /\ tasks[t].phase = "ending" /\ ~tasks[t].cancel
        /\ UNCHANGED <<assignments, procVars>>
    BY DEF WindDown, At
  <2>2. tasks' = [tasks EXCEPT ![t] = tk]
    <3> HIDE DEF after, phaseOf
    <3> QED BY <1>1
  <2> QED BY <2>1, <2>2
<1>3. /\ tasks[t] \in Task /\ old \in RunRow /\ RowTells(old) /\ TaskTells(tasks[t], old)
      /\ old.cause = tasks[t].cause
  BY <1>2, OwnEndRow DEF Ended, TaskTells
<1>4. /\ phase = "auditing" => outcome = None /\ ~raises
      /\ phase \in {"done", "auditing"}
      /\ tasks[t].cause \in {"kill", "switch"} /\ ~raises => phase = "auditing" /\ outcome = None
  BY DEF OutcomeOf, None
<1>5. /\ flushed.aid = old.aid /\ flushed.config = old.config
      /\ flushed.resumed = old.resumed /\ flushed.carried = old.carried
      /\ flushed.command = old.command /\ flushed.status = old.status
      /\ flushed.reason = old.reason /\ flushed.audit = old.audit
      /\ flushed.cause = old.cause /\ flushed.held = old.held
  BY <1>3 DEF RunRow, Flushed
<1>6. /\ final.aid = old.aid /\ final.config = old.config
      /\ final.resumed = old.resumed /\ final.carried = old.carried
      /\ final.command = old.command /\ final.status = StatusOf(tasks[t].cause)
      /\ final.reason = None /\ final.audit = old.audit
      /\ final.cause = old.cause /\ final.held = old.held
  BY <1>3 DEF RunRow, Flushed
<1>7. /\ tk.phase = phase /\ tk.outcome = outcome /\ tk.cause = tasks[t].cause
      /\ tk.aid = tasks[t].aid /\ tk.config = tasks[t].config /\ tk.run = tasks[t].run
      /\ tk.cancel = tasks[t].cancel /\ tk.stale = tasks[t].stale /\ tk.early = tasks[t].early
      /\ tk.stop = tasks[t].stop
  BY <1>3 DEF Task
<1> HIDE DEF tk, flushed, final, phase, outcome
<1>8. /\ row.aid = old.aid /\ row.config = old.config
      /\ row.resumed = old.resumed /\ row.carried = old.carried
      /\ row.command = old.command /\ row.cause = old.cause /\ row.held = old.held
      /\ row.status = "running" => old.status = "running"
  BY <1>1, <1>5, <1>6 DEF StatusOf
<1>9. RowTells(row)
  <2>1. RowTells(final)
    BY <1>3, <1>6 DEF RowTells, StatusOf
  <2>2. RowTells(flushed)
    BY <1>3, <1>5 DEF RowTells
  <2> QED BY <2>1, <2>2, <1>1, <1>3
<1>10. TaskTells(tk, row)
  BY <1>3, <1>4, <1>7, <1>8 DEF TaskTells
<1>11. IInv'
  BY WindDownStep
<1>12. EndsAreWritten \/ KillIsHeard => ~raises
  BY <1>1 DEF Fault, EndsAreWritten, KillIsHeard
<1>13. ASSUME KillIsHeard, row.held
       PROVE  /\ row.cause = "kill" /\ row.command = "kill"
              /\ tk.phase \in Ended \cup {"done"} /\ ~tk.stop /\ tk.outcome # "raised"
              /\ HeldBy(tasks[t].run)
  <2>1. tasks[t].run \in RunIds
    BY <1>2, OwnEndRow DEF Ended
  <2>2. HeldBy(tasks[t].run)
    BY <1>8, <1>13, <2>1 DEF EndInv, KillHolds
  <2>3. old.cause = "kill" /\ old.command = "kill"
    BY <2>2 DEF HeldBy
  <2>4. ~tasks[t].stop
    <3>1. tasks[t].aid \in Assignments /\ runs[tasks[t].run].aid = tasks[t].aid
      BY <2>1, <1>2, HeldRow DEF Ended, Task
    <3>2. live[tasks[t].aid] = t
      BY <3>1, <1>2, <1>13 DEF EndInv, InFront, NothingHangs, KillIsHeard, IInv, Ownership
    <3> QED BY <2>2, <3>1, <3>2, SupervisorAssumption DEF HeldBy
  <2> QED BY <2>2, <2>3, <2>4, <1>3, <1>4, <1>7, <1>8, <1>12, <1>13 DEF Ended, None
<1>14. EndsAreWritten /\ row.cause \in {"kill", "switch"} =>
         /\ row.status = "halted" /\ row.reason = None /\ tk.phase = "auditing"
         /\ old.cause = row.cause
  <2> SUFFICES ASSUME EndsAreWritten, row.cause \in {"kill", "switch"}
               PROVE  row.status = "halted" /\ row.reason = None /\ tk.phase = "auditing"
    BY <1>8
  <2>1. row = final
    BY <1>1, <1>12 DEF Fault, EndsAreWritten
  <2>2. StatusOf(tasks[t].cause) = "halted"
    BY <1>3, <1>8 DEF StatusOf
  <2> QED BY <2>1, <2>2, <1>3, <1>4, <1>6, <1>7, <1>8, <1>12
<1>15. /\ tk.phase \notin Starting \cup {"free"} /\ tk.phase \notin Looping
       /\ tasks[t].phase \in Ended
  BY <1>2, <1>4, <1>7 DEF Starting, Looping, Ended
<1> HIDE DEF old
<1> QED BY <1>1, <1>2, <1>7, <1>8, <1>9, <1>10, <1>11, <1>13, <1>14, <1>15, EndWrite DEF old

\* The halt reason's audit event.
LEMMA RecordHaltEnds ==
  ASSUME IInv, EndInv, NEW t \in Tasks, RecordHalt(t)
  PROVE  EndInv'
<1> DEFINE old == runs[tasks[t].run]
           told == [old EXCEPT !.audit = tasks[t].cause]
           tk  == [tasks[t] EXCEPT !.phase = "done", !.outcome = "returned"]
<1>1. /\ tasks[t].phase = "auditing" /\ ~tasks[t].cancel
      /\ UNCHANGED <<assignments, procVars>>
      /\ tasks' = [tasks EXCEPT ![t] = tk]
      /\ \/ runs' = [runs EXCEPT ![tasks[t].run] = told]
         \/ "audit" \in Faults /\ runs' = runs
  BY DEF RecordHalt, At, Finish, Fault
<1>2. /\ tasks[t] \in Task /\ old \in RunRow /\ RowTells(old) /\ TaskTells(tasks[t], old)
      /\ old.cause = tasks[t].cause /\ tasks[t].run \in RunIds
  BY <1>1, OwnEndRow DEF Ended, TaskTells
<1>3. PICK row : /\ runs' = [runs EXCEPT ![tasks[t].run] = row]
                 /\ row = told \/ ("audit" \in Faults /\ row = old)
  <2>1. runs = [runs EXCEPT ![tasks[t].run] = old]
    BY <1>2, TypeFacts DEF IInv
  <2> QED BY <1>1, <2>1
<1>4. /\ told.aid = old.aid /\ told.config = old.config
      /\ told.resumed = old.resumed /\ told.carried = old.carried
      /\ told.command = old.command /\ told.status = old.status
      /\ told.reason = old.reason /\ told.audit = tasks[t].cause
      /\ told.cause = old.cause /\ told.held = old.held
  BY <1>2 DEF RunRow
<1>5. /\ tk.phase = "done" /\ tk.outcome = "returned" /\ tk.cause = tasks[t].cause
      /\ tk.aid = tasks[t].aid /\ tk.config = tasks[t].config /\ tk.run = tasks[t].run
      /\ tk.cancel = tasks[t].cancel /\ tk.stale = tasks[t].stale /\ tk.early = tasks[t].early
      /\ tk.stop = tasks[t].stop
  BY <1>2 DEF Task
<1> HIDE DEF tk, told
<1>6. /\ row.aid = old.aid /\ row.config = old.config
      /\ row.resumed = old.resumed /\ row.carried = old.carried
      /\ row.command = old.command /\ row.cause = old.cause /\ row.held = old.held
      /\ row.status = old.status /\ row.reason = old.reason
      /\ RowTells(row)
      /\ EndsAreWritten => row.audit = row.cause
  BY <1>2, <1>3, <1>4 DEF RowTells, EndsAreWritten
<1>7. TaskTells(tk, row)
  BY <1>2, <1>5, <1>6 DEF TaskTells, Ended
<1>8. IInv'
  BY RecordHaltStep
<1>9. ASSUME KillIsHeard, row.held
      PROVE  /\ row.cause = "kill" /\ row.command = "kill"
             /\ tk.phase \in Ended \cup {"done"} /\ ~tk.stop /\ tk.outcome # "raised"
             /\ HeldBy(tasks[t].run)
  <2>1. HeldBy(tasks[t].run)
    BY <1>2, <1>6, <1>9 DEF EndInv, KillHolds
  <2>2. old.cause = "kill" /\ old.command = "kill"
    BY <2>1 DEF HeldBy
  <2>3. ~tasks[t].stop
    <3>1. tasks[t].aid \in Assignments /\ runs[tasks[t].run].aid = tasks[t].aid
      BY <1>1, HeldRow DEF Ended, Task
    <3>2. live[tasks[t].aid] = t
      BY <3>1, <1>1, <1>9 DEF EndInv, InFront, NothingHangs, KillIsHeard, IInv, Ownership
    <3> QED BY <2>1, <3>1, <3>2, SupervisorAssumption DEF HeldBy
  <2> QED BY <2>1, <2>2, <2>3, <1>5, <1>6
<1>10. EndsAreWritten /\ row.cause \in {"kill", "switch"} =>
         /\ row.status = "halted" /\ row.reason = None /\ row.audit = row.cause
         /\ old.cause = row.cause
  <2> SUFFICES ASSUME EndsAreWritten, row.cause \in {"kill", "switch"}
               PROVE  old.status = "halted" /\ old.reason = None
    BY <1>6
  <2>1. PICK own \in RunIds : own = tasks[t].run
    BY <1>2
  <2>2. KillTold(own)
    BY <2>1, <1>6 DEF EndInv, KillIsWritten, Killed
  <2>3. \A u \in Tasks : tasks[u].run = own => u = t
    BY <2>1, TypeFacts DEF IInv, RowHeld
  <2> QED BY <2>1, <2>2, <2>3, <1>1 DEF KillTold
<1>11. /\ tk.phase \notin Starting \cup {"free"} /\ tk.phase \notin Looping
       /\ tasks[t].phase \in Ended
  BY <1>1, <1>5 DEF Starting, Looping, Ended
<1> HIDE DEF old
<1> QED BY <1>1, <1>3, <1>5, <1>6, <1>7, <1>8, <1>9, <1>10, <1>11, EndWrite DEF old

\* With a hanging task among the faults only the first two parts are claimed.
LEMMA OnlyTheFirstTwo ==
  ASSUME ~NothingHangs
  PROVE  InFront' /\ KillIsWritten' /\ KillHolds'
BY DEF NothingHangs, InFront, EndsAreWritten, KillIsWritten, KillIsHeard, KillHolds

\* The watchdog's cancellation arrives.
LEMMA TakeCancelEnds ==
  ASSUME IInv, EndInv, NEW t \in Tasks, TakeCancel(t)
  PROVE  EndInv'
<1>1. tasks[t].cancel /\ UNCHANGED <<assignments, settings, procVars, spent>> /\ IInv'
  BY TakeCancelStep DEF TakeCancel
<1>2. CASE tasks[t].phase \in {"idle", "candle", "flushed"}
  <2>1. PICK owed \in Owed(t) : Ending(t, "cancel", owed)
    BY <1>2 DEF TakeCancel
  <2> QED BY <1>1, <1>2, <2>1, EndingEnds
<1>3. CASE tasks[t].phase \notin {"idle", "candle", "flushed"}
  <2>1. /\ runs' = runs
        /\ tasks' = [tasks EXCEPT ![t].cancel = FALSE, ![t].phase = "done",
                       ![t].outcome = IF tasks[t].phase = "done" THEN @ ELSE "cancelled"]
    BY <1>3 DEF TakeCancel
  <2>2. tasks[t] \in Task /\ tasks \in [Tasks -> Task]
    BY TypeFacts DEF IInv, TypeOK
  <2>3. /\ tasks'[t].phase = "done" /\ tasks'[t].config = tasks[t].config
        /\ tasks'[t].run = tasks[t].run
    BY <2>1, <2>2 DEF Task
  <2>4. ASSUME NEW u \in Tasks PROVE KeepsRow(u)
    <3>1. CASE u = t
      BY <2>3, <3>1 DEF KeepsRow, Ended
    <3>2. CASE u # t
      <4>1. tasks'[u] = tasks[u] /\ TaskTells(tasks[u], runs[tasks[u].run])
        BY <2>1, <2>2, <3>2 DEF EndInv, Recorded
      <4> QED BY <4>1 DEF KeepsRow, TaskTells
    <3> QED BY <3>1, <3>2
  <2>5. EndsStay
    BY <2>1, NoRowChanged
  <2>6. OneRunningRow'
    BY <2>5, OneRunningKept DEF EndInv, EndsStay, SameEnd
  <2>7. Recorded'
    <3>1. \A r \in RunIds : RowTells(runs'[r])
      BY <2>1 DEF EndInv, Recorded
    <3> QED BY <3>1, <2>4, <2>5, RecordedKept DEF EndInv, EndsStay, SameEnd
  <2>8. ~NothingHangs
    BY <1>1 DEF EndInv, InFront
  <2> QED BY <2>6, <2>7, <2>8, OnlyTheFirstTwo DEF EndInv
<1> QED BY <1>2, <1>3

-----------------------------------------------------------------------------
(***************************************************************************)
(* Preparing a resume and claiming the slot.                               *)
(***************************************************************************)
\* A supersession halts the running rows of the slot, and tells their ends.
LEMMA SupersededEnds ==
  ASSUME NEW rs \in Seq(RunRow), NEW a, NEW slot, NEW except, NEW r \in 1 .. Len(rs)
  PROVE  LET new == Supersede(rs, a, slot, except)[r]
         IN  /\ new.held = rs[r].held /\ new.command = rs[r].command
             /\ new.audit = rs[r].audit /\ new.cause = rs[r].cause
             /\ \/ new.status = rs[r].status /\ new.reason = rs[r].reason
                \/ /\ rs[r].aid = a /\ rs[r].config.slot = slot
                   /\ rs[r].status = "running" /\ r # except
                   /\ new.status = "halted" /\ new.reason = "superseded"
<1> DEFINE ended == [rs[r] EXCEPT !.status = "halted", !.reason = "superseded"]
<1>1. rs[r] \in RunRow
  BY ElementOfSeq
<1>2. /\ ended.status = "halted" /\ ended.reason = "superseded"
      /\ ended.held = rs[r].held /\ ended.command = rs[r].command
      /\ ended.audit = rs[r].audit /\ ended.cause = rs[r].cause
  BY <1>1 DEF RunRow
<1>3. Supersede(rs, a, slot, except)[r] =
        IF /\ rs[r].aid = a /\ rs[r].config.slot = slot
           /\ rs[r].status = "running" /\ r # except
        THEN ended ELSE rs[r]
  BY DEF Supersede
<1> HIDE DEF ended
<1> QED BY <1>2, <1>3

\* What prepare_resume answers with is not a killed run, when every end is
\* written: such a row would be held by its task, or be told by its audit event.
LEMMA KilledIsNotAnswered ==
  ASSUME IInv, EndInv, EndsAreWritten, NEW t \in Tasks,
         tasks[t].phase = "preparing", ~tasks[t].cancel,
         LET rs == Supersede(runs, tasks[t].aid, tasks[t].config.slot, 0)
         IN  ResumeDecision(rs, tasks[t].aid, tasks[t].config).kind # "refuse",
         NEW p,
         p = ResumeDecision(Supersede(runs, tasks[t].aid, tasks[t].config.slot, 0),
                            tasks[t].aid, tasks[t].config).run,
         p # 0
  PROVE  ~Killed(p)
<1> DEFINE a == tasks[t].aid
           config == tasks[t].config
           rs == Supersede(runs, a, config.slot, 0)
<1>1. p \in RunIds /\ SameSlot(p, a, config)
  BY PredecessorIsQuiet
<1>2. /\ rs[p].audit = runs[p].audit
      /\ runs[p].status # "running" => rs[p].status = runs[p].status /\ rs[p].reason = runs[p].reason
  <2>1. runs \in Seq(RunRow) /\ p \in 1 .. Len(runs)
    BY <1>1, TypeFacts DEF IInv
  <2> HIDE DEF a, config
  <2> QED BY <2>1, SupersededEnds
<1>3. IsResumable(rs[p], config)
  <2>1. LET d == ResumeDecision(rs, a, config) IN d.kind # "refuse" /\ d.run = p
    OBVIOUS
  <2> HIDE DEF rs
  <2> QED BY <2>1 DEF ResumeDecision
<1> HIDE DEF rs
<1> SUFFICES ASSUME Killed(p) PROVE FALSE
  OBVIOUS
<1>4. KillTold(p)
  BY <1>1 DEF EndInv, KillIsWritten
<1>5. ASSUME NEW u \in Tasks, tasks[u].run = p, tasks[u].phase \in Ended PROVE FALSE
  <2>1. p # 0 /\ tasks[u].aid = a
    BY <1>1, <1>5, HeldRow DEF SameSlot
  <2>2. markers = {}
    BY DEF EndInv, InFront, EndsAreWritten, NothingHangs
  <2> QED BY <2>1, <2>2, <1>5, OneTask DEF Ended
<1>6. runs[p].status = "halted" /\ runs[p].reason = None /\ runs[p].audit \in {"kill", "switch"}
  BY <1>4, <1>5 DEF KillTold, Killed, Ended
<1> QED BY <1>2, <1>3, <1>6 DEF IsResumable, None

\* The rows and the task prepare_resume leaves, when it answers.
LEMMA PrepareResumeEnds ==
  ASSUME IInv, EndInv, NEW t \in Tasks, PrepareResume(t)
  PROVE  EndInv'
<1> USE DEF EndInv
<1> DEFINE a  == tasks[t].aid
           config == tasks[t].config
           rs == Supersede(runs, a, config.slot, 0)
           answer == ResumeDecision(rs, a, config)
<1>1. /\ tasks[t].phase = "preparing" /\ ~tasks[t].cancel /\ tasks[t] \in Task
      /\ UNCHANGED <<assignments, procVars>>
      /\ IInv' /\ LedgersStay
  BY TypeFacts, PrepareResumeStep DEF PrepareResume, At, IInv
<1>2. CASE answer.kind = "refuse"
  <2> DEFINE tk == [tasks[t] EXCEPT !.phase = "done", !.outcome = "raised"]
  <2>1. runs' = runs /\ tasks' = [tasks EXCEPT ![t] = tk]
    BY <1>2 DEF PrepareResume, Finish
  <2>2. /\ tk.phase = "done" /\ tk.aid = tasks[t].aid /\ tk.config = tasks[t].config
        /\ tk.run = tasks[t].run /\ tk.cause = tasks[t].cause
        /\ tk.cancel = tasks[t].cancel /\ tk.stale = tasks[t].stale /\ tk.early = tasks[t].early
    BY <1>1 DEF Task
  <2> HIDE DEF tk, answer, rs
  <2>3. tasks'[t] = tk /\ \A u \in Tasks : u # t => tasks'[u] = tasks[u]
    BY <2>1 DEF IInv, TypeOK
  <2>4. Carries(t)
    BY <1>1, <2>2, <2>3 DEF Carries, Ended, Looping
  <2>5. NothingHangs => ~tasks'[t].cancel /\ ~tasks'[t].stale
    BY <2>2, <2>3 DEF InFront
  <2>6. EndsStay /\ \A r \in RunIds : SameControl(r)
    BY <2>1, NoRowChanged
  <2>7. EndInv
    BY DEF EndInv
  <2>8. tasks[t].phase # "free" /\ tasks[t].phase \notin Ended \cup {"done"}
        /\ tasks'[t].early = tasks[t].early
    BY <1>1, <2>2, <2>3 DEF Ended
  <2>9. EndInv'
    BY <1>1, <2>3, <2>4, <2>5, <2>6, <2>7, <2>8, QuietTask
  <2> QED BY <2>9
<1>3. CASE answer.kind # "refuse"
  <2>0. /\ runs' = rs
        /\ \E q \in {answer.run, 0} :
             tasks' = [tasks EXCEPT ![t].phase = "prepared", ![t].resume = q,
                                    ![t].carried = Replayed(rs, q)]
    BY <1>3 DEF PrepareResume
  <2> PICK q \in {answer.run, 0} :
         tasks' = [tasks EXCEPT ![t].phase = "prepared", ![t].resume = q,
                                ![t].carried = Replayed(rs, q)]
    BY <2>0
  <2> DEFINE tk == [tasks[t] EXCEPT !.phase = "prepared", !.resume = q,
                                    !.carried = Replayed(rs, q)]
  <2>1. runs' = rs /\ tasks' = [tasks EXCEPT ![t] = tk]
    BY <2>0
  <2>2. /\ tk.phase = "prepared" /\ tk.aid = a /\ tk.config = config
        /\ tk.run = tasks[t].run /\ tk.cause = tasks[t].cause /\ tk.resume = q
        /\ tk.cancel = tasks[t].cancel /\ tk.stale = tasks[t].stale /\ tk.early = tasks[t].early
        /\ tk.outcome = tasks[t].outcome
    BY <1>1 DEF Task
  <2>3. \A r \in RunIds :
          /\ runs'[r].held = runs[r].held /\ runs'[r].command = runs[r].command
          /\ runs'[r].audit = runs[r].audit /\ runs'[r].cause = runs[r].cause
          /\ \/ runs'[r].status = runs[r].status /\ runs'[r].reason = runs[r].reason
             \/ /\ runs[r].aid = a /\ runs[r].status = "running"
                /\ runs'[r].status = "halted" /\ runs'[r].reason = "superseded"
    BY <2>1, SupersededEnds, TypeFacts DEF IInv
  <2>4. ASSUME EndsAreWritten, answer.run # 0 PROVE ~Killed(answer.run)
    BY <1>1, <1>3, <2>4, KilledIsNotAnswered DEF EndInv
  <2> HIDE DEF tk, answer, rs
  <2>5. tasks'[t] = tk /\ \A u \in Tasks : u # t => tasks'[u] = tasks[u]
    BY <2>1 DEF IInv, TypeOK
  <2>6. /\ Len(runs') = Len(runs) /\ RunIds' = RunIds
        /\ \A r \in RunIds : SameLinks(r) /\ SameControl(r)
        /\ \A b : LatestRunRow(b)' = LatestRunRow(b)
    <3>1. Len(runs') = Len(runs) /\ \A r \in RunIds : SameLinks(r)
      BY <1>1 DEF LedgersStay
    <3> QED BY <2>3, <3>1, LatestKept DEF SameLinks, SameControl, RunIds
  <2>7. OneRunningRow'
    <3>1. \A r \in RunIds : runs'[r].status = "running" => runs[r].status = "running"
      BY <2>3
    <3> QED BY <2>6, <3>1, OneRunningKept
  <2>8. Recorded'
    <3>1. \A r \in RunIds : RowTells(runs'[r])
      BY <2>3 DEF Recorded, RowTells
    <3>2. ASSUME NEW u \in Tasks PROVE KeepsRow(u)
      <4>1. TaskTells(tasks[u], runs[tasks[u].run])
        BY DEF Recorded
      <4>2. CASE u = t
        BY <4>1, <4>2, <1>1, <2>2, <2>5 DEF KeepsRow, TaskTells, Ended
      <4>3. CASE u # t
        BY <4>1, <4>3, <2>5 DEF KeepsRow, TaskTells
      <4> QED BY <4>2, <4>3
    <3> QED BY <2>3, <2>6, <3>1, <3>2, RecordedKept
  <2>9. ASSUME NothingHangs, NEW u \in Tasks, u # t, tasks[u].phase # "free"
        PROVE  tasks[u].aid # a
    BY <2>9, <1>1, OneTask DEF InFront
  <2>10. InFront'
    <3> SUFFICES ASSUME NothingHangs
                 PROVE  /\ markers' = {} /\ pc' # "down"
                        /\ \A u \in Tasks : ~tasks'[u].cancel /\ ~tasks'[u].stale
                        /\ \A u \in Tasks : Fronts(u)'
      BY DEF InFront
    <3>1. /\ markers' = {} /\ pc' # "down"
          /\ \A u \in Tasks : ~tasks'[u].cancel /\ ~tasks'[u].stale
      <4>1. pc # "down" /\ markers = {} /\ \A u \in Tasks : ~tasks[u].cancel /\ ~tasks[u].stale
        BY <1>1 DEF InFront
      <4> QED BY <4>1, <1>1, <2>2, <2>5 DEF procVars
    <3>2. ASSUME NEW u \in Tasks, tasks'[u].phase \in Looping
          PROVE  /\ tasks'[u].run = Newest({r \in RunIds' : runs'[r].aid = tasks'[u].aid})
                 /\ runs'[tasks'[u].run].status = "running"
      <4>1. u # t /\ tasks'[u] = tasks[u]
        BY <2>2, <2>5, <3>2 DEF Looping
      <4>2. /\ tasks[u].run = LatestRunRow(tasks[u].aid)
            /\ runs[tasks[u].run].status = "running"
        BY <4>1, <3>2 DEF InFront, Fronts
      <4>3. tasks[u].run \in RunIds /\ runs[tasks[u].run].aid = tasks[u].aid
        BY <4>1, <3>2, HeldRow
      <4>4. tasks[u].aid # a
        BY <4>1, <2>9, <3>2 DEF Looping
      <4>5. runs'[tasks[u].run].status = "running"
        BY <4>2, <4>3, <4>4, <2>3
      <4>6. {r \in RunIds' : runs'[r].aid = tasks'[u].aid} = RunsOf(tasks[u].aid)
        BY <2>6, <4>1 DEF RunsOf, SameLinks
      <4> QED BY <4>1, <4>2, <4>5, <4>6 DEF LatestRunRow
    <3> QED BY <3>1, <3>2 DEF Fronts, LatestRunRow, RunsOf
  <2>11. KillIsWritten'
    <3> SUFFICES ASSUME EndsAreWritten
                 PROVE  /\ pc' # "stopping"
                        /\ \A r \in RunIds : Killed(r)' => KillTold(r)'
                        /\ \A u \in Tasks : NotCarried(u)'
                        /\ KilledNotResumed'
      BY <2>6 DEF KillIsWritten
    <3>1. pc' # "stopping"
      BY <1>1 DEF KillIsWritten, procVars
    <3>2. ASSUME NEW r \in RunIds, Killed(r)' PROVE KillTold(r)'
      <4>1. KillTold(r)
        BY <2>3, <3>2 DEF KillIsWritten, Killed
      <4>2. ASSUME NEW u \in Tasks, tasks[u].phase \in Ended PROVE tasks'[u] = tasks[u]
        BY <4>2, <1>1, <2>5 DEF Ended
      <4>3. runs[r].status = "halted" =>
              runs'[r].status = "halted" /\ runs'[r].reason = runs[r].reason
        BY <2>3
      <4> QED BY <4>1, <4>2, <4>3, <2>3 DEF KillTold, Ended
    <3>3. \A p \in RunIds : runs'[p].cause = runs[p].cause
      BY <2>3
    <3>4. ASSUME NEW u \in Tasks, tasks'[u].phase \in {"prepared", "claiming"},
                 tasks'[u].resume # 0
          PROVE  runs'[tasks'[u].resume].cause \notin {"kill", "switch"}
      <4>1. CASE u = t
        <5>1. tasks'[u].resume = answer.run /\ answer.run # 0 /\ ~Killed(answer.run)
          BY <4>1, <2>2, <2>4, <2>5, <3>4
        <5>2. answer.run \in RunIds
          BY <1>1, <1>3, <5>1, <3>4, PredecessorIsQuiet DEF answer, rs
        <5> QED BY <5>1, <5>2, <3>3 DEF Killed
      <4>2. CASE u # t
        <5>1. tasks'[u] = tasks[u] /\ ~tasks[u].cancel
          BY <4>2, <2>5 DEF InFront, EndsAreWritten, NothingHangs
        <5>2. ~Killed(tasks[u].resume)
          BY <5>1, <3>4 DEF KillIsWritten, NotCarried
        <5>3. tasks[u].resume \in RunIds
          BY <5>1, <3>4 DEF IInv, Prepared
        <5> QED BY <5>1, <5>2, <5>3, <3>3 DEF Killed
      <4> QED BY <4>1, <4>2
    <3>5. KilledNotResumed'
      <4>1. \A r \in RunIds : runs[r].resumed # 0 => runs[r].resumed \in RunIds
        BY RowsAreLinked DEF Linked, RunIds, IInv
      <4>2. \A r \in RunIds : runs'[r].resumed = runs[r].resumed
        BY <2>6 DEF SameLinks
      <4> QED BY <2>6, <4>1, <4>2, <3>3 DEF KilledNotResumed, KillIsWritten
    <3> QED BY <3>1, <3>2, <3>4, <3>5 DEF NotCarried, Killed
  <2>12. KillHolds'
    <3>1. \A u \in Tasks :
            /\ tasks[u].phase \in Ended \cup {"done"} => tasks'[u] = tasks[u]
            /\ tasks'[u].early = tasks[u].early
      BY <1>1, <2>2, <2>5 DEF Ended
    <3>2. EndInv
      BY DEF EndInv
    <3> QED BY <1>1, <2>3, <2>6, <3>1, <3>2, HoldsOn
  <2> QED BY <2>7, <2>8, <2>10, <2>11, <2>12
<1> QED BY <1>2, <1>3

\* The claim: the new row is the newest and the only running one of its slot.
LEMMA ClaimSlotEnds ==
  ASSUME IInv, EndInv, NEW t \in Tasks, ClaimSlot(t)
  PROVE  EndInv'
<1> USE DEF EndInv
<1> DEFINE n   == Len(runs) + 1
           a   == tasks[t].aid
           row == [aid |-> tasks[t].aid, config |-> tasks[t].config, status |-> "running",
                   reason |-> None, audit |-> None, risk |-> "incomplete",
                   resumed |-> tasks[t].resume, fills |-> 0, command |-> None,
                   carried |-> tasks[t].carried, cause |-> None, held |-> FALSE]
           tk  == [tasks[t] EXCEPT !.phase = "claimed", !.run = n]
           grown == Append(runs, row)
<1>1. /\ tasks[t].phase = "claiming" /\ ~tasks[t].cancel /\ Len(runs) < MaxRuns
      /\ UNCHANGED <<assignments, procVars>>
      /\ tasks' = [tasks EXCEPT ![t] = tk]
      /\ runs' = Supersede(grown, a, tasks[t].config.slot, n)
      /\ IInv'
  BY ClaimSlotStep DEF ClaimSlot, At
<1>2. /\ runs \in Seq(RunRow) /\ Len(runs) \in Nat
      /\ RunIds = 1 .. Len(runs) /\ tasks[t] \in Task /\ MaxFills \in Nat
  BY TypeFacts DEF IInv
<1>3. row \in RunRow
  <2>1. 0 \in 0 .. MaxFills
    BY <1>2
  <2> QED BY <2>1, <1>2 DEF RunRow, Task, Cause
<1>4. /\ row.aid = a /\ row.config = tasks[t].config /\ row.status = "running"
      /\ row.reason = None /\ row.audit = None /\ row.cause = None /\ row.held = FALSE
      /\ row.resumed = tasks[t].resume
  OBVIOUS
<1> HIDE DEF row
<1>5. /\ grown \in Seq(RunRow) /\ Len(grown) = n /\ grown[n] = row
      /\ \A r \in RunIds : grown[r] = runs[r]
  BY <1>2, <1>3, AppendProperties
<1> HIDE DEF grown
<1>6. /\ n \in Nat /\ n # 0 /\ n \notin RunIds /\ n \in 1 .. n /\ \A r \in RunIds : r \in 1 .. n /\ r < n
      /\ 1 .. n = RunIds \cup {n}
  BY <1>2
<1>7. /\ Len(runs') = n /\ RunIds' = RunIds \cup {n}
      /\ \A r \in RunIds' :
           /\ runs'[r].aid = grown[r].aid /\ runs'[r].config = grown[r].config
           /\ runs'[r].resumed = grown[r].resumed /\ runs'[r].carried = grown[r].carried
           /\ grown[r].aid = a /\ grown[r].config.slot = tasks[t].config.slot /\ r # n =>
                runs'[r].status # "running"
           /\ runs'[r].held = grown[r].held /\ runs'[r].command = grown[r].command
           /\ runs'[r].audit = grown[r].audit /\ runs'[r].cause = grown[r].cause
           /\ \/ runs'[r].status = grown[r].status /\ runs'[r].reason = grown[r].reason
              \/ /\ grown[r].aid = a /\ grown[r].status = "running" /\ r # n
                 /\ runs'[r].status = "halted" /\ runs'[r].reason = "superseded"
  <2>1. /\ runs' \in Seq(RunRow) /\ Len(runs') = n
        /\ \A r \in 1 .. n :
             /\ runs'[r].aid = grown[r].aid /\ runs'[r].config = grown[r].config
             /\ runs'[r].resumed = grown[r].resumed /\ runs'[r].carried = grown[r].carried
             /\ grown[r].aid = a /\ grown[r].config.slot = tasks[t].config.slot /\ r # n =>
                  runs'[r].status # "running"
    BY <1>1, <1>5, SupersededRows
  <2>2. \A r \in 1 .. n :
           /\ runs'[r].held = grown[r].held /\ runs'[r].command = grown[r].command
           /\ runs'[r].audit = grown[r].audit /\ runs'[r].cause = grown[r].cause
           /\ \/ runs'[r].status = grown[r].status /\ runs'[r].reason = grown[r].reason
              \/ /\ grown[r].aid = a /\ grown[r].status = "running" /\ r # n
                 /\ runs'[r].status = "halted" /\ runs'[r].reason = "superseded"
    BY <1>1, <1>5, SupersededEnds
  <2>3. RunIds' = 1 .. n
    BY <2>1 DEF RunIds
  <2> HIDE DEF n
  <2> QED BY <2>1, <2>2, <2>3, <1>6
<1>8. \A r \in RunIds : /\ SameLinks(r) /\ SameControl(r)
                        /\ runs'[r].audit = runs[r].audit /\ runs'[r].cause = runs[r].cause
                        /\ \/ runs'[r].status = runs[r].status /\ runs'[r].reason = runs[r].reason
                           \/ /\ runs[r].aid = a /\ runs[r].status = "running"
                              /\ runs'[r].status = "halted" /\ runs'[r].reason = "superseded"
  <2> HIDE DEF n
  <2> QED BY <1>5, <1>7 DEF SameLinks, SameControl
<1>9. /\ runs'[n].aid = a /\ runs'[n].config = tasks[t].config /\ runs'[n].status = "running"
      /\ runs'[n].reason = None /\ runs'[n].audit = None /\ runs'[n].cause = None
      /\ ~runs'[n].held /\ runs'[n].resumed = tasks[t].resume
  <2>1. n \in RunIds'
    BY <1>6, <1>7
  <2> QED BY <2>1, <1>4, <1>5, <1>7
<1>10. /\ tk.phase = "claimed" /\ tk.run = n /\ tk.aid = a /\ tk.config = tasks[t].config
       /\ tk.cancel = tasks[t].cancel /\ tk.stale = tasks[t].stale /\ tk.early = tasks[t].early
       /\ tk.outcome = tasks[t].outcome
  BY <1>2 DEF Task
<1>11. tasks'[t] = tk /\ \A u \in Tasks : u # t => tasks'[u] = tasks[u]
  BY <1>1 DEF IInv, TypeOK
<1> HIDE DEF n, tk
<1>12. OneRunningRow'
  <2> SUFFICES ASSUME NEW r \in RunIds', NEW q \in RunIds',
                      runs'[r].status = "running", runs'[q].status = "running",
                      runs'[r].aid = runs'[q].aid, runs'[r].config.slot = runs'[q].config.slot
               PROVE  r = q
    BY DEF OneRunningRow
  <2>1. ASSUME NEW x \in RunIds, runs'[x].status = "running", runs'[x].aid = a,
               runs'[x].config.slot = tasks[t].config.slot
        PROVE  FALSE
    BY <2>1, <1>6, <1>7
  <2>2. CASE r = n \/ q = n
    BY <2>1, <2>2, <1>7, <1>9
  <2>3. CASE r # n /\ q # n
    <3>1. /\ r \in RunIds /\ q \in RunIds
          /\ runs[r].status = "running" /\ runs[q].status = "running"
          /\ runs[r].aid = runs[q].aid /\ runs[r].config.slot = runs[q].config.slot
      BY <2>3, <1>7, <1>8 DEF SameLinks
    <3> QED BY <3>1 DEF OneRunningRow
  <2> QED BY <2>2, <2>3
<1>13. \A u \in Tasks : tasks[u].run # 0 => tasks[u].run \in RunIds
  BY HeldRow
<1>14. Recorded'
  <2>1. ASSUME NEW r \in RunIds' PROVE RowTells(runs'[r])
    <3>1. CASE r = n
      BY <3>1, <1>9 DEF RowTells
    <3>2. CASE r # n
      <4>1. r \in RunIds /\ RowTells(runs[r])
        BY <3>2, <1>7 DEF Recorded
      <4> QED BY <4>1, <1>8 DEF RowTells
    <3> QED BY <3>1, <3>2
  <2>2. ASSUME NEW u \in Tasks PROVE TaskTells(tasks'[u], runs'[tasks'[u].run])
    <3>1. /\ TaskTells(tasks[u], runs[tasks[u].run])
          /\ tasks[u].phase \in Ended => tasks[u].run # 0
      BY HeldRow DEF Recorded
    <3>2. CASE u = t
      BY <3>1, <3>2, <1>1, <1>9, <1>10, <1>11 DEF TaskTells, Ended
    <3>3. CASE u # t
      <4>1. tasks[u].run # 0 =>
              /\ runs'[tasks[u].run].cause = runs[tasks[u].run].cause
              /\ runs'[tasks[u].run].config = runs[tasks[u].run].config
        BY <1>8, <1>13 DEF SameLinks
      <4> QED BY <3>1, <3>3, <4>1, <1>11 DEF TaskTells
    <3> QED BY <3>2, <3>3
  <2> QED BY <2>1, <2>2 DEF Recorded
<1>15. ASSUME NothingHangs, NEW u \in Tasks, u # t, tasks[u].phase # "free"
       PROVE  tasks[u].aid # a
  BY <1>15, <1>1, OneTask DEF InFront
<1>16. ASSUME NEW b, b # a
       PROVE  LatestRunRow(b)' = LatestRunRow(b)
  <2>1. RunsOf(b)' = RunsOf(b)
    BY <1>16, <1>7, <1>8, <1>9 DEF RunsOf, SameLinks
  <2> QED BY <2>1 DEF LatestRunRow
<1>17. InFront'
  <2> SUFFICES ASSUME NothingHangs
               PROVE  /\ markers' = {} /\ pc' # "down"
                      /\ \A u \in Tasks : ~tasks'[u].cancel /\ ~tasks'[u].stale
                      /\ \A u \in Tasks : Fronts(u)'
    BY DEF InFront
  <2>1. /\ markers' = {} /\ pc' # "down"
        /\ \A u \in Tasks : ~tasks'[u].cancel /\ ~tasks'[u].stale
    <3>1. pc # "down" /\ markers = {} /\ \A u \in Tasks : ~tasks[u].cancel /\ ~tasks[u].stale
      BY <1>1 DEF InFront
    <3> QED BY <3>1, <1>1, <1>10, <1>11 DEF procVars
  <2>2. ASSUME NEW u \in Tasks, tasks'[u].phase \in Looping
        PROVE  /\ tasks'[u].run = Newest(RunsOf(tasks[u].aid)')
               /\ runs'[tasks'[u].run].status = "running"
    <3>1. CASE u = t
      <4>1. PICK S : S = RunsOf(tasks[u].aid)'
        OBVIOUS
      <4>2. S = {r \in RunIds' : runs'[r].aid = a}
        BY <4>1, <3>1, <1>10, <1>11 DEF RunsOf
      <4>3. n \in S /\ \A r \in S : r \in Nat /\ r <= n
        BY <4>2, <1>6, <1>7, <1>9, <1>2
      <4>4. Newest(S) = n
        <5>1. PICK m : m = n
          OBVIOUS
        <5>2. m \in Nat /\ S \in SUBSET (1 .. m) /\ S # {}
          BY <4>2, <4>3, <5>1, <1>5, <1>6 DEF RunIds
        <5>3. PICK w : w = Newest(S)
          OBVIOUS
        <5>4. w \in S /\ \A q \in S : q <= w
          BY <5>2, <5>3, NewestIsGreatest
        <5>5. n <= w /\ w <= n /\ w \in Nat
          BY <4>3, <5>4
        <5> QED BY <5>3, <5>5, <1>6
      <4> QED BY <4>1, <4>4, <3>1, <1>9, <1>10, <1>11
    <3>2. CASE u # t
      <4>1. tasks'[u] = tasks[u] /\ tasks[u].phase \in Looping
        BY <3>2, <1>11, <2>2
      <4>2. /\ tasks[u].run = LatestRunRow(tasks[u].aid)
            /\ runs[tasks[u].run].status = "running"
        BY <4>1 DEF InFront, Fronts
      <4>3. tasks[u].run \in RunIds /\ runs[tasks[u].run].aid = tasks[u].aid
        BY <4>1, HeldRow
      <4>4. tasks[u].aid # a
        BY <4>1, <3>2, <1>15 DEF Looping
      <4>5. runs'[tasks[u].run].status = "running"
        BY <4>2, <4>3, <4>4, <1>8
      <4>6. RunsOf(tasks[u].aid)' = RunsOf(tasks[u].aid)
        BY <4>1, <4>4, <1>7, <1>8, <1>9 DEF RunsOf, SameLinks
      <4> QED BY <4>1, <4>2, <4>5, <4>6 DEF LatestRunRow
    <3> QED BY <3>1, <3>2
  <2> QED BY <2>1, <2>2 DEF Fronts, LatestRunRow
<1>18. KillIsWritten'
  <2> SUFFICES ASSUME EndsAreWritten
               PROVE  /\ pc' # "stopping"
                      /\ \A r \in RunIds' : Killed(r)' => KillTold(r)'
                      /\ \A u \in Tasks : NotCarried(u)'
                      /\ KilledNotResumed'
    BY DEF KillIsWritten
  <2>1. pc' # "stopping"
    BY <1>1 DEF KillIsWritten, procVars
  <2>2. ASSUME NEW r \in RunIds', Killed(r)' PROVE KillTold(r)'
    <3>1. r # n /\ r \in RunIds
      BY <2>2, <1>7, <1>9 DEF Killed, None
    <3>2. KillTold(r)
      BY <3>1, <1>8, <2>2 DEF KillIsWritten, Killed
    <3>3. ASSUME NEW u \in Tasks, tasks[u].phase \in Ended PROVE tasks'[u] = tasks[u]
      BY <3>3, <1>1, <1>11 DEF Ended
    <3>4. runs[r].status = "halted" =>
            runs'[r].status = "halted" /\ runs'[r].reason = runs[r].reason
      BY <3>1, <1>8
    <3> QED BY <3>1, <3>2, <3>3, <3>4, <1>8 DEF KillTold, Ended
  <2>3. \A p \in RunIds : runs'[p].cause = runs[p].cause
    BY <1>8
  <2>4. ASSUME NEW u \in Tasks, tasks[u].phase \in {"prepared", "claiming"}, tasks[u].resume # 0
        PROVE  tasks[u].resume \in RunIds /\ runs[tasks[u].resume].cause \notin {"kill", "switch"}
    <3>1. ~tasks[u].cancel
      BY DEF InFront, EndsAreWritten, NothingHangs
    <3>2. ~Killed(tasks[u].resume)
      BY <2>4 DEF KillIsWritten, NotCarried
    <3>3. tasks[u].resume \in RunIds
      BY <3>1, <2>4 DEF IInv, Prepared
    <3> QED BY <3>2, <3>3 DEF Killed
  <2>5. ASSUME NEW u \in Tasks, tasks'[u].phase \in {"prepared", "claiming"}, tasks'[u].resume # 0
        PROVE  runs'[tasks'[u].resume].cause \notin {"kill", "switch"}
    <3>1. u # t /\ tasks'[u] = tasks[u]
      BY <2>5, <1>10, <1>11
    <3> QED BY <3>1, <2>3, <2>4, <2>5
  <2>6. ASSUME NEW r \in RunIds', runs'[r].resumed # 0
        PROVE  runs'[runs'[r].resumed].cause \notin {"kill", "switch"}
    <3>1. CASE r = n
      BY <3>1, <2>3, <2>4, <2>6, <1>1, <1>9
    <3>2. CASE r # n
      <4>1. r \in RunIds /\ runs'[r].resumed = runs[r].resumed
        BY <3>2, <1>7, <1>8 DEF SameLinks
      <4>2. runs[r].resumed \in RunIds
        BY <4>1, <2>6, RowsAreLinked DEF Linked, RunIds, IInv
      <4> QED BY <4>1, <4>2, <2>3, <2>6 DEF KillIsWritten, KilledNotResumed
    <3> QED BY <3>1, <3>2
  <2> QED BY <2>1, <2>2, <2>5, <2>6 DEF NotCarried, KilledNotResumed, Killed
<1>19. KillHolds'
  <2> SUFFICES ASSUME KillIsHeard
               PROVE  /\ pc' # "stopping"
                      /\ \A u \in Tasks : tasks'[u].early = None
                      /\ \A b \in Assignments : rows'[b].updated <= assignments'[b].updated
                      /\ \A r \in RunIds' : runs'[r].held => HeldBy(r)'
    BY DEF KillHolds
  <2>1. /\ pc' # "stopping"
        /\ \A b \in Assignments : rows'[b].updated <= assignments'[b].updated
    BY <1>1 DEF KillHolds, procVars
  <2>2. \A u \in Tasks : tasks'[u].early = None
    BY <1>10, <1>11 DEF KillHolds
  <2>3. ASSUME NEW r \in RunIds', runs'[r].held PROVE HeldBy(r)'
    <3>1. r \in RunIds /\ SameLinks(r) /\ SameControl(r) /\ runs'[r].cause = runs[r].cause
      BY <2>3, <1>7, <1>8, <1>9
    <3>2. HeldBy(r)
      BY <2>3, <3>1 DEF KillHolds, SameControl
    <3>3. PICK b : b = runs[r].aid
      OBVIOUS
    <3>4. b \in Assignments /\ r # 0
      BY <3>1, <3>3, TypeFacts DEF IInv, RunRow
    <3>5. live[b] # None => live[b] \in Tasks /\ live[b] # t /\ tasks'[live[b]] = tasks[live[b]]
      <4> SUFFICES ASSUME live[b] # None PROVE live[b] \in Tasks /\ live[b] # t
        BY <1>11
      <4>1. live[b] \in Tasks
        BY <3>4 DEF IInv, TypeOK
      <4>2. tasks[live[b]].phase \in Ended \cup {"done"}
        BY <3>2, <3>3 DEF HeldBy
      <4> QED BY <4>1, <4>2, <1>1 DEF Ended
    <3>6. b # a
      <4> SUFFICES ASSUME b = a PROVE FALSE
        OBVIOUS
      <4>1. markers = {}
        BY DEF InFront, NothingHangs, KillIsHeard
      <4>2. live[b] = t
        BY <4>1, <1>1 DEF IInv, Ownership
      <4> QED BY <4>2, <3>5, SupervisorAssumption
    <3>7. LatestRunRow(b)' = LatestRunRow(b)
      BY <3>6, <1>16
    <3>8. runs'[r].aid = b
      BY <3>1, <3>3 DEF SameLinks
    <3> QED BY <1>1, <3>1, <3>2, <3>3, <3>5, <3>7, <3>8
            DEF HeldBy, Wanted, SameLinks, SameControl, procVars
  <2> QED BY <2>1, <2>2, <2>3
<1> QED BY <1>12, <1>14, <1>17, <1>18, <1>19

-----------------------------------------------------------------------------
(***************************************************************************)
(* The API.                                                                *)
(***************************************************************************)
\* A task the step leaves alone.
LEMMA Unmoved ==
  ASSUME Recorded, NEW u \in Tasks, tasks'[u] = tasks[u]
  PROVE  Carries(u)
<1>1. TaskTells(tasks[u], runs[tasks[u].run])
  BY DEF Recorded
<1> QED BY <1>1 DEF TaskTells, Carries

\* No end is written, and tasks, markers and the process stay.
LEMMA EndsStand ==
  ASSUME IInv, EndInv, EndsStay, UNCHANGED <<tasks, markers>>,
         pc' = "down" => pc = "down",
         pc' # "stopping" \/ pc' = pc
  PROVE  OneRunningRow' /\ Recorded' /\ InFront' /\ KillIsWritten'
<1>1. \A u \in Tasks : Carries(u)
  BY Unmoved DEF EndInv
<1>2. NothingHangs =>
        /\ markers' = {}
        /\ pc' = "down" => \A u \in Tasks : tasks'[u].phase = "free"
        /\ \A u \in Tasks : ~tasks'[u].cancel /\ ~tasks'[u].stale
  BY DEF EndInv, InFront
<1>3. EndsAreWritten => pc' # "stopping"
  BY DEF EndInv, KillIsWritten
<1> QED BY <1>1, <1>2, <1>3, EndsKept

\* Nothing happens.
LEMMA StutterEnds ==
  ASSUME IInv, EndInv, UNCHANGED vars
  PROVE  EndInv'
<1>1. EndsStay /\ \A r \in RunIds : SameControl(r)
  BY NoRowChanged DEF vars
<1>2. OneRunningRow' /\ Recorded' /\ InFront' /\ KillIsWritten'
  BY <1>1, EndsStand DEF vars
<1>3. KillHolds'
  <2>1. KillIsHeard => \A u \in Tasks :
          /\ tasks[u].phase \in Ended \cup {"done"} => tasks'[u] = tasks[u]
          /\ tasks'[u].early = tasks[u].early
    BY DEF vars
  <2>2. UNCHANGED <<assignments, procVars>>
    BY DEF vars, procVars
  <2> QED BY <1>1, <2>1, <2>2, HoldsOn DEF EndsStay, SameEnd
<1> QED BY <1>2, <1>3 DEF EndInv

\* A release changes no end, and releases the rows of its assignment.
LEMMA ReleasedEnds ==
  ASSUME NEW rs \in Seq(RunRow), NEW a, NEW r \in 1 .. Len(rs)
  PROVE  LET new == Released(rs, a)[r]
         IN  /\ new.status = rs[r].status /\ new.reason = rs[r].reason
             /\ new.audit = rs[r].audit /\ new.cause = rs[r].cause
             /\ new.command = rs[r].command
             /\ new.held => rs[r].held /\ rs[r].aid # a
<1> DEFINE freed == [rs[r] EXCEPT !.held = FALSE]
<1>1. rs[r] \in RunRow
  BY ElementOfSeq
<1>2. /\ freed.status = rs[r].status /\ freed.reason = rs[r].reason
      /\ freed.audit = rs[r].audit /\ freed.cause = rs[r].cause
      /\ freed.command = rs[r].command /\ freed.held = FALSE
  BY <1>1 DEF RunRow
<1>3. Released(rs, a)[r] = IF rs[r].aid = a THEN freed ELSE rs[r]
  BY DEF Released
<1> HIDE DEF freed
<1> QED BY <1>2, <1>3

\* An update of an assignment releases what its kill holds, and no other.
LEMMA UpdateAssignmentEnds ==
  ASSUME IInv, EndInv, NEW a \in Assignments, UpdateAssignment(a)
  PROVE  EndInv'
<1>1. /\ runs' = Released(runs, a)
      /\ UNCHANGED <<settings, procVars, tasks, spent>>
      /\ LedgersStay
  BY UpdateAssignmentStep DEF UpdateAssignment
<1>2. PICK enabled \in BOOLEAN, config \in Config :
        assignments' = [assignments EXCEPT ![a] =
          [enabled |-> enabled, config |-> config, updated |-> assignments[a].updated + 1]]
  BY DEF UpdateAssignment, Edit
<1>3. /\ runs \in Seq(RunRow) /\ RunIds = 1 .. Len(runs)
      /\ assignments \in [Assignments -> AssignmentRow]
      /\ rows \in [Assignments -> AssignmentRow]
  BY TypeFacts DEF IInv, TypeOK
<1>4. \A r \in RunIds :
        /\ runs'[r].status = runs[r].status /\ runs'[r].reason = runs[r].reason
        /\ runs'[r].audit = runs[r].audit /\ runs'[r].cause = runs[r].cause
        /\ runs'[r].command = runs[r].command
        /\ runs'[r].held => runs[r].held /\ runs[r].aid # a
  BY <1>1, <1>3, ReleasedEnds
<1>5. EndsStay
  BY <1>1, <1>4 DEF EndsStay, SameEnd, LedgersStay
<1>6. OneRunningRow' /\ Recorded' /\ InFront' /\ KillIsWritten'
  BY <1>1, <1>5, EndsStand DEF procVars
<1>7. KillHolds'
  <2> SUFFICES ASSUME KillIsHeard
               PROVE  /\ pc' # "stopping"
                      /\ \A t \in Tasks : tasks'[t].early = None
                      /\ \A b \in Assignments : rows'[b].updated <= assignments'[b].updated
                      /\ \A r \in RunIds' : runs'[r].held => HeldBy(r)'
    BY DEF KillHolds
  <2>1. RunIds' = RunIds
    BY <1>5 DEF RunIds, EndsStay
  <2>2. /\ pc # "stopping" /\ \A t \in Tasks : tasks[t].early = None
        /\ \A b \in Assignments : rows[b].updated <= assignments[b].updated
        /\ \A r \in RunIds : runs[r].held => HeldBy(r)
    BY DEF EndInv, KillHolds
  <2>3. ASSUME NEW b \in Assignments PROVE rows'[b].updated <= assignments'[b].updated
    <3>1. rows[b].updated \in Nat /\ assignments[b].updated \in Nat
      BY <1>3, SupervisorAssumption DEF AssignmentRow
    <3>2. b # a => assignments'[b] = assignments[b]
      BY <1>2, <1>3
    <3>3. b = a => assignments'[b].updated = assignments[b].updated + 1
      BY <1>2, <1>3
    <3>4. rows'[b].updated = rows[b].updated
      BY <1>1 DEF procVars
    <3> QED BY <2>2, <3>1, <3>2, <3>3, <3>4
  <2>4. ASSUME NEW r \in RunIds, runs'[r].held PROVE HeldBy(r)'
    <3>1. PICK b : b = runs[r].aid
      OBVIOUS
    <3>2. HeldBy(r) /\ b # a /\ SameLinks(r)
      BY <1>4, <1>5, <2>2, <2>4, <3>1 DEF EndsStay
    <3>3. b \in Assignments /\ assignments'[b] = assignments[b]
      BY <1>2, <1>3, <3>1, <3>2, TypeFacts DEF IInv, RunRow
    <3>4. LatestRunRow(b)' = LatestRunRow(b)
      BY <1>5, LatestKept DEF EndsStay, SameLinks
    <3>5. runs'[r].aid = b /\ runs'[r].config = runs[r].config
      BY <3>1, <3>2 DEF SameLinks
    <3> QED BY <1>1, <1>4, <3>1, <3>2, <3>3, <3>4, <3>5 DEF HeldBy, Wanted, procVars
  <2> QED BY <1>1, <2>1, <2>2, <2>3, <2>4 DEF procVars
<1> QED BY <1>6, <1>7 DEF EndInv

\* The settings move the primary assignment; whoever commands kills and
\* resumes alone does not move them.
LEMMA PutSettingsEnds ==
  ASSUME IInv, EndInv, PutSettings
  PROVE  EndInv'
<1> DEFINE switched == [r \in RunIds |->
             IF runs[r].status = "running" /\ runs[r].config.slot = settings
             THEN [runs[r] EXCEPT !.command = "switch"] ELSE runs[r]]
<1>1. /\ runs' = Released(switched, Primary)
      /\ UNCHANGED <<procVars, tasks, spent>>
      /\ "switch" \in Commands /\ LedgersStay
  BY PutSettingsStep DEF PutSettings
<1>2. /\ Len(runs) \in Nat /\ RunIds = 1 .. Len(runs) /\ \A r \in RunIds : runs[r] \in RunRow
  BY TypeFacts DEF IInv
<1>3. \A r \in RunIds :
        /\ switched[r] \in RunRow
        /\ switched[r].status = runs[r].status /\ switched[r].reason = runs[r].reason
        /\ switched[r].audit = runs[r].audit /\ switched[r].cause = runs[r].cause
  <2> SUFFICES ASSUME NEW r \in RunIds
               PROVE  /\ switched[r] \in RunRow
                      /\ switched[r].status = runs[r].status
                      /\ switched[r].reason = runs[r].reason
                      /\ switched[r].audit = runs[r].audit
                      /\ switched[r].cause = runs[r].cause
    OBVIOUS
  <2>1. switched[r] = runs[r] \/ switched[r] = [runs[r] EXCEPT !.command = "switch"]
    OBVIOUS
  <2>2. "switch" \in {None} \cup Commands /\ runs[r] \in RunRow
    BY <1>1, <1>2
  <2> HIDE DEF switched
  <2> QED BY <2>1, <2>2 DEF RunRow
<1>4. switched \in [1 .. Len(runs) -> RunRow]
  BY <1>2, <1>3
<1>5. switched \in Seq(RunRow) /\ Len(switched) = Len(runs)
  BY <1>2, <1>4, FunctionIsSeq
<1> HIDE DEF switched
<1>6. \A r \in RunIds :
        /\ runs'[r].status = switched[r].status /\ runs'[r].reason = switched[r].reason
        /\ runs'[r].audit = switched[r].audit /\ runs'[r].cause = switched[r].cause
  BY <1>1, <1>2, <1>5, ReleasedEnds
<1>7. EndsStay
  BY <1>1, <1>3, <1>6 DEF EndsStay, SameEnd, LedgersStay
<1>8. OneRunningRow' /\ Recorded' /\ InFront' /\ KillIsWritten'
  BY <1>1, <1>7, EndsStand DEF procVars
<1>9. ~KillIsHeard
  BY <1>1 DEF KillIsHeard
<1> QED BY <1>8, <1>9 DEF EndInv, KillHolds, KillIsHeard

\* A command changes no end, and holds no row that was not held.
LEMMA CommandedEnds ==
  ASSUME NEW row \in RunRow, NEW command \in Commands
  PROVE  LET new == Commanded(row, command)
         IN  /\ new.status = row.status /\ new.reason = row.reason
             /\ new.audit = row.audit /\ new.cause = row.cause
             /\ new.command = command
             /\ new.held => row.held /\ command # "resume"
<1> DEFINE held == row.held /\ command # "resume"
<1>1. held \in BOOLEAN
  OBVIOUS
<1>2. Commanded(row, command) = [row EXCEPT !.command = command, !.held = held]
  BY DEF Commanded
<1>3. [row EXCEPT !.command = command, !.held = held].held = held
  BY DEF RunRow
<1>4. Commanded(row, command).held => row.held /\ command # "resume"
  BY <1>2, <1>3
<1> HIDE DEF held
<1> QED BY <1>1, <1>2, <1>4 DEF RunRow

\* A command addressed to one run.
LEMMA ControlRunEnds ==
  ASSUME IInv, EndInv, LedgersStay, NEW command \in Commands \ {"switch"},
         NEW q \in RunIds, ControlRun(q, command)
  PROVE  EndInv'
<1> DEFINE row == Commanded(runs[q], command)
<1>1. /\ runs' = [runs EXCEPT ![q] = row]
      /\ UNCHANGED <<assignments, settings, procVars, tasks>>
  BY DEF ControlRun
<1>2. /\ row \in RunRow
      /\ row.status = runs[q].status /\ row.reason = runs[q].reason
      /\ row.audit = runs[q].audit /\ row.cause = runs[q].cause
      /\ row.command = command
      /\ row.held => runs[q].held /\ command # "resume"
  BY CommandedEnds, CommandedRow, TypeFacts DEF IInv
<1> HIDE DEF row
<1>3. runs'[q] = row /\ \A r \in RunIds : r # q => runs'[r] = runs[r]
  BY <1>1, <1>2, RowWritten DEF IInv
<1>4. EndsStay
  BY <1>2, <1>3 DEF EndsStay, SameEnd, LedgersStay
<1>5. OneRunningRow' /\ Recorded' /\ InFront' /\ KillIsWritten'
  BY <1>1, <1>4, EndsStand DEF procVars
<1>6. KillHolds'
  <2> SUFFICES ASSUME KillIsHeard
               PROVE  /\ pc' # "stopping"
                      /\ \A t \in Tasks : tasks'[t].early = None
                      /\ \A b \in Assignments : rows'[b].updated <= assignments'[b].updated
                      /\ \A r \in RunIds' : runs'[r].held => HeldBy(r)'
    BY DEF KillHolds
  <2>1. RunIds' = RunIds
    BY <1>4 DEF RunIds, EndsStay
  <2>2. /\ pc # "stopping" /\ \A t \in Tasks : tasks[t].early = None
        /\ \A b \in Assignments : rows[b].updated <= assignments[b].updated
        /\ \A r \in RunIds : runs[r].held => HeldBy(r)
    BY DEF EndInv, KillHolds
  <2>3. ASSUME NEW r \in RunIds, runs'[r].held PROVE HeldBy(r)'
    <3>1. runs[r].held
      BY <1>2, <1>3, <2>3
    <3>2. HeldBy(r) /\ SameLinks(r) /\ runs'[r].cause = runs[r].cause
      BY <1>4, <2>2, <3>1 DEF EndsStay, SameEnd
    <3>3. runs'[r].command = "kill"
      <4>1. CASE r = q
        BY <4>1, <1>2, <1>3, <2>3 DEF KillIsHeard
      <4>2. CASE r # q
        BY <4>2, <1>3, <3>2 DEF HeldBy
      <4> QED BY <4>1, <4>2
    <3>4. PICK b : b = runs[r].aid
      OBVIOUS
    <3>5. LatestRunRow(b)' = LatestRunRow(b)
      BY <1>4, LatestKept DEF EndsStay, SameLinks
    <3>6. runs'[r].aid = b /\ runs'[r].config = runs[r].config
      BY <3>2, <3>4 DEF SameLinks
    <3> QED BY <1>1, <3>2, <3>3, <3>4, <3>5, <3>6 DEF HeldBy, Wanted, procVars
  <2> QED BY <1>1, <2>1, <2>2, <2>3 DEF procVars
<1> QED BY <1>5, <1>6 DEF EndInv

\* A command changes no end.
LEMMA ControlEnds ==
  ASSUME IInv, EndInv, Control
  PROVE  EndInv'
<1>1. PICK command \in Commands \ {"switch"} :
        ControlAll(command) \/ \E q \in RunIds : ControlRun(q, command)
  BY DEF Control
<1>2. LedgersStay
  BY ControlStep
<1>3. CASE \E q \in RunIds : ControlRun(q, command)
  BY <1>2, <1>3, ControlRunEnds
<1>4. CASE ControlAll(command)
  <2> DEFINE f == [r \in RunIds |-> Commanded(runs[r], command)]
             told(u) == [tasks[u] EXCEPT !.early = command]
  <2>1. /\ runs' = f /\ Broadcast
        /\ tasks' = [u \in Tasks |-> IF tasks[u].phase = "claiming" THEN told(u) ELSE tasks[u]]
        /\ UNCHANGED <<assignments, settings, procVars>>
    BY <1>4 DEF ControlAll
  <2>2. EndsStay
    <3>1. \A r \in RunIds : runs[r] \in RunRow
      BY TypeFacts DEF IInv
    <3>2. \A r \in RunIds : runs'[r] = Commanded(runs[r], command)
      BY <2>1
    <3>3. \A r \in RunIds : SameEnd(r)
      BY <3>1, <3>2, CommandedEnds DEF SameEnd
    <3> QED BY <1>2, <3>3 DEF EndsStay, LedgersStay
  <2>3. ASSUME NEW u \in Tasks
        PROVE  /\ Carries(u)
               /\ tasks'[u].phase = tasks[u].phase
               /\ tasks'[u].cancel = tasks[u].cancel /\ tasks'[u].stale = tasks[u].stale
    <3>1. /\ tasks[u] \in Task
          /\ tasks[u].phase # "done" => tasks[u].outcome = None
      BY TypeFacts DEF IInv, EndInv, Recorded, TaskTells
    <3>2. /\ told(u).phase = tasks[u].phase /\ told(u).aid = tasks[u].aid
          /\ told(u).config = tasks[u].config /\ told(u).run = tasks[u].run
          /\ told(u).cause = tasks[u].cause /\ told(u).resume = tasks[u].resume
          /\ told(u).outcome = tasks[u].outcome
          /\ told(u).cancel = tasks[u].cancel /\ told(u).stale = tasks[u].stale
      BY <3>1 DEF Task
    <3> HIDE DEF told
    <3>3. tasks'[u] = told(u) \/ tasks'[u] = tasks[u]
      BY <2>1
    <3> QED BY <3>1, <3>2, <3>3 DEF Carries
  <2>4. OneRunningRow' /\ Recorded' /\ InFront' /\ KillIsWritten'
    <3>1. NothingHangs =>
            /\ markers' = {}
            /\ pc' = "down" => \A u \in Tasks : tasks'[u].phase = "free"
            /\ \A u \in Tasks : ~tasks'[u].cancel /\ ~tasks'[u].stale
      BY <2>1, <2>3 DEF EndInv, InFront, procVars
    <3>2. EndsAreWritten => pc' # "stopping"
      BY <2>1 DEF EndInv, KillIsWritten, procVars
    <3> QED BY <2>2, <2>3, <3>1, <3>2, EndsKept
  <2>5. ~KillIsHeard
    BY <2>1 DEF KillIsHeard
  <2> QED BY <2>4, <2>5 DEF EndInv, KillHolds, KillIsHeard
<1> QED BY <1>1, <1>3, <1>4

-----------------------------------------------------------------------------
(***************************************************************************)
(* The supervisor's pass.                                                  *)
(***************************************************************************)
\* What the process does for assignment a while run r is held down.
Down(r, a) ==
  /\ pc \in {"watch", "refresh", "plan"} => Wanted(r, rows[a])
  /\ live[a] = None => killed[a].run = r /\ killed[a].observed = assignments[a].updated
  /\ live[a] # None =>
       /\ tasks[live[a]].run = r
       /\ tasks[live[a]].phase \in Ended \cup {"done"}
       /\ ~tasks[live[a]].stop /\ tasks[live[a]].outcome # "raised"

\* A step of the process that keeps down what it held down.
LEMMA PassHolds ==
  ASSUME IInv, EndInv, UNCHANGED dbVars, pc' # "stopping",
         KillIsHeard => \A t \in Tasks : tasks'[t].early = None,
         KillIsHeard => \A b \in Assignments : rows'[b].updated <= assignments[b].updated,
         \A r \in RunIds, a \in Assignments :
           KillIsHeard /\ HeldBy(r) /\ a = runs[r].aid => Down(r, a)'
  PROVE  KillHolds'
<1>1. runs' = runs /\ assignments' = assignments /\ RunIds' = RunIds
  BY DEF dbVars, RunIds
<1> SUFFICES ASSUME KillIsHeard, NEW r \in RunIds, runs'[r].held
             PROVE  HeldBy(r)'
  BY <1>1 DEF KillHolds
<1>2. HeldBy(r)
  BY <1>1 DEF EndInv, KillHolds
<1>3. PICK a : a = runs[r].aid
  OBVIOUS
<1>4. a \in Assignments
  BY <1>3, TypeFacts DEF IInv, RunRow
<1>5. Down(r, a)'
  BY <1>2, <1>3, <1>4
<1>6. LatestRunRow(a)' = LatestRunRow(a)
  BY <1>1, LatestKept
<1> QED BY <1>1, <1>2, <1>3, <1>5, <1>6 DEF HeldBy, Down, Wanted

\* A held run's assignment, and what the process does for it.
LEMMA HeldDownNow ==
  ASSUME IInv, NEW r \in RunIds, HeldBy(r), NEW a \in Assignments, a = runs[r].aid
  PROVE  /\ Down(r, a) /\ Wanted(r, assignments[a])
         /\ r = LatestRunRow(a) /\ r # 0 /\ runs[r].command = "kill"
<1>1. r # 0
  BY TypeFacts DEF IInv
<1> QED BY <1>1 DEF HeldBy, Down

\* An assignment's live task is its own.
LEMMA LiveTask ==
  ASSUME IInv, NEW a \in Assignments, live[a] # None
  PROVE  /\ live[a] \in Tasks /\ tasks[live[a]].aid = a /\ tasks[live[a]].phase # "free"
         /\ \A b \in Assignments : live[b] = live[a] => b = a
<1>1. live[a] \in Tasks
  BY DEF IInv, TypeOK
<1> QED BY <1>1 DEF IInv, Ownership

\* The backoff runs out, the rows are listed, and what has been cleared is
\* forgotten; what a kill holds down is not.
LEMMA QuietPassEnds ==
  ASSUME IInv, EndInv, ListAssignments \/ RefreshKilled \/ \E a \in Assignments : BackoffExpires(a)
  PROVE  EndInv'
<1>1. /\ UNCHANGED dbVars /\ UNCHANGED <<live, markers, tasks>>
      /\ pc' = "down" => pc = "down"
      /\ pc' # "stopping" \/ pc' = pc
  BY DEF ListAssignments, RefreshKilled, BackoffExpires
<1>2. EndsStay
  BY <1>1, NoRowChanged DEF dbVars
<1>3. OneRunningRow' /\ Recorded' /\ InFront' /\ KillIsWritten'
  BY <1>1, <1>2, EndsStand
<1>4. ASSUME KillIsHeard
      PROVE  /\ pc # "stopping" /\ \A t \in Tasks : tasks'[t].early = None
             /\ \A b \in Assignments : rows[b].updated <= assignments[b].updated
  BY <1>1, <1>4 DEF EndInv, KillHolds
<1>5. assignments' = assignments /\ runs' = runs
  BY <1>1 DEF dbVars
<1>6. ASSUME KillIsHeard
      PROVE  \A b \in Assignments : rows'[b].updated <= assignments[b].updated
  <2>1. \A b \in Assignments : assignments[b].updated \in Nat
    BY SupervisorAssumption DEF IInv, TypeOK, AssignmentRow
  <2> QED BY <1>4, <1>6, <2>1 DEF ListAssignments, RefreshKilled, BackoffExpires
<1>7. ASSUME KillIsHeard, NEW r \in RunIds, NEW a \in Assignments, HeldBy(r), a = runs[r].aid
      PROVE  Down(r, a)'
  <2>1. /\ Down(r, a) /\ Wanted(r, assignments[a])
        /\ r = LatestRunRow(a) /\ r # 0 /\ runs[r].command = "kill"
    BY <1>7, HeldDownNow
  <2>2. CASE ListAssignments
    <3>1. rows' = assignments /\ killed' = killed
      BY <2>2 DEF ListAssignments
    <3> QED BY <1>1, <1>5, <2>1, <3>1 DEF Down, Wanted
  <2>3. CASE \E b \in Assignments : BackoffExpires(b)
    <3>1. rows' = rows /\ killed' = killed /\ pc' = pc
      BY <2>3 DEF BackoffExpires
    <3> QED BY <1>1, <1>5, <2>1, <3>1 DEF Down, Wanted
  <2>4. CASE RefreshKilled
    <3>1. /\ rows' = rows /\ pc = "refresh"
          /\ killed'[a] = IF killed[a].run # 0 /\ (~rows[a].enabled \/ ResumeCleared(killed[a], rows[a]))
                          THEN NotKilled ELSE killed[a]
      BY <2>4 DEF RefreshKilled
    <3>2. Wanted(r, rows[a])
      BY <2>1, <3>1 DEF Down
    <3>3. rows[a].updated <= assignments[a].updated
          /\ rows[a].updated \in Nat /\ assignments[a].updated \in Nat
      BY <1>4, <1>7, SupervisorAssumption DEF IInv, TypeOK, AssignmentRow
    <3>4. live[a] = None => killed'[a] = killed[a]
      <4> SUFFICES ASSUME live[a] = None PROVE killed'[a] = killed[a]
        OBVIOUS
      <4>1. killed[a].run = r /\ killed[a].observed = assignments[a].updated
        BY <2>1 DEF Down
      <4>2. ~(rows[a].updated > assignments[a].updated)
        BY <3>3
      <4>3. ~ResumeCleared(killed[a], rows[a])
        BY <2>1, <4>1, <4>2 DEF ResumeCleared
      <4> QED BY <3>1, <3>2, <4>3 DEF Wanted
    <3> QED BY <1>1, <1>5, <2>1, <3>1, <3>2, <3>4 DEF Down, Wanted
  <2> QED BY <2>2, <2>3, <2>4
<1>8. KillHolds'
  <2>1. CASE ~KillIsHeard
    BY <2>1 DEF KillHolds, KillIsHeard
  <2>2. CASE KillIsHeard
    <3>1. pc' # "stopping"
      BY <1>1, <1>4, <2>2
    <3> QED BY <1>1, <1>4, <1>6, <1>7, <2>2, <3>1, PassHolds
  <2> QED BY <2>1, <2>2
<1> QED BY <1>3, <1>8 DEF EndInv

\* What is over is reaped; a killed run's assignment is entered in killed.
LEMMA ReapEnds ==
  ASSUME IInv, EndInv, Reap
  PROVE  EndInv'
<1> DEFINE over == {a \in Assignments : live[a] # None /\ tasks[live[a]].phase = "done"}
<1>1. /\ live' = [a \in Assignments |-> IF a \in over THEN None ELSE live[a]]
      /\ killed' = [a \in Assignments |->
           IF a \in over /\ EndKind(a) = "killed"
           THEN [run |-> LatestRunRow(a), observed |-> assignments[a].updated]
           ELSE killed[a]]
      /\ tasks' = [t \in Tasks |-> IF \E a \in over : live[a] = t THEN FreeTask ELSE tasks[t]]
      /\ pc = "reap" /\ pc' = "list"
      /\ UNCHANGED <<dbVars, rows, markers, spent>>
  BY DEF Reap
<1>2. EndsStay
  BY <1>1, NoRowChanged DEF dbVars
<1>3. /\ FreeTask.phase = "free" /\ FreeTask.run = 0 /\ FreeTask.outcome = None
      /\ FreeTask.cancel = FALSE /\ FreeTask.stale = FALSE /\ FreeTask.early = None
  BY DEF FreeTask
<1>4. ASSUME NEW u \in Tasks
      PROVE  \/ tasks'[u] = FreeTask /\ tasks[u].phase = "done" /\ Vacated(u)
             \/ tasks'[u] = tasks[u] /\ Carries(u)
  <2>1. CASE \E a \in over : live[a] = u
    BY <1>1, <1>3, <2>1 DEF Vacated
  <2>2. CASE ~\E a \in over : live[a] = u
    <3>1. tasks'[u] = tasks[u]
      BY <1>1, <2>2
    <3> QED BY <3>1, Unmoved DEF EndInv
  <2> QED BY <2>1, <2>2
<1>5. OneRunningRow' /\ Recorded' /\ InFront' /\ KillIsWritten'
  <2>1. NothingHangs =>
          /\ markers' = {}
          /\ pc' = "down" => \A u \in Tasks : tasks'[u].phase = "free"
          /\ \A u \in Tasks : ~tasks'[u].cancel /\ ~tasks'[u].stale
    BY <1>1, <1>3, <1>4 DEF EndInv, InFront
  <2>2. EndsAreWritten =>
          /\ pc' # "stopping"
          /\ \A u \in Tasks : tasks[u].phase \in Ended => Carries(u)
    BY <1>1, <1>4 DEF Ended
  <2> QED BY <1>2, <1>4, <2>1, <2>2, EndsKept
<1>6. ASSUME KillIsHeard, NEW r \in RunIds, NEW a \in Assignments, HeldBy(r), a = runs[r].aid
      PROVE  Down(r, a)'
  <2>1. /\ Down(r, a) /\ r = LatestRunRow(a) /\ r # 0 /\ runs[r].command = "kill"
    BY <1>6, HeldDownNow
  <2>2. runs' = runs /\ assignments' = assignments
    BY <1>1 DEF dbVars
  <2>3. CASE a \in over
    <3>1. tasks[live[a]].outcome # "raised" /\ ~tasks[live[a]].stop
      BY <2>1, <2>3 DEF Down
    <3>2. EndKind(a) = "killed"
      BY <2>1, <3>1 DEF EndKind, ClassifyEnd
    <3>3. live'[a] = None /\ killed'[a] = [run |-> r, observed |-> assignments[a].updated]
      BY <1>1, <2>1, <2>3, <3>2
    <3> QED BY <1>1, <2>2, <3>3 DEF Down
  <2>4. CASE a \notin over
    <3>1. live'[a] = live[a] /\ killed'[a] = killed[a]
      BY <1>1, <2>4
    <3>2. live[a] # None => tasks'[live[a]] = tasks[live[a]]
      BY <1>1, <2>4, LiveTask
    <3> QED BY <1>1, <2>1, <2>2, <3>1, <3>2 DEF Down
  <2> QED BY <2>3, <2>4
<1>7. KillHolds'
  <2>1. KillIsHeard => \A t \in Tasks : tasks'[t].early = None
    BY <1>3, <1>4 DEF EndInv, KillHolds
  <2>2. KillIsHeard => \A b \in Assignments : rows'[b].updated <= assignments[b].updated
    BY <1>1 DEF EndInv, KillHolds
  <2>3. UNCHANGED dbVars /\ pc' # "stopping"
    BY <1>1
  <2> QED BY <1>6, <2>1, <2>2, <2>3, PassHolds
<1> QED BY <1>5, <1>7 DEF EndInv

\* Only what hangs is popped and cancelled.
LEMMA WatchEnds ==
  ASSUME IInv, EndInv, Watch
  PROVE  EndInv'
<1> DEFINE popped == {live[a] : a \in Stalled}
           cut(t) == [tasks[t] EXCEPT !.cancel = tasks[t].cancel \/ tasks[t].phase # "done"]
<1>1. /\ live' = [a \in Assignments |-> IF a \in Stalled THEN None ELSE live[a]]
      /\ tasks' = [t \in Tasks |-> IF t \in popped THEN cut(t) ELSE tasks[t]]
      /\ markers' = markers \cup popped
      /\ pc = "watch" /\ pc' = "refresh"
      /\ UNCHANGED <<dbVars, rows, killed, spent>>
  BY DEF Watch
<1>2. EndsStay
  BY <1>1, NoRowChanged DEF dbVars
<1>3. ASSUME NEW u \in Tasks PROVE Carries(u)
  <2>1. tasks[u] \in Task /\ (tasks[u].phase # "done" => tasks[u].outcome = None)
    BY TypeFacts DEF IInv, EndInv, Recorded, TaskTells
  <2>2. /\ cut(u).phase = tasks[u].phase /\ cut(u).aid = tasks[u].aid
        /\ cut(u).config = tasks[u].config /\ cut(u).run = tasks[u].run
        /\ cut(u).cause = tasks[u].cause /\ cut(u).resume = tasks[u].resume
        /\ cut(u).outcome = tasks[u].outcome
    BY <2>1 DEF Task
  <2> HIDE DEF cut, popped
  <2>3. tasks'[u] = cut(u) \/ tasks'[u] = tasks[u]
    BY <1>1
  <2> QED BY <2>1, <2>2, <2>3 DEF Carries
<1> HIDE DEF cut
<1>4. ASSUME NothingHangs PROVE markers' = {} /\ live' = live /\ tasks' = tasks
  <2>1. markers = {} /\ \A u \in Tasks : ~tasks[u].stale
    BY <1>4 DEF EndInv, InFront
  <2>2. live \in [Assignments -> Tasks \cup {None}] /\ tasks \in [Tasks -> Task]
    BY DEF IInv, TypeOK
  <2>3. Stalled = {}
    BY <2>1, <2>2 DEF Stalled, Desired
  <2>4. popped = {}
    BY <2>3
  <2> HIDE DEF popped
  <2> QED BY <1>1, <2>1, <2>2, <2>3, <2>4
<1> HIDE DEF popped
<1>5. OneRunningRow' /\ Recorded' /\ InFront' /\ KillIsWritten'
  <2>1. NothingHangs =>
          /\ markers' = {}
          /\ pc' = "down" => \A u \in Tasks : tasks'[u].phase = "free"
          /\ \A u \in Tasks : ~tasks'[u].cancel /\ ~tasks'[u].stale
    BY <1>1, <1>4 DEF EndInv, InFront
  <2>2. EndsAreWritten => pc' # "stopping"
    BY <1>1
  <2> QED BY <1>2, <1>3, <2>1, <2>2, EndsKept
<1>6. KillIsHeard => NothingHangs
  BY DEF KillIsHeard, NothingHangs
<1>7. ASSUME KillIsHeard, NEW r \in RunIds, NEW a \in Assignments, HeldBy(r), a = runs[r].aid
      PROVE  Down(r, a)'
  <2>1. Down(r, a)
    BY <1>7, HeldDownNow
  <2>2. runs' = runs /\ assignments' = assignments
    BY <1>1 DEF dbVars
  <2> QED BY <1>1, <1>4, <1>6, <1>7, <2>1, <2>2 DEF Down, Wanted
<1>8. KillHolds'
  <2>1. KillIsHeard => \A t \in Tasks : tasks'[t].early = None
    BY <1>4, <1>6 DEF EndInv, KillHolds
  <2>2. KillIsHeard => \A b \in Assignments : rows'[b].updated <= assignments[b].updated
    BY <1>1 DEF EndInv, KillHolds
  <2>3. UNCHANGED dbVars /\ pc' # "stopping"
    BY <1>1
  <2> QED BY <1>7, <2>1, <2>2, <2>3, PassHolds
<1> QED BY <1>5, <1>8 DEF EndInv

\* What a kill holds down is neither started nor stopped.
LEMMA PlanEnds ==
  ASSUME IInv, EndInv, Plan
  PROVE  EndInv'
<1> DEFINE blocked  == {a \in ToStart : rows[a].config.slot \notin Startable}
           starting == ToStart \ blocked
           stopping == {live[a] : a \in ToStop}
           stopped(t) == [tasks[t] EXCEPT !.stop = TRUE]
<1>1. PICK given \in [starting -> {t \in Tasks : tasks[t].phase = "free"}] :
        /\ \A a, b \in starting : given[a] = given[b] => a = b
        /\ live' = [a \in Assignments |-> IF a \in starting THEN given[a] ELSE live[a]]
        /\ tasks' = [t \in Tasks |->
             IF \E a \in starting : given[a] = t
             THEN NewTask(CHOOSE a \in starting : given[a] = t)
             ELSE IF t \in stopping THEN stopped(t) ELSE tasks[t]]
  BY DEF Plan
<1>2. pc = "plan" /\ pc' = "reap" /\ UNCHANGED <<dbVars, rows, killed, markers, spent>>
  BY DEF Plan
<1>3. EndsStay
  BY <1>2, NoRowChanged DEF dbVars
<1>4. ASSUME NEW a
      PROVE  /\ NewTask(a).phase = "preparing" /\ NewTask(a).run = 0
             /\ NewTask(a).outcome = None /\ NewTask(a).early = None
             /\ NewTask(a).cancel = FALSE /\ NewTask(a).stale = FALSE
  BY DEF NewTask, FreeTask
<1>5. ASSUME NEW u \in Tasks
      PROVE  /\ tasks[u] \in Task
             /\ stopped(u).phase = tasks[u].phase /\ stopped(u).aid = tasks[u].aid
             /\ stopped(u).config = tasks[u].config /\ stopped(u).run = tasks[u].run
             /\ stopped(u).cause = tasks[u].cause /\ stopped(u).resume = tasks[u].resume
             /\ stopped(u).outcome = tasks[u].outcome /\ stopped(u).early = tasks[u].early
             /\ stopped(u).cancel = tasks[u].cancel /\ stopped(u).stale = tasks[u].stale
  BY TypeFacts DEF IInv, Task
<1> HIDE DEF stopped
<1>6. ASSUME NEW u \in Tasks
      PROVE  /\ \/ Vacated(u) /\ tasks[u].phase = "free"
                   /\ tasks'[u].early = None /\ ~tasks'[u].cancel /\ ~tasks'[u].stale
                \/ Carries(u) /\ tasks'[u].early = tasks[u].early
                   /\ tasks'[u].cancel = tasks[u].cancel /\ tasks'[u].stale = tasks[u].stale
             /\ tasks[u].phase # "free" /\ u \notin stopping => tasks'[u] = tasks[u]
  <2>1. CASE \E a \in starting : given[a] = u
    <3>1. PICK a : tasks'[u] = NewTask(a)
      BY <1>1, <2>1
    <3>2. tasks[u].phase = "free"
      BY <1>1, <2>1
    <3> QED BY <1>4, <3>1, <3>2 DEF Vacated
  <2>2. CASE ~\E a \in starting : given[a] = u
    <3>1. tasks'[u] = IF u \in stopping THEN stopped(u) ELSE tasks[u]
      BY <1>1, <2>2
    <3>2. tasks[u].phase # "done" => tasks[u].outcome = None
      BY DEF EndInv, Recorded, TaskTells
    <3> HIDE DEF stopping
    <3>3. Carries(u)
      BY <1>5, <3>1, <3>2 DEF Carries
    <3>4. /\ tasks'[u].early = tasks[u].early
          /\ tasks'[u].cancel = tasks[u].cancel /\ tasks'[u].stale = tasks[u].stale
      BY <1>5, <3>1
    <3> QED BY <3>1, <3>3, <3>4
  <2> QED BY <2>1, <2>2
<1>7. OneRunningRow' /\ Recorded' /\ InFront' /\ KillIsWritten'
  <2>1. NothingHangs =>
          /\ markers' = {}
          /\ pc' = "down" => \A u \in Tasks : tasks'[u].phase = "free"
          /\ \A u \in Tasks : ~tasks'[u].cancel /\ ~tasks'[u].stale
    BY <1>2, <1>6 DEF EndInv, InFront
  <2>2. EndsAreWritten =>
          /\ pc' # "stopping"
          /\ \A u \in Tasks : tasks[u].phase \in Ended => Carries(u)
    BY <1>2, <1>6 DEF Ended
  <2>3. \A u \in Tasks : Vacated(u) \/ Carries(u)
    BY <1>6
  <2> QED BY <1>3, <2>1, <2>2, <2>3, EndsKept
<1>8. ASSUME KillIsHeard, NEW r \in RunIds, NEW a \in Assignments, HeldBy(r), a = runs[r].aid
      PROVE  Down(r, a)'
  <2>1. /\ Down(r, a) /\ r # 0 /\ Wanted(r, rows[a])
    BY <1>2, <1>8, HeldDownNow DEF Down
  <2>2. runs' = runs /\ assignments' = assignments /\ killed' = killed
    BY <1>2 DEF dbVars
  <2>3. a \notin starting
    BY <2>1 DEF ToStart, HeldDown, Down
  <2>4. live'[a] = live[a]
    BY <1>1, <2>3
  <2>5. ASSUME live[a] # None PROVE tasks'[live[a]] = tasks[live[a]]
    <3>1. /\ live[a] \in Tasks /\ tasks[live[a]].phase # "free"
          /\ \A b \in Assignments : live[b] = live[a] => b = a
      BY <2>5, LiveTask
    <3>2. tasks[live[a]].run = r
      BY <2>1, <2>5 DEF Down
    <3>3. tasks[live[a]].config = runs[r].config
      BY <2>1, <3>1, <3>2 DEF EndInv, Recorded, TaskTells
    <3>4. a \notin ToStop
      BY <2>1, <3>3 DEF ToStop, Desired, Wanted
    <3>5. live[a] \notin stopping
      BY <3>1, <3>4 DEF ToStop
    <3> QED BY <1>6, <3>1, <3>5
  <2>6. live'[a] = None => killed'[a].run = r /\ killed'[a].observed = assignments'[a].updated
    BY <2>1, <2>2, <2>4 DEF Down
  <2>7. live'[a] # None =>
          /\ tasks'[live'[a]].run = r
          /\ tasks'[live'[a]].phase \in Ended \cup {"done"}
          /\ ~tasks'[live'[a]].stop /\ tasks'[live'[a]].outcome # "raised"
    BY <2>1, <2>4, <2>5 DEF Down
  <2> QED BY <1>2, <2>6, <2>7 DEF Down
<1>9. KillHolds'
  <2>1. KillIsHeard => \A t \in Tasks : tasks'[t].early = None
    BY <1>6 DEF EndInv, KillHolds
  <2>2. KillIsHeard => \A b \in Assignments : rows'[b].updated <= assignments[b].updated
    BY <1>2 DEF EndInv, KillHolds
  <2>3. UNCHANGED dbVars /\ pc' # "stopping"
    BY <1>2
  <2> QED BY <1>8, <2>1, <2>2, <2>3, PassHolds
<1> QED BY <1>7, <1>9 DEF EndInv

\* A marker halts the newest row, and waits only for a task that hung.
LEMMA MarkWatchdogStoppedEnds ==
  ASSUME IInv, EndInv, NEW t \in Tasks, MarkWatchdogStopped(t)
  PROVE  EndInv'
<1> DEFINE r == LatestRunRow(tasks[t].aid)
           row == Halt(runs[r], "watchdog")
<1>1. /\ t \in markers
      /\ runs' = IF r = 0 \/ tasks[t].outcome = "raised" THEN runs ELSE [runs EXCEPT ![r] = row]
      /\ tasks' = [tasks EXCEPT ![t] = FreeTask]
      /\ LedgersStay
  BY MarkWatchdogStoppedStep DEF MarkWatchdogStopped
<1>2. r \in 0 .. Len(runs)
  BY LatestTyped DEF IInv
<1>3. ~NothingHangs
  BY <1>1 DEF EndInv, InFront
<1> HIDE DEF r
<1>4. ASSUME NEW q \in RunIds
      PROVE  /\ RowTells(runs'[q]) /\ runs'[q].cause = runs[q].cause
             /\ runs'[q].status = "running" => runs[q].status = "running"
  <2>1. RowTells(runs[q]) /\ runs[q] \in RunRow
    BY TypeFacts DEF EndInv, Recorded, IInv
  <2>2. CASE runs'[q] = runs[q]
    BY <2>1, <2>2
  <2>3. CASE runs'[q] # runs[q]
    <3>1. r \in RunIds /\ runs' = [runs EXCEPT ![r] = row]
      BY <1>1, <1>2, <2>3, TypeFacts DEF IInv
    <3>2. /\ row \in RunRow /\ row.status = "halted" /\ row.reason = "watchdog"
          /\ row.audit = runs[r].audit /\ row.cause = runs[r].cause
      BY <3>1, TypeFacts DEF IInv, Halt, RunRow
    <3> HIDE DEF row
    <3>3. q = r /\ runs'[q] = row
      BY <2>3, <3>1, <3>2, RowWritten DEF IInv
    <3> QED BY <2>1, <3>2, <3>3 DEF RowTells
  <2> QED BY <2>2, <2>3
<1>5. OneRunningRow'
  BY <1>1, <1>4, OneRunningKept DEF EndInv, LedgersStay
<1>6. Recorded'
  <2>1. FreeTask.phase = "free" /\ FreeTask.run = 0 /\ FreeTask.outcome = None
    BY DEF FreeTask
  <2>2. ASSUME NEW u \in Tasks PROVE Vacated(u) \/ KeepsRow(u)
    <3>1. CASE u = t
      BY <1>1, <2>1, <3>1 DEF Vacated, IInv, TypeOK
    <3>2. CASE u # t
      <4>1. tasks'[u] = tasks[u] /\ TaskTells(tasks[u], runs[tasks[u].run])
        BY <1>1, <3>2 DEF EndInv, Recorded, IInv, TypeOK
      <4> QED BY <4>1 DEF KeepsRow, TaskTells
    <3> QED BY <3>1, <3>2
  <2>3. \A q \in RunIds : SameLinks(q)
    BY <1>1 DEF LedgersStay
  <2> QED BY <1>1, <1>4, <2>2, <2>3, RecordedKept DEF EndInv, LedgersStay
<1> QED BY <1>3, <1>5, <1>6, OnlyTheFirstTwo DEF EndInv

-----------------------------------------------------------------------------
(***************************************************************************)
(* The process.                                                            *)
(***************************************************************************)
\* The process is gone: no task is left, and no end is written.
LEMMA ProcessGoneEnds ==
  ASSUME IInv, EndInv, Crash \/ Exit
  PROVE  EndInv'
<1>1. /\ ProcessGone
      /\ "crash" \in Faults \/ pc = "stopping"
  BY DEF Crash, Exit, Fault
<1>2. ~EndsAreWritten /\ ~KillIsHeard
  BY <1>1 DEF EndInv, KillIsWritten, KillHolds, EndsAreWritten, KillIsHeard
<1>3. /\ FreeTask.phase = "free" /\ FreeTask.run = 0 /\ FreeTask.outcome = None
      /\ FreeTask.cancel = FALSE /\ FreeTask.stale = FALSE
  BY DEF FreeTask
<1>4. \A u \in Tasks : tasks'[u] = FreeTask /\ Vacated(u)
  BY <1>1, <1>3 DEF ProcessGone, Vacated
<1>5. EndsStay /\ markers' = {}
  BY <1>1, NoRowChanged DEF ProcessGone, dbVars
<1>6. OneRunningRow' /\ Recorded' /\ InFront' /\ KillIsWritten'
  <2>1. NothingHangs =>
          /\ markers' = {}
          /\ pc' = "down" => \A u \in Tasks : tasks'[u].phase = "free"
          /\ \A u \in Tasks : ~tasks'[u].cancel /\ ~tasks'[u].stale
    BY <1>3, <1>4, <1>5
  <2>2. EndsAreWritten =>
          /\ pc' # "stopping"
          /\ \A u \in Tasks : tasks[u].phase \in Ended => Carries(u)
    BY <1>2
  <2> QED BY <1>4, <1>5, <2>1, <2>2, EndsKept
<1> QED BY <1>2, <1>6 DEF EndInv, KillHolds, KillIsHeard

\* The process asks its tasks to stop, before it goes.
LEMMA ShutdownEnds ==
  ASSUME IInv, EndInv, Shutdown
  PROVE  EndInv'
<1> DEFINE stopped(t) == [tasks[t] EXCEPT !.stop = TRUE]
<1>1. /\ "crash" \in Faults /\ pc' = "stopping"
      /\ tasks' = [t \in Tasks |-> IF \E a \in Assignments : live[a] = t
                                   THEN stopped(t) ELSE tasks[t]]
      /\ UNCHANGED <<dbVars, rows, live, killed, backoff, markers>>
  BY DEF Shutdown, Fault
<1>2. ~EndsAreWritten /\ ~KillIsHeard
  BY <1>1 DEF EndsAreWritten, KillIsHeard
<1>3. ASSUME NEW u \in Tasks
      PROVE  /\ Carries(u)
             /\ tasks'[u].cancel = tasks[u].cancel /\ tasks'[u].stale = tasks[u].stale
  <2>1. tasks[u] \in Task /\ (tasks[u].phase # "done" => tasks[u].outcome = None)
    BY TypeFacts DEF IInv, EndInv, Recorded, TaskTells
  <2>2. /\ stopped(u).phase = tasks[u].phase /\ stopped(u).aid = tasks[u].aid
        /\ stopped(u).config = tasks[u].config /\ stopped(u).run = tasks[u].run
        /\ stopped(u).cause = tasks[u].cause /\ stopped(u).resume = tasks[u].resume
        /\ stopped(u).outcome = tasks[u].outcome
        /\ stopped(u).cancel = tasks[u].cancel /\ stopped(u).stale = tasks[u].stale
    BY <2>1 DEF Task
  <2> HIDE DEF stopped
  <2>3. tasks'[u] = stopped(u) \/ tasks'[u] = tasks[u]
    BY <1>1
  <2> QED BY <2>1, <2>2, <2>3 DEF Carries
<1>4. EndsStay
  BY <1>1, NoRowChanged DEF dbVars
<1>5. OneRunningRow' /\ Recorded' /\ InFront' /\ KillIsWritten'
  <2>1. NothingHangs =>
          /\ markers' = {}
          /\ pc' = "down" => \A u \in Tasks : tasks'[u].phase = "free"
          /\ \A u \in Tasks : ~tasks'[u].cancel /\ ~tasks'[u].stale
    BY <1>1, <1>3 DEF EndInv, InFront
  <2>2. EndsAreWritten =>
          /\ pc' # "stopping"
          /\ \A u \in Tasks : tasks[u].phase \in Ended => Carries(u)
    BY <1>2
  <2> QED BY <1>3, <1>4, <2>1, <2>2, EndsKept
<1> QED BY <1>2, <1>5 DEF EndInv, KillHolds, KillIsHeard

\* A start of the process finds no task of its own, and halts as orphans only
\* rows that still say running.
LEMMA BootEnds ==
  ASSUME IInv, EndInv, Boot
  PROVE  EndInv'
<1> USE DEF EndInv
<1> DEFINE slots == {assignments[a].config.slot : a \in {b \in Assignments : assignments[b].enabled}}
<1>1. /\ pc = "down" /\ pc' = "reap"
      /\ runs' = [r \in RunIds |-> IF runs[r].status = "running" /\ runs[r].config.slot \notin slots
                                   THEN Halt(runs[r], "orphan") ELSE runs[r]]
      /\ UNCHANGED <<assignments, settings, rows, live, killed, backoff, markers, tasks, spent>>
      /\ LedgersStay
  BY BootStep DEF Boot
<1> HIDE DEF slots
<1>2. ASSUME NEW r \in RunIds
      PROVE  /\ SameLinks(r) /\ SameControl(r) /\ runs'[r].cause = runs[r].cause
             /\ runs'[r].audit = runs[r].audit
             /\ RowTells(runs'[r])
             /\ runs'[r].status = "running" => runs[r].status = "running"
             /\ runs[r].status # "running" =>
                  runs'[r].status = runs[r].status /\ runs'[r].reason = runs[r].reason
  <2> DEFINE row == Halt(runs[r], "orphan")
  <2>1. SameLinks(r) /\ runs[r] \in RunRow /\ RowTells(runs[r])
    BY <1>1, TypeFacts DEF LedgersStay, IInv, Recorded
  <2>2. /\ row.status = "halted" /\ row.audit = runs[r].audit /\ row.cause = runs[r].cause
        /\ row.held = runs[r].held /\ row.command = runs[r].command
    BY <2>1 DEF Halt, RunRow
  <2>3. (runs'[r] = row /\ runs[r].status = "running") \/ runs'[r] = runs[r]
    BY <1>1
  <2> HIDE DEF row
  <2> QED BY <2>1, <2>2, <2>3 DEF RowTells, SameControl
<1>3. Len(runs') = Len(runs) /\ RunIds' = RunIds
  BY <1>1 DEF LedgersStay, RunIds
<1>4. OneRunningRow'
  BY <1>2, <1>3, OneRunningKept
<1>5. Recorded'
  <2>1. \A u \in Tasks : TaskTells(tasks[u], runs[tasks[u].run])
    BY DEF Recorded
  <2>2. \A u \in Tasks : KeepsRow(u)
    BY <1>1, <2>1 DEF KeepsRow, TaskTells
  <2> QED BY <1>2, <1>3, <2>2, RecordedKept
<1>6. ASSUME NothingHangs PROVE \A u \in Tasks : tasks[u].phase = "free"
  BY <1>1, <1>6 DEF InFront
<1>7. InFront'
  <2> SUFFICES ASSUME NothingHangs
               PROVE  /\ markers' = {} /\ pc' # "down"
                      /\ \A u \in Tasks : /\ ~tasks'[u].cancel /\ ~tasks'[u].stale
                                          /\ tasks'[u].phase \notin Looping
    BY DEF InFront, Fronts
  <2> QED BY <1>1, <1>6 DEF InFront, Looping
<1>8. KillIsWritten'
  <2> SUFFICES ASSUME EndsAreWritten
               PROVE  /\ pc' # "stopping"
                      /\ \A r \in RunIds : Killed(r)' => KillTold(r)'
                      /\ \A u \in Tasks : NotCarried(u)'
                      /\ KilledNotResumed'
    BY <1>3 DEF KillIsWritten
  <2>1. \A u \in Tasks : tasks'[u].phase = "free" /\ tasks[u].phase = "free"
    BY <1>1, <1>6 DEF EndsAreWritten, NothingHangs
  <2>2. ASSUME NEW r \in RunIds, Killed(r)' PROVE KillTold(r)'
    <3>1. Killed(r) /\ KillTold(r)
      BY <1>2, <2>2 DEF Killed, KillIsWritten
    <3>2. runs[r].status = "halted" /\ runs[r].reason = None /\ runs[r].audit = runs[r].cause
      BY <2>1, <3>1 DEF KillTold
    <3> QED BY <1>2, <3>2 DEF KillTold
  <2>3. \A u \in Tasks : NotCarried(u)'
    BY <2>1 DEF NotCarried
  <2>4. KilledNotResumed'
    <3>1. \A r \in RunIds : runs[r].resumed # 0 => runs[r].resumed \in RunIds
      BY RowsAreLinked DEF IInv, Linked, RunIds
    <3>2. \A r \in RunIds : runs'[r].resumed = runs[r].resumed /\ runs'[r].cause = runs[r].cause
      BY <1>2 DEF SameLinks
    <3> QED BY <1>3, <3>1, <3>2 DEF KilledNotResumed, KillIsWritten
  <2> QED BY <1>1, <2>2, <2>3, <2>4
<1>9. KillHolds'
  <2> SUFFICES ASSUME KillIsHeard
               PROVE  /\ pc' # "stopping"
                      /\ \A t \in Tasks : tasks'[t].early = None
                      /\ \A b \in Assignments : rows'[b].updated <= assignments'[b].updated
                      /\ \A r \in RunIds' : runs'[r].held => HeldBy(r)'
    BY DEF KillHolds
  <2>1. ASSUME NEW r \in RunIds, runs'[r].held PROVE HeldBy(r)'
    <3>1. PICK a : a = runs[r].aid
      OBVIOUS
    <3>2. /\ SameLinks(r) /\ SameControl(r) /\ runs'[r].cause = runs[r].cause
      BY <1>2
    <3>3. HeldBy(r)
      BY <2>1, <3>2 DEF KillHolds, SameControl
    <3>4. LatestRunRow(a)' = LatestRunRow(a)
      BY <1>2, <1>3, LatestKept DEF SameLinks
    <3>5. runs'[r].aid = a /\ runs'[r].config = runs[r].config /\ runs'[r].command = runs[r].command
      BY <3>1, <3>2 DEF SameLinks, SameControl
    <3> QED BY <1>1, <3>1, <3>2, <3>3, <3>4, <3>5 DEF HeldBy, Wanted
  <2> QED BY <1>1, <1>3, <2>1 DEF KillHolds
<1> QED BY <1>4, <1>5, <1>7, <1>8, <1>9

-----------------------------------------------------------------------------
(***************************************************************************)
(* EndInv is inductive on top of IInv.                                     *)
(***************************************************************************)
\* No run, no end.
LEMMA InitEnds ==
  ASSUME Init
  PROVE  EndInv
<1>1. /\ runs = <<>> /\ pc = "down" /\ markers = {} /\ rows = assignments
      /\ tasks = [t \in Tasks |-> FreeTask]
  BY DEF Init
<1>2. RunIds = {}
  <2>1. Len(runs) = 0
    BY <1>1, EmptySeq
  <2> QED BY <2>1 DEF RunIds
<1>3. /\ FreeTask.phase = "free" /\ FreeTask.run = 0 /\ FreeTask.outcome = None
      /\ FreeTask.cancel = FALSE /\ FreeTask.stale = FALSE /\ FreeTask.early = None
  BY DEF FreeTask
<1>4. \A t \in Tasks : tasks[t] = FreeTask
  BY <1>1
<1>5. OneRunningRow
  BY <1>2 DEF OneRunningRow
<1>6. Recorded
  BY <1>2, <1>3, <1>4 DEF Recorded, TaskTells, Ended
<1>7. InFront
  BY <1>1, <1>3, <1>4 DEF InFront, Fronts, Looping
<1>8. KillIsWritten
  BY <1>1, <1>2, <1>3, <1>4 DEF KillIsWritten, NotCarried, KilledNotResumed
<1>9. KillHolds
  <2>1. IInv
    BY InitStep
  <2>2. \A a \in Assignments : assignments[a].updated \in Nat
    BY <2>1, SupervisorAssumption DEF IInv, TypeOK, AssignmentRow
  <2> QED BY <1>1, <1>2, <1>3, <1>4, <2>2 DEF KillHolds
<1> QED BY <1>5, <1>6, <1>7, <1>8, <1>9 DEF EndInv

\* The steps of a run's task.
LEMMA TaskStepEnds ==
  ASSUME IInv, EndInv, NEW t \in Tasks, TaskStep(t)
  PROVE  EndInv'
BY PrepareResumeEnds, BuildEngineEnds, ClaimSlotEnds, FirstCheckpointEnds,
   BeginCandleEnds, FlushCandleEnds, EndCandleEnds, SeeStopEnds, WindDownEnds,
   RecordHaltEnds, TakeCancelEnds DEF TaskStep

\* Every step of the system.
LEMMA NextEnds ==
  ASSUME IInv, EndInv, [Next]_vars
  PROVE  EndInv'
<1>1. CASE UNCHANGED vars
  BY <1>1, StutterEnds
<1>2. CASE \E a \in Assignments : UpdateAssignment(a) \/ BackoffExpires(a)
  BY <1>2, UpdateAssignmentEnds, QuietPassEnds
<1>3. CASE PutSettings \/ Control
  BY <1>3, PutSettingsEnds, ControlEnds
<1>4. CASE Pass
  BY <1>4, ReapEnds, WatchEnds, PlanEnds, QuietPassEnds DEF Pass
<1>5. CASE Shutdown \/ Exit \/ Crash \/ Boot
  BY <1>5, ShutdownEnds, ProcessGoneEnds, BootEnds
<1>6. CASE \E t \in Tasks : TaskStep(t) \/ StartFails(t) \/ RunFails(t) \/ Stall(t)
                            \/ MarkWatchdogStopped(t)
  BY <1>6, TaskStepEnds, StartFailsEnds, RunFailsEnds, StallEnds, MarkWatchdogStoppedEnds
<1> QED BY <1>1, <1>2, <1>3, <1>4, <1>5, <1>6 DEF Next

\* The invariant of the ends holds of every reachable state, for any number of
\* assignments, tasks, rows, edits, commands and faults.
THEOREM EndsInvariant == Spec => [](IInv /\ EndInv)
<1>1. Init => IInv /\ EndInv
  BY InitStep, InitEnds
<1>2. (IInv /\ EndInv) /\ [Next]_vars => (IInv /\ EndInv)'
  BY NextStep, NextEnds
<1> QED BY <1>1, <1>2, PTL DEF Spec

-----------------------------------------------------------------------------
(***************************************************************************)
(* What follows from it.                                                   *)
(***************************************************************************)
\* An assignment has one running row per slot at most, whatever the order of
\* claims, supersessions, late wind-downs, markers and orphan halts
\* (supersede_stale_runs in prepare_resume and Recorder.start).
THEOREM OneRunningRowAlways == Spec => []OneRunningRow
<1>1. IInv /\ EndInv => OneRunningRow
  BY DEF EndInv
<1> QED BY <1>1, EndsInvariant, PTL

\* While no task hangs, the run GET /assignments lists for an assignment is the
\* one that trades, through edits, commands, crashes, lost writes and failures
\* (_live_run_ids).  A hung task's marker may halt its successor's row
\* (_mark_watchdog_stopped), so the hypothesis is needed.
THEOREM TradingRowIsRunningAlways ==
  ASSUME NothingHangs
  PROVE  Spec => []TradingRowIsRunning
<1>1. IInv /\ EndInv => TradingRowIsRunning
  <2> SUFFICES ASSUME IInv, EndInv, NEW t \in Tasks, Trading(t),
                      assignments[tasks[t].aid].enabled
               PROVE  LiveRunId(tasks[t].aid) = tasks[t].run
    BY DEF TradingRowIsRunning
  <2>1. PICK a, r : a = tasks[t].aid /\ r = tasks[t].run
    OBVIOUS
  <2>2. tasks[t].phase \in Looping
    BY DEF Trading, Looping
  <2>3. r = LatestRunRow(a) /\ runs[r].status = "running"
    BY <2>1, <2>2 DEF EndInv, InFront, Fronts
  <2>4. r \in RunIds /\ runs[r].aid = a
    BY <2>1, <2>2, HeldRow
  <2>5. PICK S : S = {q \in RunsOf(a) : assignments[a].enabled /\ runs[q].status = "running"}
    OBVIOUS
  <2>6. S \in SUBSET RunIds /\ r \in S
    BY <2>1, <2>3, <2>4, <2>5 DEF RunsOf
  <2>7. \A q \in S : q <= r
    BY <2>3, <2>5, LatestIsNewest DEF IInv
  <2>8. PICK n : n = Newest(S)
    OBVIOUS
  <2>9. n \in S /\ r <= n
    BY <2>6, <2>8, NewestTyped DEF IInv
  <2>10. n <= r /\ n \in Nat /\ r \in Nat
    BY <2>6, <2>7, <2>9, TypeFacts DEF IInv
  <2>11. n = r
    BY <2>9, <2>10
  <2> QED BY <2>1, <2>5, <2>8, <2>11 DEF LiveRunId
<1> QED BY <1>1, EndsInvariant, PTL

\* README: a run stopped by the kill switch or a strategy switch does not
\* resume, while every end reaches the database and the audit log (record_halt
\* and is_resumable): tasks may fail, and nothing crashes, hangs or loses a
\* write.  An end whose audit event is lost reads like a graceful stop.
THEOREM KilledNotResumedAlways ==
  ASSUME EndsAreWritten
  PROVE  Spec => []KilledNotResumed
<1>1. IInv /\ EndInv => KilledNotResumed
  BY DEF EndInv, KillIsWritten
<1> QED BY <1>1, EndsInvariant, PTL

\* No task starts for an assignment whose newest run a kill holds down: only
\* reconcile starts one, and it passes over what killed names (classify_end,
\* resume_cleared, reconcile).  KillIsHeard excludes what takes a kill's place:
\* a newer command, and a process that restarts or hangs and forgets killed.
THEOREM KilledStaysDownAlways ==
  ASSUME KillIsHeard
  PROVE  Spec => KilledStaysDown
<1>1. IInv /\ EndInv /\ [Next]_vars =>
        [\A a \in Assignments :
           live[a] = None /\ live'[a] # None /\ LatestRunRow(a) # 0
             => ~runs[LatestRunRow(a)].held]_vars
  <2> SUFFICES ASSUME IInv, EndInv, [Next]_vars, NEW a \in Assignments,
                      live[a] = None, live'[a] # None, LatestRunRow(a) # 0,
                      runs[LatestRunRow(a)].held
               PROVE  FALSE
    OBVIOUS
  <2>1. live' # live
    OBVIOUS
  <2>2. Plan
    <3>1. ASSUME live' = live PROVE FALSE
      BY <2>1, <3>1
    <3>2. ~(Reap \/ Watch \/ Crash \/ Exit)
      BY DEF Reap, Watch, Crash, Exit, ProcessGone
    <3>3. ~(UNCHANGED vars)
      BY <2>1 DEF vars
    <3>4. ~(PutSettings \/ Control \/ Shutdown \/ Boot \/ ListAssignments \/ RefreshKilled)
      BY <2>1 DEF PutSettings, Control, ControlAll, ControlRun, Shutdown, Boot,
                  ListAssignments, RefreshKilled, procVars
    <3>5. ~\E b \in Assignments : UpdateAssignment(b) \/ BackoffExpires(b)
      BY <2>1 DEF UpdateAssignment, BackoffExpires, procVars
    <3>6. ASSUME NEW t \in Tasks PROVE ~TaskStep(t)
      BY <2>1 DEF TaskStep, PrepareResume, BuildEngine, ClaimSlot, FirstCheckpoint,
                  BeginCandle, FlushCandle, EndCandle, SeeStop, WindDown, RecordHalt,
                  TakeCancel, procVars
    <3>7. ASSUME NEW t \in Tasks
          PROVE  ~(StartFails(t) \/ RunFails(t) \/ Stall(t) \/ MarkWatchdogStopped(t))
      BY <2>1 DEF StartFails, RunFails, Stall, MarkWatchdogStopped, procVars
    <3> QED BY <3>2, <3>3, <3>4, <3>5, <3>6, <3>7 DEF Next, Pass
  <2>3. a \in ToStart
    BY <2>2 DEF Plan
  <2>4. LatestRunRow(a) \in RunIds /\ runs[LatestRunRow(a)].aid = a
    BY LatestIsNewest DEF IInv, RunsOf
  <2>5. HeldBy(LatestRunRow(a))
    BY <2>4 DEF EndInv, KillHolds
  <2>6. killed[a].run = LatestRunRow(a)
    BY <2>4, <2>5 DEF HeldBy
  <2> QED BY <2>3, <2>6 DEF ToStart, HeldDown
<1> QED BY <1>1, EndsInvariant, PTL DEF Spec, KilledStaysDown

\* Only prepare_resume's answer prepares a task.
LEMMA OnlyPrepareResume ==
  ASSUME IInv, [Next]_vars, NEW t \in Tasks,
         tasks[t].phase = "preparing", tasks'[t].phase = "prepared"
  PROVE  PrepareResume(t)
<1>1. tasks \in [Tasks -> Task] /\ tasks[t] \in Task
  BY DEF IInv, TypeOK
<1>2. tasks' # tasks
  OBVIOUS
<1>3. ~(UNCHANGED vars)
  BY <1>2 DEF vars
<1>4. ~(PutSettings \/ Boot \/ ListAssignments \/ RefreshKilled)
  BY <1>2 DEF PutSettings, Boot, ListAssignments, RefreshKilled
<1>5. ~\E a \in Assignments : UpdateAssignment(a) \/ BackoffExpires(a)
  BY <1>2 DEF UpdateAssignment, BackoffExpires
<1>6. ~Control
  BY <1>1, <1>2 DEF Control, ControlAll, ControlRun
<1>7. ~(Crash \/ Exit \/ Reap)
  BY DEF Crash, Exit, Reap, ProcessGone, FreeTask
<1>8. ~(Watch \/ Shutdown)
  <2>1. \A b \in BOOLEAN : [tasks[t] EXCEPT !.stop = b].phase = "preparing"
    BY <1>1 DEF Task
  <2>2. \A b : [tasks[t] EXCEPT !.cancel = b].phase = "preparing"
    BY <1>1 DEF Task
  <2> QED BY <2>1, <2>2 DEF Watch, Shutdown
<1>9. ~Plan
  <2> SUFFICES ASSUME Plan PROVE FALSE
    OBVIOUS
  <2>1. \A b \in BOOLEAN : [tasks[t] EXCEPT !.stop = b].phase = "preparing"
    BY <1>1 DEF Task
  <2>2. \A a : NewTask(a).phase = "preparing"
    BY DEF NewTask, FreeTask
  <2>3. \/ \E a : tasks'[t] = NewTask(a)
        \/ tasks'[t] = [tasks[t] EXCEPT !.stop = TRUE]
        \/ tasks'[t] = tasks[t]
    BY DEF Plan
  <2> QED BY <2>1, <2>2, <2>3
<1>10. ASSUME NEW u \in Tasks, u # t
       PROVE  ~(TaskStep(u) \/ StartFails(u) \/ RunFails(u) \/ Stall(u) \/ MarkWatchdogStopped(u))
  <2> SUFFICES ASSUME TaskStep(u) \/ StartFails(u) \/ RunFails(u) \/ Stall(u) \/ MarkWatchdogStopped(u)
               PROVE  tasks'[t] = tasks[t]
    OBVIOUS
  <2>1. CASE StartFails(u) \/ RunFails(u) \/ Stall(u) \/ MarkWatchdogStopped(u)
    BY <1>1, <1>10, <2>1 DEF StartFails, RunFails, Stall, MarkWatchdogStopped, Finish, Ending
  <2>2. CASE PrepareResume(u) \/ BuildEngine(u) \/ ClaimSlot(u) \/ FirstCheckpoint(u)
    BY <1>1, <1>10, <2>2 DEF PrepareResume, BuildEngine, ClaimSlot, FirstCheckpoint, Finish, Move
  <2>3. CASE BeginCandle(u) \/ FlushCandle(u) \/ EndCandle(u) \/ SeeStop(u)
    BY <1>1, <1>10, <2>3 DEF BeginCandle, FlushCandle, EndCandle, SeeStop, Ending
  <2>4. CASE WindDown(u) \/ RecordHalt(u) \/ TakeCancel(u)
    BY <1>1, <1>10, <2>4 DEF WindDown, RecordHalt, TakeCancel, Finish, Ending
  <2> QED BY <2>1, <2>2, <2>3, <2>4 DEF TaskStep
<1>11. ~(StartFails(t) \/ RunFails(t) \/ MarkWatchdogStopped(t) \/ Stall(t))
  BY <1>1 DEF StartFails, RunFails, MarkWatchdogStopped, Stall, Finish, At, Task
<1>12. TaskStep(t) => PrepareResume(t)
  <2>1. ~(BuildEngine(t) \/ ClaimSlot(t) \/ FirstCheckpoint(t) \/ BeginCandle(t) \/ FlushCandle(t)
          \/ EndCandle(t) \/ SeeStop(t) \/ WindDown(t) \/ RecordHalt(t))
    BY DEF BuildEngine, ClaimSlot, FirstCheckpoint, BeginCandle, FlushCandle, EndCandle,
           SeeStop, WindDown, RecordHalt, At
  <2>2. ~TakeCancel(t)
    BY <1>1 DEF TakeCancel, Task
  <2> QED BY <2>1, <2>2 DEF TaskStep
<1> QED BY <1>3, <1>4, <1>5, <1>6, <1>7, <1>8, <1>9, <1>10, <1>11, <1>12 DEF Next, Pass

\* A chain that ended by a crash of the process, a graceful stop or a dry
\* stream is resumed or refused while its identity stays the same, never
\* started over at the starting cash, whatever other faults happen, as long as
\* its ledger can be rebuilt (prepare_resume, is_resumable): what the
\* supersession, the marker and the wind-down have written of such an end always
\* reads as resumable.  The one way left to lose it is a chain that misses a row
\* or its starting cash, or whose replay is refused: a fault of kind "replay".
THEOREM NoSilentResetAlways == Spec => NoSilentReset
<1>1. (IInv /\ EndInv) /\ (IInv /\ EndInv)' /\ [Next]_vars =>
        [\A t \in Tasks :
           tasks[t].phase = "preparing" /\ tasks'[t].phase = "prepared" /\ tasks'[t].resume = 0
             /\ UNCHANGED spent
             => LET p == LatestRunRow(tasks[t].aid)
                IN  p # 0 =>
                      \/ runs'[p].cause \notin {None, "stop", "dry"}
                      \/ runs'[p].reason = "orphan"
                      \/ runs'[p].status = "running"
                      \/ Identity(runs'[p].config) # Identity(tasks[t].config)]_vars
  <2> SUFFICES ASSUME IInv, EndInv, (IInv /\ EndInv)', [Next]_vars, NEW t \in Tasks,
                      tasks[t].phase = "preparing", tasks'[t].phase = "prepared",
                      tasks'[t].resume = 0, UNCHANGED spent,
                      NEW p, p = LatestRunRow(tasks[t].aid), p # 0,
                      runs'[p].cause \in {None, "stop", "dry"}, runs'[p].reason # "orphan",
                      runs'[p].status # "running",
                      Identity(runs'[p].config) = Identity(tasks[t].config)
               PROVE  FALSE
    OBVIOUS
  <2> DEFINE a == tasks[t].aid
             config == tasks[t].config
             rs == Supersede(runs, a, config.slot, 0)
             ended == {r \in 1 .. Len(rs) : rs[r].aid = a /\ rs[r].status # "running"}
             answer == ResumeDecision(rs, a, config)
  <2>1. PrepareResume(t)
    BY OnlyPrepareResume
  <2>2. tasks \in [Tasks -> Task]
    BY DEF IInv, TypeOK
  <2>3. answer.kind # "refuse" /\ runs' = rs /\ answer.run = 0
    <3>1. answer.kind # "refuse"
      <4>1. SUFFICES ASSUME answer.kind = "refuse" PROVE FALSE
        OBVIOUS
      <4>2. tasks' = [tasks EXCEPT ![t].phase = "done", ![t].outcome = "raised"]
        BY <2>1, <4>1 DEF PrepareResume, Finish
      <4>3. tasks'[t].phase = "done"
        BY <2>2, <4>2 DEF Task
      <4> QED BY <4>3
    <3>2. ~Fault("replay")
      <4> DEFINE more == [spent EXCEPT !.faults = @ + 1]
      <4>1. spent.faults \in Nat /\ more.faults = spent.faults + 1
        BY DEF IInv, TypeOK
      <4> HIDE DEF more
      <4>2. more # spent
        BY <4>1
      <4>3. SUFFICES ASSUME Fault("replay") PROVE FALSE
        OBVIOUS
      <4>4. spent' = more
        BY <4>3 DEF Fault, more
      <4> QED BY <4>2, <4>4
    <3>3. /\ runs' = rs
          /\ tasks' = [tasks EXCEPT ![t].phase = "prepared", ![t].resume = answer.run,
                                    ![t].carried = Replayed(rs, answer.run)]
      BY <2>1, <3>1, <3>2 DEF PrepareResume
    <3>4. tasks'[t].resume = answer.run
      BY <2>2, <3>3 DEF Task
    <3> QED BY <3>1, <3>3, <3>4
  <2>4. p \in RunIds /\ \A r \in RunsOf(a) : r <= p
    BY LatestIsNewest DEF IInv, RunsOf
  <2>5. /\ Len(runs) \in Nat /\ RunIds = 1 .. Len(runs) /\ RunIds' = RunIds /\ Len(rs) = Len(runs)
        /\ \A r \in RunIds : rs[r].aid = runs[r].aid
    BY <2>3, TypeFacts, SupersededRows DEF IInv, RunIds
  <2>6. /\ runs'[p].status \in {"completed", "halted", "failed"}
        /\ runs'[p].reason \in {None, "superseded", "watchdog"}
        /\ runs'[p].audit \in {None, "stop", "kill", "switch", "risk"}
        /\ RowTells(runs'[p])
    <3>1. runs' \in Seq(RunRow) /\ p \in 1 .. Len(runs')
      BY <2>4, <2>5 DEF IInv, TypeOK, RunIds
    <3>2. runs'[p] \in RunRow
      BY <3>1, ElementOfSeq
    <3>3. RowTells(runs'[p])
      BY <2>4, <2>5 DEF EndInv, Recorded
    <3> QED BY <3>2, <3>3 DEF RunRow
  <2>7. runs[p].aid = a
    BY LatestIsNewest DEF IInv, RunsOf
  <2> HIDE DEF rs
  <2>8. p \in ended /\ \A r \in ended : r <= p
    BY <2>3, <2>4, <2>5, <2>7 DEF RunsOf
  <2>9. Newest(ended) = p
    <3>1. ended \in SUBSET RunIds /\ ended # {}
      BY <2>5, <2>8
    <3>2. PICK S : S = ended
      OBVIOUS
    <3>3. PICK n : n = Newest(S)
      OBVIOUS
    <3>4. S \in SUBSET RunIds /\ S # {} /\ p \in S /\ \A r \in S : r <= p
      BY <2>8, <3>1, <3>2
    <3>5. n \in S /\ p <= n
      BY <3>3, <3>4, NewestTyped DEF IInv
    <3>6. n <= p /\ n \in Nat /\ p \in Nat
      BY <2>5, <3>4, <3>5
    <3>7. n = p
      BY <3>5, <3>6
    <3> QED BY <3>2, <3>3, <3>7
  <2>10. IsResumable(rs[p], config)
    <3>1. /\ rs[p].cause \in {None, "stop", "dry"} /\ rs[p].status # "running"
          /\ Identity(rs[p].config) = Identity(config) /\ RowTells(rs[p])
          /\ rs[p].status \in {"completed", "halted", "failed"}
          /\ rs[p].reason \in {None, "superseded", "watchdog"}
          /\ rs[p].audit \in {None, "stop", "kill", "switch", "risk"}
      BY <2>3, <2>6
    <3>2. rs[p].status # "failed" /\ rs[p].audit \in {None, "stop"}
      BY <3>1 DEF RowTells, None
    <3> QED BY <3>1, <3>2 DEF IsResumable, RowTells, None
  <2>11. answer.kind = "refuse" \/ answer.run = p
    <3> HIDE DEF ended
    <3>1. ResumeDecision(rs, a, config) =
            CASE p = 0 -> [kind |-> "fresh", run |-> 0]
              [] p # 0 /\ Identity(rs[p].config) = Identity(config) /\ rs[p].risk # "ok"
                   -> [kind |-> "refuse", run |-> p]
              [] OTHER -> IF IsResumable(rs[p], config)
                          THEN [kind |-> "resume", run |-> p]
                          ELSE [kind |-> "fresh", run |-> 0]
      BY <2>9 DEF ResumeDecision, ended
    <3> QED BY <2>10, <3>1
  <2> QED BY <2>3, <2>11
<1> QED BY <1>1, EndsInvariant, PTL DEF Spec, NoSilentReset

=============================================================================
