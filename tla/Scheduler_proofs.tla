--------------------------- MODULE Scheduler_proofs ---------------------------
(*****************************************************************************)
(* Proofs about the scheduler of agent-os: Executor.Execute, for every       *)
(* number of calls, slots, retries and faults, and the schedule, for any     *)
(* tasks, requests, expressions and entry ids.                               *)
(*                                                                           *)
(* Of the executor: types, the accounting of the semaphore, that no run is   *)
(* left open without a cause, and that Execute never goes back on a result   *)
(* of its own.  The last two need to know what the row of a call looks like  *)
(* while the call is under way: ResultPending and HandedOverClosed; the      *)
(* bound on the retries needs RetryLeft.                                     *)
(*                                                                           *)
(* Of the schedule: types, that the cron engine and cronEntries agree, that  *)
(* both follow the table whenever the mutex is free, and that a clock        *)
(* recovery drops nothing.  What happens to a task while a request or the    *)
(* clock holds the mutex is said per task: the table may be ahead of the     *)
(* engine only for the one task that the holder of the mutex is about to     *)
(* place (Placing).                                                          *)
(*****************************************************************************)
EXTENDS TaskExecutor, TaskSchedule, FiniteSetTheorems, TLAPS

-------------------------------------------------------------------------------
(* The executor.                                                           *)

\* The stages in which Execute has not recorded a result yet.
Undecided == {"idle", "waiting", "create", "start", "call", "sleep", "complete", "fail"}

\* Before Execute records a result only a report can have closed the row.
ResultPending ==
  \A r \in Runs : (pc[r] \in Undecided /\ reported[r] = "none") => run[r] \notin Terminal

\* NoRunLeftOpen, already from the moment the result has been recorded.
HandedOverClosed ==
  \A r \in Runs : (pc[r] \in {"enqueue", "succeeded", "failed"} /\ run[r] \notin Terminal)
                    => (faults > 0 \/ ctx[r] = "canceled")

\* A call that sleeps has a retry left.
RetryLeft == \A r \in Runs : pc[r] = "sleep" => attempt[r] < MaxRetries

IInv == /\ TypeOK
        /\ RetryLeft
        /\ SlotAccounting
        /\ ResultPending
        /\ HandedOverClosed

-------------------------------------------------------------------------------
\* A call that takes or frees its slot changes the number of holders by one; a
\* move between two stages, or between two places outside, does not change it.
LEMMA HoldersMove ==
  ASSUME TypeOK, NEW r \in Runs, NEW l, pc' = [pc EXCEPT ![r] = l]
  PROVE  /\ Cardinality(Holders) \in Nat
         /\ (pc[r] \in Stages /\ l \in Stages) => Holders' = Holders
         /\ (pc[r] \notin Stages /\ l \notin Stages) => Holders' = Holders
         /\ (pc[r] \notin Stages /\ l \in Stages)
              => Cardinality(Holders') = Cardinality(Holders) + 1
         /\ (pc[r] \in Stages /\ l \notin Stages)
              => Cardinality(Holders') = Cardinality(Holders) - 1
<1>1. \A q \in Runs : pc'[q] = IF q = r THEN l ELSE pc[q]
  BY DEF TypeOK
<1>2. IsFiniteSet(Holders)
  BY ExecutorAssumption, FS_Subset DEF Holders
<1>3. Cardinality(Holders) \in Nat
  BY <1>2, FS_CardinalityType
<1>4. CASE pc[r] \in Stages <=> l \in Stages
  BY <1>1, <1>3, <1>4 DEF Holders
<1>5. CASE pc[r] \notin Stages /\ l \in Stages
  <2>1. Holders' = Holders \cup {r} /\ r \notin Holders
    BY <1>1, <1>5 DEF Holders
  <2> QED BY <1>2, <1>3, <1>5, <2>1, FS_AddElement
<1>6. CASE pc[r] \in Stages /\ l \notin Stages
  <2>1. Holders' = Holders \ {r} /\ r \in Holders
    BY <1>1, <1>6 DEF Holders
  <2> QED BY <1>2, <1>3, <1>6, <2>1, FS_RemoveElement
<1> QED BY <1>4, <1>5, <1>6

\* The call stays in a stage and keeps its slot; the call returns.
LEMMA SlotKept ==
  ASSUME TypeOK, SlotAccounting, NEW r \in Runs, NEW l \in Stages,
         pc[r] \in Stages, Goto(r, l), UNCHANGED slots
  PROVE  SlotAccounting'
BY HoldersMove DEF SlotAccounting, Goto

LEMMA SlotFreed ==
  ASSUME TypeOK, SlotAccounting, NEW r \in Runs, NEW l \in Finished,
         pc[r] \in Stages, Return(r, l)
  PROVE  SlotAccounting'
<1>1. pc' = [pc EXCEPT ![r] = l] /\ slots' = slots - 1 /\ l \notin Stages
  BY DEF Return, Goto, Finished, Stages
<1> QED BY <1>1, HoldersMove DEF SlotAccounting

LEMMA InitEstablishes == Init => IInv
<1> SUFFICES ASSUME Init PROVE IInv
  OBVIOUS
<1>1. TypeOK
  BY ExecutorAssumption DEF Init, ExecInit, TypeOK
<1>2. SlotAccounting
  <2>1. Holders = {}
    BY DEF Init, ExecInit, Holders, Stages
  <2> QED BY <2>1, FS_EmptySet DEF Init, ExecInit, SlotAccounting
<1>3. RetryLeft /\ ResultPending /\ HandedOverClosed
  BY DEF Init, ExecInit, RetryLeft, ResultPending, HandedOverClosed, Terminal
<1> QED BY <1>1, <1>2, <1>3 DEF IInv

-------------------------------------------------------------------------------
(* The steps of a call fall into four shapes, one lemma each.               *)

Quiet == UNCHANGED <<run, reported, faults>>

\* Steps that write no row: the call moves, at most its slot changes.
LEMMA MovePreserves ==
  ASSUME IInv, Quiet, NEW r \in Runs,
         Call(r) \/ Acquire(r) \/ GiveUp(r) \/ Attempt(r) \/ Retry(r)
  PROVE  IInv'
<1> USE DEF Goto
<1>1. TypeOK'
  <2>1. CASE Call(r) \/ GiveUp(r)
    BY <2>1 DEF IInv, TypeOK, Quiet, Call, GiveUp, Finished
  <2>2. CASE Acquire(r)
    BY <2>2, ExecutorAssumption DEF IInv, TypeOK, Quiet, Acquire, Stages
  <2>3. CASE AttemptSucceeds(r)
    BY <2>3 DEF IInv, TypeOK, Quiet, AttemptSucceeds, Stages
  <2>4. CASE \E e \in Failures : AttemptFails(r, e)
    BY <2>4 DEF IInv, TypeOK, Quiet, AttemptFails, Stages
  <2>5. CASE Retry(r)
    <3>1. attempt[r] + 1 \in 0 .. MaxRetries
      BY <2>5, ExecutorAssumption DEF IInv, TypeOK, RetryLeft, Retry
    <3> QED BY <2>5, <3>1 DEF IInv, TypeOK, Quiet, Retry, Stages
  <2> QED BY <2>1, <2>2, <2>3, <2>4, <2>5 DEF Attempt
<1>2. SlotAccounting'
  <2>1. CASE Acquire(r)
    BY <2>1, HoldersMove DEF IInv, SlotAccounting, Acquire, Stages
  <2>2. CASE Call(r) \/ GiveUp(r)
    BY <2>2, HoldersMove DEF IInv, SlotAccounting, Call, GiveUp, Stages
  <2>3. CASE AttemptSucceeds(r)
    BY <2>3, HoldersMove DEF IInv, SlotAccounting, AttemptSucceeds, Stages
  <2>4. CASE \E e \in Failures : AttemptFails(r, e)
    BY <2>4, HoldersMove DEF IInv, SlotAccounting, AttemptFails, Stages
  <2>5. CASE Retry(r)
    BY <2>5, HoldersMove DEF IInv, SlotAccounting, Retry, Stages
  <2> QED BY <2>1, <2>2, <2>3, <2>4, <2>5 DEF Attempt
<1>3. RetryLeft' /\ ResultPending'
  <2>1. RetryLeft'
    BY DEF IInv, TypeOK, RetryLeft, Call, Acquire, GiveUp, Attempt, AttemptSucceeds,
           AttemptFails, Retry
  <2>2. ResultPending'
    BY DEF IInv, TypeOK, Quiet, ResultPending, Undecided, Call, Acquire, GiveUp, Attempt,
           AttemptSucceeds, AttemptFails, Retry
  <2> QED BY <2>1, <2>2
<1>4. HandedOverClosed'
  BY DEF IInv, TypeOK, Quiet, HandedOverClosed, Call, Acquire, GiveUp, Attempt,
         AttemptSucceeds, AttemptFails, Retry
<1> QED BY <1>1, <1>2, <1>3, <1>4 DEF IInv

\* Steps that write the row of the call, successfully or not.
LEMMA WritePreserves ==
  ASSUME IInv, NEW r \in Runs, NEW ok \in BOOLEAN, Writes(r, ok), WriteOutcome(r, ok)
  PROVE  IInv'
<1> USE DEF Goto, Return, Write
<1>1. /\ UNCHANGED <<attempt, lastErr, ctx, reported>>
      /\ faults \in Nat /\ faults' \in 0 .. MaxFaults /\ faults' >= faults
      /\ ~ ok => (faults' > 0 \/ ctx[r] = "canceled")
  BY ExecutorAssumption
  DEF IInv, TypeOK, WriteOutcome, Fault, Writes, CreateRun, MarkRunning, CompleteSuccess,
      CompleteFailed, EnqueueDelivery
<1>2. SlotAccounting'
  <2>1. CASE CreateRun(r, ok)
    <3>1. pc[r] \in Stages /\ "start" \in Stages /\ "not_run" \in Finished
      BY <2>1 DEF CreateRun, Stages, Finished
    <3> HIDE DEF Goto, Return
    <3> QED BY <2>1, <3>1, SlotKept, SlotFreed DEF IInv, CreateRun
  <2>2. CASE MarkRunning(r, ok)
    <3>1. pc[r] \in Stages /\ "call" \in Stages
      BY <2>2 DEF MarkRunning, Stages
    <3> HIDE DEF Goto, Return
    <3> QED BY <2>2, <3>1, SlotKept DEF IInv, MarkRunning
  <2>3. CASE CompleteSuccess(r, ok)
    <3>1. pc[r] \in Stages /\ "succeeded" \in Finished
      BY <2>3 DEF CompleteSuccess, Stages, Finished
    <3> HIDE DEF Goto, Return
    <3> QED BY <2>3, <3>1, SlotFreed DEF IInv, CompleteSuccess
  <2>4. CASE CompleteFailed(r, ok)
    <3>1. pc[r] \in Stages /\ "enqueue" \in Stages /\ "failed" \in Finished
      BY <2>4 DEF CompleteFailed, Stages, Finished
    <3> HIDE DEF Goto, Return
    <3> QED BY <2>4, <3>1, SlotKept, SlotFreed DEF IInv, CompleteFailed
  <2>5. CASE EnqueueDelivery(r, ok)
    <3>1. pc[r] \in Stages /\ "failed" \in Finished
      BY <2>5 DEF EnqueueDelivery, Stages, Finished
    <3> HIDE DEF Goto, Return
    <3> QED BY <2>5, <3>1, SlotFreed DEF IInv, EnqueueDelivery
  <2> QED BY <2>1, <2>2, <2>3, <2>4, <2>5 DEF Writes
<1>3. slots' \in 0 .. MaxConcurrentTasks
  <2>1. slots' \in {slots, slots - 1}
    BY DEF Writes, CreateRun, MarkRunning, CompleteSuccess, CompleteFailed, EnqueueDelivery
  <2>2. slots' \in Nat
    <3>1. IsFiniteSet(Holders')
      BY ExecutorAssumption, FS_Subset DEF Holders
    <3> QED BY <1>2, <3>1, FS_CardinalityType DEF SlotAccounting
  <2> QED BY <2>1, <2>2, ExecutorAssumption DEF IInv, TypeOK
<1>4. TypeOK'
  <2>1. pc' \in [Runs -> Stages \cup Finished \cup {"idle", "waiting"}]
    BY DEF IInv, TypeOK, Stages, Finished, Writes, CreateRun, MarkRunning, CompleteSuccess,
           CompleteFailed, EnqueueDelivery
  <2>2. run' \in [Runs -> TaskStatus \cup {"absent"}]
    BY DEF IInv, TypeOK, TaskStatus, Terminal, Writes, CreateRun, MarkRunning,
           CompleteSuccess, CompleteFailed, EnqueueDelivery
  <2> QED BY <1>1, <1>3, <2>1, <2>2 DEF IInv, TypeOK
<1>5. RetryLeft' /\ ResultPending'
  <2>1. RetryLeft'
    BY <1>1 DEF IInv, TypeOK, RetryLeft, Writes, CreateRun, MarkRunning, CompleteSuccess,
                CompleteFailed, EnqueueDelivery
  <2>2. ResultPending'
    BY <1>1 DEF IInv, TypeOK, ResultPending, Undecided, Terminal, Writes, CreateRun,
                MarkRunning, CompleteSuccess, CompleteFailed, EnqueueDelivery
  <2> QED BY <2>1, <2>2
<1>6. HandedOverClosed'
  BY <1>1 DEF IInv, TypeOK, HandedOverClosed, Terminal, Writes, CreateRun,
              MarkRunning, CompleteSuccess, CompleteFailed, EnqueueDelivery
<1> QED BY <1>2, <1>4, <1>5, <1>6 DEF IInv

LEMMA CancelPreserves ==
  ASSUME IInv, NEW r \in Runs, Cancel(r), UNCHANGED faults
  PROVE  IInv'
<1> USE DEF Cancel
<1>1. TypeOK'
  BY DEF IInv, TypeOK
<1>2. SlotAccounting' /\ RetryLeft' /\ ResultPending' /\ HandedOverClosed'
  BY DEF IInv, TypeOK, SlotAccounting, Holders, RetryLeft, ResultPending, HandedOverClosed
<1> QED BY <1>1, <1>2 DEF IInv

LEMMA ReportPreserves ==
  ASSUME IInv, NEW r \in WebhookRuns, NEW s \in {"success", "failed"}, Report(r, s),
         UNCHANGED faults
  PROVE  IInv'
<1> USE DEF Report
<1>1. TypeOK'
  BY ExecutorAssumption DEF IInv, TypeOK, TaskStatus, Terminal
<1>2. SlotAccounting'
  BY DEF IInv, SlotAccounting, Holders
<1>3. RetryLeft' /\ ResultPending' /\ HandedOverClosed'
  BY ExecutorAssumption DEF IInv, TypeOK, RetryLeft, ResultPending, HandedOverClosed, Terminal
<1> QED BY <1>1, <1>2, <1>3 DEF IInv

LEMMA CrashPreserves ==
  ASSUME IInv, CrashExecutor, Fault
  PROVE  IInv'
<1> USE DEF CrashExecutor, Fault
<1>1. TypeOK'
  BY ExecutorAssumption DEF IInv, TypeOK, Stages, Finished
<1>2. SlotAccounting'
  <2>1. Holders' = {}
    BY DEF Holders, Stages
  <2> QED BY <2>1, FS_EmptySet DEF SlotAccounting
<1>3. RetryLeft' /\ ResultPending'
  BY DEF IInv, TypeOK, RetryLeft, ResultPending, Undecided, Stages
<1>4. HandedOverClosed'
  BY ExecutorAssumption DEF IInv, TypeOK, HandedOverClosed, Stages
<1> QED BY <1>1, <1>2, <1>3, <1>4 DEF IInv

LEMMA StepPreserves == IInv /\ [Next]_vars => IInv'
<1> SUFFICES ASSUME IInv, [Next]_vars PROVE IInv'
  OBVIOUS
<1>1. ASSUME NEW r \in Runs, UNCHANGED faults,
             Call(r) \/ Acquire(r) \/ GiveUp(r) \/ Attempt(r) \/ Retry(r)
      PROVE  IInv'
  <2>1. Quiet
    BY <1>1 DEF Quiet, Call, Acquire, GiveUp, Attempt, AttemptSucceeds, AttemptFails, Retry
  <2> QED BY <1>1, <2>1, MovePreserves
<1>2. CASE UNCHANGED vars
  BY <1>2 DEF vars, IInv, TypeOK, SlotAccounting, Holders, RetryLeft, ResultPending,
              HandedOverClosed
<1> QED
  BY <1>1, <1>2, WritePreserves, CancelPreserves, ReportPreserves, CrashPreserves DEF Next

\* The inductive invariant holds in every reachable state.
THEOREM Inductive == Spec => []IInv
BY InitEstablishes, StepPreserves, PTL DEF Spec, Safety

\* Type correctness: in particular no more calls hold a slot than there are.
THEOREM TypeCorrect == Spec => []TypeOK
BY Inductive, PTL DEF IInv

\* For any number of calls, no slot leaks and none is freed twice.
THEOREM SlotsAccounted == Spec => []SlotAccounting
BY Inductive, PTL DEF IInv

\* A run is left open by a fault or a hang-up only.
THEOREM RunsAreClosed == Spec => []NoRunLeftOpen
<1>1. IInv => NoRunLeftOpen
  BY DEF IInv, HandedOverClosed, NoRunLeftOpen
<1> QED BY <1>1, Inductive, PTL

\* Execute never overwrites a result that it has recorded itself.
THEOREM OwnResultStays == Spec => OwnResultIsFinal
<1>1. IInv /\ [Next]_vars =>
        [\A r \in Runs : (run[r] \in Terminal /\ run'[r] # run[r]) => reported'[r] # "none"]_vars
  <2> SUFFICES ASSUME IInv, [Next]_vars, NEW r \in Runs, run[r] \in Terminal, run'[r] # run[r]
               PROVE  reported'[r] # "none"
    OBVIOUS
  <2>1. CASE \E q \in Runs, ok \in BOOLEAN : Writes(q, ok) /\ WriteOutcome(q, ok)
    <3>1. PICK q \in Runs, ok \in BOOLEAN : Writes(q, ok)
      BY <2>1
    <3>2. r = q /\ pc[r] \in Undecided /\ reported' = reported
      BY <3>1 DEF IInv, TypeOK, Undecided, Writes, CreateRun, MarkRunning, CompleteSuccess,
                  CompleteFailed, EnqueueDelivery, Write
    <3> QED BY <3>2 DEF IInv, ResultPending
  <2>2. CASE \E q \in WebhookRuns, s \in {"success", "failed"} : Report(q, s)
    BY <2>2, ExecutorAssumption DEF Report, IInv, TypeOK
  <2> QED
    BY <2>1, <2>2 DEF Next, vars, Call, Acquire, GiveUp, Attempt, AttemptSucceeds,
                      AttemptFails, Retry, Cancel, CrashExecutor
<1> QED BY <1>1, Inductive, PTL DEF Spec, Safety, OwnResultIsFinal

-------------------------------------------------------------------------------
(* The schedule.                                                           *)

\* The holder of the mutex has written the row of t and not yet its entry.
Placing(t) == \E c \in Clients : req[c].stage = "place" /\ req[c].task = t

\* A request that has still to place a job holds the mutex, and only such a
\* request does.
MutexHeld == \A c \in Clients : mutex = c <=> req[c].stage = "place"

\* Two entries of the engine never have the same id.
UniqueIds == \A e, f \in engine : e.id = f.id => e = f

\* What is not registered is nowhere.
UnbornAbsent ==
  \A t \in Tasks \ born :
    /\ db[t] = {} /\ snap[t] = {} /\ entries[t] = NoEntry
    /\ \A c \in Clients : req[c].stage \in {"write", "place"} => req[c].task # t

\* The row that a request is about to place is the one in the table.
PlacedRow == \A c \in Clients : req[c].stage = "place" => db[req[c].task] \subseteq {req[c].row}

\* The rows of t in the table and in the hands of requests.
Held(t) == {row \in Row :
              \/ row \in db[t]
              \/ \E c \in Clients : /\ req[c].stage \in {"write", "place"}
                                    /\ req[c].task = t /\ req[c].row = row}

\* A row inserted by hand, which has only the column cron.
Handmade(row) == row.schedule = NoExpr /\ row.cron # NoExpr

\* All handmade copies of a row say the same.
HandmadeAgree ==
  \A t \in Tasks : \A r, s \in Held(t) : (Handmade(r) /\ Handmade(s)) => r.cron = s.cron

\* The engine agrees with the row of t: disabled, the expression, enabled; and
\* with the expression that a handmade copy could bring back into the row.
Agrees(t) ==
  \A row \in db[t] :
    /\ ~ row.enabled => JobsFor(t) = {}
    /\ ExprOf(row) # NoExpr => \A e \in JobsFor(t) : e.expr = ExprOf(row)
    /\ (t \notin unsynced /\ row.enabled /\ row.schedule \in GoodExprs) => JobsFor(t) # {}
    /\ row.schedule = NoExpr
         => \A r \in Held(t) : Handmade(r) => \A e \in JobsFor(t) : e.expr = r.cron

OthersAgree == \A t \in Tasks : Placing(t) \/ Agrees(t)

\* What the clock recovery has read is still what the table says, except for
\* rows deleted or inserted by the command line since.
SnapCurrent ==
  mutex = Clock =>
    \A t \in Tasks : \A row \in db[t] :
      /\ snap[t] \subseteq {row}
      /\ \A r \in snap[t] : r.enabled /\ ExprOf(r) # NoExpr
      /\ (row.enabled /\ ExprOf(row) # NoExpr /\ snap[t] = {})
           => t \in unsynced /\ JobsFor(t) = {}

ScheduleIInv ==
  /\ ScheduleTypeOK
  /\ EntriesMatchEngine /\ UniqueIds
  /\ MutexHeld /\ UnbornAbsent /\ PlacedRow
  /\ HandmadeAgree
  /\ OthersAgree
  /\ SnapCurrent

-------------------------------------------------------------------------------
(* Rows, tables, and engines built from them.                               *)

LEMMA ExprTypes ==
  ASSUME NEW row \in Row
  PROVE  /\ row.schedule \in Exprs /\ row.cron \in Exprs /\ row.enabled \in BOOLEAN
         /\ row.hook \in Hooks /\ ExprOf(row) \in Exprs
         /\ row.schedule # NoExpr => ExprOf(row) = row.schedule
         /\ row.schedule = NoExpr => ExprOf(row) = row.cron
         /\ NoExpr \notin GoodExprs
BY ScheduleAssumption DEF Row, ExprOf

\* A table holds at most one row for a task; GetScheduledTasks is a table.
LEMMA TableRows ==
  ASSUME NEW rows \in Tables, NEW t \in Tasks
  PROVE  /\ rows[t] \subseteq Row
         /\ \A r, s \in rows[t] : r = s
         /\ \A r \in rows[t] : rows[t] = {r}
BY DEF Tables

LEMMA ScheduledTables ==
  ASSUME db \in Tables
  PROVE  /\ ScheduledRows \in Tables
         /\ \A t \in Tasks : \A row \in Row :
              row \in ScheduledRows[t] <=> row \in db[t] /\ row.enabled /\ ExprOf(row) # NoExpr
         /\ \A t \in Tasks : ScheduledRows[t] \subseteq db[t]
<1>1. \A t \in Tasks : ScheduledRows[t] \subseteq db[t]
  BY DEF ScheduledRows
<1>2. \A t \in Tasks : ScheduledRows[t] \in {{}} \cup {{row} : row \in Row}
  <2> TAKE t \in Tasks
  <2>1. db[t] = {} \/ \E row \in Row : db[t] = {row}
    BY DEF Tables
  <2>2. CASE db[t] = {}
    BY <1>1, <2>2
  <2>3. CASE \E row \in Row : db[t] = {row}
    <3>1. PICK row \in Row : db[t] = {row}
      BY <2>3
    <3>2. ScheduledRows[t] = {} \/ ScheduledRows[t] = {row}
      BY <1>1, <3>1
    <3> QED BY <3>2
  <2> QED BY <2>1, <2>2, <2>3
<1>3. ScheduledRows \in Tables
  BY <1>2 DEF Tables, ScheduledRows
<1> QED BY <1>1, <1>3, TableRows DEF ScheduledRows

\* The engine built from a table: its entries are those of the rows that
\* parse, with ids of their own.
LEMMA Built ==
  ASSUME NEW rows \in Tables, NEW ids \in Injection(Parsed(rows), EntryIds)
  PROVE  /\ EngineOf(rows, ids) \in SUBSET Jobs
         /\ EntriesOf(ids) \in [Tasks -> EntryIds \cup {NoEntry}]
         /\ \A e \in EngineOf(rows, ids) :
              /\ e.task \in Parsed(rows) /\ e.id = ids[e.task] /\ EntriesOf(ids)[e.task] = e.id
              /\ \E row \in rows[e.task] : e.expr = ExprOf(row)
         /\ \A e, f \in EngineOf(rows, ids) : e.id = f.id => e = f
         /\ \A t \in Tasks : EntriesOf(ids)[t] # NoEntry => t \in Parsed(rows)
         /\ \A t \in Parsed(rows) :
              \E e \in EngineOf(rows, ids) : e.task = t /\ e.id = EntriesOf(ids)[t]
<1>1. /\ ids \in [Parsed(rows) -> EntryIds] /\ DOMAIN ids = Parsed(rows)
      /\ \A a, b \in Parsed(rows) : ids[a] = ids[b] => a = b
  BY DEF Injection, IsInjective
<1>2. Parsed(rows) \subseteq Tasks
  BY DEF Parsed
<1>3. \A t \in Parsed(rows) : \A row \in rows[t] : row \in Row /\ ExprOf(row) \in GoodExprs
  BY <1>2, TableRows DEF Parsed
<1>4. \A e : e \in EngineOf(rows, ids)
               <=> \E t \in Parsed(rows) : \E row \in rows[t] : e = JobOf(t, row, ids[t])
  BY <1>1 DEF EngineOf
<1>5. \A t \in Parsed(rows) : \A row \in rows[t] :
        /\ JobOf(t, row, ids[t]) \in Jobs
        /\ JobOf(t, row, ids[t]).task = t /\ JobOf(t, row, ids[t]).id = ids[t]
        /\ JobOf(t, row, ids[t]).expr = ExprOf(row)
  BY <1>1, <1>2, <1>3, ExprTypes DEF JobOf, Jobs
<1>6. EntriesOf(ids) \in [Tasks -> EntryIds \cup {NoEntry}]
  BY <1>1 DEF EntriesOf
<1>7. \A t \in Tasks : EntriesOf(ids)[t] = IF t \in Parsed(rows) THEN ids[t] ELSE NoEntry
  BY <1>1 DEF EntriesOf
<1>8. \A e \in EngineOf(rows, ids) :
         /\ e.task \in Parsed(rows) /\ e.id = ids[e.task] /\ EntriesOf(ids)[e.task] = e.id
         /\ \E row \in rows[e.task] : e = JobOf(e.task, row, ids[e.task]) /\ e.expr = ExprOf(row)
  BY <1>2, <1>4, <1>5, <1>7
<1>9. \A e, f \in EngineOf(rows, ids) : e.id = f.id => e = f
  <2> SUFFICES ASSUME NEW e \in EngineOf(rows, ids), NEW f \in EngineOf(rows, ids), e.id = f.id
               PROVE  e = f
    OBVIOUS
  <2>1. e.task = f.task /\ e.task \in Tasks
    BY <1>1, <1>2, <1>8
  <2>2. \A r, s \in rows[e.task] : r = s
    BY <2>1, TableRows
  <2> QED BY <1>8, <2>1, <2>2
<1>10. \A t \in Parsed(rows) :
         \E e \in EngineOf(rows, ids) : e.task = t /\ e.id = EntriesOf(ids)[t]
  <2> TAKE t \in Parsed(rows)
  <2>1. PICK row \in rows[t] : TRUE
    BY DEF Parsed
  <2>2. JobOf(t, row, ids[t]) \in EngineOf(rows, ids)
    BY <1>4
  <2> QED BY <1>2, <1>5, <1>7, <2>1, <2>2
<1>11. EngineOf(rows, ids) \in SUBSET Jobs
  BY <1>4, <1>5
<1> QED BY <1>6, <1>7, <1>8, <1>9, <1>10, <1>11

\* The parts of ScheduleIInv about engine and map alone, for any engine and map.
LEMMA BuildFromEstablishes ==
  ASSUME NEW rows \in Tables, BuildFrom(rows)
  PROVE  /\ engine' \in SUBSET Jobs /\ entries' \in [Tasks -> EntryIds \cup {NoEntry}]
         /\ EntriesMatchEngine' /\ UniqueIds'
         /\ \A t \in Tasks : \A e \in JobsFor(t)' : \E row \in rows[t] : e.expr = ExprOf(row)
         /\ \A t \in Tasks : entries'[t] # NoEntry => rows[t] # {}
         /\ \A t \in Tasks : (\E row \in rows[t] : ExprOf(row) \in GoodExprs) => JobsFor(t)' # {}
<1>1. PICK ids \in Injection(Parsed(rows), EntryIds) :
         engine' = EngineOf(rows, ids) /\ entries' = EntriesOf(ids)
  BY DEF BuildFrom
<1>2. Parsed(rows) \subseteq Tasks /\ \A t \in Tasks : t \in Parsed(rows)
                                        <=> \E row \in rows[t] : ExprOf(row) \in GoodExprs
  BY DEF Parsed
<1> QED BY <1>1, <1>2, Built DEF EntriesMatchEngine, UniqueIds, JobsFor

\* Taking the entry of t out of the engine takes out the jobs of t.
LEMMA WithoutRemoves ==
  ASSUME ScheduleTypeOK, EntriesMatchEngine, UniqueIds, NEW t \in Tasks
  PROVE  \A e : e \in Without(t) <=> e \in engine /\ e.task # t
<1>1. \A e \in engine : e.id \in EntryIds /\ e.id # NoEntry
  BY ScheduleAssumption DEF ScheduleTypeOK, Jobs
<1>2. \A e \in engine : e.task = t => e.id = entries[t]
  BY DEF EntriesMatchEngine
<1>3. \A e \in engine : e.id = entries[t] => e.task = t
  BY <1>1 DEF EntriesMatchEngine, UniqueIds
<1> QED BY <1>2, <1>3 DEF Without

-------------------------------------------------------------------------------
LEMMA ScheduleInitEstablishes == ScheduleInit => ScheduleIInv
<1> SUFFICES ASSUME ScheduleInit PROVE ScheduleIInv
  OBVIOUS
<1>1. db \in Tables
  BY DEF ScheduleInit, Tables, HandmadeRows
<1>2. ScheduledRows \in Tables
      /\ \A t \in Tasks : \A row \in Row :
           row \in ScheduledRows[t] <=> row \in db[t] /\ row.enabled /\ ExprOf(row) # NoExpr
  BY <1>1, ScheduledTables
<1>3. PICK ids \in Injection(Parsed(ScheduledRows), EntryIds) :
        engine = EngineOf(ScheduledRows, ids) /\ entries = EntriesOf(ids)
  BY DEF ScheduleInit
<1>4. NoRows \in Tables
  BY DEF NoRows, Tables
<1>5. ScheduleTypeOK
  BY <1>1, <1>2, <1>3, <1>4, Built DEF ScheduleInit, ScheduleTypeOK, Requests, Idle
<1>6. EntriesMatchEngine /\ UniqueIds
  BY <1>2, <1>3, Built DEF EntriesMatchEngine, UniqueIds, Parsed
<1>7. MutexHeld /\ PlacedRow /\ SnapCurrent
  BY ScheduleAssumption DEF ScheduleInit, MutexHeld, PlacedRow, SnapCurrent, Idle
<1>8. UnbornAbsent
  <2>1. \A t \in Tasks \ born : ScheduledRows[t] = {}
    BY <1>1, ScheduledTables DEF ScheduleInit
  <2>2. \A t \in Tasks \ born : entries[t] = NoEntry
    BY <1>2, <1>3, <2>1, Built DEF Parsed
  <2> QED BY <2>2 DEF ScheduleInit, UnbornAbsent, NoRows, Idle
<1>9. \A t \in Tasks : Held(t) \subseteq db[t]
  BY DEF ScheduleInit, Held, Idle
<1>10. HandmadeAgree
  BY <1>1, <1>9, TableRows DEF HandmadeAgree
<1>11. OthersAgree
  <2> SUFFICES ASSUME NEW t \in Tasks PROVE Agrees(t)
    BY DEF OthersAgree
  <2>1. \A e \in JobsFor(t) : \E row \in ScheduledRows[t] : e.expr = ExprOf(row)
    BY <1>2, <1>3, Built DEF JobsFor
  <2>2. (\E row \in ScheduledRows[t] : ExprOf(row) \in GoodExprs) => JobsFor(t) # {}
    BY <1>2, <1>3, Built DEF JobsFor, Parsed
  <2> QED BY <1>1, <1>2, <1>9, <2>1, <2>2, TableRows, ExprTypes DEF Agrees, Handmade
<1> QED BY <1>5, <1>6, <1>7, <1>8, <1>10, <1>11 DEF ScheduleIInv

-------------------------------------------------------------------------------
(* Steps that rebuild the engine from the table.                            *)

LEMMA RestartPreserves ==
  ASSUME ScheduleIInv, Restart
  PROVE  ScheduleIInv'
<1> USE DEF ScheduleIInv, Restart
<1>1. db \in Tables /\ ScheduledRows \in Tables
  BY ScheduledTables DEF ScheduleTypeOK
<1>2. /\ engine' \in SUBSET Jobs /\ entries' \in [Tasks -> EntryIds \cup {NoEntry}]
      /\ EntriesMatchEngine' /\ UniqueIds'
      /\ \A t \in Tasks : \A e \in JobsFor(t)' : \E row \in ScheduledRows[t] : e.expr = ExprOf(row)
      /\ \A t \in Tasks : entries'[t] # NoEntry => ScheduledRows[t] # {}
      /\ \A t \in Tasks : (\E row \in ScheduledRows[t] : ExprOf(row) \in GoodExprs) => JobsFor(t)' # {}
  BY <1>1, BuildFromEstablishes
<1>3. \A t \in Tasks : \A row \in Row :
        row \in ScheduledRows[t] <=> row \in db[t] /\ row.enabled /\ ExprOf(row) # NoExpr
  BY <1>1, ScheduledTables
<1>4. NoRows \in Tables /\ \A t \in Tasks : NoRows[t] = {}
  BY DEF NoRows, Tables
<1>5. ScheduleTypeOK'
  BY <1>2, <1>4 DEF ScheduleTypeOK, Requests, Idle
<1>6. MutexHeld' /\ PlacedRow' /\ SnapCurrent'
  BY ScheduleAssumption DEF MutexHeld, PlacedRow, SnapCurrent, Idle
<1>7. UnbornAbsent'
  <2>1. \A t \in Tasks \ born : ScheduledRows[t] = {}
    BY <1>1, ScheduledTables DEF UnbornAbsent
  <2> QED BY <1>2, <1>4, <2>1 DEF UnbornAbsent, Idle
<1>8. \A t \in Tasks : Held(t)' \subseteq db[t]
  BY DEF Held, Idle
<1>9. HandmadeAgree'
  BY <1>1, <1>8, TableRows DEF HandmadeAgree
<1>10. OthersAgree'
  <2> SUFFICES ASSUME NEW t \in Tasks PROVE Agrees(t)'
    BY DEF OthersAgree
  <2> QED BY <1>1, <1>2, <1>3, <1>8, TableRows, ExprTypes DEF Agrees, Handmade
<1> QED BY <1>2, <1>5, <1>6, <1>7, <1>9, <1>10

LEMMA RecoverReadPreserves ==
  ASSUME ScheduleIInv, RecoverRead
  PROVE  ScheduleIInv'
<1> USE DEF ScheduleIInv, RecoverRead, Free
<1>1. /\ db \in Tables /\ ScheduledRows \in Tables
      /\ \A t \in Tasks : ScheduledRows[t] \subseteq db[t]
      /\ \A t \in Tasks : \A row \in Row :
           row \in ScheduledRows[t] <=> row \in db[t] /\ row.enabled /\ ExprOf(row) # NoExpr
  BY ScheduledTables DEF ScheduleTypeOK
<1>2. ScheduleTypeOK'
  BY <1>1 DEF ScheduleTypeOK
<1>3. EntriesMatchEngine' /\ UniqueIds' /\ PlacedRow' /\ HandmadeAgree'
  BY DEF EntriesMatchEngine, UniqueIds, PlacedRow, HandmadeAgree, Held
<1>4. MutexHeld' /\ UnbornAbsent'
  BY <1>1, ScheduleAssumption DEF MutexHeld, UnbornAbsent
<1>5. OthersAgree'
  BY DEF OthersAgree, Placing, Agrees, JobsFor, Held
<1>6. SnapCurrent'
  <2> SUFFICES ASSUME NEW t \in Tasks, NEW row \in db[t]
               PROVE  /\ ScheduledRows[t] \subseteq {row}
                      /\ \A r \in ScheduledRows[t] : r.enabled /\ ExprOf(r) # NoExpr
                      /\ (row.enabled /\ ExprOf(row) # NoExpr) => ScheduledRows[t] # {}
    BY DEF SnapCurrent
  <2>1. row \in Row /\ db[t] = {row}
    BY <1>1, TableRows
  <2> QED BY <1>1, <2>1
<1> QED BY <1>2, <1>3, <1>4, <1>5, <1>6

LEMMA RecoverSwapPreserves ==
  ASSUME ScheduleIInv, RecoverSwap
  PROVE  ScheduleIInv'
<1> USE DEF ScheduleIInv, RecoverSwap
<1>1. db \in Tables /\ snap \in Tables /\ \A c \in Clients : req[c].stage # "place"
  BY ScheduleAssumption DEF ScheduleTypeOK, MutexHeld
<1>2. NoRows \in Tables /\ \A t \in Tasks : NoRows[t] = {}
  BY DEF NoRows, Tables
<1>3. MutexHeld' /\ PlacedRow' /\ HandmadeAgree' /\ SnapCurrent'
  BY <1>1, ScheduleAssumption DEF MutexHeld, PlacedRow, HandmadeAgree, Held, SnapCurrent
<1>4. \A t \in Tasks : Agrees(t)
  BY <1>1 DEF OthersAgree, Placing
<1>5. CASE ~ AllParse(snap)
  <2>1. ScheduleTypeOK'
    BY <1>2, <1>5 DEF ScheduleTypeOK
  <2>2. EntriesMatchEngine' /\ UniqueIds' /\ UnbornAbsent'
    BY <1>2, <1>5 DEF EntriesMatchEngine, UniqueIds, UnbornAbsent
  <2>3. OthersAgree'
    BY <1>4, <1>5 DEF OthersAgree, Agrees, JobsFor, Held
  <2> QED BY <1>3, <2>1, <2>2, <2>3
<1>6. CASE AllParse(snap)
  <2>1. /\ engine' \in SUBSET Jobs /\ entries' \in [Tasks -> EntryIds \cup {NoEntry}]
        /\ EntriesMatchEngine' /\ UniqueIds'
        /\ \A t \in Tasks : \A e \in JobsFor(t)' : \E row \in snap[t] : e.expr = ExprOf(row)
        /\ \A t \in Tasks : entries'[t] # NoEntry => snap[t] # {}
        /\ \A t \in Tasks : (\E row \in snap[t] : ExprOf(row) \in GoodExprs) => JobsFor(t)' # {}
    BY <1>1, <1>6, BuildFromEstablishes
  <2>2. unsynced' = {t \in unsynced : snap[t] = {}}
    BY <1>6
  <2>3. ScheduleTypeOK'
    BY <1>2, <2>1, <2>2 DEF ScheduleTypeOK
  <2>4. UnbornAbsent'
    BY <1>2, <2>1 DEF UnbornAbsent
  <2>5. OthersAgree'
    <3> SUFFICES ASSUME NEW t \in Tasks PROVE Agrees(t)'
      BY DEF OthersAgree
    <3> SUFFICES ASSUME NEW row \in db[t]
                 PROVE  /\ ~ row.enabled => JobsFor(t)' = {}
                        /\ ExprOf(row) # NoExpr => \A e \in JobsFor(t)' : e.expr = ExprOf(row)
                        /\ (t \notin unsynced' /\ row.enabled /\ row.schedule \in GoodExprs)
                              => JobsFor(t)' # {}
                        /\ row.schedule = NoExpr
                              => \A r \in Held(t) : Handmade(r) => \A e \in JobsFor(t)' : e.expr = r.cron
      BY DEF Agrees, Held
    <3>1. row \in Row /\ db[t] = {row}
      BY <1>1, TableRows
    <3>2. /\ snap[t] \subseteq {row}
          /\ \A r \in snap[t] : r.enabled /\ ExprOf(r) # NoExpr
          /\ (row.enabled /\ ExprOf(row) # NoExpr /\ snap[t] = {}) => t \in unsynced
      BY DEF SnapCurrent
    <3>3. \A e \in JobsFor(t)' : row.enabled /\ ExprOf(row) # NoExpr /\ e.expr = ExprOf(row)
      BY <2>1, <3>2
    <3>4. (t \notin unsynced' /\ row.enabled /\ row.schedule \in GoodExprs) => JobsFor(t)' # {}
      <4> SUFFICES ASSUME t \notin unsynced', row.enabled, row.schedule \in GoodExprs
                   PROVE  JobsFor(t)' # {}
        OBVIOUS
      <4>1. ExprOf(row) \in GoodExprs /\ ExprOf(row) # NoExpr
        BY <3>1, ExprTypes
      <4>2. snap[t] # {}
        BY <2>2, <3>2, <4>1
      <4>3. row \in snap[t]
        BY <3>2, <4>2
      <4> QED BY <2>1, <4>1, <4>3
    <3>5. row \in Held(t)
      BY <3>1 DEF Held
    <3>6. row.schedule = NoExpr
            => \A r \in Held(t) : Handmade(r) => \A e \in JobsFor(t)' : e.expr = r.cron
      BY <3>1, <3>3, <3>5, ExprTypes DEF HandmadeAgree, Handmade
    <3> QED BY <3>3, <3>4, <3>6
  <2> QED BY <1>3, <2>1, <2>3, <2>4, <2>5
<1> QED BY <1>5, <1>6

-------------------------------------------------------------------------------
(* Steps that leave the engine alone.                                       *)

\* Rows only disappear, and so do the copies of them: what agreed still does.
LEMMA StillAgrees ==
  ASSUME NEW t \in Tasks, Agrees(t), UNCHANGED engine,
         db'[t] \subseteq db[t], Held(t)' \subseteq Held(t),
         t \in unsynced => t \in unsynced'
  PROVE  Agrees(t)'
BY DEF Agrees, JobsFor

LEMMA ReadTaskPreserves ==
  ASSUME ScheduleIInv, NEW c \in Clients, NEW t \in Tasks, NEW e \in Edits, ReadTask(c, t, e)
  PROVE  ScheduleIInv'
<1> USE DEF ScheduleIInv, ReadTask
<1>1. PICK row \in db[t] :
        req' = [req EXCEPT ![c] = [stage |-> "write", task |-> t, row |-> Edited(row, e), edit |-> e]]
  OBVIOUS
<1>2. row \in Row
  BY TableRows DEF ScheduleTypeOK
<1>3. /\ Edited(row, e) \in Row
      /\ Handmade(Edited(row, e)) => Handmade(row) /\ Edited(row, e).cron = row.cron
  BY <1>2 DEF Edits, Edited, Row, Handmade
<1>4. /\ req \in [Clients -> Requests] /\ req' \in [Clients -> Requests]
      /\ req[c].stage = "idle"
      /\ req'[c] = [stage |-> "write", task |-> t, row |-> Edited(row, e), edit |-> e]
      /\ \A d \in Clients \ {c} : req'[d] = req[d]
  BY <1>1, <1>3 DEF ScheduleTypeOK, Requests, Idle
<1>5. ScheduleTypeOK'
  BY <1>4 DEF ScheduleTypeOK
<1>6. EntriesMatchEngine' /\ UniqueIds' /\ SnapCurrent'
  BY DEF EntriesMatchEngine, UniqueIds, SnapCurrent, JobsFor
<1>7. MutexHeld' /\ PlacedRow'
  BY <1>4 DEF MutexHeld, PlacedRow
<1>8. UnbornAbsent'
  BY <1>4 DEF UnbornAbsent
<1>9. \A u \in Tasks : \A r \in Held(u)' :
        Handmade(r) => \E s \in Held(u) : Handmade(s) /\ s.cron = r.cron
  BY <1>2, <1>3, <1>4 DEF Held
<1>10. HandmadeAgree'
  BY <1>9 DEF HandmadeAgree
<1>11. OthersAgree'
  <2>1. \A u \in Tasks : Placing(u)' <=> Placing(u)
    BY <1>4 DEF Placing
  <2> QED BY <1>9, <2>1 DEF OthersAgree, Agrees, JobsFor
<1> QED BY <1>5, <1>6, <1>7, <1>8, <1>10, <1>11

LEMMA CleanupCheckPreserves ==
  ASSUME ScheduleIInv, NEW c \in Clients, NEW t \in Tasks, CleanupCheck(c, t)
  PROVE  ScheduleIInv'
<1> USE DEF ScheduleIInv, CleanupCheck
<1>1. /\ req' \in [Clients -> Requests]
      /\ req[c].stage = "idle" /\ req'[c].stage = "cleanup"
      /\ \A d \in Clients \ {c} : req'[d] = req[d]
  BY DEF ScheduleTypeOK, Requests, Idle
<1>2. ScheduleTypeOK'
  BY <1>1 DEF ScheduleTypeOK
<1>3. EntriesMatchEngine' /\ UniqueIds' /\ SnapCurrent' /\ MutexHeld' /\ PlacedRow' /\ UnbornAbsent'
  BY <1>1 DEF EntriesMatchEngine, UniqueIds, SnapCurrent, JobsFor, MutexHeld, PlacedRow, UnbornAbsent
<1>4. \A u \in Tasks : Held(u)' \subseteq Held(u) /\ (Placing(u)' <=> Placing(u))
  BY <1>1 DEF Held, Placing
<1>5. HandmadeAgree'
  BY <1>4 DEF HandmadeAgree
<1>6. OthersAgree'
  BY <1>4, StillAgrees DEF OthersAgree
<1> QED BY <1>2, <1>3, <1>5, <1>6

\* The row of t disappears, in a step that holds no mutex.
LEMMA RowGone ==
  ASSUME ScheduleIInv, NEW t \in Tasks, db' = [db EXCEPT ![t] = {}],
         UNCHANGED <<born, engine, entries, mutex, snap, paused, unsynced>>,
         req' \in [Clients -> Requests],
         \A c \in Clients : req'[c] = req[c] \/ (req[c].stage = "cleanup" /\ req'[c].stage = "idle")
  PROVE  ScheduleIInv'
<1> USE DEF ScheduleIInv
<1>1. db' \in Tables /\ \A u \in Tasks : db'[u] = {} \/ db'[u] = db[u]
  BY DEF ScheduleTypeOK, Tables
<1>2. ScheduleTypeOK'
  BY <1>1 DEF ScheduleTypeOK
<1>3. EntriesMatchEngine' /\ UniqueIds' /\ MutexHeld'
  BY DEF EntriesMatchEngine, UniqueIds, MutexHeld
<1>4. SnapCurrent' /\ UnbornAbsent'
  BY <1>1 DEF SnapCurrent, JobsFor, UnbornAbsent
<1>5. PlacedRow'
  BY <1>1 DEF PlacedRow
<1>6. \A u \in Tasks : db'[u] \subseteq db[u] /\ Held(u)' \subseteq Held(u) /\ (Placing(u)' <=> Placing(u))
  BY <1>1 DEF Held, Placing
<1>7. HandmadeAgree'
  BY <1>6 DEF HandmadeAgree
<1>8. OthersAgree'
  BY <1>6, StillAgrees DEF OthersAgree
<1> QED BY <1>2, <1>3, <1>4, <1>5, <1>7, <1>8

LEMMA CleanupDeletePreserves ==
  ASSUME ScheduleIInv, NEW c \in Clients, CleanupDelete(c)
  PROVE  ScheduleIInv'
<1>1. req[c].task \in Tasks
  BY DEF CleanupDelete, ScheduleIInv, ScheduleTypeOK, Requests, Idle
<1>2. req' \in [Clients -> Requests]
      /\ \A d \in Clients : req'[d] = req[d] \/ (req[d].stage = "cleanup" /\ req'[d].stage = "idle")
  BY DEF CleanupDelete, Finish, ScheduleIInv, ScheduleTypeOK, Requests, Idle
<1> QED BY <1>1, <1>2, RowGone DEF CleanupDelete

LEMMA CliDeletePreserves ==
  ASSUME ScheduleIInv, NEW t \in Tasks, CliDelete(t)
  PROVE  ScheduleIInv'
<1>1. req' \in [Clients -> Requests] /\ \A d \in Clients : req'[d] = req[d]
  BY DEF CliDelete, ScheduleIInv, ScheduleTypeOK
<1> QED BY <1>1, RowGone DEF CliDelete

-------------------------------------------------------------------------------
(* Steps that insert or write a row.                                        *)

\* A task that is not registered has neither jobs nor copies of its row.
LEMMA UnbornHasNothing ==
  ASSUME ScheduleIInv, NEW t \in Tasks \ born
  PROVE  JobsFor(t) = {} /\ Held(t) = {} /\ db[t] = {} /\ ~ Placing(t)
<1>1. \A e \in engine : e.id # NoEntry /\ entries[e.task] = e.id
  BY ScheduleAssumption DEF ScheduleIInv, ScheduleTypeOK, Jobs, EntriesMatchEngine
<1>2. db[t] = {} /\ entries[t] = NoEntry
      /\ \A c \in Clients : req[c].stage \in {"write", "place"} => req[c].task # t
  BY DEF ScheduleIInv, UnbornAbsent
<1> QED BY <1>1, <1>2 DEF JobsFor, Held, Placing

LEMMA CliRegisterPreserves ==
  ASSUME ScheduleIInv, NEW t \in Tasks, NEW row \in Row, CliRegister(t, row)
  PROVE  ScheduleIInv'
<1> USE DEF ScheduleIInv, CliRegister
<1>1. /\ db' \in Tables /\ db'[t] = {row}
      /\ \A u \in Tasks \ {t} : db'[u] = db[u]
  BY DEF ScheduleTypeOK, Tables
<1>2. ScheduleTypeOK'
  BY <1>1 DEF ScheduleTypeOK
<1>3. EntriesMatchEngine' /\ UniqueIds' /\ MutexHeld'
  BY DEF EntriesMatchEngine, UniqueIds, MutexHeld
<1>4. UnbornAbsent'
  BY <1>1 DEF UnbornAbsent
<1>5. /\ JobsFor(t) = {} /\ Held(t) = {} /\ Held(t)' = {row} /\ ~ Placing(t)
      /\ \A c \in Clients : req[c].stage \in {"write", "place"} => req[c].task # t
      /\ snap[t] = {}
  BY <1>1, UnbornHasNothing DEF Held, UnbornAbsent
<1>6. PlacedRow'
  BY <1>1, <1>5 DEF PlacedRow, ScheduleTypeOK, Requests
<1>7. SnapCurrent'
  BY <1>1, <1>5 DEF SnapCurrent, JobsFor
<1>8. \A u \in Tasks \ {t} : Held(u)' \subseteq Held(u) /\ (Placing(u)' <=> Placing(u))
  BY <1>1 DEF Held, Placing
<1>9. HandmadeAgree'
  BY <1>5, <1>8 DEF HandmadeAgree
<1>10. OthersAgree'
  <2>1. Agrees(t)'
    BY <1>1, <1>5 DEF Agrees, JobsFor
  <2>2. \A u \in Tasks \ {t} : Agrees(u) => Agrees(u)'
    BY <1>1, <1>8, StillAgrees
  <2> QED BY <1>8, <2>1, <2>2 DEF OthersAgree
<1> QED BY <1>2, <1>3, <1>4, <1>6, <1>7, <1>9, <1>10

LEMMA RegisterPreserves ==
  ASSUME ScheduleIInv, NEW c \in Clients, NEW t \in Tasks, NEW row \in Row, Register(c, t, row)
  PROVE  ScheduleIInv'
<1> USE DEF ScheduleIInv, Register, Free
<1>1. /\ db' \in Tables /\ db'[t] = {row}
      /\ \A u \in Tasks \ {t} : db'[u] = db[u]
  BY DEF ScheduleTypeOK, Tables
<1>2. /\ req' \in [Clients -> Requests] /\ req[c].stage = "idle"
      /\ \A d \in Clients \ {c} : req'[d] = req[d]
      /\ \/ req'[c] = [stage |-> "place", task |-> t, row |-> row] /\ mutex' = c
         \/ req'[c] = req[c] /\ mutex' = mutex /\ ~ (row.enabled /\ row.schedule # NoExpr)
  BY DEF ScheduleTypeOK, Requests, Idle
<1>3. ScheduleTypeOK'
  BY <1>1, <1>2 DEF ScheduleTypeOK
<1>4. EntriesMatchEngine' /\ UniqueIds'
  BY DEF EntriesMatchEngine, UniqueIds
<1>5. mutex # Clock /\ \A d \in Clients : req[d].stage # "place" /\ mutex # d
  BY ScheduleAssumption DEF MutexHeld
<1>6. MutexHeld' /\ mutex' # Clock
  BY <1>2, <1>5, ScheduleAssumption DEF MutexHeld
<1>7. SnapCurrent'
  BY <1>6 DEF SnapCurrent
<1>8. UnbornAbsent'
  BY <1>1, <1>2 DEF UnbornAbsent
<1>9. PlacedRow'
  BY <1>1, <1>2, <1>5 DEF PlacedRow
<1>10. JobsFor(t) = {} /\ Held(t) = {} /\ ~ Placing(t)
  BY UnbornHasNothing
<1>11. Held(t)' \subseteq {row} /\ \A u \in Tasks \ {t} : Held(u)' \subseteq Held(u)
  BY <1>1, <1>2, <1>10 DEF Held
<1>12. HandmadeAgree'
  BY <1>11 DEF HandmadeAgree
<1>13. OthersAgree'
  <2>1. Placing(t)' \/ Agrees(t)'
    <3>1. CASE req'[c] = [stage |-> "place", task |-> t, row |-> row]
      BY <3>1 DEF Placing
    <3>2. CASE ~ (row.enabled /\ row.schedule # NoExpr)
      <4>1. ~ (row.enabled /\ row.schedule \in GoodExprs)
        BY <3>2, ScheduleAssumption
      <4> QED BY <1>1, <1>10, <4>1 DEF Agrees, JobsFor
    <3> QED BY <1>2, <3>1, <3>2
  <2>2. \A u \in Tasks \ {t} : Agrees(u)
    BY <1>5 DEF OthersAgree, Placing
  <2>3. \A u \in Tasks \ {t} : Agrees(u)'
    BY <1>1, <1>11, <2>2, StillAgrees
  <2> QED BY <2>1, <2>3 DEF OthersAgree
<1> QED BY <1>3, <1>4, <1>6, <1>7, <1>8, <1>9, <1>12, <1>13

\* A row written back without rescheduling: schedule and enabled are as they
\* were, so the engine still agrees.
LEMMA SameScheduleAgrees ==
  ASSUME NEW t \in Tasks, NEW old \in Row, NEW new \in Row,
         Agrees(t), db[t] = {old}, db'[t] = {new},
         old.schedule = new.schedule, old.enabled = new.enabled,
         new \in Held(t), Held(t)' \subseteq Held(t),
         UNCHANGED <<engine, unsynced>>
  PROVE  Agrees(t)'
<1> SUFFICES
      /\ ~ new.enabled => JobsFor(t) = {}
      /\ ExprOf(new) # NoExpr => \A e \in JobsFor(t) : e.expr = ExprOf(new)
      /\ (t \notin unsynced /\ new.enabled /\ new.schedule \in GoodExprs) => JobsFor(t) # {}
      /\ new.schedule = NoExpr
           => \A r \in Held(t) : Handmade(r) => \A e \in JobsFor(t) : e.expr = r.cron
  BY DEF Agrees, JobsFor
<1>1. /\ ~ old.enabled => JobsFor(t) = {}
      /\ ExprOf(old) # NoExpr => \A e \in JobsFor(t) : e.expr = ExprOf(old)
      /\ (t \notin unsynced /\ old.enabled /\ old.schedule \in GoodExprs) => JobsFor(t) # {}
      /\ old.schedule = NoExpr
           => \A r \in Held(t) : Handmade(r) => \A e \in JobsFor(t) : e.expr = r.cron
  BY DEF Agrees
<1>2. ExprOf(new) # NoExpr => \A e \in JobsFor(t) : e.expr = ExprOf(new)
  <2>1. CASE new.schedule # NoExpr
    BY <1>1, <2>1, ExprTypes
  <2>2. CASE new.schedule = NoExpr
    BY <1>1, <2>2, ExprTypes DEF Handmade
  <2> QED BY <2>1, <2>2
<1> QED BY <1>1, <1>2

LEMMA UpdateRowPreserves ==
  ASSUME ScheduleIInv, NEW c \in Clients, NEW ok \in BOOLEAN, UpdateRow(c, ok)
  PROVE  ScheduleIInv'
<1> USE DEF ScheduleIInv, UpdateRow, Free, Finish
<1>0. req[c].stage = "write" /\ req[c].task \in Tasks /\ req[c].row \in Row /\ req[c].edit \in Edits
  BY DEF ScheduleTypeOK, Requests, Idle
<1> PICK t \in Tasks, new \in Row, edit \in Edits :
           t = req[c].task /\ new = req[c].row /\ edit = req[c].edit
  BY <1>0
<1>1. req[c].stage = "write" /\ new \in Held(t) /\ t \in born
  BY <1>0 DEF Held, UnbornAbsent
<1>2. mutex # Clock /\ \A d \in Clients : req[d].stage # "place" /\ mutex # d
  BY ScheduleAssumption DEF MutexHeld
<1>3. \A u \in Tasks : Agrees(u)
  BY <1>2 DEF OthersAgree, Placing
<1>4. EntriesMatchEngine' /\ UniqueIds'
  BY DEF EntriesMatchEngine, UniqueIds
<1>5. CASE db[t] = {} \/ ~ ok
  <2>1. /\ req' \in [Clients -> Requests] /\ req'[c].stage = "idle"
        /\ \A d \in Clients \ {c} : req'[d] = req[d]
        /\ UNCHANGED <<db, mutex, paused>>
    BY <1>5 DEF ScheduleTypeOK, Requests, Idle
  <2>2. ScheduleTypeOK'
    BY <2>1 DEF ScheduleTypeOK
  <2>3. MutexHeld' /\ UnbornAbsent' /\ PlacedRow' /\ SnapCurrent'
    BY <1>2, <2>1 DEF MutexHeld, UnbornAbsent, PlacedRow, SnapCurrent
  <2>4. \A u \in Tasks : Held(u)' \subseteq Held(u)
    BY <2>1 DEF Held
  <2>5. HandmadeAgree'
    BY <2>4 DEF HandmadeAgree
  <2>6. OthersAgree'
    BY <1>3, <2>1, <2>4, StillAgrees DEF OthersAgree
  <2> QED BY <1>4, <2>2, <2>3, <2>5, <2>6
<1>6. CASE ~ (db[t] = {} \/ ~ ok)
  <2>1. /\ db' = [db EXCEPT ![t] = {new}]
        /\ IF \E old \in db[t] : Reschedules(old, new, edit)
           THEN mutex' = c /\ req' = [req EXCEPT ![c] = [stage |-> "place", task |-> t, row |-> new]]
           ELSE req' = [req EXCEPT ![c] = Idle] /\ UNCHANGED mutex
        /\ paused' \in {paused, paused \ {t}, paused \cup {t}}
    BY <1>6
  <2>2. /\ db' \in Tables /\ db'[t] = {new}
        /\ \A u \in Tasks \ {t} : db'[u] = db[u]
    BY <1>1, <2>1 DEF ScheduleTypeOK, Tables
  <2>3. /\ req' \in [Clients -> Requests]
        /\ \A d \in Clients \ {c} : req'[d] = req[d]
        /\ \/ req'[c] = [stage |-> "place", task |-> t, row |-> new] /\ mutex' = c
           \/ /\ req'[c] = Idle /\ mutex' = mutex
              /\ \A old \in db[t] : ~ Reschedules(old, new, edit)
    BY <1>1, <2>1 DEF ScheduleTypeOK, Requests, Idle
  <2>4. ScheduleTypeOK'
    BY <1>1, <2>1, <2>2, <2>3 DEF ScheduleTypeOK
  <2>5. MutexHeld' /\ mutex' # Clock
    BY <1>2, <2>3, ScheduleAssumption DEF MutexHeld, Idle
  <2>6. SnapCurrent'
    BY <2>5 DEF SnapCurrent
  <2>7. UnbornAbsent'
    BY <1>1, <2>2, <2>3 DEF UnbornAbsent, Idle
  <2>8. PlacedRow'
    BY <1>2, <2>2, <2>3 DEF PlacedRow, Idle
  <2>9. \A u \in Tasks : Held(u)' \subseteq Held(u)
    BY <1>1, <2>2, <2>3 DEF Held, Idle
  <2>10. HandmadeAgree'
    BY <2>9 DEF HandmadeAgree
  <2>11. Placing(t)' \/ Agrees(t)'
    <3>1. CASE req'[c] = [stage |-> "place", task |-> t, row |-> new]
      BY <3>1 DEF Placing
    <3>2. CASE \A old \in db[t] : ~ Reschedules(old, new, edit)
      <4>1. PICK old \in Row : db[t] = {old}
        BY <1>1, <1>6 DEF ScheduleTypeOK, Tables
      <4>2. old.schedule = new.schedule
        BY <3>2, <4>1 DEF Reschedules
      <4>3. old.enabled = new.enabled
        BY <3>2, <4>1 DEF Reschedules
      <4> QED BY <1>1, <1>3, <2>2, <2>9, <4>1, <4>2, <4>3, SameScheduleAgrees
    <3> QED BY <2>3, <3>1, <3>2
  <2>12. \A u \in Tasks \ {t} : Agrees(u)'
    BY <1>3, <2>2, <2>9, StillAgrees
  <2>13. OthersAgree'
    BY <2>11, <2>12 DEF OthersAgree
  <2> QED BY <1>4, <2>4, <2>5, <2>6, <2>7, <2>8, <2>10, <2>13
<1> QED BY <1>5, <1>6

-------------------------------------------------------------------------------
(* Steps that change the entry of one task.                                 *)

\* Other tasks do not notice.
LEMMA OtherTasks ==
  ASSUME NEW u \in Tasks, Agrees(u),
         db'[u] = db[u], Held(u)' \subseteq Held(u), JobsFor(u)' = JobsFor(u),
         u \in unsynced => u \in unsynced'
  PROVE  Agrees(u)'
BY DEF Agrees

LEMMA PlaceJobPreserves ==
  ASSUME ScheduleIInv, NEW c \in Clients, PlaceJob(c)
  PROVE  ScheduleIInv'
<1> USE DEF ScheduleIInv, PlaceJob, Finish
<1>0. req[c].stage = "place" /\ req[c].task \in Tasks /\ req[c].row \in Row
  BY DEF ScheduleTypeOK, Requests, Idle
<1> PICK t \in Tasks, row \in Row : t = req[c].task /\ row = req[c].row
  BY <1>0
<1>1. mutex = c /\ (\A d \in Clients \ {c} : req[d].stage # "place") /\ mutex' = Nobody
      /\ UNCHANGED <<db, born, snap, paused>>
  BY <1>0 DEF MutexHeld
<1>2. unsynced' = unsynced \ {t}
  OBVIOUS
<1>3. /\ req' \in [Clients -> Requests] /\ req'[c].stage = "idle"
      /\ \A d \in Clients \ {c} : req'[d] = req[d]
  BY DEF ScheduleTypeOK, Requests, Idle
<1>4. \A e : e \in Without(t) <=> e \in engine /\ e.task # t
  BY WithoutRemoves
<1>5. \/ /\ row.enabled /\ row.schedule \in GoodExprs
         /\ \E id \in EntryIds :
              /\ \A e \in Without(t) : e.id # id
              /\ engine' = Without(t) \cup {JobOf(t, row, id)}
              /\ entries' = [entries EXCEPT ![t] = id]
      \/ /\ ~ (row.enabled /\ row.schedule \in GoodExprs)
         /\ engine' = Without(t) /\ entries' = [entries EXCEPT ![t] = NoEntry]
  <2>1. CASE row.enabled /\ row.schedule \in GoodExprs
    BY <2>1
  <2>2. CASE ~ (row.enabled /\ row.schedule \in GoodExprs)
    BY <2>2
  <2> QED BY <2>1, <2>2
<1>6. /\ engine' \in SUBSET Jobs /\ entries' \in [Tasks -> EntryIds \cup {NoEntry}]
      /\ EntriesMatchEngine' /\ UniqueIds'
      /\ \A u \in Tasks \ {t} : JobsFor(u)' = JobsFor(u) /\ entries'[u] = entries[u]
      /\ \A e \in JobsFor(t)' : row.enabled /\ row.schedule \in GoodExprs /\ e.expr = ExprOf(row)
      /\ (row.enabled /\ row.schedule \in GoodExprs) => JobsFor(t)' # {}
  <2>1. engine \in SUBSET Jobs /\ entries \in [Tasks -> EntryIds \cup {NoEntry}]
    BY DEF ScheduleTypeOK
  <2>2. CASE row.enabled /\ row.schedule \in GoodExprs
    <3>1. PICK id \in EntryIds :
            /\ \A e \in Without(t) : e.id # id
            /\ engine' = Without(t) \cup {JobOf(t, row, id)}
            /\ entries' = [entries EXCEPT ![t] = id]
      BY <1>5, <2>2
    <3>2. ExprOf(row) \in GoodExprs
      BY <2>2, ExprTypes
    <3>3. /\ JobOf(t, row, id) \in Jobs /\ JobOf(t, row, id).id = id
          /\ JobOf(t, row, id).task = t /\ JobOf(t, row, id).expr = ExprOf(row)
      BY <3>2, ExprTypes DEF JobOf, Jobs
    <3>4. \A e : e \in engine' <=> (e \in engine /\ e.task # t) \/ e = JobOf(t, row, id)
      BY <1>4, <3>1
    <3>5. engine' \in SUBSET Jobs /\ entries' \in [Tasks -> EntryIds \cup {NoEntry}]
      BY <2>1, <3>1, <3>3, <3>4
    <3>6. entries'[t] = id /\ \A u \in Tasks \ {t} : entries'[u] = entries[u]
      BY <2>1, <3>1
    <3>7. \A e \in engine : e.task \in Tasks
      BY <2>1 DEF Jobs
    <3>8. EntriesMatchEngine'
      <4>1. \A e \in engine' : entries'[e.task] = e.id
        BY <3>3, <3>4, <3>6, <3>7 DEF EntriesMatchEngine
      <4>2. \A u \in Tasks : entries'[u] # NoEntry => \E e \in engine' : e.id = entries'[u] /\ e.task = u
        BY <3>3, <3>4, <3>6 DEF EntriesMatchEngine
      <4> QED BY <4>1, <4>2 DEF EntriesMatchEngine
    <3>9. UniqueIds'
      BY <1>4, <3>1, <3>3, <3>4 DEF UniqueIds
    <3>10. /\ \A u \in Tasks \ {t} : JobsFor(u)' = JobsFor(u)
           /\ JobsFor(t)' = {JobOf(t, row, id)}
      BY <3>3, <3>4 DEF JobsFor
    <3> QED BY <2>2, <3>3, <3>5, <3>6, <3>8, <3>9, <3>10
  <2>3. CASE ~ (row.enabled /\ row.schedule \in GoodExprs)
    <3>1. \A e : e \in engine' <=> (e \in engine /\ e.task # t)
      BY <1>4, <1>5, <2>3
    <3>2. entries' = [entries EXCEPT ![t] = NoEntry]
      BY <1>5, <2>3
    <3>3. entries'[t] = NoEntry /\ \A u \in Tasks \ {t} : entries'[u] = entries[u]
      BY <2>1, <3>2
    <3>4. EntriesMatchEngine'
      BY <2>1, <3>1, <3>3 DEF EntriesMatchEngine, Jobs
    <3>5. UniqueIds'
      BY <3>1 DEF UniqueIds
    <3>6. JobsFor(t)' = {} /\ \A u \in Tasks \ {t} : JobsFor(u)' = JobsFor(u)
      BY <3>1 DEF JobsFor
    <3> QED BY <2>1, <2>3, <3>1, <3>2, <3>3, <3>4, <3>5, <3>6
  <2> QED BY <2>2, <2>3
<1>7. ScheduleTypeOK'
  BY <1>1, <1>2, <1>3, <1>6 DEF ScheduleTypeOK
<1>8. MutexHeld' /\ PlacedRow' /\ SnapCurrent'
  BY <1>1, <1>3, ScheduleAssumption DEF MutexHeld, PlacedRow, SnapCurrent
<1>9. UnbornAbsent'
  BY <1>0, <1>1, <1>3, <1>6 DEF UnbornAbsent
<1>10. \A u \in Tasks : Held(u)' \subseteq Held(u)
  BY <1>1, <1>3 DEF Held
<1>11. HandmadeAgree'
  BY <1>10 DEF HandmadeAgree
<1>12. OthersAgree'
  <2>1. Agrees(t)'
    <3>1. \A r \in db'[t] : r = row
      BY <1>0, <1>1 DEF PlacedRow
    <3>2. row.schedule \in GoodExprs => row.schedule # NoExpr
      BY ScheduleAssumption
    <3> QED BY <1>6, <3>1, <3>2 DEF Agrees
  <2>2. \A u \in Tasks \ {t} : Agrees(u)
    BY <1>1 DEF OthersAgree, Placing
  <2>3. \A u \in Tasks \ {t} : Agrees(u)'
    BY <1>1, <1>2, <1>6, <1>10, <2>2, OtherTasks
  <2> QED BY <2>1, <2>3 DEF OthersAgree
<1> QED BY <1>6, <1>7, <1>8, <1>9, <1>11, <1>12

LEMMA DeleteTaskPreserves ==
  ASSUME ScheduleIInv, NEW t \in Tasks, NEW ok \in BOOLEAN, DeleteTask(t, ok)
  PROVE  ScheduleIInv'
<1> USE DEF ScheduleIInv, DeleteTask, Free
<1>1. \A e : e \in engine' <=> (e \in engine /\ e.task # t)
  BY WithoutRemoves
<1>2. /\ entries' \in [Tasks -> EntryIds \cup {NoEntry}]
      /\ entries'[t] = NoEntry /\ \A u \in Tasks \ {t} : entries'[u] = entries[u]
  BY DEF ScheduleTypeOK
<1>3. db' \in Tables /\ (\A u \in Tasks \ {t} : db'[u] = db[u])
      /\ ((db'[t] = db[t] /\ t \in unsynced') \/ db'[t] = {})
  BY DEF ScheduleTypeOK, Tables
<1>4. ScheduleTypeOK'
  BY <1>1, <1>2, <1>3 DEF ScheduleTypeOK
<1>5. EntriesMatchEngine' /\ UniqueIds'
  <2>1. \A e \in engine : e.task \in Tasks
    BY DEF ScheduleTypeOK, Jobs
  <2> QED BY <1>1, <1>2, <2>1 DEF EntriesMatchEngine, UniqueIds
<1>6. mutex # Clock /\ \A d \in Clients : req[d].stage # "place"
  BY ScheduleAssumption DEF MutexHeld
<1>7. MutexHeld' /\ PlacedRow' /\ SnapCurrent'
  BY <1>6 DEF MutexHeld, PlacedRow, SnapCurrent
<1>8. UnbornAbsent'
  BY <1>2, <1>3 DEF UnbornAbsent
<1>9. \A u \in Tasks : Held(u)' \subseteq Held(u)
  BY <1>3 DEF Held
<1>10. HandmadeAgree'
  BY <1>9 DEF HandmadeAgree
<1>11. JobsFor(t)' = {} /\ \A u \in Tasks \ {t} : JobsFor(u)' = JobsFor(u)
  BY <1>1 DEF JobsFor
<1>12. OthersAgree'
  <2>1. Agrees(t)'
    BY <1>3, <1>11 DEF Agrees
  <2>2. \A u \in Tasks : Agrees(u)
    BY <1>6 DEF OthersAgree, Placing
  <2>3. \A u \in Tasks \ {t} : u \in unsynced => u \in unsynced'
    OBVIOUS
  <2>4. \A u \in Tasks \ {t} : Agrees(u)'
    BY <1>3, <1>9, <1>11, <2>2, <2>3, OtherTasks
  <2> QED BY <2>1, <2>4 DEF OthersAgree
<1> QED BY <1>4, <1>5, <1>7, <1>8, <1>10, <1>12

-------------------------------------------------------------------------------
LEMMA StutterPreserves == ScheduleIInv /\ UNCHANGED scheduleVars => ScheduleIInv'
BY DEF scheduleVars, ScheduleIInv, ScheduleTypeOK, EntriesMatchEngine, UniqueIds, MutexHeld, UnbornAbsent, PlacedRow,
       HandmadeAgree, Held, OthersAgree, Placing, Agrees, JobsFor, SnapCurrent

LEMMA ScheduleStepPreserves == ScheduleIInv /\ [ScheduleNext]_scheduleVars => ScheduleIInv'
<1> SUFFICES ASSUME ScheduleIInv, [ScheduleNext]_scheduleVars PROVE ScheduleIInv'
  OBVIOUS
<1>1. CASE UNCHANGED scheduleVars
  BY <1>1, StutterPreserves
<1>2. CASE Restart \/ RecoverRead \/ RecoverSwap
  BY <1>2, RestartPreserves, RecoverReadPreserves, RecoverSwapPreserves
<1>3. ASSUME NEW c \in Clients, NEW t \in Tasks,
             \/ \E row \in Row : Register(c, t, row)
             \/ \E e \in Edits : ReadTask(c, t, e)
             \/ CleanupCheck(c, t)
      PROVE  ScheduleIInv'
  BY <1>3, RegisterPreserves, ReadTaskPreserves, CleanupCheckPreserves
<1>4. ASSUME NEW c \in Clients,
             (\E ok \in BOOLEAN : UpdateRow(c, ok)) \/ PlaceJob(c) \/ CleanupDelete(c)
      PROVE  ScheduleIInv'
  BY <1>4, UpdateRowPreserves, PlaceJobPreserves, CleanupDeletePreserves
<1>5. ASSUME NEW t \in Tasks,
             \/ \E ok \in BOOLEAN : DeleteTask(t, ok)
             \/ \E row \in Row : CliRegister(t, row)
             \/ CliDelete(t)
      PROVE  ScheduleIInv'
  BY <1>5, DeleteTaskPreserves, CliRegisterPreserves, CliDeletePreserves
<1> QED BY <1>1, <1>2, <1>3, <1>4, <1>5 DEF ScheduleNext

\* The conjunction of all invariants holds in every reachable state.
THEOREM ScheduleInductive == ScheduleSpec => []ScheduleIInv
BY ScheduleInitEstablishes, ScheduleStepPreserves, PTL DEF ScheduleSpec

\* Every variable of the schedule keeps its type.
THEOREM ScheduleTypeCorrect == ScheduleSpec => []ScheduleTypeOK
<1>1. ScheduleIInv => ScheduleTypeOK
  BY DEF ScheduleIInv
<1> QED BY <1>1, ScheduleInductive, PTL

\* Register, update, delete, cleanup, recovery and restart keep the cron
\* engine and cronEntries in step, at every moment.
THEOREM EngineMatches == ScheduleSpec => []EntriesMatchEngine
<1>1. ScheduleIInv => EntriesMatchEngine
  BY DEF ScheduleIInv
<1> QED BY <1>1, ScheduleInductive, PTL

\* With the mutex free nothing is being placed, so every task agrees.
LEMMA AllAgree ==
  ASSUME ScheduleIInv, Free
  PROVE  \A t \in Tasks : Agrees(t)
BY ScheduleAssumption DEF ScheduleIInv, Free, MutexHeld, OthersAgree, Placing

\* A task that the table says is disabled does not fire once the mutex is free.
THEOREM DisabledStaysOut == ScheduleSpec => []DisabledNotScheduled
<1>1. ScheduleIInv => DisabledNotScheduled
  BY AllAgree DEF Agrees, DisabledNotScheduled
<1> QED BY <1>1, ScheduleInductive, PTL

\* A scheduled task fires at the times its row says once the mutex is free,
\* stale writes of whole rows included.
THEOREM ExpressionsCurrent == ScheduleSpec => []ExprIsCurrent
<1>1. ScheduleIInv => ExprIsCurrent
  BY AllAgree DEF Agrees, ExprIsCurrent
<1> QED BY <1>1, ScheduleInductive, PTL

\* An enabled task whose schedule parses is in the engine once the mutex is
\* free, unless another process or a failed delete is the reason.
THEOREM EnabledAreScheduled == ScheduleSpec => []EnabledIsScheduled
<1>1. ScheduleIInv => EnabledIsScheduled
  BY AllAgree DEF Agrees, EnabledIsScheduled
<1> QED BY <1>1, ScheduleInductive, PTL

\* Whenever the mutex is free the engine holds what the table says, and fires
\* it at the times the table says.
THEOREM RowsAreObeyed == ScheduleSpec => []RowsDecide
BY DisabledStaysOut, ExpressionsCurrent, EnabledAreScheduled, PTL DEF RowsDecide

\* While the clock holds the mutex the jobs of a task are those of its row.
LEMMA ClockStep ==
  ASSUME ScheduleIInv, [ScheduleNext]_scheduleVars, mutex = Clock, NEW t \in Tasks, NEW row \in db'[t],
         row.enabled, ExprOf(row) # NoExpr, JobsFor(t) # {}
  PROVE  JobsFor(t)' # {}
<1> USE DEF ScheduleIInv
<1>1. db \in Tables /\ snap \in Tables /\ \A c \in Clients : req[c].stage # "place" /\ mutex # c
  BY ScheduleAssumption DEF ScheduleTypeOK, MutexHeld
<1>2. mutex # Nobody
  BY ScheduleAssumption
<1>3. Agrees(t)
  BY <1>1 DEF OthersAgree, Placing
<1>4. ASSUME row \in db[t] PROVE ExprOf(row) \in GoodExprs /\ row \in Row
  <2>1. PICK e \in JobsFor(t) : TRUE
    OBVIOUS
  <2>2. e.expr = ExprOf(row) /\ e.expr \in GoodExprs
    BY <1>3, <1>4 DEF Agrees, JobsFor, ScheduleTypeOK, Jobs
  <2> QED BY <1>1, <1>4, <2>2, TableRows
<1>5. CASE Restart
  <2>1. row \in db[t]
    BY <1>5 DEF Restart
  <2>2. row \in ScheduledRows[t] /\ ExprOf(row) \in GoodExprs /\ ScheduledRows \in Tables
    BY <1>1, <1>4, <2>1, ScheduledTables
  <2> QED BY <1>5, <2>2, BuildFromEstablishes DEF Restart
<1>6. CASE RecoverSwap
  <2>1. row \in db[t]
    BY <1>6 DEF RecoverSwap
  <2>2. row \in snap[t] /\ ExprOf(row) \in GoodExprs
    BY <1>4, <2>1 DEF SnapCurrent
  <2>3. CASE AllParse(snap)
    BY <1>1, <1>6, <2>2, <2>3, BuildFromEstablishes DEF RecoverSwap
  <2>4. CASE ~ AllParse(snap)
    BY <1>6, <2>4 DEF RecoverSwap, JobsFor
  <2> QED BY <2>3, <2>4
<1>7. CASE UNCHANGED engine
  BY <1>7 DEF JobsFor
<1>8. Restart \/ RecoverSwap \/ UNCHANGED engine
  <2>1. CASE UNCHANGED scheduleVars
    BY <2>1 DEF scheduleVars
  <2>2. CASE ScheduleNext
    BY <1>1, <1>2, <2>2 DEF ScheduleNext, RecoverRead, Register, ReadTask, CleanupCheck, UpdateRow,
       PlaceJob, CleanupDelete, DeleteTask, CliRegister, CliDelete, Free
  <2> QED BY <2>1, <2>2
<1> QED BY <1>5, <1>6, <1>7, <1>8

\* Whether the clock recovery swaps the engine or keeps the old one, no task
\* that is still to be scheduled loses its entry.
THEOREM NothingDropped == ScheduleSpec => RecoveryNeverDrops
<1>1. ScheduleIInv /\ [ScheduleNext]_scheduleVars
        => [mutex = Clock =>
             \A t \in Tasks : \A row \in db'[t] :
               (row.enabled /\ ExprOf(row) # NoExpr /\ JobsFor(t) # {}) => JobsFor(t)' # {}]_scheduleVars
  BY ClockStep
<1> QED BY <1>1, ScheduleInductive, PTL DEF ScheduleSpec, RecoveryNeverDrops
===============================================================================
