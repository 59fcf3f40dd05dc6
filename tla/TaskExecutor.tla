----------------------------- MODULE TaskExecutor -----------------------------
(***************************************************************************)
(* Executor.Execute of the agent-os scheduler: one goroutine per call, a   *)
(* counting semaphore held for the whole call (retry sleeps included), a   *)
(* row of task_runs written at each stage, retries with backoff, and at    *)
(* the end the hand-over of a connection failure to the durable backlog.   *)
(*                                                                         *)
(* A run r \in Runs stands for one call of Execute and the row it creates. *)
(* ctx[r] is the context of the call: Background for a cron tick, the HTTP *)
(* request's for a manual trigger, which dies when the client hangs up; a  *)
(* write under a dead context fails.  No caller sets a deadline, so the    *)
(* branch of Execute for context.DeadlineExceeded has no counterpart here. *)
(***************************************************************************)
EXTENDS Naturals, FiniteSets

CONSTANTS Runs,                \* calls of Execute
          WebhookRuns,         \* those whose task has a webhook_url
          ManualRuns,          \* those started by TriggerTask over HTTP
          MaxConcurrentTasks,  \* capacity of the semaphore (5 in serve)
          MaxRetries,          \* retries after the first attempt (2 in serve)
          MaxFaults            \* bound: failed database writes and crashes

ASSUME ExecutorAssumption == /\ IsFiniteSet(Runs)
                             /\ WebhookRuns \subseteq Runs
                             /\ ManualRuns \subseteq Runs
                             /\ MaxConcurrentTasks \in Nat \ {0}
                             /\ MaxRetries \in Nat
                             /\ MaxFaults \in Nat

VARIABLES
  pc,        \* run -> where its goroutine is
  attempt,   \* run -> retries made so far
  lastErr,   \* run -> how its last attempt failed, "none" if none has
  ctx,       \* run -> "live" | "canceled"
  slots,     \* len(semaphore)
  run,       \* the table task_runs: run -> status, "absent" is no row
  reported,  \* history: run -> last result the receiver reported
  faults     \* failed writes and crashes so far

execVars == <<pc, attempt, lastErr, ctx, slots, run, reported>>
vars == <<pc, attempt, lastErr, ctx, slots, run, reported, faults>>

Terminal == {"success", "failed", "timeout", "canceled"}
TaskStatus == Terminal \cup {"pending", "running"}

Stages == {"create", "start", "call", "complete", "sleep", "fail", "enqueue"}
Finished == {"succeeded", "failed", "not_run", "lost"}

\* How an attempt can end.  "quoting" is a non-2xx answer whose body (or a
\* failed command whose output) contains one of the markers, such as
\* "connection refused", that IsConnectionFailure looks for in the text.
Failures == {"unreachable", "timeout", "rejected", "quoting", "aborted"}

\* Errors that the classifier takes for an unreachable peer.  The timeout of
\* the call itself is rewrapped as "webhook timeout after ..." and is not one.
IsConnectionFailure(e) == e \in {"unreachable", "quoting"}

ExecInit == /\ pc = [r \in Runs |-> "idle"]
            /\ attempt = [r \in Runs |-> 0]
            /\ lastErr = [r \in Runs |-> "none"]
            /\ ctx = [r \in Runs |-> "live"]
            /\ slots = 0
            /\ run = [r \in Runs |-> "absent"]
            /\ reported = [r \in Runs |-> "none"]

Goto(r, l) == pc' = [pc EXCEPT ![r] = l]

\* The call returns and its deferred receive frees the slot.
Return(r, l) == Goto(r, l) /\ slots' = slots - 1

\* A write of the row: it needs a live context, and may fail even then.
Write(r, ok, status) ==
  /\ ok => ctx[r] = "live"
  /\ run' = IF ok THEN [run EXCEPT ![r] = status] ELSE run

-------------------------------------------------------------------------------
\* The scheduler calls Execute.
Call(r) ==
  /\ pc[r] = "idle"
  /\ Goto(r, "waiting")
  /\ UNCHANGED <<attempt, lastErr, ctx, slots, run, reported>>

\* Mutant: the semaphore is not full when it is.
AcquireAlways(r) ==
  /\ pc[r] = "waiting"
  /\ slots' = slots + 1
  /\ Goto(r, "create")
  /\ UNCHANGED <<attempt, lastErr, ctx, run, reported>>

\* select: the semaphore has room.
Acquire(r) ==
  /\ pc[r] = "waiting"
  /\ slots < MaxConcurrentTasks
  /\ slots' = slots + 1
  /\ Goto(r, "create")
  /\ UNCHANGED <<attempt, lastErr, ctx, run, reported>>

\* select: the context died first.
GiveUp(r) ==
  /\ pc[r] = "waiting"
  /\ ctx[r] = "canceled"
  /\ Goto(r, "not_run")
  /\ UNCHANGED <<attempt, lastErr, ctx, slots, run, reported>>

\* Mutant: the early return keeps the slot.
CreateRunLeaks(r, ok) ==
  /\ pc[r] = "create"
  /\ Write(r, ok, "pending")
  /\ Goto(r, IF ok THEN "start" ELSE "not_run")
  /\ UNCHANGED <<attempt, lastErr, ctx, slots, reported>>

\* The run record is created as pending; if it cannot be, nothing is run.
CreateRun(r, ok) ==
  /\ pc[r] = "create"
  /\ Write(r, ok, "pending")
  /\ IF ok THEN Goto(r, "start") /\ UNCHANGED slots
           ELSE Return(r, "not_run")
  /\ UNCHANGED <<attempt, lastErr, ctx, reported>>

\* UpdateStatus(running) before each attempt; its failure is only logged.
MarkRunning(r, ok) ==
  /\ pc[r] = "start"
  /\ Write(r, ok, "running")
  /\ Goto(r, "call")
  /\ UNCHANGED <<attempt, lastErr, ctx, slots, reported>>

\* The webhook answers 2xx, or the command exits with 0.
AttemptSucceeds(r) ==
  /\ pc[r] = "call"
  /\ ctx[r] = "live"
  /\ Goto(r, "complete")
  /\ UNCHANGED <<attempt, lastErr, ctx, slots, run, reported>>

\* Mutant: each failed attempt is recorded as the result of the run.
AttemptFailsForGood(r, e) ==
  /\ pc[r] = "call"
  /\ e = "aborted" <=> ctx[r] = "canceled"
  /\ e = "unreachable" => r \in WebhookRuns
  /\ lastErr' = [lastErr EXCEPT ![r] = e]
  /\ run' = [run EXCEPT ![r] = "failed"]
  /\ Goto(r, IF attempt[r] < MaxRetries THEN "sleep" ELSE "fail")
  /\ UNCHANGED <<attempt, ctx, slots, reported>>

\* The attempt fails with error e; while retries are left it is slept on.
\* Only a webhook meets an unreachable peer, only a dead context aborts.
AttemptFails(r, e) ==
  /\ pc[r] = "call"
  /\ e = "aborted" <=> ctx[r] = "canceled"
  /\ e = "unreachable" => r \in WebhookRuns
  /\ lastErr' = [lastErr EXCEPT ![r] = e]
  /\ Goto(r, IF attempt[r] < MaxRetries THEN "sleep" ELSE "fail")
  /\ UNCHANGED <<attempt, ctx, slots, run, reported>>

\* The backoff is over (time.Sleep does not watch the context).
Retry(r) ==
  /\ pc[r] = "sleep"
  /\ attempt' = [attempt EXCEPT ![r] = @ + 1]
  /\ Goto(r, "start")
  /\ UNCHANGED <<lastErr, ctx, slots, run, reported>>

\* Complete(success); its failure is only logged, the call succeeds anyway.
CompleteSuccess(r, ok) ==
  /\ pc[r] = "complete"
  /\ Write(r, ok, "success")
  /\ Return(r, "succeeded")
  /\ UNCHANGED <<attempt, lastErr, ctx, reported>>

\* Mutant: the condition inverted.
HandsOverOthers(r) == r \in WebhookRuns /\ ~ IsConnectionFailure(lastErr[r])

\* A webhook that could not be reached goes on to the backlog.
HandsOver(r) == r \in WebhookRuns /\ IsConnectionFailure(lastErr[r])

\* Mutant: what is handed over is not recorded as failed.
CompleteFailedUnlessHandedOver(r, ok) ==
  /\ pc[r] = "fail"
  /\ IF HandsOver(r) THEN UNCHANGED run ELSE Write(r, ok, "failed")
  /\ IF HandsOver(r) THEN Goto(r, "enqueue") /\ UNCHANGED slots
                     ELSE Return(r, "failed")
  /\ UNCHANGED <<attempt, lastErr, ctx, reported>>

\* Complete(failed) once the retries are used up.
CompleteFailed(r, ok) ==
  /\ pc[r] = "fail"
  /\ Write(r, ok, "failed")
  /\ IF HandsOver(r) THEN Goto(r, "enqueue") /\ UNCHANGED slots
                     ELSE Return(r, "failed")
  /\ UNCHANGED <<attempt, lastErr, ctx, reported>>

\* deliveryBacklog.Enqueue, whose failure is only logged; the row itself is
\* the backlog's.
EnqueueDelivery(r, ok) ==
  /\ pc[r] = "enqueue"
  /\ ok => ctx[r] = "live"
  /\ Return(r, "failed")
  /\ UNCHANGED <<attempt, lastErr, ctx, run, reported>>

-------------------------------------------------------------------------------
\* The client of a manual trigger hangs up.
Cancel(r) ==
  /\ r \in ManualRuns
  /\ pc[r] \in Stages \cup {"waiting"}
  /\ ctx[r] = "live"
  /\ ctx' = [ctx EXCEPT ![r] = "canceled"]
  /\ UNCHANGED <<pc, attempt, lastErr, slots, run, reported>>

\* UpdateTaskRunResult: the receiver of a webhook reports how the job ended.
\* The row must exist; whatever it says is overwritten.
Report(r, status) ==
  /\ run[r] # "absent"
  /\ run' = [run EXCEPT ![r] = status]
  /\ reported' = [reported EXCEPT ![r] = status]
  /\ UNCHANGED <<pc, attempt, lastErr, ctx, slots>>

\* The process dies: every call in progress is gone, the rows stay as they are.
CrashExecutor ==
  /\ pc' = [r \in Runs |-> IF pc[r] \in Stages \cup {"waiting"} THEN "lost" ELSE pc[r]]
  /\ slots' = 0
  /\ UNCHANGED <<attempt, lastErr, ctx, run, reported>>

-------------------------------------------------------------------------------
\* A write that fails with a live context is one of the MaxFaults faults.
Fault == faults < MaxFaults /\ faults' = faults + 1
WriteOutcome(r, ok) == IF ok \/ ctx[r] = "canceled" THEN UNCHANGED faults ELSE Fault

\* The steps of the goroutine of r that wait for nobody but the database.
Writes(r, ok) == \/ CreateRun(r, ok) \/ MarkRunning(r, ok) \/ CompleteSuccess(r, ok)
                 \/ CompleteFailed(r, ok) \/ EnqueueDelivery(r, ok)

Attempt(r) == AttemptSucceeds(r) \/ \E e \in Failures : AttemptFails(r, e)

Init == ExecInit /\ faults = 0

Next == \/ \E r \in Runs : /\ Call(r) \/ Acquire(r) \/ GiveUp(r) \/ Attempt(r)
                              \/ Retry(r) \/ Cancel(r)
                           /\ UNCHANGED faults
        \/ \E r \in Runs, ok \in BOOLEAN : Writes(r, ok) /\ WriteOutcome(r, ok)
        \/ \E r \in WebhookRuns, s \in {"success", "failed"} : Report(r, s) /\ UNCHANGED faults
        \/ (\E r \in Runs : pc[r] \in Stages \cup {"waiting"}) /\ CrashExecutor /\ Fault

\* Every goroutine is scheduled, every call to a peer ends (its timeout sees
\* to that), and a sleep ends.  Nobody is forced to call Execute.
Fairness == \A r \in Runs :
  /\ WF_vars(Acquire(r) /\ UNCHANGED faults)
  /\ WF_vars(GiveUp(r) /\ UNCHANGED faults)
  /\ WF_vars((Attempt(r) \/ Retry(r)) /\ UNCHANGED faults)
  /\ WF_vars(\E ok \in BOOLEAN : Writes(r, ok) /\ WriteOutcome(r, ok))

Safety == Init /\ [][Next]_vars
Spec == Safety /\ Fairness

-------------------------------------------------------------------------------
\* Every variable keeps its type.
TypeOK ==
  /\ pc \in [Runs -> Stages \cup Finished \cup {"idle", "waiting"}]
  /\ attempt \in [Runs -> 0..MaxRetries]
  /\ lastErr \in [Runs -> Failures \cup {"none"}]
  /\ ctx \in [Runs -> {"live", "canceled"}]
  /\ slots \in 0..MaxConcurrentTasks
  /\ run \in [Runs -> TaskStatus \cup {"absent"}]
  /\ reported \in [Runs -> {"none", "success", "failed"}]
  /\ faults \in 0..MaxFaults

Holders == {r \in Runs : pc[r] \in Stages}

\* No slot of the semaphore leaks and none is freed twice: on every path out
\* of Execute, early returns and failed writes included, the slots taken are
\* those of the calls in progress.
SlotAccounting == slots = Cardinality(Holders)

\* A row of task_runs that shows a run as pending or running although its
\* call has returned is due to a failed write, a crash or a caller that hung
\* up; nothing in the normal course of Execute leaves one behind.
NoRunLeftOpen ==
  \A r \in Runs : (pc[r] \in {"succeeded", "failed"} /\ run[r] \notin Terminal)
                    => (faults > 0 \/ ctx[r] = "canceled")

\* A finished row is reopened, or its result replaced, only after the
\* receiver has reported a result for that run: Execute never goes back on a
\* result that it has recorded itself.
OwnResultIsFinal ==
  [][\A r \in Runs : (run[r] \in Terminal /\ run'[r] # run[r]) => reported'[r] # "none"]_vars

\* Every call of Execute comes to its end, however many calls compete for the
\* slots.
EveryCallEnds == \A r \in Runs : pc[r] = "waiting" ~> pc[r] \in Finished
===============================================================================
