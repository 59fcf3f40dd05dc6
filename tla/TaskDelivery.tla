----------------------------- MODULE TaskDelivery -----------------------------
(***************************************************************************)
(* The delivery of a scheduled task end to end: the executor of agent-os   *)
(* posts a webhook, the receiver in quantsys-v2 accepts it, runs the job   *)
(* in the background and reports the real result back to the run's row,    *)
(* and what could not be posted is redelivered by the backlog worker.      *)
(*                                                                         *)
(* TaskExecutor and DeliveryBacklog live in one process and share its      *)
(* crashes; the receiver is another process and survives them.  A post can *)
(* be accepted although its sender sees a failure: the answer comes after  *)
(* the sender's timeout, or the connection breaks before it.               *)
(***************************************************************************)
EXTENDS Naturals, FiniteSets, Sequences

CONSTANTS Runs, WebhookRuns, ManualRuns, NoRun,
          MaxConcurrentTasks, MaxRetries, MaxAttempts, BatchLimit, MaxFaults

\* What the two components assume of their parameters.
ASSUME DeliveryAssumption == /\ IsFiniteSet(Runs) /\ NoRun \notin Runs
                             /\ WebhookRuns \subseteq Runs
                             /\ ManualRuns \subseteq Runs
                             /\ MaxConcurrentTasks \in Nat \ {0}
                             /\ MaxAttempts \in Nat \ {0}
                             /\ BatchLimit \in Nat \ {0}
                             /\ MaxRetries \in Nat /\ MaxFaults \in Nat

VARIABLES
  pc, attempt, lastErr, ctx, slots, run, reported,    \* TaskExecutor
  row, due, batch, seen, current, answer, posted,     \* DeliveryBacklog
  accepted,   \* history: run -> posts the receiver has accepted
  jobs,       \* run -> jobs at the receiver: executing, or ended and not reported
  faults

execVars == <<pc, attempt, lastErr, ctx, slots, run, reported>>
backlogVars == <<row, due, batch, seen, current, answer, posted>>
receiverVars == <<accepted, jobs>>
vars == <<execVars, backlogVars, receiverVars, faults>>

Exec == INSTANCE TaskExecutor
Backlog == INSTANCE DeliveryBacklog

Results == {"success", "failed"}

Init == /\ Exec!ExecInit
        /\ Backlog!BacklogInit
        /\ accepted = [r \in Runs |-> 0]
        /\ jobs = [r \in Runs |-> [executing |-> 0, success |-> 0, failed |-> 0]]
        /\ faults = 0

-------------------------------------------------------------------------------
\* scheduler_webhook: the request is valid, a background job is started.  The
\* receiver keeps no memory of run ids, so a second copy starts a second job.
Accept(r) ==
  /\ accepted' = [accepted EXCEPT ![r] = @ + 1]
  /\ jobs' = [jobs EXCEPT ![r].executing = @ + 1]

\* execute_job: the job's handler has returned or raised.
JobEnds(r, s) ==
  /\ jobs[r].executing > 0
  /\ jobs' = [jobs EXCEPT ![r].executing = @ - 1, ![r][s] = @ + 1]
  /\ UNCHANGED <<execVars, backlogVars, accepted, faults>>

\* report_job_result: the result reaches UpdateTaskRunResult ...
ReportArrives(r, s) ==
  /\ jobs[r][s] > 0
  /\ Exec!Report(r, s)
  /\ jobs' = [jobs EXCEPT ![r][s] = @ - 1]
  /\ UNCHANGED <<backlogVars, accepted, faults>>

\* ... or does not; the exception is logged and the result is not sent again.
ReportLost(r, s) ==
  /\ jobs[r][s] > 0
  /\ jobs' = [jobs EXCEPT ![r][s] = @ - 1]
  /\ UNCHANGED <<execVars, backlogVars, accepted, faults>>

-------------------------------------------------------------------------------
\* executeWebhook answered 2xx: the receiver has accepted.
AttemptAccepted(r) ==
  /\ r \in WebhookRuns
  /\ Exec!AttemptSucceeds(r)
  /\ Accept(r)
  /\ UNCHANGED <<backlogVars, faults>>

\* The receiver has accepted and the executor does not know: the answer is
\* late, cut off (a reset counts as unreachable), or the caller hung up.
AttemptUnanswered(r) ==
  /\ r \in WebhookRuns
  /\ \E e \in {"timeout", "unreachable", "aborted"} : Exec!AttemptFails(r, e)
  /\ Accept(r)
  /\ UNCHANGED <<backlogVars, faults>>

\* The attempt failed and no job was started.
AttemptFailed(r) ==
  /\ \E e \in Exec!Failures : Exec!AttemptFails(r, e)
  /\ UNCHANGED <<backlogVars, receiverVars, faults>>

\* A command has succeeded.
CommandSucceeded(r) ==
  /\ r \notin WebhookRuns
  /\ Exec!AttemptSucceeds(r)
  /\ UNCHANGED <<backlogVars, receiverVars, faults>>

\* Steps of the executor that concern nobody else.
ExecStep(r) ==
  /\ Exec!Acquire(r) \/ Exec!GiveUp(r) \/ Exec!Retry(r)
  /\ UNCHANGED <<backlogVars, receiverVars, faults>>

ExecWrite(r, ok) ==
  /\ \/ Exec!CreateRun(r, ok) \/ Exec!MarkRunning(r, ok)
     \/ Exec!CompleteSuccess(r, ok) \/ Exec!CompleteFailed(r, ok)
  /\ Exec!WriteOutcome(r, ok)
  /\ UNCHANGED <<backlogVars, receiverVars>>

\* The hand-over: the executor inserts a row for the worker.
HandOver(r, ok) ==
  /\ Exec!EnqueueDelivery(r, ok)
  /\ IF ok THEN Backlog!Enqueue(r) ELSE UNCHANGED backlogVars
  /\ Exec!WriteOutcome(r, ok)
  /\ UNCHANGED receiverVars

CallOrHangUp(r) ==
  /\ Exec!Call(r) \/ Exec!Cancel(r)
  /\ UNCHANGED <<backlogVars, receiverVars, faults>>

-------------------------------------------------------------------------------
\* The worker posts an entry; a failure it sees may have been accepted.
WorkerPosts(r, ans) ==
  /\ Backlog!Post(r, ans)
  /\ \/ Accept(r)
     \/ ans = "failure" /\ UNCHANGED receiverVars
  /\ UNCHANGED <<execVars, faults>>

WorkerLists ==
  /\ Backlog!ListDue
  /\ UNCHANGED <<execVars, receiverVars, faults>>

BecomeDue(r) ==
  /\ Backlog!BecomeDue(r)
  /\ UNCHANGED <<execVars, receiverVars, faults>>

WorkerRecords(ok) ==
  /\ Backlog!Record(ok)
  /\ IF ok THEN UNCHANGED faults ELSE Backlog!Fault
  /\ UNCHANGED <<execVars, receiverVars>>

\* agent-os dies and is started again.
Crash ==
  /\ Exec!CrashExecutor
  /\ Backlog!CrashWorker
  /\ Backlog!Fault
  /\ UNCHANGED receiverVars

-------------------------------------------------------------------------------
ExecutorNext(r) == \/ CallOrHangUp(r) \/ ExecStep(r) \/ AttemptAccepted(r)
                   \/ AttemptUnanswered(r) \/ AttemptFailed(r) \/ CommandSucceeded(r)
                   \/ \E ok \in BOOLEAN : ExecWrite(r, ok) \/ HandOver(r, ok)

ReceiverNext(r) == \E s \in Results : JobEnds(r, s) \/ ReportArrives(r, s) \/ ReportLost(r, s)

WorkerNext == \/ WorkerLists
              \/ \E r \in Runs : BecomeDue(r) \/ \E ans \in Backlog!Answers : WorkerPosts(r, ans)
              \/ \E ok \in BOOLEAN : WorkerRecords(ok)

Next == \/ \E r \in Runs : ExecutorNext(r) \/ ReceiverNext(r)
        \/ WorkerNext
        \/ Crash

\* The goroutine of every call runs, posts end, sleeps end.
ExecutorFairness(r) ==
  /\ WF_vars(ExecStep(r))
  /\ WF_vars(AttemptAccepted(r) \/ AttemptFailed(r) \/ AttemptUnanswered(r) \/ CommandSucceeded(r))
  /\ WF_vars(\E ok \in BOOLEAN : ExecWrite(r, ok) \/ HandOver(r, ok))

\* The worker's ticker ticks and time passes.
WorkerFairness ==
  /\ WF_vars(WorkerLists)
  /\ WF_vars(\E r \in Runs, ans \in Backlog!Answers : WorkerPosts(r, ans))
  /\ WF_vars(WorkerRecords(TRUE))
  /\ \A r \in Runs : WF_vars(BecomeDue(r))

Safety == Init /\ [][Next]_vars
Spec == Safety /\ WorkerFairness /\ \A r \in Runs : ExecutorFairness(r)

-------------------------------------------------------------------------------
\* Every variable keeps its type.
TypeOK == /\ Exec!TypeOK
          /\ Backlog!TypeOK
          /\ accepted \in [Runs -> Nat]
          /\ jobs \in [Runs -> [{"executing"} \cup Results -> Nat]]

\* Nothing is lost silently: when Execute has returned because the peer could
\* not be reached, the delivery is in the backlog, unless the database failed,
\* the process died, or the caller of a manual trigger hung up.  And only a run
\* whose call failed is there: one answered with 2xx is never redelivered.
NothingLostSilently ==
  \A r \in WebhookRuns :
    /\ (pc[r] = "failed" /\ Exec!IsConnectionFailure(lastErr[r]))
         => (row[r].status # "absent" \/ faults > 0 \/ ctx[r] = "canceled")
    /\ row[r].status # "absent" => pc[r] = "failed"

\* A recorded success has a cause: a webhook run shown as success, and a
\* backlog row shown as delivered, has been accepted by the receiver.
SuccessIsGrounded ==
  \A r \in WebhookRuns :
    (run[r] = "success" \/ row[r].status = "delivered") => accepted[r] > 0

\* The receiver may start a job more than once for a run, but no more often
\* than the attempts of Execute, those of the worker and the faults allow.
CopiesBounded ==
  \A r \in Runs : accepted[r] <= (MaxRetries + 1) + MaxAttempts + faults

\* A delivery that Execute is about to hand over ends: delivered, written off
\* as failed, or given up for one of the reasons NothingLostSilently names.
OwedDeliveryEnds ==
  \A r \in WebhookRuns :
    (pc[r] = "enqueue") ~>
      \/ row[r].status \in {"delivered", "failed"}
      \/ row[r].status = "absent" /\ (faults > 0 \/ ctx[r] = "canceled")

-------------------------------------------------------------------------------
(* Statements of the repository that the code does not keep. *)

\* executor.go: failures because the peer is unreachable OR TIMED OUT are the
\* recoverable ones that go to the backlog.
TimeoutIsHandedOver ==
  \A r \in WebhookRuns :
    (pc[r] = "failed" /\ lastErr[r] = "timeout" /\ faults = 0 /\ ctx[r] = "live")
      => row[r].status # "absent"

\* run_update.go: the receiver reports the real outcome, the scheduler's own
\* record only says that the webhook call succeeded; so once Execute has
\* returned, a reported result is what the row shows.
ReportedResultStands ==
  \A r \in WebhookRuns :
    (pc[r] \in {"succeeded", "failed"} /\ reported[r] # "none") => run[r] = reported[r]
===============================================================================
