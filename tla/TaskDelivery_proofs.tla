-------------------------- MODULE TaskDelivery_proofs --------------------------
(***************************************************************************)
(* Proofs about the delivery end to end, for any number of runs, retries,  *)
(* attempts and faults: nothing is lost silently, a recorded success has a *)
(* cause, the copies the receiver gets are bounded, and it gets none once  *)
(* the backlog has settled the delivery.                                   *)
(*                                                                         *)
(* Execute hands a run over only as it returns, so a row of the backlog    *)
(* and an attempt of Execute never meet (RowSound); and each copy at the   *)
(* receiver is an attempt counted by one of the two loops, the post in     *)
(* hand, or one that a fault has made the worker forget (CopiesSound).     *)
(***************************************************************************)
EXTENDS TaskDelivery, TLAPS

\* How many jobs of each kind a run can have at the receiver.
Counts == [{"executing"} \cup Results -> Nat]
JobCounts == [Runs -> Counts]

\* Every variable the proofs speak of keeps its type.
Typed ==
  /\ pc \in [Runs -> Exec!Stages \cup Exec!Finished \cup {"idle", "waiting"}]
  /\ attempt \in [Runs -> 0..MaxRetries]
  /\ lastErr \in [Runs -> Exec!Failures \cup {"none"}]
  /\ ctx \in [Runs -> {"live", "canceled"}]
  /\ run \in [Runs -> Exec!TaskStatus \cup {"absent"}]
  /\ row \in [Runs -> [status : Backlog!RowStatus, attempts : 0..MaxAttempts]]
  /\ batch \in SUBSET Runs
  /\ seen \in [Runs -> 0..MaxAttempts]
  /\ current \in Runs \cup {NoRun}
  /\ answer \in Backlog!Answers
  /\ accepted \in [Runs -> Nat]
  /\ jobs \in JobCounts
  /\ faults \in 0..MaxFaults

\* A goroutine that sleeps has a retry left; one at the hand-over has met a
\* peer it could not reach.
StagesSound ==
  \A r \in Runs : /\ pc[r] = "sleep" => attempt[r] < MaxRetries
                  /\ pc[r] = "enqueue" => Exec!HandsOver(r)

\* The rows of the backlog are webhook runs whose Execute has returned.
RowSound ==
  \A r \in Runs : /\ row[r].status # "absent" => r \in WebhookRuns /\ pc[r] = "failed"
                  /\ row[r].status = "absent" => row[r].attempts = 0

\* Before the first post is accepted there is no job, and nothing that says so:
\* no delivered row, no 2xx in hand, no attempt that succeeded, no success.
AcceptedFirst ==
  \A r \in Runs :
    \/ accepted[r] > 0
    \/ /\ \A s \in {"executing"} \cup Results : jobs[r][s] = 0
       /\ row[r].status # "delivered"
       /\ current = r => answer # "2xx"
       /\ r \in WebhookRuns => pc[r] # "complete" /\ run[r] # "success"

\* Posts that Execute has made, and posts of the worker that have an outcome
\* or are in hand.
Tried(r) ==
  attempt[r] + IF pc[r] \in {"idle", "waiting", "create", "start", "call"} THEN 0 ELSE 1
Redelivered(r) ==
  row[r].attempts + IF row[r].status = "delivered" \/ current = r THEN 1 ELSE 0

\* Each copy at the receiver is accounted for.
CopiesSound == \A r \in Runs : accepted[r] <= Tried(r) + Redelivered(r) + faults

\* The entry in hand has been taken out of the batch.
CurrentTaken == current \notin batch

IInv == /\ Typed
        /\ StagesSound
        /\ RowSound
        /\ AcceptedFirst
        /\ CopiesSound
        /\ CurrentTaken
        /\ Backlog!SnapshotFresh
        /\ Backlog!NoRowStranded
        /\ NothingLostSilently

-------------------------------------------------------------------------------
\* The initial state satisfies every part.
LEMMA InitIInv == Init => IInv
<1> SUFFICES ASSUME Init PROVE IInv
  OBVIOUS
<1> USE DEF Init, Exec!ExecInit, Backlog!BacklogInit
<1>1. Typed
  BY DeliveryAssumption DEF Typed, Exec!TaskStatus, Backlog!RowStatus, Backlog!Answers,
                             Results, JobCounts, Counts
<1>2. StagesSound /\ RowSound /\ CurrentTaken
  BY DeliveryAssumption DEF StagesSound, RowSound, CurrentTaken
<1>3. AcceptedFirst
  BY DeliveryAssumption DEF AcceptedFirst, Results
<1>4. CopiesSound
  BY DeliveryAssumption DEF CopiesSound, Tried, Redelivered
<1>5. Backlog!SnapshotFresh /\ Backlog!NoRowStranded
  BY DeliveryAssumption DEF Backlog!SnapshotFresh, Backlog!NoRowStranded
<1>6. NothingLostSilently
  BY DeliveryAssumption DEF NothingLostSilently
<1> QED BY <1>1, <1>2, <1>3, <1>4, <1>5, <1>6 DEF IInv

\* Steps that do not touch the backlog keep what is said about it alone.
LEMMA BacklogUntouched ==
  ASSUME IInv, UNCHANGED backlogVars
  PROVE  Backlog!SnapshotFresh' /\ Backlog!NoRowStranded' /\ CurrentTaken'
BY DEF IInv, backlogVars, Backlog!SnapshotFresh, Backlog!NoRowStranded, CurrentTaken

\* Setting one count.
LEMMA CountUpdate ==
  ASSUME NEW c \in Counts, NEW x \in {"executing"} \cup Results, NEW n \in Nat
  PROVE  [c EXCEPT ![x] = n] \in Counts
BY DEF Counts

\* A job that starts leaves the counts of the other runs alone.
LEMMA JobStarts ==
  ASSUME IInv, NEW r \in Runs
  PROVE  [jobs EXCEPT ![r].executing = jobs[r].executing + 1] \in JobCounts
<1>1. jobs \in JobCounts /\ jobs[r] \in Counts
  BY DEF IInv, Typed, JobCounts
<1>2. jobs[r].executing + 1 \in Nat
  BY <1>1 DEF Counts
<1>3. [jobs[r] EXCEPT !.executing = jobs[r].executing + 1] \in Counts
  BY <1>1, <1>2, CountUpdate
<1> QED BY <1>1, <1>3 DEF JobCounts

\* What a goroutine of Execute does without the receiver and without a fault.
Quiet(r) == \/ Exec!Call(r) \/ Exec!Cancel(r) \/ Exec!Acquire(r) \/ Exec!GiveUp(r)
            \/ Exec!Retry(r)
            \/ \E e \in Exec!Failures : Exec!AttemptFails(r, e)
            \/ r \notin WebhookRuns /\ Exec!AttemptSucceeds(r)

\* They keep the invariant: none reaches the receiver, none settles anything.
LEMMA QuietPreserves ==
  ASSUME IInv, NEW r \in Runs, Quiet(r), UNCHANGED <<backlogVars, receiverVars, faults>>
  PROVE  IInv'
<1> USE DEF Quiet, Exec!Call, Exec!Cancel, Exec!Acquire, Exec!GiveUp, Exec!Retry,
            Exec!AttemptFails, Exec!AttemptSucceeds, Exec!Goto, backlogVars, receiverVars
<1>1. Typed'
  <2>1. pc' \in [Runs -> Exec!Stages \cup Exec!Finished \cup {"idle", "waiting"}]
    BY DEF IInv, Typed, Exec!Stages, Exec!Finished
  <2>2. attempt' \in [Runs -> 0..MaxRetries]
    BY DeliveryAssumption DEF IInv, Typed, StagesSound
  <2>3. lastErr' \in [Runs -> Exec!Failures \cup {"none"}]
    BY DEF IInv, Typed
  <2>4. ctx' \in [Runs -> {"live", "canceled"}]
    BY DEF IInv, Typed
  <2> QED BY <2>1, <2>2, <2>3, <2>4 DEF IInv, Typed
<1>2. StagesSound'
  BY DEF IInv, Typed, StagesSound, Exec!HandsOver
<1>3. RowSound'
  BY DEF IInv, Typed, RowSound, Exec!Stages
<1>4. AcceptedFirst'
  BY DEF IInv, Typed, AcceptedFirst
<1>5. CopiesSound'
  BY DEF IInv, Typed, StagesSound, CopiesSound, Tried, Redelivered, Exec!Stages
<1>6. NothingLostSilently'
  BY DeliveryAssumption DEF IInv, Typed, NothingLostSilently, Exec!Stages
<1> QED BY <1>1, <1>2, <1>3, <1>4, <1>5, <1>6, BacklogUntouched DEF IInv

\* An attempt of Execute that the receiver accepts, answered in time or not.
LEMMA AcceptPreserves ==
  ASSUME IInv, NEW r \in WebhookRuns, Accept(r), UNCHANGED <<backlogVars, faults>>,
         \/ Exec!AttemptSucceeds(r)
         \/ \E e \in Exec!Failures : Exec!AttemptFails(r, e)
  PROVE  IInv'
<1> USE DEF Exec!AttemptFails, Exec!AttemptSucceeds, Exec!Goto, backlogVars, Accept
<1>1. r \in Runs
  BY DeliveryAssumption
<1>2. Typed'
  <2>1. pc' \in [Runs -> Exec!Stages \cup Exec!Finished \cup {"idle", "waiting"}]
    BY DEF IInv, Typed, Exec!Stages, Exec!Finished
  <2>2. lastErr' \in [Runs -> Exec!Failures \cup {"none"}]
    BY DEF IInv, Typed
  <2>3. accepted' \in [Runs -> Nat]
    BY <1>1 DEF IInv, Typed
  <2>4. jobs' \in JobCounts
    BY <1>1, JobStarts
  <2> QED BY <2>1, <2>2, <2>3, <2>4 DEF IInv, Typed
<1>3. StagesSound'
  BY DEF IInv, Typed, StagesSound, Exec!HandsOver
<1>4. RowSound'
  BY <1>1 DEF IInv, Typed, RowSound
<1>5. AcceptedFirst'
  BY <1>1 DEF IInv, Typed, AcceptedFirst
<1>6. CopiesSound'
  BY <1>1 DEF IInv, Typed, CopiesSound, Tried, Redelivered
<1>7. NothingLostSilently'
  BY DeliveryAssumption DEF IInv, Typed, NothingLostSilently
<1> QED BY <1>2, <1>3, <1>4, <1>5, <1>6, <1>7, BacklogUntouched DEF IInv

\* The writes of task_runs, failed ones included.
LEMMA WritePreserves ==
  ASSUME IInv, NEW r \in Runs, NEW ok \in BOOLEAN, ExecWrite(r, ok)
  PROVE  IInv'
<1> USE DEF ExecWrite, Exec!CreateRun, Exec!MarkRunning, Exec!CompleteSuccess,
            Exec!CompleteFailed, Exec!Write, Exec!Return, Exec!Goto, Exec!WriteOutcome,
            Exec!Fault, backlogVars, receiverVars
<1>1. Typed'
  <2>1. pc' \in [Runs -> Exec!Stages \cup Exec!Finished \cup {"idle", "waiting"}]
    <3>1. \E l \in Exec!Stages \cup Exec!Finished : pc' = [pc EXCEPT ![r] = l]
      BY DEF Exec!Stages, Exec!Finished
    <3> QED BY <3>1 DEF IInv, Typed
  <2>2. run' \in [Runs -> Exec!TaskStatus \cup {"absent"}]
    BY DEF IInv, Typed, Exec!TaskStatus, Exec!Terminal
  <2>3. faults' \in 0..MaxFaults
    BY DeliveryAssumption DEF IInv, Typed
  <2> QED BY <2>1, <2>2, <2>3 DEF IInv, Typed
<1>2. StagesSound'
  BY DEF IInv, Typed, StagesSound, Exec!HandsOver
<1>3. RowSound'
  BY DEF IInv, Typed, RowSound
<1>4. AcceptedFirst'
  BY DEF IInv, Typed, AcceptedFirst
<1>5. CopiesSound'
  BY DeliveryAssumption DEF IInv, Typed, CopiesSound, Tried, Redelivered
<1>6. NothingLostSilently'
  BY DeliveryAssumption DEF IInv, Typed, NothingLostSilently, Exec!HandsOver
<1> QED BY <1>1, <1>2, <1>3, <1>4, <1>5, <1>6, BacklogUntouched DEF IInv

\* The hand-over: Execute returns, and the row appears unless the insert failed.
LEMMA HandOverPreserves ==
  ASSUME IInv, NEW r \in Runs, NEW ok \in BOOLEAN, HandOver(r, ok)
  PROVE  IInv'
<1> USE DEF HandOver, Exec!EnqueueDelivery, Exec!Return, Exec!Goto, Exec!WriteOutcome,
            Exec!Fault, Backlog!Enqueue, Backlog!workerVars, backlogVars, receiverVars
<1>1. Typed'
  <2>1. pc' \in [Runs -> Exec!Stages \cup Exec!Finished \cup {"idle", "waiting"}]
    BY DEF IInv, Typed, Exec!Stages, Exec!Finished
  <2>2. row' \in [Runs -> [status : Backlog!RowStatus, attempts : 0..MaxAttempts]]
    <3>1. [status |-> "pending", attempts |-> 0]
             \in [status : Backlog!RowStatus, attempts : 0..MaxAttempts]
      BY DeliveryAssumption DEF Backlog!RowStatus
    <3>2. CASE ok
      <4>1. row' = [row EXCEPT ![r] = [status |-> "pending", attempts |-> 0]]
        BY <3>2
      <4> QED BY <3>1, <4>1 DEF IInv, Typed
    <3>3. CASE ~ok
      BY <3>3 DEF IInv, Typed
    <3> QED BY <3>2, <3>3
  <2>3. faults' \in 0..MaxFaults
    BY DeliveryAssumption DEF IInv, Typed
  <2> QED BY <2>1, <2>2, <2>3 DEF IInv, Typed
<1>2. StagesSound'
  BY DEF IInv, Typed, StagesSound, Exec!HandsOver
<1>3. RowSound'
  BY DEF IInv, Typed, RowSound, StagesSound, Exec!HandsOver
<1>4. AcceptedFirst'
  BY DEF IInv, Typed, AcceptedFirst
<1>5. CopiesSound'
  BY DeliveryAssumption DEF IInv, Typed, RowSound, CopiesSound, Tried, Redelivered
<1>6. Backlog!SnapshotFresh' /\ Backlog!NoRowStranded' /\ CurrentTaken'
  <2>1. CASE ok
    <3>1. row' = [row EXCEPT ![r] = [status |-> "pending", attempts |-> 0]]
          /\ row[r].status = "absent" /\ UNCHANGED <<batch, seen, current>>
      BY <2>1
    <3>2. r \notin batch /\ r # current
      BY <3>1 DEF IInv, Backlog!SnapshotFresh
    <3>3. Backlog!SnapshotFresh' /\ CurrentTaken'
      BY <3>1, <3>2 DEF IInv, Typed, Backlog!SnapshotFresh, CurrentTaken
    <3>4. Backlog!NoRowStranded'
      BY <3>1, DeliveryAssumption DEF IInv, Typed, Backlog!NoRowStranded
    <3> QED BY <3>3, <3>4
  <2>2. CASE ~ok
    <3>1. UNCHANGED backlogVars
      BY <2>2
    <3> QED BY <3>1, BacklogUntouched
  <2> QED BY <2>1, <2>2
<1>7. NothingLostSilently'
  BY DeliveryAssumption DEF IInv, Typed, NothingLostSilently
<1> QED BY <1>1, <1>2, <1>3, <1>4, <1>5, <1>6, <1>7 DEF IInv

\* The receiver works on what it has accepted before, so its reports tell of
\* accepted runs only.
LEMMA ReceiverPreserves ==
  ASSUME IInv, NEW r \in Runs, ReceiverNext(r)
  PROVE  IInv'
<1>1. PICK s \in Results : JobEnds(r, s) \/ ReportArrives(r, s) \/ ReportLost(r, s)
  BY DEF ReceiverNext
<1>2. UNCHANGED <<pc, attempt, lastErr, ctx, backlogVars, accepted, faults>>
  BY <1>1 DEF JobEnds, ReportArrives, ReportLost, Exec!Report, execVars
<1>3. run' \in [Runs -> Exec!TaskStatus \cup {"absent"}]
  BY <1>1 DEF IInv, Typed, JobEnds, ReportArrives, ReportLost, Exec!Report, execVars, Results,
              Exec!TaskStatus, Exec!Terminal
<1>4. /\ jobs' \in JobCounts
      /\ \A q \in Runs \ {r} : jobs'[q] = jobs[q]
      /\ \E x \in {"executing"} \cup Results : jobs[r][x] > 0
  <2>1. /\ jobs \in JobCounts /\ jobs[r] \in Counts
        /\ s \in {"executing"} \cup Results /\ s # "executing"
        /\ jobs[r].executing \in Nat /\ jobs[r][s] \in Nat
    BY DEF IInv, Typed, JobCounts, Counts, Results
  <2>2. CASE JobEnds(r, s)
    <3> DEFINE left == [jobs[r] EXCEPT !.executing = jobs[r].executing - 1]
               ended == [left EXCEPT ![s] = jobs[r][s] + 1]
    <3>1. jobs[r].executing > 0 /\ jobs[r].executing - 1 \in Nat
      BY <2>1, <2>2 DEF JobEnds
    <3>2. left \in Counts
      BY <2>1, <3>1, CountUpdate
    <3>3. jobs' = [jobs EXCEPT ![r] = ended]
      BY <2>1, <2>2 DEF JobEnds, JobCounts
    <3> HIDE DEF left
    <3>4. ended \in Counts
      <4>1. jobs[r][s] + 1 \in Nat
        BY <2>1
      <4> QED BY <2>1, <3>2, <4>1, CountUpdate
    <3> HIDE DEF ended
    <3>5. jobs' \in JobCounts /\ \A q \in Runs \ {r} : jobs'[q] = jobs[q]
      BY <2>1, <3>3, <3>4 DEF JobCounts
    <3> QED BY <3>1, <3>5
  <2>3. CASE ReportArrives(r, s) \/ ReportLost(r, s)
    <3> DEFINE left == [jobs[r] EXCEPT ![s] = jobs[r][s] - 1]
    <3>1. jobs[r][s] > 0 /\ jobs[r][s] - 1 \in Nat
      BY <2>1, <2>3 DEF ReportArrives, ReportLost
    <3>2. left \in Counts
      BY <2>1, <3>1, CountUpdate
    <3>3. jobs' = [jobs EXCEPT ![r] = left]
      BY <2>3 DEF ReportArrives, ReportLost
    <3> HIDE DEF left
    <3>4. jobs' \in JobCounts /\ \A q \in Runs \ {r} : jobs'[q] = jobs[q]
      BY <2>1, <3>2, <3>3 DEF JobCounts
    <3> QED BY <2>1, <3>1, <3>4
  <2> QED BY <1>1, <2>2, <2>3
<1>5. Typed'
  BY <1>2, <1>3, <1>4 DEF IInv, Typed, backlogVars
<1>6. accepted[r] > 0
  <2>1. PICK x \in {"executing"} \cup Results : jobs[r][x] > 0
    BY <1>4
  <2>2. jobs[r][x] # 0
    BY <2>1
  <2> QED BY <2>2 DEF IInv, AcceptedFirst
<1>7. \A q \in Runs \ {r} : run'[q] = run[q]
  BY <1>1 DEF JobEnds, ReportArrives, ReportLost, Exec!Report, execVars, IInv, Typed
<1>8. AcceptedFirst'
  BY <1>2, <1>4, <1>6, <1>7 DEF IInv, AcceptedFirst, backlogVars
<1>9. StagesSound' /\ RowSound' /\ CopiesSound' /\ NothingLostSilently'
  BY <1>2 DEF IInv, StagesSound, RowSound, CopiesSound, Tried, Redelivered,
              NothingLostSilently, backlogVars, Exec!HandsOver
<1> QED BY <1>2, <1>5, <1>8, <1>9, BacklogUntouched DEF IInv

-------------------------------------------------------------------------------
\* A post of the worker: of a row that is still pending.
LEMMA PostPreserves ==
  ASSUME IInv, NEW r \in Runs, NEW ans \in Backlog!Answers, WorkerPosts(r, ans)
  PROVE  IInv'
<1> USE DEF WorkerPosts, Backlog!Post, Accept, execVars, receiverVars
<1>1. row[r].status = "pending" /\ row[r].attempts = seen[r]
  BY DEF IInv, Backlog!SnapshotFresh
<1>2. Typed'
  <2>1. accepted' \in [Runs -> Nat]
    BY DEF IInv, Typed
  <2>2. jobs' \in JobCounts
    BY JobStarts DEF IInv, Typed
  <2>3. batch' \in SUBSET Runs /\ current' \in Runs \cup {NoRun} /\ answer' \in Backlog!Answers
    BY DEF IInv, Typed
  <2> QED BY <2>1, <2>2, <2>3 DEF IInv, Typed
<1>3. StagesSound' /\ RowSound' /\ NothingLostSilently'
  BY DEF IInv, StagesSound, RowSound, NothingLostSilently, Exec!HandsOver
<1>4. AcceptedFirst'
  BY <1>1, DeliveryAssumption DEF IInv, Typed, AcceptedFirst, JobCounts
<1>5. CopiesSound'
  <2> SUFFICES ASSUME NEW q \in Runs
               PROVE  accepted'[q] <= Tried(q)' + Redelivered(q)' + faults'
    BY DEF CopiesSound
  <2>1. /\ accepted[q] \in Nat /\ Tried(q) \in Nat /\ Redelivered(q) \in Nat /\ faults \in Nat
        /\ accepted[q] <= Tried(q) + Redelivered(q) + faults
    BY DeliveryAssumption DEF IInv, Typed, CopiesSound, Tried, Redelivered
  <2>2. Tried(q)' = Tried(q) /\ faults' = faults
    BY DEF Tried
  <2>3. /\ q = r => accepted'[q] \in {accepted[q], accepted[q] + 1}
        /\ q # r => accepted'[q] = accepted[q]
    BY DEF IInv, Typed
  <2>4. /\ q = r => Redelivered(q)' = Redelivered(q) + 1
        /\ q # r => Redelivered(q)' = Redelivered(q)
    BY <1>1, DeliveryAssumption DEF IInv, Typed, Redelivered
  <2> QED BY <2>1, <2>2, <2>3, <2>4
<1>6. Backlog!SnapshotFresh' /\ Backlog!NoRowStranded' /\ CurrentTaken'
  BY <1>1, DeliveryAssumption
     DEF IInv, Typed, Backlog!SnapshotFresh, Backlog!NoRowStranded, CurrentTaken
<1> QED BY <1>2, <1>3, <1>4, <1>5, <1>6 DEF IInv

\* A new batch is what the table holds now.
LEMMA ListPreserves ==
  ASSUME IInv, WorkerLists \/ \E r \in Runs : BecomeDue(r)
  PROVE  IInv'
<1> USE DEF WorkerLists, BecomeDue, Backlog!ListDue, Backlog!BecomeDue, Backlog!workerVars,
            execVars, receiverVars
<1>1. UNCHANGED <<pc, attempt, lastErr, ctx, run, row, current, answer, accepted, jobs,
                   faults>>
  OBVIOUS
<1>2. \/ UNCHANGED <<batch, seen>>
      \/ /\ current = NoRun
         /\ batch' \in SUBSET Backlog!Eligible
         /\ seen' = [r \in Runs |-> row[r].attempts]
  OBVIOUS
<1>3. Typed' /\ CurrentTaken'
  <2>1. batch' \in SUBSET Runs /\ CurrentTaken'
    BY <1>1, <1>2, DeliveryAssumption DEF IInv, Typed, Backlog!Eligible, CurrentTaken
  <2>2. seen' \in [Runs -> 0..MaxAttempts]
    BY <1>2 DEF IInv, Typed
  <2> QED BY <1>1, <2>1, <2>2 DEF IInv, Typed
<1>4. StagesSound' /\ RowSound' /\ AcceptedFirst' /\ NothingLostSilently'
  BY <1>1 DEF IInv, StagesSound, RowSound, AcceptedFirst, NothingLostSilently, Exec!HandsOver
<1>5. CopiesSound'
  BY <1>1 DEF IInv, CopiesSound, Tried, Redelivered
<1>6. Backlog!SnapshotFresh' /\ Backlog!NoRowStranded'
  BY <1>1, <1>2, DeliveryAssumption
     DEF IInv, Typed, Backlog!SnapshotFresh, Backlog!NoRowStranded, Backlog!Eligible
<1> QED BY <1>3, <1>4, <1>5, <1>6 DEF IInv

\* A recorded outcome moves the post in hand into the row; one that cannot be
\* recorded moves it to the faults.
LEMMA RecordPreserves ==
  ASSUME IInv, NEW ok \in BOOLEAN, WorkerRecords(ok)
  PROVE  IInv'
<1> USE DEF WorkerRecords, Backlog!Record, Backlog!Fault, execVars, receiverVars
<1> DEFINE tried == seen[current] + 1
           arrived == [status |-> "delivered", attempts |-> row[current].attempts]
           missed == [status |-> Backlog!StatusAfter(tried), attempts |-> tried]
<1>1. /\ current \in Runs /\ current' = NoRun
      /\ UNCHANGED <<batch, seen, answer, execVars, receiverVars>>
  BY DEF Backlog!MarkDelivered, Backlog!MarkAttemptFailed, IInv, Typed
<1>2. /\ row[current].status = "pending" /\ row[current].attempts = seen[current]
      /\ row[current].attempts < MaxAttempts
  BY <1>1 DEF IInv, Backlog!SnapshotFresh, Backlog!NoRowStranded
<1>3. faults' \in 0..MaxFaults /\ faults' = IF ok THEN faults ELSE faults + 1
  BY DeliveryAssumption DEF IInv, Typed
<1>4. \/ ~ok /\ row' = row
      \/ ok /\ answer = "2xx" /\ row' = [row EXCEPT ![current] = arrived]
      \/ ok /\ row' = [row EXCEPT ![current] = missed]
  <2>1. CASE Backlog!MarkDelivered(ok)
    <3>1. [row[current] EXCEPT !.status = "delivered"] = arrived
      BY <1>1 DEF IInv, Typed
    <3> QED BY <2>1, <3>1 DEF Backlog!MarkDelivered
  <2>2. CASE Backlog!MarkAttemptFailed(ok)
    BY <2>2 DEF Backlog!MarkAttemptFailed, Backlog!AttemptsMade
  <2> QED BY <2>1, <2>2
<1>5. /\ \A q \in Runs \ {current} : row'[q] = row[q]
      /\ row' \in [Runs -> [status : Backlog!RowStatus, attempts : 0..MaxAttempts]]
      /\ \/ ~ok /\ row'[current] = row[current]
         \/ /\ ok /\ answer = "2xx"
            /\ row'[current].status = "delivered"
            /\ row'[current].attempts = row[current].attempts
         \/ /\ ok
            /\ row'[current].attempts = row[current].attempts + 1
            /\ row'[current].status = IF row[current].attempts + 1 >= MaxAttempts
                                      THEN "failed" ELSE "pending"
  <2>1. CASE ~ok /\ row' = row
    BY <2>1 DEF IInv, Typed
  <2>2. CASE ok /\ answer = "2xx" /\ row' = [row EXCEPT ![current] = arrived]
    BY <1>1, <2>2 DEF IInv, Typed, Backlog!RowStatus
  <2>3. CASE ok /\ row' = [row EXCEPT ![current] = missed]
    <3>1. tried \in 0..MaxAttempts
      BY <1>1, <1>2, DeliveryAssumption DEF IInv, Typed
    <3>2. Backlog!StatusAfter(tried) \in Backlog!RowStatus
      BY DEF Backlog!StatusAfter, Backlog!RowStatus
    <3>3. missed \in [status : Backlog!RowStatus, attempts : 0..MaxAttempts]
      BY <3>1, <3>2
    <3> QED BY <1>1, <1>2, <2>3, <3>3 DEF IInv, Typed, Backlog!StatusAfter
  <2> QED BY <1>4, <2>1, <2>2, <2>3
<1> HIDE DEF tried, arrived, missed
<1>6. Typed'
  BY <1>1, <1>3, <1>5 DEF IInv, Typed
<1>7. StagesSound'
  BY <1>1 DEF IInv, StagesSound, Exec!HandsOver
<1>8. RowSound'
  BY <1>1, <1>2, <1>5 DEF IInv, RowSound
<1>9. AcceptedFirst'
  BY <1>1, <1>2, <1>5, DeliveryAssumption DEF IInv, AcceptedFirst
<1>10. CopiesSound'
  BY <1>1, <1>2, <1>3, <1>5, DeliveryAssumption DEF IInv, Typed, CopiesSound, Tried, Redelivered
<1>11. Backlog!SnapshotFresh' /\ CurrentTaken'
  BY <1>1, <1>5, DeliveryAssumption DEF IInv, Typed, Backlog!SnapshotFresh, CurrentTaken
<1>12. Backlog!NoRowStranded'
  BY <1>1, <1>2, <1>5, DeliveryAssumption DEF IInv, Typed, Backlog!NoRowStranded
<1>13. NothingLostSilently'
  BY <1>1, <1>2, <1>3, <1>5, DeliveryAssumption DEF IInv, Typed, NothingLostSilently
<1> QED BY <1>6, <1>7, <1>8, <1>9, <1>10, <1>11, <1>12, <1>13 DEF IInv

\* A crash forgets the post in hand, at most one, and costs a fault.
LEMMA CrashPreserves ==
  ASSUME IInv, Crash
  PROVE  IInv'
<1> USE DEF Crash, Exec!CrashExecutor, Backlog!CrashWorker, Backlog!Fault, receiverVars
<1>1. Typed'
  <2>1. pc' \in [Runs -> Exec!Stages \cup Exec!Finished \cup {"idle", "waiting"}]
    BY DEF IInv, Typed, Exec!Finished
  <2>2. faults' \in 0..MaxFaults /\ batch' \in SUBSET Runs /\ current' \in Runs \cup {NoRun}
    BY DeliveryAssumption DEF IInv, Typed
  <2> QED BY <2>1, <2>2 DEF IInv, Typed
<1>2. StagesSound' /\ RowSound'
  BY DEF IInv, Typed, StagesSound, RowSound, Exec!Stages
<1>3. AcceptedFirst'
  BY DeliveryAssumption DEF IInv, Typed, AcceptedFirst, Exec!Stages
<1>4. CopiesSound'
  BY DeliveryAssumption DEF IInv, Typed, CopiesSound, Tried, Redelivered, Exec!Stages
<1>5. Backlog!SnapshotFresh' /\ Backlog!NoRowStranded' /\ CurrentTaken'
  BY DeliveryAssumption DEF IInv, Backlog!SnapshotFresh, Backlog!NoRowStranded, CurrentTaken
<1>6. NothingLostSilently'
  BY DeliveryAssumption DEF IInv, Typed, NothingLostSilently, Exec!Stages
<1> QED BY <1>1, <1>2, <1>3, <1>4, <1>5, <1>6 DEF IInv

-------------------------------------------------------------------------------
\* Every step preserves the invariant.
LEMMA StepPreserves == IInv /\ [Next]_vars => IInv'
<1> SUFFICES ASSUME IInv, [Next]_vars PROVE IInv'
  OBVIOUS
<1>1. CASE \E r \in Runs : ExecutorNext(r)
  <2>1. PICK r \in Runs : ExecutorNext(r)
    BY <1>1
  <2>2. CASE CallOrHangUp(r) \/ ExecStep(r) \/ AttemptFailed(r) \/ CommandSucceeded(r)
    BY <2>2, QuietPreserves DEF Quiet, CallOrHangUp, ExecStep, AttemptFailed, CommandSucceeded
  <2>3. CASE AttemptAccepted(r) \/ AttemptUnanswered(r)
    BY <2>3, AcceptPreserves DEF AttemptAccepted, AttemptUnanswered, Exec!Failures
  <2>4. CASE \E ok \in BOOLEAN : ExecWrite(r, ok) \/ HandOver(r, ok)
    BY <2>4, WritePreserves, HandOverPreserves
  <2> QED BY <2>1, <2>2, <2>3, <2>4 DEF ExecutorNext
<1>2. CASE \E r \in Runs : ReceiverNext(r)
  BY <1>2, ReceiverPreserves
<1>3. CASE WorkerNext
  BY <1>3, ListPreserves, PostPreserves, RecordPreserves DEF WorkerNext
<1>4. CASE Crash
  BY <1>4, CrashPreserves
<1>5. CASE UNCHANGED vars
  <2>1. UNCHANGED <<backlogVars, pc, attempt, lastErr, ctx, run, accepted, jobs, faults>>
    BY <1>5 DEF vars, execVars, receiverVars
  <2>2. /\ Typed' /\ StagesSound' /\ RowSound' /\ AcceptedFirst' /\ CopiesSound'
        /\ NothingLostSilently'
    BY <2>1 DEF backlogVars, IInv, Typed, StagesSound, RowSound, AcceptedFirst, CopiesSound,
                Tried, Redelivered, NothingLostSilently, Exec!HandsOver
  <2> QED BY <2>1, <2>2, BacklogUntouched DEF IInv
<1> QED BY <1>1, <1>2, <1>3, <1>4, <1>5 DEF Next

\* The inductive invariant holds in every reachable state.
THEOREM Inductive == Spec => []IInv
BY InitIInv, StepPreserves, PTL DEF Spec, Safety

\* A connection failure of a webhook ends in the backlog, unless the database
\* failed, the process died or the caller hung up; and only such runs are there.
THEOREM NothingIsLost == Spec => []NothingLostSilently
BY Inductive, PTL DEF IInv

\* A run shown as success, and a row shown as delivered, was accepted.
THEOREM SuccessHasCause == Spec => []SuccessIsGrounded
<1>1. IInv => SuccessIsGrounded
  BY DeliveryAssumption DEF IInv, AcceptedFirst, SuccessIsGrounded
<1> QED BY <1>1, Inductive, PTL

\* The receiver starts a job at most MaxRetries + 1 + MaxAttempts times for a
\* run, plus once for each fault.
THEOREM CopiesAreBounded == Spec => []CopiesBounded
<1>1. IInv => CopiesBounded
  <2> SUFFICES ASSUME IInv, NEW r \in Runs
               PROVE  accepted[r] <= (MaxRetries + 1) + MaxAttempts + faults
    BY DEF CopiesBounded
  <2>1. /\ accepted[r] \in Nat /\ faults \in Nat
        /\ attempt[r] \in 0..MaxRetries /\ row[r].attempts \in 0..MaxAttempts
    BY DeliveryAssumption DEF IInv, Typed
  <2>2. Tried(r) <= MaxRetries + 1 /\ Tried(r) \in Nat
    BY <2>1, DeliveryAssumption DEF Tried
  <2>3. Redelivered(r) <= MaxAttempts /\ Redelivered(r) \in Nat
    <3>1. row[r].status = "delivered" \/ current = r => row[r].attempts < MaxAttempts
      BY DEF IInv, Backlog!NoRowStranded, Backlog!SnapshotFresh
    <3> QED BY <2>1, <3>1, DeliveryAssumption DEF Redelivered
  <2> QED BY <2>1, <2>2, <2>3, DeliveryAssumption DEF IInv, CopiesSound
<1> QED BY <1>1, Inductive, PTL

\* A delivery that the backlog has settled stays as it is, and the receiver is
\* never again sent a copy of it: not by the worker, whose batch holds pending
\* rows only, nor by Execute, which has returned.
SettledStaysSettled ==
  [][\A r \in Runs : row[r].status \in {"delivered", "failed"} =>
       row'[r] = row[r] /\ accepted'[r] = accepted[r]]_vars

\* The settled deliveries stay settled, for both senders together.
THEOREM NoCopyOnceSettled == Spec => SettledStaysSettled
<1>1. IInv /\ [Next]_vars =>
        [\A r \in Runs : row[r].status \in {"delivered", "failed"} =>
           row'[r] = row[r] /\ accepted'[r] = accepted[r]]_vars
  <2> SUFFICES ASSUME IInv, Next, NEW r \in Runs, row[r].status \in {"delivered", "failed"}
               PROVE  row'[r] = row[r] /\ accepted'[r] = accepted[r]
    OBVIOUS
  <2>1. pc[r] = "failed" /\ r \notin batch /\ r # current
    BY DEF IInv, RowSound, Backlog!SnapshotFresh
  <2>2. ASSUME NEW q \in Runs, ExecutorNext(q)
        PROVE  row'[r] = row[r] /\ accepted'[r] = accepted[r]
    <3>1. CASE \E ok \in BOOLEAN : ExecWrite(q, ok) \/ HandOver(q, ok)
      BY <2>1, <3>1 DEF ExecWrite, HandOver, Exec!EnqueueDelivery, Backlog!Enqueue, IInv, Typed,
                        backlogVars, receiverVars
    <3>2. CASE AttemptAccepted(q) \/ AttemptUnanswered(q)
      BY <2>1, <3>2 DEF AttemptAccepted, AttemptUnanswered, Exec!AttemptSucceeds,
                        Exec!AttemptFails, Accept, backlogVars, IInv, Typed
    <3>3. CASE CallOrHangUp(q) \/ ExecStep(q) \/ AttemptFailed(q) \/ CommandSucceeded(q)
      BY <3>3 DEF CallOrHangUp, ExecStep, AttemptFailed, CommandSucceeded, backlogVars,
                  receiverVars
    <3> QED BY <2>2, <3>1, <3>2, <3>3 DEF ExecutorNext
  <2>3. ASSUME NEW q \in Runs, ReceiverNext(q)
        PROVE  row'[r] = row[r] /\ accepted'[r] = accepted[r]
    BY <2>3 DEF ReceiverNext, JobEnds, ReportArrives, ReportLost, backlogVars
  <2>4. CASE WorkerNext
    <3>1. ASSUME NEW q \in Runs, NEW ans \in Backlog!Answers, WorkerPosts(q, ans)
          PROVE  row'[r] = row[r] /\ accepted'[r] = accepted[r]
      BY <2>1, <3>1 DEF WorkerPosts, Backlog!Post, Accept, receiverVars, IInv, Typed
    <3>2. ASSUME NEW ok \in BOOLEAN, WorkerRecords(ok)
          PROVE  row'[r] = row[r] /\ accepted'[r] = accepted[r]
      BY <2>1, <3>2 DEF WorkerRecords, Backlog!Record, Backlog!MarkDelivered,
                        Backlog!MarkAttemptFailed, receiverVars, IInv, Typed
    <3>3. CASE WorkerLists \/ \E q \in Runs : BecomeDue(q)
      BY <3>3 DEF WorkerLists, BecomeDue, Backlog!ListDue, Backlog!BecomeDue, receiverVars
    <3> QED BY <2>4, <3>1, <3>2, <3>3 DEF WorkerNext
  <2>5. CASE Crash
    BY <2>5 DEF Crash, Backlog!CrashWorker, receiverVars
  <2> QED BY <2>2, <2>3, <2>4, <2>5 DEF Next
<1> QED BY <1>1, Inductive, PTL DEF Spec, Safety, SettledStaysSettled
===============================================================================
