--------------------------- MODULE DeliveryBacklog ----------------------------
(***************************************************************************)
(* The table task_delivery_backlog and the worker that redelivers its rows *)
(* (TaskDeliveryRetryWorker): one goroutine that once a minute reads the   *)
(* due rows, posts them one by one, and records each outcome.              *)
(*                                                                         *)
(* A row is identified by the run that enqueued it (Execute enqueues at    *)
(* most once).  The worker works from the attempts it READ in ListDue, and *)
(* between the post and the UPDATE that records it the update may fail or  *)
(* the process may die; both cost one of the MaxFaults faults.             *)
(***************************************************************************)
EXTENDS Naturals, Sequences, FiniteSets, SequencesExt

CONSTANTS Runs,          \* the task runs that may be enqueued
          NoRun,         \* not a run
          MaxAttempts,   \* max_attempts of a row (10 in Execute)
          BatchLimit,    \* LIMIT of ListDue (20 in deliverDue)
          MaxFaults      \* bound: failed database writes and crashes together

ASSUME BacklogAssumption == /\ NoRun \notin Runs
                            /\ MaxAttempts \in Nat \ {0}
                            /\ BatchLimit \in Nat \ {0}
                            /\ MaxFaults \in Nat

VARIABLES
  row,      \* the table: run -> [status, attempts]; "absent" is no row
  due,      \* runs whose row has next_attempt_at <= NOW(), earliest first
  batch,    \* entries of the pass under way not posted yet
  seen,     \* run -> attempts as ListDue read it
  current,  \* the entry whose post has been answered and not yet recorded
  answer,   \* what that post answered
  posted,   \* history: run -> posts made by the worker
  faults    \* failed writes and crashes so far

workerVars == <<batch, seen, current, answer>>
backlogVars == <<row, due, batch, seen, current, answer, posted>>
vars == <<row, due, batch, seen, current, answer, posted, faults>>

RowStatus == {"absent", "pending", "delivered", "failed"}
Answers == {"2xx", "failure"}

BacklogInit == /\ row = [r \in Runs |-> [status |-> "absent", attempts |-> 0]]
               /\ due = <<>>
               /\ batch = {}
               /\ seen = [r \in Runs |-> 0]
               /\ current = NoRun
               /\ answer = "failure"
               /\ posted = [r \in Runs |-> 0]

\* One more database write or process fails.
Fault == /\ faults < MaxFaults
         /\ faults' = faults + 1

-------------------------------------------------------------------------------
\* Execute hands a run over: attempts = 0, first try after 30 s.
Enqueue(r) ==
  /\ row[r].status = "absent"
  /\ row' = [row EXCEPT ![r] = [status |-> "pending", attempts |-> 0]]
  /\ UNCHANGED <<due, workerVars, posted>>

\* The clock reaches next_attempt_at of a row, whatever its status.
BecomeDue(r) ==
  /\ row[r].status # "absent"
  /\ ~ Contains(due, r)
  /\ due' = Append(due, r)
  /\ UNCHANGED <<row, workerVars, posted>>

\* Mutants: the filter on the status forgotten; only the due time looked at.
EligibleAnyStatus == {r \in Runs : Contains(due, r) /\ row[r].attempts < MaxAttempts}
EligibleAnyDue == {r \in Runs : Contains(due, r)}

\* WHERE status = 'pending' AND next_attempt_at <= NOW() AND attempts < max_attempts
Eligible == {r \in Runs : /\ Contains(due, r)
                          /\ row[r].status = "pending"
                          /\ row[r].attempts < MaxAttempts}

DueBefore(r, s) == \E i, j \in DOMAIN due : i < j /\ due[i] = r /\ due[j] = s

\* ORDER BY next_attempt_at LIMIT BatchLimit
IsDueBatch(B) ==
  /\ Cardinality(B) <= BatchLimit
  /\ B # Eligible => Cardinality(B) = BatchLimit
  /\ \A r \in B, s \in Eligible \ B : DueBefore(r, s)

\* A tick of the worker that finds something to do.  (A tick that finds
\* nothing, or whose query fails, changes nothing.)
ListDue ==
  /\ batch = {} /\ current = NoRun
  /\ Eligible # {}
  /\ \E B \in SUBSET Eligible : IsDueBatch(B) /\ batch' = B
  /\ seen' = [r \in Runs |-> row[r].attempts]
  /\ UNCHANGED <<row, due, current, answer, posted>>

\* The next entry is posted and the peer answers 2xx, or anything else.
Post(r, ans) ==
  /\ current = NoRun
  /\ r \in batch
  /\ current' = r
  /\ batch' = batch \ {r}
  /\ answer' = ans
  /\ posted' = [posted EXCEPT ![r] = @ + 1]
  /\ UNCHANGED <<row, due, seen>>

\* Mutant: the answer of the peer is not looked at.
MarkDeliveredAnyway(ok) ==
  /\ current # NoRun
  /\ IF ok THEN row' = [row EXCEPT ![current].status = "delivered"]
           ELSE UNCHANGED row
  /\ current' = NoRun
  /\ UNCHANGED <<due, batch, seen, answer, posted>>

\* MarkDelivered: 2xx is recorded; a failed update leaves the row as it was.
MarkDelivered(ok) ==
  /\ current # NoRun /\ answer = "2xx"
  /\ IF ok THEN row' = [row EXCEPT ![current].status = "delivered"]
           ELSE UNCHANGED row
  /\ current' = NoRun
  /\ UNCHANGED <<due, batch, seen, answer, posted>>

\* Mutant: the attempt just made is not counted.
AttemptsNotCounted(r) == seen[r]

\* attempts := e.Attempts + 1, from what ListDue has read.
AttemptsMade(r) == seen[r] + 1

\* Mutant: off by one.
StatusOffByOne(attempts) == IF attempts > MaxAttempts THEN "failed" ELSE "pending"

\* CASE WHEN $2 >= max_attempts THEN 'failed' ELSE 'pending' END
StatusAfter(attempts) == IF attempts >= MaxAttempts THEN "failed" ELSE "pending"

\* MarkAttemptFailed writes the attempts read in ListDue plus one, and a
\* next_attempt_at in the future (the row leaves `due').
MarkAttemptFailed(ok) ==
  /\ current # NoRun /\ answer = "failure"
  /\ LET attempts == AttemptsMade(current) IN
     IF ok
     THEN /\ row' = [row EXCEPT ![current] =
                       [status |-> StatusAfter(attempts), attempts |-> attempts]]
          /\ \E i \in DOMAIN due : due[i] = current /\ due' = RemoveAt(due, i)
     ELSE UNCHANGED <<row, due>>
  /\ current' = NoRun
  /\ UNCHANGED <<batch, seen, answer, posted>>

Record(ok) == MarkDelivered(ok) \/ MarkAttemptFailed(ok)

\* The process dies in the middle of a pass and is started again: the table
\* stays, what the worker held in memory is gone.
CrashWorker ==
  /\ batch' = {}
  /\ current' = NoRun
  /\ UNCHANGED <<row, due, seen, answer, posted>>

-------------------------------------------------------------------------------
\* The backlog on its own: runs are enqueued, and the peer answers, at will.
Init == BacklogInit /\ faults = 0

Next == \/ \E r \in Runs : Enqueue(r) /\ UNCHANGED faults
        \/ \E r \in Runs : BecomeDue(r) /\ UNCHANGED faults
        \/ ListDue /\ UNCHANGED faults
        \/ \E r \in Runs, ans \in Answers : Post(r, ans) /\ UNCHANGED faults
        \/ Record(TRUE) /\ UNCHANGED faults
        \/ Record(FALSE) /\ Fault
        \/ (batch # {} \/ current # NoRun) /\ CrashWorker /\ Fault

\* The ticker keeps ticking, every post ends (client timeout of 60 s), and the
\* clock advances; nothing forces the peer to answer 2xx.
WorkerFairness ==
  /\ \A r \in Runs : WF_vars(BecomeDue(r) /\ UNCHANGED faults)
  /\ WF_vars(ListDue /\ UNCHANGED faults)
  /\ WF_vars(\E r \in Runs, ans \in Answers : Post(r, ans) /\ UNCHANGED faults)
  /\ WF_vars(Record(TRUE) /\ UNCHANGED faults)

Safety == Init /\ [][Next]_vars
Spec == Safety /\ WorkerFairness

-------------------------------------------------------------------------------
\* Every variable keeps its type.
TypeOK ==
  /\ row \in [Runs -> [status : RowStatus, attempts : 0..MaxAttempts]]
  /\ due \in Seq(Runs)
  /\ batch \in SUBSET Runs
  /\ seen \in [Runs -> 0..MaxAttempts]
  /\ current \in Runs \cup {NoRun}
  /\ answer \in Answers
  /\ posted \in [Runs -> Nat]
  /\ faults \in 0..MaxFaults

\* No row is stranded: a row that is still pending has attempts left, so the
\* filter attempts < max_attempts of ListDue can never hide it forever, and a
\* row is failed exactly when its attempts are used up.
NoRowStranded ==
  \A r \in Runs : /\ row[r].status \in {"pending", "delivered"} => row[r].attempts < MaxAttempts
                  /\ row[r].status = "failed" => row[r].attempts = MaxAttempts

\* What the worker read in ListDue is still what the table holds when it
\* posts and when it records: no row it works on has been settled, or tried,
\* since.  (MarkAttemptFailed overwrites attempts and status without a
\* condition in its WHERE clause; this is what makes that safe.)
SnapshotFresh ==
  \A r \in batch \cup ({current} \cap Runs) :
     row[r].status = "pending" /\ row[r].attempts = seen[r]

\* Redelivery is at least once but not without end: a run is posted at most
\* MaxAttempts times, plus once for each crash or failed update.
PostsBounded == \A r \in Runs : posted[r] <= MaxAttempts + faults

\* A row that was delivered or written off is never touched again, and never
\* posted again: the peer gets no further copy of a delivery that the table says
\* it has accepted.
SettledIsFinal ==
  [][\A r \in Runs : row[r].status \in {"delivered", "failed"} =>
       row'[r] = row[r] /\ posted'[r] = posted[r]]_vars

\* The backlog implements the delivery contract.
Contract == INSTANCE DeliveryContract WITH
  debt <- [r \in Runs |-> CASE row[r].status = "absent" -> "none"
                            [] row[r].status = "pending" -> "owed"
                            [] row[r].status = "delivered" -> "delivered"
                            [] row[r].status = "failed" -> "written_off"],
  tries <- [r \in Runs |-> row[r].attempts]

\* The backlog does what the abstract contract allows and, under the worker's
\* fairness, what it demands: a delivery once owed is delivered or written off in
\* the end, in spite of crashes and failed updates, and whatever other rows
\* compete for the batch.
ImplementsContract == Contract!ContractSpec
===============================================================================
