------------------------ MODULE DeliveryBacklog_proofs ------------------------
(***************************************************************************)
(* Proofs about the delivery backlog, for every set of runs, every number  *)
(* of attempts, every batch limit and every number of faults: its types,   *)
(* its safety invariants and action properties, and that it implements the *)
(* safety part of DeliveryContract.  (Liveness stays with TLC.)            *)
(*                                                                         *)
(* None of the invariants is inductive by itself.  What the worker writes  *)
(* comes from what it READ (seen), so all of them rest on SnapshotFresh;   *)
(* and SnapshotFresh survives a write only because the entry written is    *)
(* no longer in the batch and the attempts of a row never pass MaxAttempts. *)
(***************************************************************************)
EXTENDS DeliveryBacklog, SequenceTheorems, TLAPS

\* The entry in hand has been taken out of the batch.
CurrentTaken == current \notin batch

\* A run that was never handed over has used no attempt.
AbsentUntried == \A r \in Runs : row[r].status = "absent" => row[r].attempts = 0

\* Every post is accounted for: by a recorded attempt, by the delivery, by
\* being the one in hand, or by a fault.
Outstanding(r) == (IF row[r].status = "delivered" THEN 1 ELSE 0)
                    + (IF current = r THEN 1 ELSE 0)
PostsAccounted == \A r \in Runs : posted[r] <= row[r].attempts + Outstanding(r) + faults

IInv == /\ TypeOK
        /\ NoRowStranded
        /\ SnapshotFresh
        /\ CurrentTaken
        /\ AbsentUntried
        /\ PostsAccounted

-------------------------------------------------------------------------------
\* Taking an element out of a sequence leaves a sequence over the same set.
LEMMA RemoveAtType ==
  ASSUME NEW S, NEW s \in Seq(S), NEW i \in DOMAIN s
  PROVE  RemoveAt(s, i) \in Seq(S)
<1>1. Len(s) \in Nat /\ DOMAIN s = 1 .. Len(s)
  OBVIOUS
<1>2. SubSeq(s, 1, i - 1) \in Seq(S)
  <2>1. \A k \in 1 .. i - 1 : s[k] \in S
    BY <1>1
  <2> QED BY <1>1, <2>1, SubSeqProperties
<1>3. SubSeq(s, i + 1, Len(s)) \in Seq(S)
  <2>1. \A k \in i + 1 .. Len(s) : s[k] \in S
    BY <1>1
  <2> QED BY <1>1, <2>1, SubSeqProperties
<1> QED BY <1>2, <1>3, ConcatProperties DEF RemoveAt

\* The bookkeeping of one run in numbers.
LEMMA Accounting ==
  ASSUME IInv, NEW r \in Runs
  PROVE  /\ posted[r] \in Nat /\ row[r].attempts \in Nat /\ faults \in Nat
         /\ Outstanding(r) \in Nat
         /\ posted[r] <= row[r].attempts + Outstanding(r) + faults
<1>1. posted[r] \in Nat /\ row[r].attempts \in Nat /\ faults \in Nat
  BY BacklogAssumption DEF IInv, TypeOK
<1>2. Outstanding(r) \in Nat
  BY DEF Outstanding
<1> QED BY <1>1, <1>2 DEF IInv, PostsAccounted

LEMMA InitEstablishes == Init => IInv
<1> SUFFICES ASSUME Init PROVE IInv
  OBVIOUS
<1> USE BacklogAssumption DEF Init, BacklogInit
<1>1. TypeOK
  BY DEF TypeOK, RowStatus, Answers
<1>2. NoRowStranded /\ SnapshotFresh /\ CurrentTaken /\ AbsentUntried
  BY DEF NoRowStranded, SnapshotFresh, CurrentTaken, AbsentUntried
<1>3. PostsAccounted
  BY DEF PostsAccounted, Outstanding
<1> QED BY <1>1, <1>2, <1>3 DEF IInv

-------------------------------------------------------------------------------
(* One lemma per action.                                                    *)

LEMMA EnqueuePreserves ==
  ASSUME IInv, NEW r \in Runs, Enqueue(r), UNCHANGED faults
  PROVE  IInv'
<1> USE BacklogAssumption DEF IInv, Enqueue, workerVars
<1>1. TypeOK'
  BY DEF TypeOK, RowStatus
<1>2. NoRowStranded'
  BY DEF TypeOK, NoRowStranded
<1>3. SnapshotFresh'
  BY DEF TypeOK, SnapshotFresh
<1>4. CurrentTaken' /\ AbsentUntried'
  BY DEF TypeOK, CurrentTaken, AbsentUntried
<1>5. PostsAccounted'
  BY DEF TypeOK, AbsentUntried, PostsAccounted, Outstanding
<1> QED BY <1>1, <1>2, <1>3, <1>4, <1>5

LEMMA BecomeDuePreserves ==
  ASSUME IInv, NEW r \in Runs, BecomeDue(r), UNCHANGED faults
  PROVE  IInv'
<1> USE DEF IInv, BecomeDue, workerVars
<1>1. TypeOK'
  BY AppendProperties DEF TypeOK
<1>2. NoRowStranded' /\ SnapshotFresh' /\ CurrentTaken' /\ AbsentUntried'
  BY DEF NoRowStranded, SnapshotFresh, CurrentTaken, AbsentUntried
<1>3. PostsAccounted'
  BY DEF PostsAccounted, Outstanding
<1> QED BY <1>1, <1>2, <1>3

LEMMA ListDuePreserves ==
  ASSUME IInv, ListDue, UNCHANGED faults
  PROVE  IInv'
<1> USE BacklogAssumption DEF IInv, ListDue
<1>1. PICK B \in SUBSET Eligible : batch' = B
  OBVIOUS
<1>2. batch' \subseteq Runs /\ \A r \in batch' : row[r].status = "pending"
  BY <1>1 DEF Eligible
<1>3. TypeOK'
  BY <1>2 DEF TypeOK
<1>4. SnapshotFresh'
  BY <1>2 DEF SnapshotFresh
<1>5. NoRowStranded' /\ CurrentTaken' /\ AbsentUntried'
  BY <1>2 DEF NoRowStranded, CurrentTaken, AbsentUntried
<1>6. PostsAccounted'
  BY DEF PostsAccounted, Outstanding
<1> QED BY <1>3, <1>4, <1>5, <1>6

LEMMA PostPreserves ==
  ASSUME IInv, NEW r \in Runs, NEW ans \in Answers, Post(r, ans), UNCHANGED faults
  PROVE  IInv'
<1> USE BacklogAssumption DEF IInv, Post
<1>1. TypeOK'
  BY DEF TypeOK
<1>2. NoRowStranded' /\ CurrentTaken' /\ AbsentUntried'
  BY DEF NoRowStranded, CurrentTaken, AbsentUntried
<1>3. SnapshotFresh'
  BY DEF SnapshotFresh, TypeOK
<1>4. PostsAccounted'
  <2> SUFFICES ASSUME NEW q \in Runs
               PROVE  posted'[q] <= row'[q].attempts + Outstanding(q)' + faults'
    BY DEF PostsAccounted
  <2>1. posted'[q] = posted[q] + (IF q = r THEN 1 ELSE 0)
    BY DEF TypeOK
  <2>2. Outstanding(q)' = Outstanding(q) + (IF q = r THEN 1 ELSE 0)
    BY DEF Outstanding
  <2> HIDE DEF IInv, Post
  <2>3. row' = row /\ faults' = faults
    BY DEF Post
  <2> QED BY <2>1, <2>2, <2>3, Accounting
<1> QED BY <1>1, <1>2, <1>3, <1>4

\* What the worker is about to record is about a pending row, whose attempts
\* are those it has seen, and which is not in the batch any more.
LEMMA InHand ==
  ASSUME IInv, current # NoRun
  PROVE  /\ current \in Runs /\ current \notin batch
         /\ row[current].status = "pending"
         /\ row[current].attempts = seen[current]
         /\ seen[current] \in Nat /\ seen[current] < MaxAttempts
BY BacklogAssumption DEF IInv, TypeOK, CurrentTaken, SnapshotFresh, NoRowStranded

LEMMA MarkDeliveredPreserves ==
  ASSUME IInv, NEW ok \in BOOLEAN, MarkDelivered(ok),
         IF ok THEN UNCHANGED faults ELSE Fault
  PROVE  IInv'
<1>1. /\ current \in Runs /\ current \notin batch
      /\ row[current].status = "pending"
      /\ row[current].attempts \in Nat /\ row[current].attempts < MaxAttempts
  BY InHand DEF MarkDelivered
<1>2. current' = NoRun /\ UNCHANGED <<due, batch, seen, answer, posted>>
  BY DEF MarkDelivered
<1>3. faults \in Nat /\ faults' \in 0 .. MaxFaults /\ faults' >= faults
  BY BacklogAssumption DEF IInv, TypeOK, Fault
<1>4. CASE ok
  <2>1. row' = [row EXCEPT ![current].status = "delivered"] /\ faults' = faults
    BY <1>4 DEF MarkDelivered
  <2>2. TypeOK'
    BY <1>1, <1>2, <1>3, <2>1 DEF IInv, TypeOK, RowStatus
  <2>3. NoRowStranded' /\ CurrentTaken' /\ AbsentUntried'
    BY BacklogAssumption, <1>1, <1>2, <2>1
    DEF IInv, TypeOK, NoRowStranded, CurrentTaken, AbsentUntried
  <2>4. SnapshotFresh'
    BY BacklogAssumption, <1>1, <1>2, <2>1 DEF IInv, TypeOK, SnapshotFresh
  <2>5. PostsAccounted'
    <3> SUFFICES ASSUME NEW r \in Runs
                 PROVE  posted'[r] <= row'[r].attempts + Outstanding(r)' + faults'
      BY DEF PostsAccounted
    <3>1. row'[r].attempts = row[r].attempts
      BY <1>1, <2>1 DEF IInv, TypeOK
    <3>2. Outstanding(r)' = Outstanding(r)
      <4>1. CASE r = current
        BY BacklogAssumption, <1>1, <1>2, <2>1, <4>1 DEF IInv, TypeOK, Outstanding
      <4>2. CASE r # current
        BY BacklogAssumption, <1>1, <1>2, <2>1, <4>2 DEF IInv, TypeOK, Outstanding
      <4> QED BY <4>1, <4>2
    <3> QED BY <1>2, <2>1, <3>1, <3>2, Accounting
  <2> QED BY <2>2, <2>3, <2>4, <2>5 DEF IInv
<1>5. CASE ~ ok
  <2>1. row' = row /\ faults' = faults + 1
    BY <1>5 DEF MarkDelivered, Fault
  <2>2. TypeOK'
    BY <1>2, <1>3, <2>1 DEF IInv, TypeOK
  <2>3. NoRowStranded' /\ CurrentTaken' /\ AbsentUntried' /\ SnapshotFresh'
    BY BacklogAssumption, <1>2, <2>1
    DEF IInv, TypeOK, NoRowStranded, CurrentTaken, AbsentUntried, SnapshotFresh
  <2>4. PostsAccounted'
    <3> SUFFICES ASSUME NEW r \in Runs
                 PROVE  posted'[r] <= row'[r].attempts + Outstanding(r)' + faults'
      BY DEF PostsAccounted
    <3>1. Outstanding(r) <= Outstanding(r)' + 1
      BY <1>1, <1>2, <2>1 DEF Outstanding
    <3>2. Outstanding(r)' \in Nat
      BY DEF Outstanding
    <3> QED BY <1>2, <2>1, <3>1, <3>2, Accounting
  <2> QED BY <2>2, <2>3, <2>4 DEF IInv
<1> QED BY <1>4, <1>5

LEMMA MarkAttemptFailedPreserves ==
  ASSUME IInv, NEW ok \in BOOLEAN, MarkAttemptFailed(ok),
         IF ok THEN UNCHANGED faults ELSE Fault
  PROVE  IInv'
<1>1. /\ current \in Runs /\ current \notin batch
      /\ row[current].status = "pending" /\ row[current].attempts = seen[current]
      /\ seen[current] \in Nat /\ seen[current] < MaxAttempts
  BY InHand DEF MarkAttemptFailed
<1>2. current' = NoRun /\ UNCHANGED <<batch, seen, answer, posted>>
  BY DEF MarkAttemptFailed
<1>3. faults \in Nat /\ faults' \in 0 .. MaxFaults /\ faults' >= faults
  BY BacklogAssumption DEF IInv, TypeOK, Fault
<1>4. CASE ok
  <2> DEFINE made == seen[current] + 1
  <2>1. /\ row' = [row EXCEPT ![current] = [status |-> StatusAfter(made), attempts |-> made]]
        /\ faults' = faults
    BY <1>4 DEF MarkAttemptFailed, AttemptsMade
  <2>2. /\ made \in 1 .. MaxAttempts
        /\ StatusAfter(made) \in {"failed", "pending"}
        /\ StatusAfter(made) = "failed" => made = MaxAttempts
        /\ StatusAfter(made) = "pending" => made < MaxAttempts
    BY BacklogAssumption, <1>1 DEF StatusAfter
  <2>3. due' \in Seq(Runs)
    BY <1>4, RemoveAtType DEF IInv, TypeOK, MarkAttemptFailed
  <2>4. row'[current] = [status |-> StatusAfter(made), attempts |-> made]
        /\ \A r \in Runs \ {current} : row'[r] = row[r]
    BY <1>1, <2>1 DEF IInv, TypeOK
  <2>5. row' \in [Runs -> [status : RowStatus, attempts : 0 .. MaxAttempts]]
    <3>1. [status |-> StatusAfter(made), attempts |-> made]
            \in [status : RowStatus, attempts : 0 .. MaxAttempts]
      BY <2>2 DEF RowStatus
    <3> QED BY <1>1, <2>1, <3>1 DEF IInv, TypeOK
  <2>6. TypeOK'
    BY <1>2, <1>3, <2>3, <2>5 DEF IInv, TypeOK
  <2>7. NoRowStranded' /\ CurrentTaken' /\ AbsentUntried'
    <3>1. row'[current].status = StatusAfter(made) /\ row'[current].attempts = made
      BY <2>4
    <3>2. NoRowStranded'
      BY BacklogAssumption, <2>2, <2>4, <3>1 DEF IInv, NoRowStranded
    <3>3. CurrentTaken' /\ AbsentUntried'
      BY BacklogAssumption, <1>2, <2>2, <2>4, <3>1 DEF IInv, TypeOK, CurrentTaken, AbsentUntried
    <3> QED BY <3>2, <3>3
  <2>8. SnapshotFresh'
    BY BacklogAssumption, <1>1, <1>2, <2>4 DEF IInv, TypeOK, SnapshotFresh
  <2>9. PostsAccounted'
    <3> SUFFICES ASSUME NEW r \in Runs
                 PROVE  posted'[r] <= row'[r].attempts + Outstanding(r)' + faults'
      BY DEF PostsAccounted
    <3>1. row'[r].attempts + Outstanding(r)' = row[r].attempts + Outstanding(r)
      <4>1. CASE r = current
        <5>1. row'[r].attempts = row[r].attempts + 1
          BY <1>1, <2>4, <4>1
        <5>2. Outstanding(r) = 1 /\ Outstanding(r)' = 0
          BY BacklogAssumption, <1>1, <1>2, <2>2, <2>4, <4>1 DEF Outstanding
        <5>3. row[r].attempts \in Nat
          BY Accounting
        <5> QED BY <5>1, <5>2, <5>3
      <4>2. CASE r # current
        BY BacklogAssumption, <1>2, <2>4, <4>2 DEF Outstanding
      <4> QED BY <4>1, <4>2
    <3>2. row'[r].attempts \in Nat /\ Outstanding(r)' \in Nat
      BY <2>5 DEF Outstanding
    <3> QED BY <1>2, <2>1, <3>1, <3>2, Accounting
  <2> QED BY <2>6, <2>7, <2>8, <2>9 DEF IInv
<1>5. CASE ~ ok
  <2>1. row' = row /\ due' = due /\ faults' = faults + 1
    BY <1>5 DEF MarkAttemptFailed, Fault
  <2>2. TypeOK'
    BY <1>2, <1>3, <2>1 DEF IInv, TypeOK
  <2>3. NoRowStranded' /\ CurrentTaken' /\ AbsentUntried' /\ SnapshotFresh'
    BY BacklogAssumption, <1>2, <2>1
    DEF IInv, TypeOK, NoRowStranded, CurrentTaken, AbsentUntried, SnapshotFresh
  <2>4. PostsAccounted'
    <3> SUFFICES ASSUME NEW r \in Runs
                 PROVE  posted'[r] <= row'[r].attempts + Outstanding(r)' + faults'
      BY DEF PostsAccounted
    <3>1. Outstanding(r) <= Outstanding(r)' + 1
      BY <1>1, <1>2, <2>1 DEF Outstanding
    <3>2. Outstanding(r)' \in Nat
      BY DEF Outstanding
    <3> QED BY <1>2, <2>1, <3>1, <3>2, Accounting
  <2> QED BY <2>2, <2>3, <2>4 DEF IInv
<1> QED BY <1>4, <1>5

LEMMA CrashPreserves ==
  ASSUME IInv, CrashWorker, Fault
  PROVE  IInv'
<1>1. /\ batch' = {} /\ current' = NoRun /\ faults' = faults + 1 /\ faults < MaxFaults
      /\ UNCHANGED <<row, due, seen, answer, posted>>
  BY DEF CrashWorker, Fault
<1>2. TypeOK'
  BY <1>1, BacklogAssumption DEF IInv, TypeOK
<1>3. NoRowStranded' /\ SnapshotFresh' /\ CurrentTaken' /\ AbsentUntried'
  BY <1>1, BacklogAssumption
  DEF IInv, NoRowStranded, SnapshotFresh, CurrentTaken, AbsentUntried
<1>4. PostsAccounted'
  <2> SUFFICES ASSUME NEW r \in Runs
               PROVE  posted'[r] <= row'[r].attempts + Outstanding(r)' + faults'
    BY DEF PostsAccounted
  <2>1. Outstanding(r) <= Outstanding(r)' + 1
    BY <1>1, BacklogAssumption DEF Outstanding
  <2>2. Outstanding(r)' \in Nat
    BY DEF Outstanding
  <2> QED BY <1>1, <2>1, <2>2, Accounting
<1> QED BY <1>2, <1>3, <1>4 DEF IInv

LEMMA StepPreserves == IInv /\ [Next]_vars => IInv'
<1> SUFFICES ASSUME IInv, [Next]_vars PROVE IInv'
  OBVIOUS
<1>1. CASE \E r \in Runs : Enqueue(r) /\ UNCHANGED faults
  BY <1>1, EnqueuePreserves
<1>2. CASE \E r \in Runs : BecomeDue(r) /\ UNCHANGED faults
  BY <1>2, BecomeDuePreserves
<1>3. CASE ListDue /\ UNCHANGED faults
  BY <1>3, ListDuePreserves
<1>4. CASE \E r \in Runs, ans \in Answers : Post(r, ans) /\ UNCHANGED faults
  BY <1>4, PostPreserves
<1>5. CASE Record(TRUE) /\ UNCHANGED faults
  BY <1>5, MarkDeliveredPreserves, MarkAttemptFailedPreserves DEF Record
<1>6. CASE Record(FALSE) /\ Fault
  BY <1>6, MarkDeliveredPreserves, MarkAttemptFailedPreserves DEF Record
<1>7. CASE (batch # {} \/ current # NoRun) /\ CrashWorker /\ Fault
  BY <1>7, CrashPreserves
<1>8. CASE UNCHANGED vars
  BY <1>8 DEF vars, IInv, TypeOK, NoRowStranded, SnapshotFresh, CurrentTaken,
              AbsentUntried, PostsAccounted, Outstanding
<1> QED BY <1>1, <1>2, <1>3, <1>4, <1>5, <1>6, <1>7, <1>8 DEF Next

\* The inductive invariant holds in every reachable state.
THEOREM Inductive == Spec => []IInv
BY InitEstablishes, StepPreserves, PTL DEF Spec, Safety
\* Type correctness: in particular attempts never passes max_attempts, and a
\* crash or a failed update never corrupts the order in which rows are due.
THEOREM TypeCorrect == Spec => []TypeOK
BY Inductive, PTL DEF IInv

\* A pending row always has attempts left, a failed one has none, whatever
\* the order of posts, updates, crashes and enqueues.
THEOREM NothingStranded == Spec => []NoRowStranded
BY Inductive, PTL DEF IInv

\* The unconditional UPDATEs of the worker never act on stale data.
THEOREM SnapshotIsFresh == Spec => []SnapshotFresh
BY Inductive, PTL DEF IInv

\* However many runs, faults and attempts there are, the peer gets no more
\* than max_attempts posts of a run, plus one for each fault.
THEOREM BoundedRedelivery == Spec => []PostsBounded
<1>1. IInv => PostsBounded
  <2> SUFFICES ASSUME IInv, NEW r \in Runs
               PROVE  posted[r] <= MaxAttempts + faults
    BY DEF PostsBounded
  <2>1. row[r].attempts + Outstanding(r) <= MaxAttempts
    <3>1. row[r].attempts \in 0 .. MaxAttempts /\ row[r].status \in RowStatus
      BY DEF IInv, TypeOK
    <3>2. CASE row[r].status = "absent"
      BY <3>1, <3>2, BacklogAssumption
      DEF IInv, TypeOK, AbsentUntried, SnapshotFresh, Outstanding
    <3>3. CASE row[r].status = "pending"
      BY <3>1, <3>3, BacklogAssumption DEF IInv, NoRowStranded, Outstanding
    <3>4. CASE row[r].status = "delivered"
      BY <3>1, <3>4, BacklogAssumption
      DEF IInv, NoRowStranded, SnapshotFresh, Outstanding
    <3>5. CASE row[r].status = "failed"
      BY <3>1, <3>5, BacklogAssumption
      DEF IInv, NoRowStranded, SnapshotFresh, Outstanding
    <3> QED BY <3>1, <3>2, <3>3, <3>4, <3>5 DEF RowStatus
  <2> QED BY <2>1, Accounting, BacklogAssumption
<1> QED BY <1>1, Inductive, PTL

-------------------------------------------------------------------------------
\* A step that changes a row that exists is the worker's record of the entry
\* in its hand, and that row is pending.
LEMMA OnlyPendingChanges ==
  ASSUME IInv, [Next]_vars, NEW r \in Runs, row'[r] # row[r], row[r].status # "absent"
  PROVE  row[r].status = "pending"
<1>1. CASE \E q \in Runs : Enqueue(q) /\ UNCHANGED faults
  BY <1>1 DEF Enqueue, IInv, TypeOK
<1>2. CASE Record(TRUE) \/ Record(FALSE)
  <2>1. row' = row \/ \E x : row' = [row EXCEPT ![current] = x]
    BY <1>2 DEF Record, MarkDelivered, MarkAttemptFailed
  <2>2. r = current
    BY <2>1 DEF IInv, TypeOK
  <2>3. current # NoRun
    BY <1>2 DEF Record, MarkDelivered, MarkAttemptFailed
  <2> QED BY <2>2, <2>3, InHand
<1>3. CASE UNCHANGED row
  BY <1>3
<1> QED BY <1>1, <1>2, <1>3
    DEF Next, vars, BecomeDue, ListDue, Post, CrashWorker

\* Only pending rows are posted.
LEMMA OnlyPendingPosted ==
  IInv /\ [Next]_vars => \A r \in Runs : posted'[r] # posted[r] => row[r].status = "pending"
<1> SUFFICES ASSUME IInv, [Next]_vars, NEW r \in Runs, posted'[r] # posted[r]
             PROVE  row[r].status = "pending"
  OBVIOUS
<1>1. PICK q \in Runs, ans \in Answers : Post(q, ans)
  BY DEF Next, vars, Enqueue, BecomeDue, ListDue, Record, MarkDelivered,
         MarkAttemptFailed, CrashWorker
<1>2. r = q /\ r \in batch
  BY <1>1 DEF Post, IInv, TypeOK
<1> QED BY <1>2 DEF IInv, SnapshotFresh

\* A delivered or written-off row is never touched again, and no copy of it is
\* posted to the peer.
THEOREM SettledStays == Spec => SettledIsFinal
<1>1. IInv /\ [Next]_vars =>
        [\A r \in Runs : row[r].status \in {"delivered", "failed"} =>
           row'[r] = row[r] /\ posted'[r] = posted[r]]_vars
  BY OnlyPendingChanges, OnlyPendingPosted
<1> QED BY <1>1, Inductive, PTL DEF Spec, Safety, SettledIsFinal

-------------------------------------------------------------------------------
(* The refinement.  A step on a row is a step on its debt; every other step  *)
(* is a stutter of the contract.                                             *)

\* How a status of a row reads as a debt.
Debt(st) == CASE st = "absent" -> "none" [] st = "pending" -> "owed"
              [] st = "delivered" -> "delivered" [] st = "failed" -> "written_off"

\* The state the backlog stands for, in the contract's terms.
debtNow == [r \in Runs |-> Debt(row[r].status)]
triesNow == [r \in Runs |-> row[r].attempts]

LEMMA Mapping ==
  /\ Contract!ContractInit <=> /\ debtNow = [r \in Runs |-> "none"]
                              /\ triesNow = [r \in Runs |-> 0]
  /\ \A r \in Runs :
       /\ Contract!Owe(r) <=> /\ debtNow[r] = "none"
                             /\ debtNow' = [debtNow EXCEPT ![r] = "owed"]
                             /\ triesNow' = triesNow
       /\ Contract!Deliver(r) <=> /\ debtNow[r] = "owed"
                                 /\ debtNow' = [debtNow EXCEPT ![r] = "delivered"]
                                 /\ triesNow' = triesNow
       /\ Contract!Miss(r) <=>
            /\ debtNow[r] = "owed"
            /\ triesNow' = [triesNow EXCEPT ![r] = @ + 1]
            /\ debtNow' = [debtNow EXCEPT ![r] =
                             IF triesNow'[r] = MaxAttempts THEN "written_off" ELSE "owed"]
BY DEF Contract!ContractInit, Contract!Owe, Contract!Deliver, Contract!Miss,
       debtNow, triesNow, Debt

\* A step of the backlog that leaves the rows alone is a stutter.
LEMMA StutterMaps ==
  ASSUME UNCHANGED row
  PROVE  UNCHANGED Contract!contractVars
BY DEF Contract!contractVars

\* A step that changes row r alone changes the debt and the tries of r alone.
LEMMA RowStepMaps ==
  ASSUME NEW r \in Runs, \A q \in Runs \ {r} : row'[q] = row[q]
  PROVE  /\ debtNow' = [debtNow EXCEPT ![r] = Debt(row'[r].status)]
         /\ triesNow' = [triesNow EXCEPT ![r] = row'[r].attempts]
<1>1. debtNow' = [debtNow EXCEPT ![r] = Debt(row'[r].status)]
  <2>1. [debtNow EXCEPT ![r] = Debt(row'[r].status)]
          = [q \in Runs |-> IF q = r THEN Debt(row'[r].status) ELSE Debt(row[q].status)]
    BY DEF debtNow
  <2> QED BY <2>1 DEF debtNow
<1>2. triesNow' = [triesNow EXCEPT ![r] = row'[r].attempts]
  <2>1. [triesNow EXCEPT ![r] = row'[r].attempts]
          = [q \in Runs |-> IF q = r THEN row'[r].attempts ELSE row[q].attempts]
    BY DEF triesNow
  <2> QED BY <2>1 DEF triesNow
<1> QED BY <1>1, <1>2

LEMMA StepMaps ==
  IInv /\ [Next]_vars => [Contract!ContractNext]_(Contract!contractVars)
<1> SUFFICES ASSUME IInv, [Next]_vars
             PROVE  (\E r \in Runs : Contract!Owe(r) \/ Contract!Deliver(r) \/ Contract!Miss(r))
                      \/ UNCHANGED Contract!contractVars
  BY DEF Contract!ContractNext
<1>1. CASE \E r \in Runs : Enqueue(r) /\ UNCHANGED faults
  <2>1. PICK r \in Runs : Enqueue(r)
    BY <1>1
  <2>2. /\ row[r].status = "absent" /\ row[r].attempts = 0
        /\ row'[r].status = "pending" /\ row'[r].attempts = 0
        /\ \A q \in Runs \ {r} : row'[q] = row[q]
    BY <2>1 DEF Enqueue, IInv, TypeOK, AbsentUntried
  <2>3. debtNow' = [debtNow EXCEPT ![r] = "owed"] /\ triesNow' = [triesNow EXCEPT ![r] = 0]
    <3>1. Debt(row'[r].status) = "owed"
      BY <2>2 DEF Debt
    <3>2. debtNow' = [debtNow EXCEPT ![r] = Debt(row'[r].status)]
          /\ triesNow' = [triesNow EXCEPT ![r] = row'[r].attempts]
      BY <2>2, RowStepMaps
    <3> QED BY <2>2, <3>1, <3>2
  <2>4. debtNow[r] = "none" /\ triesNow' = triesNow
    BY <2>2, <2>3 DEF debtNow, triesNow, Debt
  <2> QED BY <2>3, <2>4, Mapping
<1>2. CASE Record(TRUE) \/ Record(FALSE)
  <2>1. CASE UNCHANGED row
    BY <2>1, StutterMaps
  <2>2. CASE MarkDelivered(TRUE)
    <3>1. current \in Runs /\ row[current].status = "pending"
      BY <2>2, InHand DEF MarkDelivered
    <3>2. /\ row'[current].status = "delivered"
          /\ row'[current].attempts = row[current].attempts
          /\ \A q \in Runs \ {current} : row'[q] = row[q]
      BY <2>2, <3>1 DEF MarkDelivered, IInv, TypeOK
    <3>3. debtNow' = [debtNow EXCEPT ![current] = "delivered"]
      <4>1. Debt(row'[current].status) = "delivered"
        BY <3>2 DEF Debt
      <4>2. debtNow' = [debtNow EXCEPT ![current] = Debt(row'[current].status)]
        BY <3>1, <3>2, RowStepMaps
      <4> QED BY <4>1, <4>2
    <3>4. debtNow[current] = "owed" /\ triesNow' = triesNow
      BY <3>1, <3>2 DEF debtNow, triesNow, Debt
    <3> QED BY <3>1, <3>3, <3>4, Mapping
  <2>3. CASE MarkAttemptFailed(TRUE)
    <3> DEFINE made == AttemptsMade(current)
    <3>1. /\ current \in Runs /\ row[current].status = "pending"
          /\ made \in Nat /\ made <= MaxAttempts /\ made = row[current].attempts + 1
      BY <2>3, InHand, BacklogAssumption DEF MarkAttemptFailed, AttemptsMade
    <3>2. /\ row'[current].status = StatusAfter(made) /\ row'[current].attempts = made
          /\ \A q \in Runs \ {current} : row'[q] = row[q]
      BY <2>3, <3>1 DEF MarkAttemptFailed, IInv, TypeOK
    <3>3. Debt(row'[current].status) = IF made = MaxAttempts THEN "written_off" ELSE "owed"
      BY <3>1, <3>2, BacklogAssumption DEF StatusAfter, Debt
    <3>4. /\ debtNow' = [debtNow EXCEPT ![current] = Debt(row'[current].status)]
          /\ triesNow' = [triesNow EXCEPT ![current] = row'[current].attempts]
      BY <3>1, <3>2, RowStepMaps
    <3>5. debtNow[current] = "owed" /\ triesNow[current] + 1 = made /\ triesNow'[current] = made
      BY <3>1, <3>2 DEF debtNow, triesNow, Debt
    <3> QED BY <3>1, <3>2, <3>3, <3>4, <3>5, Mapping
  <2> QED BY <1>2, <2>1, <2>2, <2>3 DEF Record, MarkDelivered, MarkAttemptFailed
<1>3. CASE UNCHANGED row
  BY <1>3, StutterMaps
<1> QED BY <1>1, <1>2, <1>3
    DEF Next, vars, BecomeDue, ListDue, Post, CrashWorker

\* The backlog implements the safety part of the delivery contract: whatever
\* the worker, its crashes and the peer do, a delivery is owed once, tried at
\* most max_attempts times and settled once.
THEOREM Implements == Spec => Contract!ContractSafety
<1>1. Init => Contract!ContractInit
  BY Mapping DEF Init, BacklogInit, debtNow, triesNow, Debt
<1> QED BY <1>1, StepMaps, Inductive, PTL DEF Spec, Safety, Contract!ContractSafety
===============================================================================
