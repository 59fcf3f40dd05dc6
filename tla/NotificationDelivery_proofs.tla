---------------------- MODULE NotificationDelivery_proofs ----------------------
(***************************************************************************)
(* Proofs about notifications, for any number of notifications, of passes  *)
(* that overtake one another, of retries and of faults: types, that a row  *)
(* that says sent was delivered, that a result is final, and that only     *)
(* what was left behind is sent again.                                     *)
(*                                                                         *)
(* All of them rest on what a pass may carry: rows old enough for their    *)
(* Send to be over, which nobody can then mark as failed.                  *)
(***************************************************************************)
EXTENDS NotificationDelivery, TLAPS

\* A Send that is under way has its row, and nobody has touched it; a row is
\* old only when its Send is over.
SendSound ==
  \A n \in Notes :
    /\ sender[n] = "idle" => log[n].status = "absent"
    /\ sender[n] \in Outcomes \cup {"sending"} => log[n].status = "pending"
    /\ sender[n] = "success" => n \in accepted
    /\ n \in old => sender[n] = "done"

\* The rows that pass p holds in memory.
Carried(p) == pass[p].todo \cup ({pass[p].current} \cap Notes)

\* A pass carries old rows with retries left, none of them failed, and goes
\* on to record only what has been delivered.
PassSound ==
  \A p \in Passes :
    /\ \A n \in Carried(p) : n \in old /\ log[n].status # "failed" /\ pass[p].read[n] < MaxRetries
    /\ pass[p].stage \in {"count", "record"} => pass[p].current \in Notes
    /\ pass[p].stage = "record" => pass[p].outcome = "success"
    /\ (pass[p].stage \in {"count", "record"} /\ pass[p].outcome = "success")
         => pass[p].current \in accepted

\* What may leave a row behind.
Cause(n) == n \in gone \/ faults > 0

\* Rows left behind have a cause, and only they are carried or retried.  (An
\* alert that ends the process leaves rows behind as well.)
CauseKnown ==
  HasAlertChannel =>
    /\ \A n \in Notes : (sender[n] = "done" /\ log[n].status = "pending") => Cause(n)
    /\ \A p \in Passes : \A n \in Carried(p) : Cause(n)
    /\ \A n \in retried : Cause(n)

IInv == /\ TypeOK
        /\ SentIsGrounded
        /\ SendSound
        /\ PassSound
        /\ CauseKnown

PassStates == [stage : {"idle", "alert?", "alert", "rows", "count", "record"},
               todo : SUBSET Notes, read : [Notes -> 0..MaxRetries],
               current : Notes \cup {NoNote}, outcome : Outcomes]

-------------------------------------------------------------------------------
\* What an idle pass holds.
LEMMA IdleState ==
  /\ Idle \in PassStates
  /\ Idle.todo = {} /\ Idle.current = NoNote /\ Idle.stage = "idle"
BY NotificationAssumption DEF Idle, PassStates, Outcomes

\* A pass that moves to the state s keeps the invariants about passes, if the
\* rows that s carries are fit to be carried.
LEMMA PassMoves ==
  ASSUME IInv, NEW p \in Passes, NEW s \in PassStates,
         pass' = [pass EXCEPT ![p] = s],
         UNCHANGED <<old, gone>>, accepted \subseteq accepted',
         faults' \in Nat, faults' >= faults,
         \A n \in Notes : log'[n].status = "failed" => log[n].status = "failed",
         \A n \in s.todo \cup ({s.current} \cap Notes) :
            /\ n \in old /\ log[n].status # "failed" /\ s.read[n] < MaxRetries
            /\ HasAlertChannel => Cause(n),
         s.stage \in {"count", "record"} => s.current \in Notes,
         s.stage = "record" => s.outcome = "success",
         (s.stage \in {"count", "record"} /\ s.outcome = "success") => s.current \in accepted'
  PROVE  /\ pass' \in [Passes -> PassStates]
         /\ PassSound'
         /\ HasAlertChannel => \A q \in Passes : \A n \in Carried(q)' : Cause(n)'
<1>1. pass \in [Passes -> PassStates] /\ faults \in Nat
  BY NotificationAssumption DEF IInv, TypeOK, PassStates
<1>2. /\ pass' \in [Passes -> PassStates] /\ pass'[p] = s
      /\ \A q \in Passes \ {p} : pass'[q] = pass[q]
  BY <1>1
<1>3. \A q \in Passes : \A n \in Carried(q)' :
        /\ n \in old /\ log[n].status # "failed" /\ pass'[q].read[n] < MaxRetries
        /\ n \in Notes
        /\ HasAlertChannel => Cause(n)
  <2> SUFFICES ASSUME NEW q \in Passes, NEW n \in Carried(q)'
               PROVE  /\ n \in old /\ log[n].status # "failed" /\ pass'[q].read[n] < MaxRetries
                      /\ n \in Notes
                      /\ HasAlertChannel => Cause(n)
    OBVIOUS
  <2>1. CASE q = p
    BY <1>2, <2>1 DEF Carried, PassStates
  <2>2. CASE q # p
    BY <1>1, <1>2, <2>2 DEF Carried, PassStates, IInv, PassSound, CauseKnown
  <2> QED BY <2>1, <2>2
<1>4. PassSound'
  <2> SUFFICES ASSUME NEW q \in Passes
               PROVE
      /\ \A n \in Carried(q)' : n \in old' /\ log'[n].status # "failed" /\ pass'[q].read[n] < MaxRetries
      /\ pass'[q].stage \in {"count", "record"} => pass'[q].current \in Notes
      /\ pass'[q].stage = "record" => pass'[q].outcome = "success"
      /\ (pass'[q].stage \in {"count", "record"} /\ pass'[q].outcome = "success")
           => pass'[q].current \in accepted'
    BY DEF PassSound
  <2>1. \A n \in Carried(q)' : n \in old' /\ log'[n].status # "failed" /\ pass'[q].read[n] < MaxRetries
    BY <1>3
  <2>2. CASE q = p
    BY <1>2, <2>1, <2>2
  <2>3. CASE q # p
    BY <1>2, <2>1, <2>3 DEF IInv, PassSound
  <2> QED BY <2>2, <2>3
<1>5. HasAlertChannel => \A q \in Passes : \A n \in Carried(q)' : Cause(n)'
  BY <1>1, <1>3 DEF Cause
<1> QED BY <1>2, <1>4, <1>5

\* What a pass has in hand, spelled out.
LEMMA InHand ==
  ASSUME IInv, NEW p \in Passes
  PROVE  /\ pass[p] \in PassStates /\ faults \in Nat
         /\ pass[p].todo \subseteq Notes /\ pass[p].read \in [Notes -> 0..MaxRetries]
         /\ \A n \in pass[p].todo \cup ({pass[p].current} \cap Notes) :
              /\ n \in old /\ log[n].status # "failed" /\ pass[p].read[n] < MaxRetries
              /\ HasAlertChannel => Cause(n)
         /\ pass[p].stage \in {"count", "record"} => pass[p].current \in Notes
         /\ pass[p].stage = "record" => pass[p].outcome = "success"
         /\ (pass[p].stage \in {"count", "record"} /\ pass[p].outcome = "success")
              => pass[p].current \in accepted
BY NotificationAssumption DEF IInv, TypeOK, PassStates, PassSound, CauseKnown, Carried

\* Where the loop goes on: with the rows left, or with none.
LEMMA NextRowState ==
  ASSUME IInv, NEW p \in Passes, NextRow(p)
  PROVE  \E s \in PassStates :
           /\ pass' = [pass EXCEPT ![p] = s]
           /\ s.todo \subseteq pass[p].todo /\ s.current = NoNote
           /\ s.todo # {} => s.read = pass[p].read
           /\ s.stage \in {"idle", "rows"}
<1>1. pass \in [Passes -> PassStates] /\ pass[p] \in PassStates
  BY DEF IInv, TypeOK, PassStates
<1>2. CASE pass[p].todo = {}
  <2>1. pass' = [pass EXCEPT ![p] = Idle]
    BY <1>1, <1>2 DEF NextRow
  <2> QED BY <2>1, IdleState
<1>3. CASE pass[p].todo # {}
  <2> DEFINE s == [pass[p] EXCEPT !.stage = "rows", !.current = NoNote, !.outcome = "failure"]
  <2>1. pass' = [pass EXCEPT ![p] = s]
    BY <1>1, <1>3 DEF NextRow
  <2>2. s \in PassStates /\ s.todo = pass[p].todo /\ s.current = NoNote
        /\ s.read = pass[p].read /\ s.stage = "rows"
    BY <1>1 DEF PassStates, Outcomes
  <2> QED BY <2>1, <2>2
<1> QED BY <1>2, <1>3

-------------------------------------------------------------------------------
(* One lemma per action: first Send and its client.                         *)

LEMMA InitEstablishes == Init => IInv
<1> SUFFICES ASSUME Init PROVE IInv
  OBVIOUS
<1>1. TypeOK
  <2>1. pass \in [Passes -> PassStates]
    BY IdleState DEF Init
  <2>2. alerted \in BOOLEAN
    BY DEF Init
  <2> QED BY <2>1, <2>2, NotificationAssumption DEF Init, TypeOK, PassStates
<1>2. SentIsGrounded /\ SendSound
  BY DEF Init, SentIsGrounded, SendSound, Outcomes
<1>3. PassSound /\ CauseKnown
  BY NotificationAssumption DEF Init, PassSound, CauseKnown, Carried, Idle, Outcomes
<1> QED BY <1>1, <1>2, <1>3 DEF IInv

\* What Send does leaves the passes as they are: they carry old rows only.
LEMMA PassesStay ==
  ASSUME IInv, UNCHANGED pass, old \subseteq old', accepted \subseteq accepted',
         \A n \in old : log'[n] = log[n]
  PROVE  PassSound'
BY DEF IInv, PassSound, Carried

LEMMA CreateLogPreserves ==
  ASSUME IInv, NEW n \in Notes, CreateLog(n)
  PROVE  IInv'
<1> USE DEF IInv, CreateLog, passVars, Outcomes
<1>1. TypeOK'
  BY NotificationAssumption DEF TypeOK
<1>2. SentIsGrounded' /\ SendSound'
  BY DEF TypeOK, SentIsGrounded, SendSound
<1>3. PassSound'
  <2>1. \A m \in old : log'[m] = log[m]
    BY DEF TypeOK, SendSound
  <2> QED BY <2>1, PassesStay
<1>4. CauseKnown'
  BY DEF TypeOK, CauseKnown, Carried, Cause
<1> QED BY <1>1, <1>2, <1>3, <1>4

LEMMA ProviderAnswersPreserves ==
  ASSUME IInv, NEW n \in Notes, NEW o \in Outcomes, ProviderAnswers(n, o)
  PROVE  IInv'
<1> USE DEF IInv, ProviderAnswers, Deliver, passVars, Outcomes
<1>1. TypeOK' /\ accepted \subseteq accepted'
  BY DEF TypeOK
<1>2. SentIsGrounded' /\ SendSound'
  BY DEF TypeOK, SentIsGrounded, SendSound
<1>3. PassSound'
  BY <1>1, PassesStay
<1>4. CauseKnown'
  BY DEF TypeOK, CauseKnown, Carried, Cause
<1> QED BY <1>1, <1>2, <1>3, <1>4

LEMMA RecordOwnPreserves ==
  ASSUME IInv, NEW n \in Notes, NEW ok \in BOOLEAN, RecordOwn(n, ok)
  PROVE  IInv'
<1> USE DEF IInv, RecordOwn, passVars, Outcomes
<1>1. faults' \in Nat /\ faults' >= faults /\ faults' <= MaxFaults
  BY NotificationAssumption DEF TypeOK, Fault
<1>2. TypeOK'
  BY <1>1 DEF TypeOK
<1>3. SentIsGrounded' /\ SendSound'
  BY DEF TypeOK, SentIsGrounded, SendSound
<1>4. PassSound'
  <2>1. \A m \in old : log'[m] = log[m]
    BY DEF TypeOK, SendSound
  <2> QED BY <2>1, PassesStay
<1>5. CauseKnown'
  <2>1. ok => log'[n].status # "pending"
    BY DEF TypeOK
  <2>2. ~ ok => n \in gone' \/ faults' > 0
    BY NotificationAssumption DEF TypeOK, Fault
  <2>3. \A m \in Notes \ {n} : sender'[m] = sender[m] /\ log'[m] = log[m]
    BY DEF TypeOK
  <2> QED BY <1>1, <2>1, <2>2, <2>3, NotificationAssumption DEF TypeOK, CauseKnown, Carried, Cause
<1> QED BY <1>2, <1>3, <1>4, <1>5

LEMMA HangUpPreserves ==
  ASSUME IInv, NEW n \in Notes, HangUp(n)
  PROVE  IInv'
<1> USE DEF IInv, HangUp, passVars
<1>1. TypeOK' /\ SentIsGrounded' /\ SendSound'
  BY DEF TypeOK, SentIsGrounded, SendSound
<1>2. PassSound'
  BY PassesStay
<1>3. CauseKnown'
  BY DEF CauseKnown, Carried, Cause
<1> QED BY <1>1, <1>2, <1>3

LEMMA AgePreserves ==
  ASSUME IInv, NEW n \in Notes, Age(n)
  PROVE  IInv'
<1> USE DEF IInv, Age, passVars
<1>1. TypeOK' /\ SentIsGrounded' /\ SendSound'
  BY DEF TypeOK, SentIsGrounded, SendSound, Outcomes
<1>2. PassSound'
  BY PassesStay
<1>3. CauseKnown'
  BY DEF CauseKnown, Carried, Cause
<1> QED BY <1>1, <1>2, <1>3

-------------------------------------------------------------------------------
(* The steps of a pass.                                                     *)

\* A pass that changes nothing but its own state and, perhaps, the alert.
LEMMA QuietMovePreserves ==
  ASSUME IInv, NEW p \in Passes, NEW s \in PassStates,
         pass' = [pass EXCEPT ![p] = s], alerted' \in BOOLEAN,
         UNCHANGED <<log, old, sender, gone, accepted, retried>>,
         faults' \in 0..MaxFaults, faults' >= faults,
         \A n \in s.todo \cup ({s.current} \cap Notes) :
            /\ n \in old /\ log[n].status # "failed" /\ s.read[n] < MaxRetries
            /\ HasAlertChannel => Cause(n),
         s.stage \notin {"count", "record"}
  PROVE  IInv'
<1>1. faults' \in Nat /\ faults \in Nat
  BY NotificationAssumption DEF IInv, TypeOK
<1>2. /\ pass' \in [Passes -> PassStates] /\ PassSound'
      /\ HasAlertChannel => \A q \in Passes : \A n \in Carried(q)' : Cause(n)'
  BY <1>1, PassMoves
<1>3. TypeOK'
  BY <1>2 DEF IInv, TypeOK, PassStates
<1>4. SentIsGrounded' /\ SendSound'
  BY DEF IInv, SentIsGrounded, SendSound
<1>5. CauseKnown'
  BY <1>1, <1>2 DEF IInv, CauseKnown, Cause
<1> QED BY <1>2, <1>3, <1>4, <1>5 DEF IInv

LEMMA ListStuckPreserves ==
  ASSUME IInv, NEW p \in Passes, ListStuck(p)
  PROVE  IInv'
<1> DEFINE s == [Idle EXCEPT
                   !.stage = IF Cardinality(Stuck) >= AlertThreshold THEN "alert?" ELSE "rows",
                   !.todo = Stuck,
                   !.read = [n \in Notes |-> IF n \in Stuck THEN log[n].retries ELSE 0]]
<1>1. Stuck \subseteq Notes
      /\ \A n \in Stuck : /\ n \in old /\ log[n].status = "pending"
                          /\ log[n].retries \in 0..MaxRetries /\ log[n].retries < MaxRetries
  BY DEF IInv, TypeOK, Stuck
<1>2. [n \in Notes |-> IF n \in Stuck THEN log[n].retries ELSE 0] \in [Notes -> 0..MaxRetries]
  BY <1>1, NotificationAssumption
<1>3. s \in PassStates /\ s.todo = Stuck /\ s.current = NoNote
      /\ s.stage \in {"alert?", "rows"}
      /\ \A n \in Stuck : s.read[n] = log[n].retries
  BY <1>1, <1>2 DEF Idle, PassStates, Outcomes
<1>4. \A n \in Stuck : HasAlertChannel => Cause(n)
  BY <1>1 DEF IInv, SendSound, CauseKnown
<1>5. pass' = [pass EXCEPT ![p] = s]
      /\ UNCHANGED <<log, old, sender, gone, accepted, alerted, retried, faults>>
  BY DEF ListStuck
<1>6. alerted' \in BOOLEAN /\ faults' \in 0..MaxFaults /\ faults' >= faults
  BY <1>5, NotificationAssumption DEF IInv, TypeOK
<1> HIDE DEF s
<1> QED BY <1>1, <1>3, <1>4, <1>5, <1>6, NotificationAssumption, QuietMovePreserves

LEMMA CheckAlertPreserves ==
  ASSUME IInv, NEW p \in Passes, CheckAlert(p)
  PROVE  IInv'
<1> DEFINE s == [pass[p] EXCEPT !.stage = IF alerted THEN "rows" ELSE "alert"]
<1>1. pass' = [pass EXCEPT ![p] = s]
      /\ UNCHANGED <<log, old, sender, gone, accepted, alerted, retried, faults>>
  BY DEF CheckAlert, Goto
<1>2. s \in PassStates /\ s.todo = pass[p].todo /\ s.current = pass[p].current
      /\ s.read = pass[p].read /\ s.stage \in {"rows", "alert"}
  BY InHand DEF PassStates
<1>3. alerted' \in BOOLEAN /\ faults' \in 0..MaxFaults /\ faults' >= faults
  BY <1>1, NotificationAssumption DEF IInv, TypeOK
<1> HIDE DEF s
<1> QED BY <1>1, <1>2, <1>3, InHand, QuietMovePreserves

LEMMA SkipRowPreserves ==
  ASSUME IInv, NEW p \in Passes, NEW n \in Notes, SkipRow(p, n)
  PROVE  IInv'
<1> DEFINE left == [pass[p] EXCEPT !.todo = @ \ {n}]
           s == IF left.todo = {} THEN Idle ELSE left
<1>1. pass' = [pass EXCEPT ![p] = s] /\ Fault
      /\ UNCHANGED <<log, old, sender, gone, accepted, alerted, retried>>
  BY DEF SkipRow
<1>2. left \in PassStates /\ left.todo = pass[p].todo \ {n} /\ left.current = pass[p].current
      /\ left.read = pass[p].read /\ left.stage = "rows"
  BY InHand DEF SkipRow, PassStates
<1>3. alerted' \in BOOLEAN /\ faults' \in 0..MaxFaults /\ faults' >= faults
  BY <1>1, NotificationAssumption DEF IInv, TypeOK, Fault
<1> HIDE DEF left
<1>4. CASE left.todo = {}
  <2>1. pass' = [pass EXCEPT ![p] = Idle]
    BY <1>1, <1>4
  <2> QED BY <1>1, <1>3, <2>1, IdleState, NotificationAssumption, QuietMovePreserves
<1>5. CASE left.todo # {}
  <2>1. pass' = [pass EXCEPT ![p] = left]
    BY <1>1, <1>5
  <2> QED BY <1>1, <1>2, <1>3, <2>1, InHand, QuietMovePreserves
<1> QED BY <1>4, <1>5

LEMMA SendRowPreserves ==
  ASSUME IInv, NEW p \in Passes, NEW n \in Notes, NEW o \in Outcomes, SendRow(p, n, o)
  PROVE  IInv'
<1> DEFINE s == [pass[p] EXCEPT !.stage = "count", !.todo = @ \ {n},
                                !.current = n, !.outcome = o]
<1>1. pass' = [pass EXCEPT ![p] = s] /\ n \in pass[p].todo /\ retried' = retried \cup {n}
      /\ UNCHANGED <<log, old, sender, gone, alerted, faults>>
  BY DEF SendRow
<1>2. s \in PassStates /\ s.todo = pass[p].todo \ {n} /\ s.current = n
      /\ s.read = pass[p].read /\ s.stage = "count" /\ s.outcome = o
  BY InHand DEF PassStates
<1>3. accepted' \subseteq Notes /\ accepted \subseteq accepted' /\ (o = "success" => n \in accepted')
  BY DEF SendRow, Deliver, IInv, TypeOK
<1>4. faults' \in Nat /\ faults' >= faults
  BY <1>1, InHand
<1> HIDE DEF s
<1>5. /\ pass' \in [Passes -> PassStates] /\ PassSound'
      /\ HasAlertChannel => \A q \in Passes : \A m \in Carried(q)' : Cause(m)'
  BY <1>1, <1>2, <1>3, <1>4, InHand, PassMoves
<1>6. TypeOK'
  BY <1>1, <1>3, <1>5 DEF IInv, TypeOK, PassStates
<1>7. SentIsGrounded' /\ SendSound'
  BY <1>1, <1>3 DEF IInv, SentIsGrounded, SendSound
<1>8. CauseKnown'
  BY <1>1, <1>5, InHand DEF IInv, CauseKnown, Cause
<1> QED BY <1>5, <1>6, <1>7, <1>8 DEF IInv

\* A write to the row in hand that leaves its status, or says sent of a row
\* that has been delivered.
LEMMA PassWrites ==
  ASSUME IInv, NEW p \in Passes, pass[p].stage \in {"count", "record"},
         NEW s \in PassStates, pass' = [pass EXCEPT ![p] = s],
         UNCHANGED <<old, sender, gone, accepted, alerted, retried>>,
         faults' \in 0..MaxFaults, faults' >= faults,
         log' \in [Notes -> [status : {"absent", "pending", "sent", "failed"}, retries : 0..MaxRetries]],
         \A n \in Notes : log'[n].status # log[n].status
                            => n = pass[p].current /\ log'[n].status = "sent" /\ n \in accepted,
         s.todo \subseteq pass[p].todo,
         s.todo \cup ({s.current} \cap Notes) # {} => s.read = pass[p].read,
         \/ s.current = NoNote /\ s.stage \in {"idle", "rows"}
         \/ s.current = pass[p].current /\ s.outcome = "success" /\ pass[p].outcome = "success"
  PROVE  IInv'
<1>1. faults' \in Nat /\ faults \in Nat
  BY NotificationAssumption DEF IInv, TypeOK
<1>2. pass[p].current \in Notes /\ pass[p].current \in old /\ sender[pass[p].current] = "done"
  BY InHand DEF IInv, SendSound
<1>3. \A n \in s.todo \cup ({s.current} \cap Notes) :
         n \in pass[p].todo \cup ({pass[p].current} \cap Notes) /\ s.read = pass[p].read
  BY NotificationAssumption
<1>4. /\ pass' \in [Passes -> PassStates] /\ PassSound'
      /\ HasAlertChannel => \A q \in Passes : \A n \in Carried(q)' : Cause(n)'
  <2>1. \A n \in Notes : log'[n].status = "failed" => log[n].status = "failed"
    OBVIOUS
  <2>2. \A n \in s.todo \cup ({s.current} \cap Notes) :
          /\ n \in old /\ log[n].status # "failed" /\ s.read[n] < MaxRetries
          /\ HasAlertChannel => Cause(n)
    BY <1>3, InHand
  <2>3. /\ s.stage \in {"count", "record"} => s.current \in Notes
        /\ s.stage = "record" => s.outcome = "success"
        /\ (s.stage \in {"count", "record"} /\ s.outcome = "success") => s.current \in accepted'
    BY <1>2, InHand
  <2> QED BY <1>1, <2>1, <2>2, <2>3, PassMoves
<1>5. TypeOK'
  BY <1>4 DEF IInv, TypeOK, PassStates
<1>6. SentIsGrounded' /\ SendSound'
  BY <1>2 DEF IInv, SentIsGrounded, SendSound, Outcomes
<1>7. CauseKnown'
  BY <1>1, <1>4 DEF IInv, CauseKnown, Cause
<1> QED BY <1>4, <1>5, <1>6, <1>7 DEF IInv

LEMMA CountRetryPreserves ==
  ASSUME IInv, NEW p \in Passes, NEW ok \in BOOLEAN, CountRetry(p, ok)
  PROVE  IInv'
<1> DEFINE n == pass[p].current
           back == [pass[p] EXCEPT !.stage = "record"]
<1>1. pass[p].stage = "count" /\ n \in Notes /\ pass[p].read[n] + 1 \in 0..MaxRetries
      /\ UNCHANGED <<old, sender, gone, accepted, alerted, retried>>
  BY InHand, NotificationAssumption DEF CountRetry
<1>2. log' \in [Notes -> [status : {"absent", "pending", "sent", "failed"}, retries : 0..MaxRetries]]
      /\ \A m \in Notes : log'[m].status = log[m].status
  BY <1>1 DEF CountRetry, IInv, TypeOK
<1>3. faults' \in 0..MaxFaults /\ faults' >= faults
  BY NotificationAssumption DEF CountRetry, IInv, TypeOK, Fault
<1>4. CASE pass[p].outcome = "success"
  <2>1. pass' = [pass EXCEPT ![p] = back]
    BY <1>4 DEF CountRetry, Goto
  <2>2. back \in PassStates /\ back.todo = pass[p].todo /\ back.current = n
        /\ back.read = pass[p].read /\ back.outcome = "success"
    BY <1>4, InHand DEF PassStates
  <2> HIDE DEF back
  <2> QED BY <1>1, <1>2, <1>3, <1>4, <2>1, <2>2, PassWrites
<1>5. CASE pass[p].outcome # "success"
  <2>1. NextRow(p)
    BY <1>5 DEF CountRetry
  <2>2. PICK s \in PassStates :
           /\ pass' = [pass EXCEPT ![p] = s]
           /\ s.todo \subseteq pass[p].todo /\ s.current = NoNote
           /\ s.todo # {} => s.read = pass[p].read
           /\ s.stage \in {"idle", "rows"}
    BY <2>1, NextRowState
  <2> QED BY <1>1, <1>2, <1>3, <2>2, NotificationAssumption, PassWrites
<1> QED BY <1>4, <1>5

LEMMA RecordSentPreserves ==
  ASSUME IInv, NEW p \in Passes, NEW ok \in BOOLEAN, RecordSent(p, ok)
  PROVE  IInv'
<1> DEFINE n == pass[p].current
<1>1. pass[p].stage = "record" /\ n \in Notes /\ n \in accepted
      /\ UNCHANGED <<old, sender, gone, accepted, alerted, retried>>
  BY InHand DEF RecordSent
<1>2. log' \in [Notes -> [status : {"absent", "pending", "sent", "failed"}, retries : 0..MaxRetries]]
      /\ \A m \in Notes : log'[m].status # log[m].status
                            => m = n /\ log'[m].status = "sent" /\ m \in accepted
  <2>1. CASE ok
    BY <1>1, <2>1 DEF RecordSent, IInv, TypeOK
  <2>2. CASE ~ ok
    BY <2>2 DEF RecordSent, IInv, TypeOK
  <2> QED BY <2>1, <2>2
<1>3. faults' \in 0..MaxFaults /\ faults' >= faults
  BY NotificationAssumption DEF RecordSent, IInv, TypeOK, Fault
<1>4. PICK s \in PassStates :
         /\ pass' = [pass EXCEPT ![p] = s]
         /\ s.todo \subseteq pass[p].todo /\ s.current = NoNote
         /\ s.todo # {} => s.read = pass[p].read
         /\ s.stage \in {"idle", "rows"}
  BY NextRowState DEF RecordSent
<1>5. s.todo \cup ({s.current} \cap Notes) # {} => s.read = pass[p].read
  BY <1>4, NotificationAssumption
<1> QED BY <1>1, <1>2, <1>3, <1>4, <1>5, PassWrites

\* A restart: every Send is over and every pass is idle.  The rows it leaves
\* behind have a cause if it was a crash.
LEMMA RestartPreserves ==
  ASSUME IInv, Restart, faults' \in 0..MaxFaults,
         HasAlertChannel => faults' > 0
  PROVE  IInv'
<1>1. pass' \in [Passes -> PassStates] /\ \A p \in Passes : pass'[p] = Idle
  BY IdleState DEF Restart
<1>2. TypeOK'
  <2>1. alerted' \in BOOLEAN
    BY DEF Restart
  <2> QED BY <1>1, <2>1 DEF Restart, IInv, TypeOK, PassStates
<1>3. SentIsGrounded' /\ SendSound'
  BY DEF Restart, IInv, SentIsGrounded, SendSound, Outcomes
<1>4. PassSound'
  BY <1>1, IdleState, NotificationAssumption DEF PassSound, Carried
<1>5. CauseKnown'
  BY DEF CauseKnown, Cause
<1> QED BY <1>2, <1>3, <1>4, <1>5 DEF IInv

LEMMA SendAlertPreserves ==
  ASSUME IInv, NEW p \in Passes, NEW ok \in BOOLEAN, SendAlert(p, ok)
  PROVE  IInv'
<1>1. faults' \in 0..MaxFaults /\ faults' >= faults
  BY NotificationAssumption DEF SendAlert, IInv, TypeOK
<1>2. CASE HasAlertChannel
  <2> DEFINE s == [pass[p] EXCEPT !.stage = "rows"]
  <2>1. pass' = [pass EXCEPT ![p] = s]
        /\ UNCHANGED <<log, old, sender, gone, accepted, retried>>
    BY <1>2 DEF SendAlert, Goto
  <2>2. alerted' \in BOOLEAN
    <3>1. alerted \in BOOLEAN
      BY DEF IInv, TypeOK
    <3>2. alerted' = (alerted \/ ok)
      BY <1>2 DEF SendAlert
    <3> QED BY <3>1, <3>2
  <2>3. s \in PassStates /\ s.todo = pass[p].todo /\ s.current = pass[p].current
        /\ s.read = pass[p].read /\ s.stage = "rows"
    BY InHand DEF PassStates
  <2> HIDE DEF s
  <2>4. \A n \in s.todo \cup ({s.current} \cap Notes) :
          /\ n \in old /\ log[n].status # "failed" /\ s.read[n] < MaxRetries
          /\ HasAlertChannel => Cause(n)
    BY <2>3, InHand
  <2> QED BY <1>1, <2>1, <2>2, <2>3, <2>4, QuietMovePreserves
<1>3. CASE ~ HasAlertChannel
  BY <1>1, <1>3, RestartPreserves DEF SendAlert
<1> QED BY <1>2, <1>3

LEMMA CrashPreserves ==
  ASSUME IInv, Crash
  PROVE  IInv'
<1>1. faults' \in 0..MaxFaults /\ faults' > 0
  BY NotificationAssumption DEF Crash, Fault, IInv, TypeOK
<1> QED BY <1>1, RestartPreserves DEF Crash

LEMMA HourPassesPreserves ==
  ASSUME IInv, HourPasses
  PROVE  IInv'
<1> USE DEF HourPasses, IInv
<1>1. alerted' \in BOOLEAN
  OBVIOUS
<1>2. TypeOK' /\ SentIsGrounded' /\ SendSound'
  BY <1>1 DEF TypeOK, SentIsGrounded, SendSound
<1>3. PassSound' /\ CauseKnown'
  BY DEF PassSound, CauseKnown, Carried, Cause
<1> QED BY <1>2, <1>3

-------------------------------------------------------------------------------
LEMMA StepPreserves == IInv /\ [Next]_vars => IInv'
<1> SUFFICES ASSUME IInv, [Next]_vars PROVE IInv'
  OBVIOUS
<1>1. CASE UNCHANGED vars
  BY <1>1 DEF vars, passVars, IInv, TypeOK, SentIsGrounded, SendSound, PassSound,
              CauseKnown, Carried, Cause
<1>2. ASSUME NEW n \in Notes, SendNext(n) PROVE IInv'
  BY <1>2, CreateLogPreserves, HangUpPreserves, AgePreserves, ProviderAnswersPreserves,
     RecordOwnPreserves DEF SendNext
<1>3. ASSUME NEW p \in Passes, PassNext(p) PROVE IInv'
  BY <1>3, ListStuckPreserves, CheckAlertPreserves, SkipRowPreserves, SendRowPreserves,
     SendAlertPreserves, CountRetryPreserves, RecordSentPreserves DEF PassNext
<1>4. CASE Crash
  BY <1>4, CrashPreserves
<1>5. CASE HourPasses
  BY <1>5, HourPassesPreserves
<1> QED BY <1>1, <1>2, <1>3, <1>4, <1>5 DEF Next

\* The conjunction of all invariants holds in every reachable state.
THEOREM Inductive == Spec => []IInv
BY InitEstablishes, StepPreserves, PTL DEF Spec

\* Every variable of the notification service and its worker keeps its type.
THEOREM TypeCorrect == Spec => []TypeOK
<1>1. IInv => TypeOK
  BY DEF IInv
<1> QED BY <1>1, Inductive, PTL

\* UpdateLog(sent): a row that says sent has been delivered by the provider.
THEOREM SentWasDelivered == Spec => []SentIsGrounded
<1>1. IInv => SentIsGrounded
  BY DEF IInv
<1> QED BY <1>1, Inductive, PTL

\* The worker repeats only what a hang-up, a failed update or a crash has left
\* behind, provided that the alert does not end the process.
THEOREM OnlyLeftBehindIsRetried ==
  ASSUME HasAlertChannel
  PROVE  Spec => []RetriesHaveCause
<1>1. IInv => RetriesHaveCause
  BY HasAlertChannel DEF IInv, CauseKnown, Cause, RetriesHaveCause
<1> QED BY <1>1, Inductive, PTL

\* A row that a pass or a Send may write has no result yet, or a pass repeats
\* the result sent.
LEMMA ResultsStay ==
  ASSUME IInv, [Next]_vars, NEW n \in Notes, log[n].status \in {"sent", "failed"}
  PROVE  log'[n].status = log[n].status
<1> USE DEF IInv, TypeOK
<1>1. CASE UNCHANGED vars
  BY <1>1 DEF vars
<1>2. ASSUME NEW m \in Notes, SendNext(m) PROVE log'[n].status = log[n].status
  <2>1. CASE CreateLog(m)
    BY <2>1 DEF CreateLog, SendSound
  <2>2. CASE HangUp(m) \/ Age(m)
    BY <2>2 DEF HangUp, Age
  <2>3. ASSUME NEW o \in Outcomes, ProviderAnswers(m, o) PROVE log'[n].status = log[n].status
    BY <2>3 DEF ProviderAnswers
  <2>4. ASSUME NEW ok \in BOOLEAN, RecordOwn(m, ok) PROVE log'[n].status = log[n].status
    BY <2>4 DEF RecordOwn, SendSound
  <2> QED BY <1>2, <2>1, <2>2, <2>3, <2>4 DEF SendNext
<1>3. ASSUME NEW p \in Passes, PassNext(p) PROVE log'[n].status = log[n].status
  <2>1. CASE ListStuck(p) \/ CheckAlert(p)
    BY <2>1 DEF ListStuck, CheckAlert
  <2>2. ASSUME NEW m \in Notes, SkipRow(p, m) PROVE log'[n].status = log[n].status
    BY <2>2 DEF SkipRow
  <2>3. ASSUME NEW m \in Notes, NEW o \in Outcomes, SendRow(p, m, o)
        PROVE  log'[n].status = log[n].status
    BY <2>3 DEF SendRow
  <2>4. ASSUME NEW ok \in BOOLEAN, SendAlert(p, ok) PROVE log'[n].status = log[n].status
    BY <2>4 DEF SendAlert, Restart
  <2>5. ASSUME NEW ok \in BOOLEAN, CountRetry(p, ok) PROVE log'[n].status = log[n].status
    BY <2>5 DEF CountRetry
  <2>6. ASSUME NEW ok \in BOOLEAN, RecordSent(p, ok) PROVE log'[n].status = log[n].status
    <3>1. pass[p].stage = "record" /\ pass[p].current \in Notes
          /\ log[pass[p].current].status # "failed"
      BY <2>6, InHand DEF RecordSent
    <3> QED BY <2>6, <3>1 DEF RecordSent
  <2> QED BY <1>3, <2>1, <2>2, <2>3, <2>4, <2>5, <2>6 DEF PassNext
<1>4. CASE Crash \/ HourPasses
  BY <1>4 DEF Crash, Restart, HourPasses
<1> QED BY <1>1, <1>2, <1>3, <1>4 DEF Next

\* sent and failed are never overwritten, by a late pass or by a late Send.
THEOREM ResultsAreFinal == Spec => ResultIsFinal
<1>1. IInv /\ [Next]_vars
        => [\A n \in Notes : log[n].status \in {"sent", "failed"} => log'[n].status = log[n].status]_vars
  BY ResultsStay
<1> QED BY <1>1, Inductive, PTL DEF Spec, ResultIsFinal
===============================================================================
