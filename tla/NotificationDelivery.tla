-------------------------- MODULE NotificationDelivery -------------------------
(***************************************************************************)
(* Notifications of agent-os: NotificationService.Send writes a pending    *)
(* row, sends through the provider, and records sent or failed; the        *)
(* NotificationRetryWorker runs a pass every minute over the rows that     *)
(* have been pending for five minutes.                                     *)
(*                                                                         *)
(* A pass runs in a goroutine of its own whether or not the one before is  *)
(* over: with a provider that needs up to 10 s for a message, a pass over  *)
(* seven rows or more is overtaken.  Passes is the set of passes that may  *)
(* be under way at once.  The errors of all updates are ignored.           *)
(***************************************************************************)
EXTENDS Naturals, FiniteSets

CONSTANTS Notes,           \* notifications
          Passes,          \* passes of the worker that may overlap
          NoNote,          \* not a notification
          MaxRetries,      \* 3 in retryPendingNotifications
          AlertThreshold,  \* stuck rows that raise the alert (10)
          HasAlertChannel, \* the channel "alerts" exists and is enabled
          MaxFaults        \* bound: failed database writes and crashes

ASSUME NotificationAssumption == /\ NoNote \notin Notes
                                 /\ MaxRetries \in Nat \ {0}
                                 /\ AlertThreshold \in Nat \ {0}
                                 /\ HasAlertChannel \in BOOLEAN
                                 /\ MaxFaults \in Nat

VARIABLES
  log,       \* the table notification_logs: note -> [status, retries]
  old,       \* notes whose row was created more than five minutes ago
  sender,    \* note -> where its Send is, and what the provider answered
  gone,      \* notes whose client hung up: their request context is dead
  pass,      \* pass -> where it is, see Idle
  alerted,   \* lastAlertTime is less than an hour ago
  accepted,  \* history: notes that the provider has delivered
  retried,   \* history: notes that the worker has sent
  faults     \* failed writes and crashes so far

passVars == <<pass, alerted, retried>>
vars == <<log, old, sender, gone, accepted, passVars, faults>>

Outcomes == {"success", "failure"}

Idle == [stage |-> "idle", todo |-> {}, read |-> [n \in Notes |-> 0],
         current |-> NoNote, outcome |-> "failure"]

Fault == faults < MaxFaults /\ faults' = faults + 1

\* The provider has answered, in time or too late for the caller.
Deliver(n, outcome) == \/ outcome = "success" /\ accepted' = accepted \cup {n}
                       \/ outcome = "failure" /\ accepted' \in {accepted, accepted \cup {n}}

-------------------------------------------------------------------------------
(* NotificationService.Send *)

CreateLog(n) ==
  /\ sender[n] = "idle"
  /\ sender' = [sender EXCEPT ![n] = "sending"]
  /\ log' = [log EXCEPT ![n] = [status |-> "pending", retries |-> 0]]
  /\ UNCHANGED <<old, gone, accepted, passVars, faults>>

\* A provider that is asked under a dead context answers nothing.
ProviderAnswers(n, outcome) ==
  /\ sender[n] = "sending"
  /\ outcome = "success" => n \notin gone
  /\ Deliver(n, outcome)
  /\ sender' = [sender EXCEPT ![n] = outcome]
  /\ UNCHANGED <<log, old, gone, passVars, faults>>

\* UpdateLog with the request's context; a failure is not noticed.
RecordOwn(n, ok) ==
  /\ sender[n] \in Outcomes
  /\ ok => n \notin gone
  /\ log' = IF ok THEN [log EXCEPT ![n].status = IF sender[n] = "success" THEN "sent" ELSE "failed"]
                  ELSE log
  /\ sender' = [sender EXCEPT ![n] = "done"]
  /\ IF ok \/ n \in gone THEN UNCHANGED faults ELSE Fault
  /\ UNCHANGED <<old, gone, accepted, passVars>>

HangUp(n) ==
  /\ sender[n] \in Outcomes \cup {"sending"}
  /\ n \notin gone
  /\ gone' = gone \cup {n}
  /\ UNCHANGED <<log, old, sender, accepted, passVars, faults>>

\* Mutant: the age of a row is not looked at.
AgeAnyRow(n) ==
  /\ log[n].status # "absent" /\ n \notin old
  /\ old' = old \cup {n}
  /\ UNCHANGED <<log, sender, gone, accepted, passVars, faults>>

\* Five minutes have passed.  The provider's client gives up after 10 s, so
\* the Send of so old a row is over.
Age(n) ==
  /\ sender[n] = "done" /\ n \notin old
  /\ old' = old \cup {n}
  /\ UNCHANGED <<log, sender, gone, accepted, passVars, faults>>

-------------------------------------------------------------------------------
(* NotificationRetryWorker.retryPendingNotifications, pass p *)

\* Mutant: the retries of a row are not looked at.
StuckAnyRetries == {n \in old : log[n].status = "pending"}

\* GetStuckPendingLogs (its LIMIT of 100 is above the bounds of the runs)
Stuck == {n \in old : log[n].status = "pending" /\ log[n].retries < MaxRetries}

Goto(p, stage) == pass' = [pass EXCEPT ![p].stage = stage]

\* The loop goes on with the next row, if any.
NextRow(p) ==
  pass' = [pass EXCEPT ![p] =
             IF @.todo = {} THEN Idle
             ELSE [@ EXCEPT !.stage = "rows", !.current = NoNote, !.outcome = "failure"]]

ListStuck(p) ==
  /\ pass[p].stage = "idle"
  /\ Stuck # {}
  /\ pass' = [pass EXCEPT ![p] =
                [Idle EXCEPT !.stage = IF Cardinality(Stuck) >= AlertThreshold
                                       THEN "alert?" ELSE "rows",
                             !.todo = Stuck,
                             !.read = [n \in Notes |-> IF n \in Stuck THEN log[n].retries ELSE 0]]]
  /\ UNCHANGED <<log, old, sender, gone, accepted, alerted, retried, faults>>

\* sendBacklogAlert: at most once an hour, by lastAlertTime.
CheckAlert(p) ==
  /\ pass[p].stage = "alert?"
  /\ Goto(p, IF alerted THEN "rows" ELSE "alert")
  /\ UNCHANGED <<log, old, sender, gone, accepted, alerted, retried, faults>>

\* The channel cannot be read: the row is passed over.
SkipRow(p, n) ==
  /\ pass[p].stage = "rows" /\ n \in pass[p].todo
  /\ Fault
  /\ LET left == [pass[p] EXCEPT !.todo = @ \ {n}] IN
     pass' = [pass EXCEPT ![p] = IF left.todo = {} THEN Idle ELSE left]
  /\ UNCHANGED <<log, old, sender, gone, accepted, alerted, retried>>

\* retryDelivery.  (The branch for a row with MaxRetries retries cannot be
\* reached, ListStuck does not read such a row.)
SendRow(p, n, outcome) ==
  /\ pass[p].stage = "rows" /\ n \in pass[p].todo
  /\ Deliver(n, outcome)
  /\ retried' = retried \cup {n}
  /\ pass' = [pass EXCEPT ![p] = [pass[p] EXCEPT !.stage = "count", !.todo = @ \ {n},
                                                 !.current = n, !.outcome = outcome]]
  /\ UNCHANGED <<log, old, sender, gone, alerted, faults>>

\* Mutants: a failed retry is not counted; every retry is taken for a success.
CountNothing(p, ok) ==
  /\ pass[p].stage = "count"
  /\ IF pass[p].outcome = "success" THEN Goto(p, "record") ELSE NextRow(p)
  /\ IF ok THEN UNCHANGED faults ELSE Fault
  /\ UNCHANGED <<log, old, sender, gone, accepted, alerted, retried>>
CountAsSuccess(p, ok) ==
  /\ pass[p].stage = "count"
  /\ LET n == pass[p].current IN
     log' = IF ok THEN [log EXCEPT ![n].retries = pass[p].read[n] + 1] ELSE log
  /\ Goto(p, "record")
  /\ IF ok THEN UNCHANGED faults ELSE Fault
  /\ UNCHANGED <<old, sender, gone, accepted, alerted, retried>>

\* UpdateLogRetry writes the retries the pass has read plus one.
CountRetry(p, ok) ==
  /\ pass[p].stage = "count"
  /\ LET n == pass[p].current IN
     log' = IF ok THEN [log EXCEPT ![n].retries = pass[p].read[n] + 1] ELSE log
  /\ IF pass[p].outcome = "success" THEN Goto(p, "record") ELSE NextRow(p)
  /\ IF ok THEN UNCHANGED faults ELSE Fault
  /\ UNCHANGED <<old, sender, gone, accepted, alerted, retried>>

\* UpdateLog(sent)
RecordSent(p, ok) ==
  /\ pass[p].stage = "record"
  /\ log' = IF ok THEN [log EXCEPT ![pass[p].current].status = "sent"] ELSE log
  /\ NextRow(p)
  /\ IF ok THEN UNCHANGED faults ELSE Fault
  /\ UNCHANGED <<old, sender, gone, accepted, alerted, retried>>

-------------------------------------------------------------------------------
\* What is lost when the process dies and is started again.
Restart == /\ sender' = [n \in Notes |-> IF sender[n] = "idle" THEN "idle" ELSE "done"]
           /\ pass' = [p \in Passes |-> Idle]
           /\ alerted' = FALSE
           /\ UNCHANGED <<log, old, gone, accepted, retried>>

Crash == Restart /\ Fault

\* The alert is sent and its time kept, or it fails and the pass goes on.
\* Without the channel GetChannelByCode returns nil and no error, and the
\* alert dereferences it: the panic ends the process.
SendAlert(p, ok) ==
  /\ pass[p].stage = "alert"
  /\ IF HasAlertChannel
     THEN /\ alerted' = (alerted \/ ok)
          /\ Goto(p, "rows")
          /\ UNCHANGED <<log, old, sender, gone, accepted, retried>>
     ELSE Restart
  /\ UNCHANGED faults

HourPasses ==
  /\ alerted
  /\ alerted' = FALSE
  /\ UNCHANGED <<log, old, sender, gone, accepted, pass, retried, faults>>

Init == /\ log = [n \in Notes |-> [status |-> "absent", retries |-> 0]]
        /\ old = {} /\ gone = {} /\ accepted = {}
        /\ sender = [n \in Notes |-> "idle"]
        /\ pass = [p \in Passes |-> Idle]
        /\ alerted = FALSE /\ retried = {}
        /\ faults = 0

SendNext(n) == \/ CreateLog(n) \/ HangUp(n) \/ Age(n)
               \/ \E o \in Outcomes : ProviderAnswers(n, o)
               \/ \E ok \in BOOLEAN : RecordOwn(n, ok)

PassNext(p) == \/ ListStuck(p) \/ CheckAlert(p)
               \/ \E n \in Notes : SkipRow(p, n) \/ \E o \in Outcomes : SendRow(p, n, o)
               \/ \E ok \in BOOLEAN : SendAlert(p, ok) \/ CountRetry(p, ok) \/ RecordSent(p, ok)

Next == \/ \E n \in Notes : SendNext(n)
        \/ \E p \in Passes : PassNext(p)
        \/ Crash \/ HourPasses

\* Sends and passes run to their end, and the cron job keeps being started.
Fairness == /\ \A n \in Notes : WF_vars((\E o \in Outcomes : ProviderAnswers(n, o))
                                          \/ (\E ok \in BOOLEAN : RecordOwn(n, ok)) \/ Age(n))
            /\ \A p \in Passes : WF_vars(PassNext(p))

Spec == Init /\ [][Next]_vars /\ Fairness

-------------------------------------------------------------------------------
\* Every variable keeps its type.
TypeOK ==
  /\ log \in [Notes -> [status : {"absent", "pending", "sent", "failed"}, retries : 0..MaxRetries]]
  /\ old \in SUBSET Notes /\ gone \in SUBSET Notes /\ accepted \in SUBSET Notes
  /\ sender \in [Notes -> Outcomes \cup {"idle", "sending", "done"}]
  /\ pass \in [Passes -> [stage : {"idle", "alert?", "alert", "rows", "count", "record"},
                          todo : SUBSET Notes, read : [Notes -> 0..MaxRetries],
                          current : Notes \cup {NoNote}, outcome : Outcomes]]
  /\ alerted \in BOOLEAN /\ retried \in SUBSET Notes
  /\ faults \in 0..MaxFaults

\* A row that says sent is a message the provider has delivered, however many
\* passes and the original Send wrote to it.
SentIsGrounded == \A n \in Notes : log[n].status = "sent" => n \in accepted

\* The worker sends again only what a hang-up, a failed update or a crash has
\* left pending: a Send that has recorded its result, or is still on its way,
\* is not repeated.
RetriesHaveCause == \A n \in retried : n \in gone \/ faults > 0

\* A result is final: sent and failed are never overwritten, neither by a pass
\* that read the row before nor by a late Send.
ResultIsFinal ==
  [][\A n \in Notes : log[n].status \in {"sent", "failed"} => log'[n].status = log[n].status]_vars

\* Every row is dealt with: in the end it is recorded as sent or failed, or
\* its retries are used up, also when passes overtake one another and write
\* older counts over newer ones.
EveryRowIsDealtWith ==
  \A n \in Notes : <>[](log[n].status # "pending" \/ log[n].retries = MaxRetries)

-------------------------------------------------------------------------------
(* Statements of the repository that the code does not keep. *)

\* Migration 011: the retries prevent the status pending from hanging for
\* ever; a row whose retries are used up is marked as failed for good.
NoRowStaysPending == \A n \in Notes : log[n].status = "pending" ~> log[n].status # "pending"
===============================================================================
