------------------------------- MODULE WatchTodo -------------------------------
(***************************************************************************)
(* The todos of the watch loop of quantsys-v2: how they are escalated,     *)
(* called out, reminded of, closed and swept up.                           *)
(*                                                                         *)
(* Three parties write them.  The patrol, one thread a minute and never    *)
(* two at once, promotes what is overdue, calls it out in one card per     *)
(* pass, reminds, and expires what nobody handles.  Clients of the HTTP    *)
(* routes, in a thread pool, claim and close.  Whoever disables or deletes *)
(* the rule behind the todos closes them all.  Every step below is one     *)
(* commit, one message, or one read that a later step relies on.           *)
(*                                                                         *)
(* Time is how long each todo is overdue: 0 not yet, 1 just, 2 four hours, *)
(* 3 eight hours (the second reminder), 4 three days (expiry).             *)
(***************************************************************************)
EXTENDS Naturals, Sequences, FiniteSets, SequencesExt

CONSTANTS
  Todos,
  Clients,      \* requests to close a todo, and the job that reports fills
  Limit,        \* rows a pass of the patrol reads
  ClockAhead,   \* the host's clock shows a time eight hours ahead of UTC
  MaxFaults     \* bound: crashes, writes that fail and answers to cards that are lost

ASSUME LimitAssumption == Limit \in Nat \ {0} /\ IsFiniteSet(Todos)
ASSUME BoundAssumption == MaxFaults \in Nat
ASSUME ClockAssumption == ClockAhead \in BOOLEAN

Levels == {"P1", "P2"}     \* P1 stands for P0, an order to trade, and P2 for P3
Urgent == {"P1"}

ClientTerminals == {"handled", "ignored"}

VARIABLES
  todo,      \* watch_todos; level "none": not created yet
  rule,      \* the rule the todos hang on: on or off; off may be gone, too
  receipts,  \* watch_receipts of kind timeout: quiet, or of a card or a call, sent or failed
  patrol,    \* what the patrol's pass has in hand
  client,    \* what each client's request has in hand
  switch,    \* what the request that disables or deletes the rule has in hand
  told,      \* history: what people were told of each todo
  faults

vars == <<todo, rule, receipts, patrol, client, switch, told, faults>>

NoTodo == [level |-> "none", agent |-> FALSE, flow |-> "L1", terminal |-> "none",
           by |-> "none", count |-> 0, late |-> 0, period |-> 0]
NoWork == [op |-> "none", count |-> 0]
Resting == [pc |-> "idle", queue |-> <<>>, work |-> NoWork, group |-> {}]
NoRequest == [pc |-> "idle", todo |-> "none", terminal |-> "none"]

Init == /\ todo = [t \in Todos |-> NoTodo]
        /\ rule = "on"
        /\ receipts = {}
        /\ patrol = Resting
        /\ client = [c \in Clients |-> NoRequest]
        /\ switch = "idle"
        /\ told = [t \in Todos |-> [cards |-> 0, late |-> 0, result |-> {}]]
        /\ faults = 0

Created(t) == todo[t].level # "none"
Closed(t) == todo[t].terminal # "none"
Open(t) == Created(t) /\ ~Closed(t)

-------------------------------------------------------------------------------
(* Creation, claims and time.                                              *)

\* A trigger is read before its todo is written: the rule may be off by then.
Create(t) ==
  /\ ~Created(t)
  /\ \E level \in Levels, agent \in BOOLEAN :
       todo' = [todo EXCEPT ![t] = [NoTodo EXCEPT
                  !.level = level, !.agent = agent,
                  !.flow = IF level \in Urgent THEN "L3" ELSE "L1"]]
  /\ UNCHANGED <<rule, receipts, patrol, client, switch, told, faults>>

Claim(t) ==
  /\ Open(t) /\ todo[t].flow = "L1"
  /\ todo' = [todo EXCEPT ![t].flow = "L2"]
  /\ UNCHANGED <<rule, receipts, patrol, client, switch, told, faults>>

TimePasses(t) ==
  /\ Open(t) /\ todo[t].late < 4
  /\ todo' = [todo EXCEPT ![t].late = @ + 1]
  /\ UNCHANGED <<rule, receipts, patrol, client, switch, told, faults>>

-------------------------------------------------------------------------------
(* The patrol: scan (WatchSlaJob.run_once).                                *)

\* list_overdue: todos of a rule that is off or gone are never listed.
Overdue == {t \in Todos : Open(t) /\ todo[t].late > 0 /\ rule = "on"}

\* ORDER BY due_at LIMIT: no row is left out for one that is less late.
Batches == {q \in SetToSeqs(Overdue) : \A i, j \in DOMAIN q :
              i < j => todo[q[i]].late >= todo[q[j]].late}

FirstRows(q) == SubSeq(q, 1, IF Len(q) < Limit THEN Len(q) ELSE Limit)

Scan ==
  /\ patrol.pc = "idle" /\ Overdue # {}
  /\ \E q \in Batches :
       patrol' = [Resting EXCEPT !.pc = "scan", !.queue = [i \in DOMAIN FirstRows(q) |->
                    [todo |-> q[i], flow |-> todo[q[i]].flow]]]
  /\ UNCHANGED <<todo, rule, receipts, client, switch, told, faults>>

Current == Head(patrol.queue).todo
NextTodo == [patrol EXCEPT !.queue = Tail(@), !.work = NoWork]

Recorded(t, round) ==
  \E r \in receipts : r.todo = t /\ r.round = round /\ r.period = todo[t].period

\* Mutant: the first call is taken for granted.
CalledAnyway(t) == TRUE

CalledOut(t) == Recorded(t, 0)

\* The patrol subtracts a due time in UTC from a local time.
SeenLate(t) ==
  IF ~ClockAhead THEN {todo[t].late}
  ELSE IF todo[t].late = 3 THEN {3, 4} ELSE IF todo[t].late = 4 THEN {4} ELSE {3}

\* Mutant: expiry is never reached.
NeverExpires(late) == late > 4

Expires(late) == late = 4

MaxReminds == 3

\* An order to trade, just overdue, may still have time left to be executed.
MayWait(t) == todo[t].level \in Urgent /\ todo[t].late = 1 /\ ~ClockAhead

Item(t, round) ==
  [todo |-> t, round |-> round, period |-> todo[t].period,
   st |-> IF todo[t].agent THEN "new" ELSE "card"]

CallOut(t, round) ==
  patrol' = [patrol EXCEPT !.group = @ \cup {Item(t, round)},
                           !.work = [op |-> "bump", count |-> todo[t].count]]

\* _remind_or_expire
RemindOrExpire(t) == \E late \in SeenLate(t) :
  IF Expires(late) THEN patrol' = [patrol EXCEPT !.work = [NoWork EXCEPT !.op = "expire"]]
  ELSE LET n == todo[t].count IN
    IF /\ todo[t].level \in Urgent /\ n > 0 /\ n < MaxReminds
       /\ late > n /\ ~Recorded(t, n)
    THEN CallOut(t, n)
    ELSE patrol' = NextTodo

\* _process_one, up to its first write.  The session may still hold the row as
\* the scan read it, before a claim.  Whether it was closed is not looked at.
Look ==
  /\ patrol.pc = "scan" /\ patrol.work = NoWork /\ patrol.queue # <<>>
  /\ LET t == Current IN
     \E flow \in {Head(patrol.queue).flow, todo[t].flow} :
       \/ /\ flow # "L3"
          /\ patrol' = [patrol EXCEPT !.work = [NoWork EXCEPT
               !.op = IF flow = "L1" THEN "to L2" ELSE "to L3"]]
       \/ /\ flow = "L3" /\ MayWait(t)
          /\ patrol' = NextTodo
       \/ /\ flow = "L3" /\ CalledOut(t)
          /\ RemindOrExpire(t)
       \/ /\ flow = "L3" /\ ~CalledOut(t)
          /\ IF todo[t].level \notin Urgent /\ ~todo[t].agent
               THEN patrol' = [patrol EXCEPT !.work = [op |-> "log", count |-> todo[t].count]]
               ELSE CallOut(t, 0)
  /\ UNCHANGED <<todo, rule, receipts, client, switch, told, faults>>

-------------------------------------------------------------------------------
(* The patrol: writes.                                                     *)

\* Mutant: the UPDATE has no WHERE terminal IS NULL.
PromotableAnyway(t) == TRUE

Promotable(t) == ~Closed(t)

\* Promotion puts off the due time by half an hour, and with it the period.
Promote ==
  /\ patrol.work.op \in {"to L2", "to L3"}
  /\ LET t == Current IN
     \E late \in {todo[t].late, todo[t].late - 1} \cap Nat :
       todo' = IF Promotable(t)
                 THEN [todo EXCEPT ![t].flow = IF patrol.work.op = "to L2" THEN "L2" ELSE "L3",
                                   ![t].count = @ + 1, ![t].late = late, ![t].period = @ + 1]
                 ELSE todo
  /\ patrol' = NextTodo
  /\ UNCHANGED <<rule, receipts, client, switch, told, faults>>

\* Mutant: counting a call puts the due time off as a promotion does.
BumpStartsPeriod == 1

BumpExtends == 0

Bump ==
  /\ patrol.work.op = "bump"
  /\ LET t == Current IN
       todo' = IF Promotable(t)
                 THEN [todo EXCEPT ![t].flow = "L3", ![t].count = patrol.work.count + 1,
                                   ![t].period = @ + BumpExtends]
                 ELSE todo
  /\ patrol' = NextTodo
  /\ UNCHANGED <<rule, receipts, client, switch, told, faults>>

\* A user's P2 and P3 are only recorded.
Log ==
  /\ patrol.work.op = "log"
  /\ LET t == Current IN
       receipts' = receipts \cup
         {[todo |-> t, round |-> 0, period |-> todo[t].period, quiet |-> TRUE]}
  /\ patrol' = [patrol EXCEPT !.work.op = "bump"]
  /\ UNCHANGED <<todo, rule, client, switch, told, faults>>

Expire ==
  /\ patrol.work.op = "expire"
  /\ LET t == Current IN
       todo' = IF Closed(t) THEN todo
               ELSE [todo EXCEPT ![t].terminal = "expired", ![t].by = "patrol"]
  /\ patrol' = NextTodo
  /\ UNCHANGED <<rule, receipts, client, switch, told, faults>>

\* An exception ends the work on one todo, not the pass.
StepFails ==
  /\ faults < MaxFaults /\ faults' = faults + 1
  /\ patrol.work # NoWork
  /\ patrol' = NextTodo
  /\ UNCHANGED <<todo, rule, receipts, client, switch, told>>

-------------------------------------------------------------------------------
(* The patrol: one card for the pass (ReceiptService.flush_grouped).       *)

StartFlush ==
  /\ patrol.pc = "scan" /\ patrol.queue = <<>>
  /\ patrol' = [patrol EXCEPT !.pc = "flush"]
  /\ UNCHANGED <<todo, rule, receipts, client, switch, told, faults>>

Flushing(st) == {i \in patrol.group : patrol.pc = "flush" /\ i.st = st}

Settle(i, st) == patrol' = [patrol EXCEPT !.group = (@ \ {i}) \cup {[i EXCEPT !.st = st]}]

ToldBy(ts) == [t \in Todos |->
  IF t \in ts THEN [told[t] EXCEPT !.cards = @ + 1, !.late = IF Closed(t) THEN @ + 1 ELSE @]
              ELSE told[t]]

\* A reminder that reached the agent goes to the user as well, on a card of its own.
WakeOwner == \E i \in Flushing("new") :
  /\ \/ /\ i.round = 0
        /\ Settle(i, "done")
        /\ UNCHANGED told
     \/ /\ i.round > 0
        /\ told' = ToldBy({i.todo})
        /\ Settle(i, "done")
     \/ /\ Settle(i, IF todo[i.todo].level \in Urgent THEN "card" ELSE "done")
        /\ UNCHANGED told
  /\ UNCHANGED <<todo, rule, receipts, client, switch, faults>>

OnCard == Flushing("card")

SendCard ==
  /\ Flushing("new") = {} /\ OnCard # {}
  /\ \E sent \in BOOLEAN :
       /\ told' = IF sent THEN ToldBy({i.todo : i \in OnCard}) ELSE told
       /\ patrol' = [patrol EXCEPT !.group = (@ \ OnCard) \cup
            {[i EXCEPT !.st = "done"] : i \in OnCard}]
  /\ UNCHANGED <<todo, rule, receipts, client, switch, faults>>

CardOnly(ts) ==
  [t \in Todos |-> IF t \in ts THEN [told[t] EXCEPT !.cards = @ + 1] ELSE told[t]]

\* A card reaches the user and its answer is lost: the next channel is tried,
\* and after the last one a reminder goes onto the card of the pass.
AnswerLost ==
  /\ faults < MaxFaults /\ faults' = faults + 1
  /\ \/ \E i \in Flushing("new") : i.round > 0 /\ told' = CardOnly({i.todo})
     \/ /\ Flushing("new") = {} /\ OnCard # {}
        /\ told' = CardOnly({i.todo : i \in OnCard})
  /\ UNCHANGED <<todo, rule, receipts, patrol, client, switch>>

Messaged == Flushing("new") \cup OnCard = {}

Record ==
  /\ Messaged
  /\ \E i \in patrol.group :
       /\ patrol.pc = "flush"
       /\ receipts' = receipts \cup {[todo |-> i.todo, round |-> i.round,
                                      period |-> i.period, quiet |-> FALSE]}
       /\ patrol' = [patrol EXCEPT !.group = @ \ {i}]
  /\ UNCHANGED <<todo, rule, client, switch, told, faults>>

\* The rest of the group is gone: it was taken out of the buffer beforehand.
RecordFails ==
  /\ faults < MaxFaults /\ faults' = faults + 1
  /\ patrol.pc = "flush" /\ patrol.group # {} /\ Messaged
  /\ patrol' = Resting
  /\ UNCHANGED <<todo, rule, receipts, client, switch, told>>

EndPass ==
  /\ patrol.pc = "flush" /\ patrol.group = {}
  /\ patrol' = Resting
  /\ UNCHANGED <<todo, rule, receipts, client, switch, told, faults>>

-------------------------------------------------------------------------------
(* Closing (TodoService.close_and_receipt), and close alone for a fill.    *)

CloseReads(c) ==
  /\ client[c].pc = "idle"
  /\ \E t \in Todos : /\ Open(t)
                      /\ client' = [client EXCEPT ![c].pc = "close", ![c].todo = t]
  /\ UNCHANGED <<todo, rule, receipts, patrol, switch, told, faults>>

\* What the request asks for matters only now; a fill is handled, and silent.
CloseWrites(c) ==
  /\ client[c].pc = "close"
  /\ LET t == client[c].todo IN
     \/ /\ ~Closed(t)
        /\ \E terminal \in ClientTerminals :
             /\ todo' = [todo EXCEPT ![t].terminal = terminal, ![t].by = "client"]
             /\ \/ client' = [client EXCEPT ![c].pc = "send", ![c].terminal = terminal]
                \/ terminal = "handled" /\ client' = [client EXCEPT ![c] = NoRequest]
     \/ /\ Closed(t)
        /\ client' = [client EXCEPT ![c] = NoRequest]
        /\ UNCHANGED todo
  /\ UNCHANGED <<rule, receipts, patrol, switch, told, faults>>

\* The receipt that follows, of a card sent or failed, is never read again.
SendResult(c) ==
  /\ client[c].pc = "send"
  /\ \/ told' = [told EXCEPT ![client[c].todo].result = @ \cup {<<c, client[c].terminal>>}]
     \/ UNCHANGED told
  /\ client' = [client EXCEPT ![c] = NoRequest]
  /\ UNCHANGED <<todo, rule, receipts, patrol, switch, faults>>

RequestFails(c) ==
  /\ faults < MaxFaults /\ faults' = faults + 1
  /\ client[c].pc = "close"
  /\ client' = [client EXCEPT ![c] = NoRequest]
  /\ UNCHANGED <<todo, rule, receipts, patrol, switch, told>>

-------------------------------------------------------------------------------
(* The rule.  It is disabled and then its todos are closed; it is deleted  *)
(* after they were.                                                        *)

Disable ==
  /\ switch = "idle" /\ rule = "on"
  /\ rule' = "off" /\ switch' = "disabled"
  /\ UNCHANGED <<todo, receipts, patrol, client, told, faults>>

Enable ==
  /\ rule = "off" /\ rule' = "on"
  /\ UNCHANGED <<todo, receipts, patrol, client, switch, told, faults>>

\* close_open_by_rule: no receipt.
CloseAll == [t \in Todos |->
  IF Open(t) THEN [todo[t] EXCEPT !.terminal = "expired", !.by = "cascade"] ELSE todo[t]]

Cascade ==
  /\ switch = "disabled" \/ switch = "idle"
  /\ todo' = CloseAll
  /\ switch' = IF switch = "disabled" THEN "idle" ELSE "deleting"
  /\ UNCHANGED <<rule, receipts, patrol, client, told, faults>>

Delete ==
  /\ switch = "deleting"
  /\ rule' = "off" /\ switch' = "idle"
  /\ UNCHANGED <<todo, receipts, patrol, client, told, faults>>

SwitchFails ==
  /\ faults < MaxFaults /\ faults' = faults + 1
  /\ switch # "idle" /\ switch' = "idle"
  /\ UNCHANGED <<todo, rule, receipts, patrol, client, told>>

\* The process dies and is started again: what is in hand is lost.
Crash ==
  /\ faults < MaxFaults /\ faults' = faults + 1
  /\ patrol' = Resting
  /\ client' = [c \in Clients |-> NoRequest]
  /\ switch' = "idle"
  /\ UNCHANGED <<todo, rule, receipts, told>>

-------------------------------------------------------------------------------
PatrolStep == \/ Scan \/ Look \/ Promote \/ Bump \/ Log \/ Expire
              \/ StartFlush \/ WakeOwner \/ SendCard \/ Record \/ EndPass

Next == \/ \E t \in Todos : Create(t) \/ Claim(t) \/ TimePasses(t)
        \/ PatrolStep \/ StepFails \/ AnswerLost \/ RecordFails
        \/ \E c \in Clients : \/ CloseReads(c) \/ CloseWrites(c) \/ SendResult(c)
                              \/ RequestFails(c)
        \/ Disable \/ Enable \/ Cascade \/ Delete \/ SwitchFails \/ Crash

(* The thread of the patrol goes on and is started again each minute, and  *)
(* time passes.  Nothing is assumed of the clients or of the rule.         *)
Fairness == WF_vars(PatrolStep) /\ \A t \in Todos : WF_vars(TimePasses(t))

Spec == Init /\ [][Next]_vars /\ Fairness

-------------------------------------------------------------------------------
(* Properties.                                                             *)

Items == [todo : Todos, round : 0..2, period : Nat, st : {"new", "card", "done"}]

\* Every variable keeps to its type; a terminal is one of the three the code knows.
TypeOK ==
  /\ todo \in [Todos -> [level : Levels \cup {"none"}, agent : BOOLEAN,
                          flow : {"L1", "L2", "L3"},
                          terminal : {"none", "handled", "ignored", "expired"},
                          by : {"none", "patrol", "client", "cascade"},
                          count : Nat, late : 0..4, period : Nat]]
  /\ rule \in {"on", "off"}
  /\ \A r \in receipts : r.todo \in Todos /\ r.quiet \in BOOLEAN
  /\ patrol.pc \in {"idle", "scan", "flush"} /\ patrol.group \subseteq Items
  /\ \A c \in Clients : client[c].pc \in {"idle", "close", "send"}
  /\ switch \in {"idle", "disabled", "deleting"}
  /\ faults \in 0..MaxFaults

Rank == [L1 |-> 1, L2 |-> 2, L3 |-> 3]

\* A closed todo never changes again, whoever still holds it; an open one never
\* falls back a level, and in L3 its due time, by which the receipts know what
\* was already called out, stands still.
TodosOnlyAdvance ==
  [][\A t \in Todos : Created(t) =>
       /\ Closed(t) => todo'[t] = todo[t]
       /\ Rank[todo[t].flow] <= Rank[todo'[t].flow]
       /\ todo[t].flow = "L3" => todo'[t].period = todo[t].period]_vars

\* People are not told twice: at most one call and two reminders of a todo, one
\* more for each fault between a card and its record and for each lost answer to
\* a card; at most one card for a todo that is closed already, besides those whose
\* answer was lost; results of one request only, which say what the row says.
CallsBounded == \A t \in Todos :
  /\ told[t].cards <= MaxReminds + faults
  /\ told[t].late <= 1
  /\ Cardinality(told[t].result) <= 1
  /\ \A r \in told[t].result : r[2] = todo[t].terminal

\* What the patrol expires was called out before, or it is on record that the
\* call failed; an urgent todo is never recorded without an attempt to tell somebody.
ExpiredWasCalled ==
  /\ \A t \in Todos : todo[t].by = "patrol" => Recorded(t, 0)
  /\ \A r \in receipts : r.quiet => todo[r.todo].level \notin Urgent

\* Not checked, as it fails with ClockAhead: no reminder comes before its time.
RemindersOnTime ==
  [][\A i \in patrol'.group \ patrol.group :
       i.st \in {"new", "card"} /\ i.round > 0 => todo[i.todo].late > i.round]_vars

\* I1, nothing is left lying: every todo is closed, unless its rule is off.
EveryTodoEnds == \A t \in Todos : Created(t) ~> Closed(t) \/ rule # "on"

===============================================================================
