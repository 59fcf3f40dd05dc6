------------------------------ MODULE ErrorEvents ------------------------------
(***************************************************************************)
(* Collection and disposal of error events in agent-os.                    *)
(*                                                                         *)
(* Once a minute a collector reads two sources: the failed runs of tasks,  *)
(* by a watermark on their end time, and a log file, by a cursor.  Each    *)
(* occurrence is handed to Upsert, which finds the event of the same       *)
(* fingerprint by one statement and writes it by another, and may then     *)
(* archive it as noise by a third.  Clients post occurrences to the same   *)
(* Upsert, and people claim, resolve, ignore and reopen the event.         *)
(*                                                                         *)
(* One event is followed: that of the lines of one log, which the posts    *)
(* report, too.  A failed run has another fingerprint; its Upsert is one   *)
(* step.  Whether a rule of noise applies and how fast occurrences follow  *)
(* one another is left open.  Time is the order in which runs end: run r   *)
(* ends at r.                                                              *)
(***************************************************************************)
EXTENDS Naturals, Sequences, FiniteSets, SequencesExt, FiniteSetsExt

CONSTANTS
  Posts,      \* occurrences that clients report over HTTP
  MaxRuns,    \* bound: failed runs
  MaxLines,   \* bound: lines written to the log
  Window,     \* lines at the end of a log that is read without a cursor (256 KB)
  Batch,      \* lines read before they are handled (200)
  MaxActs,    \* bound: what people do
  MaxFaults   \* bound: crashes, truncations of the log, reads and writes that fail

ASSUME BatchAssumption == Batch \in Nat \ {0}
ASSUME BoundAssumption == {MaxRuns, MaxLines, Window, MaxActs, MaxFaults} \subseteq Nat

Runs == 1..MaxRuns
Run(r) == <<"run", r>>
Line(l) == <<"line", l>>
Items == {Run(r) : r \in Runs} \cup {Line(l) : l \in 1..MaxLines}
Callers == Posts \cup {"collector"}

VARIABLES
  event,      \* the row of error_events: its status, and whether it has an assignee
  call,       \* what each Upsert has in hand
  run,        \* task_runs: running, ended (end time taken), recorded
  file,       \* the lines of the log, in order
  written,    \* lines written to it so far
  memory,     \* the collector's watermark and cursor
  disk,       \* the same as saved in .error_event_offsets.json
  collector,  \* what the round has in hand
  acts, faults,
  seen,       \* history: how often each item was given to Upsert with success
  lost,       \* history: items that may never be counted, each by a named event
  again,      \* history: items that may be counted twice, each by a named event
  recurred    \* history: an occurrence looked up after the last action was counted

eventVars == <<event, call, acts, recurred>>
sourceVars == <<run, file, written>>
vars == <<event, call, run, file, written, memory, disk, collector, acts, faults,
          seen, lost, again, recurred>>

NoCall == [pc |-> "idle", read |-> "none", stale |-> FALSE]
AtRest == [pc |-> "idle", queue |-> <<>>, high |-> 0, pos |-> 0, full |-> FALSE]
Start == [mark |-> 0, offset |-> 0]     \* offset 0: the file was never seen

Init == /\ event = [status |-> "none", owned |-> FALSE]
        /\ call = [c \in Callers |-> NoCall]
        /\ run = [r \in Runs |-> "running"]
        /\ file = <<>> /\ written = 0
        /\ memory = Start /\ disk = Start
        /\ collector = AtRest
        /\ acts = 0 /\ faults = 0
        /\ seen = [i \in Items |-> 0]
        /\ lost = {} /\ again = {}
        /\ recurred = FALSE

CanFail == faults < MaxFaults
Fault == CanFail /\ faults' = faults + 1

Closed == {"resolved", "ignored"}

-------------------------------------------------------------------------------
(* The sources: runs that end, lines that are written, a log cut short.    *)

\* Complete takes the end time before its UPDATE.
Ends(r) ==
  /\ run[r] = "running" /\ \A q \in 1..(r - 1) : run[q] # "running"
  /\ run' = [run EXCEPT ![r] = "ended"]
  /\ UNCHANGED <<eventVars, file, written, memory, disk, collector, faults, seen, lost, again>>

\* The watermark the present round has, or will have, reached.
Passed == IF collector.pc = "runs" THEN collector.high ELSE memory.mark

\* Named loss: the row appears when the watermark has passed its end time.
Recorded(r) ==
  /\ run[r] = "ended"
  /\ run' = [run EXCEPT ![r] = "recorded"]
  /\ lost' = IF r <= Passed THEN lost \cup {Run(r)} ELSE lost
  /\ UNCHANGED <<eventVars, file, written, memory, disk, collector, faults, seen, again>>

Reading == collector.pc \in {"read", "lines"}

\* Named repetition: a line written while the log is being read.  Named loss:
\* a line of a log that was cut short and is still no longer than the cursor.
LineWritten ==
  /\ written < MaxLines
  /\ written' = written + 1
  /\ file' = Append(file, written')
  /\ again' = IF Reading THEN again \cup {Line(written')} ELSE again
  /\ lost' = IF Len(file) < memory.offset THEN lost \cup {Line(written')} ELSE lost
  /\ UNCHANGED <<eventVars, run, memory, disk, collector, faults, seen>>

Unseen(lines) == {Line(l) : l \in {k \in lines : seen[Line(k)] = 0}}
InHand == ToSet(collector.queue)

Truncate ==
  /\ file # <<>> /\ Fault
  /\ file' = <<>>
  /\ lost' = lost \cup (Unseen(ToSet(file)) \ InHand)
  /\ UNCHANGED <<eventVars, run, written, memory, disk, collector, seen, again>>

-------------------------------------------------------------------------------
(* Upsert: SELECT, then UPDATE or INSERT, then the rules of noise.  Who    *)
(* calls: a post once, the collector for each line it has in hand.         *)

HandsOver(c) == IF c = "collector" THEN collector.pc = "lines" /\ collector.queue # <<>>
                                   ELSE call[c].pc = "idle"

Lookup(c) ==
  /\ HandsOver(c) /\ call[c].pc = "idle"
  /\ call' = [call EXCEPT ![c] = [pc |-> "found", read |-> event.status, stale |-> FALSE]]
  /\ UNCHANGED <<event, sourceVars, memory, disk, collector, acts, faults, seen, lost, again, recurred>>

Ended(c) == [call EXCEPT ![c] = IF c = "collector" THEN NoCall ELSE [NoCall EXCEPT !.pc = "over"]]

\* The line is done with as soon as its Upsert can no longer count it.
LineDone(c, counted) ==
  IF c # "collector" THEN UNCHANGED <<collector, seen, lost>> ELSE
  /\ collector' = [collector EXCEPT !.queue = Tail(@)]
  /\ seen' = IF counted THEN [seen EXCEPT ![Head(collector.queue)] = Min({2, @ + 1})] ELSE seen
  /\ lost' = IF counted THEN lost ELSE lost \cup {Head(collector.queue)}

Reopened == [status |-> "open", owned |-> FALSE]

\* Mutant: an occurrence reopens only what had been ignored.
OnlyIgnoredReopens(read) == read = "ignored"

Reopens(read) == read \in Closed

\* Two first occurrences: the second INSERT meets the unique key and is taken
\* as done, the named loss of its count.
Conflicts(c) == call[c].read = "none" /\ event.status # "none"

\* The UPDATE is by fingerprint alone, whatever the row has become since.
Written(c) == IF call[c].read = "none" \/ Reopens(call[c].read) THEN Reopened ELSE event

\* Mutant: the rules of noise look at any row but a resolved one.
NoiseUnlessResolved(status) == status # "resolved"

NoiseMatters(status) == status = "open"

Write(c) ==
  /\ call[c].pc = "found"
  /\ IF Conflicts(c)
       THEN /\ call' = Ended(c)
            /\ LineDone(c, FALSE)
            /\ UNCHANGED <<event, recurred>>
       ELSE /\ event' = Written(c)
            /\ call' = IF NoiseMatters(event'.status)
                         THEN [call EXCEPT ![c] = [pc |-> "noise", read |-> event'.status, stale |-> FALSE]]
                         ELSE Ended(c)
            /\ LineDone(c, TRUE)
            /\ recurred' = (recurred \/ ~call[c].stale)
  /\ UNCHANGED <<sourceVars, memory, disk, acts, faults, again>>

\* A statement fails: the database, or the 50 seconds of the round are over.
UpsertFails(c) ==
  /\ Fault
  /\ call[c].pc = "found"
  /\ call' = Ended(c)
  /\ LineDone(c, FALSE)
  /\ UNCHANGED <<event, sourceVars, memory, disk, acts, again, recurred>>

\* applyEnvNoisePolicy: by id alone.  It leaves the row to people when no rule
\* applies, when occurrences come too fast, or when its UPDATE fails.
Archive(c) ==
  /\ call[c].pc = "noise"
  /\ event' \in {event, [status |-> "ignored", owned |-> FALSE]}
  /\ call' = Ended(c)
  /\ UNCHANGED <<sourceVars, memory, disk, collector, acts, faults, seen, lost, again, recurred>>

-------------------------------------------------------------------------------
(* ApplyAction: what people do, in a transaction that locks the row.       *)

\* A call that goes on with what it read before has become stale.
Acts(allowed, result) ==
  /\ acts < MaxActs /\ acts' = acts + 1
  /\ event.status \in allowed
  /\ event' = result
  /\ call' = [c \in Callers |-> [call[c] EXCEPT !.stale = call[c].pc \in {"found", "noise"}]]
  /\ recurred' = FALSE
  /\ UNCHANGED <<sourceVars, memory, disk, collector, faults, seen, lost, again>>

\* Without an actor the row is processed by nobody; such a row may be claimed.
Claim == \E actor \in BOOLEAN :
  /\ event.status = "processing" => ~event.owned
  /\ Acts({"open", "processing"}, [status |-> "processing", owned |-> actor])
Resolve == Acts({"open", "processing"}, [event EXCEPT !.status = "resolved"])
Ignore == Acts({"open", "processing", "ignored"}, [event EXCEPT !.status = "ignored"])
Reopen == Acts(Closed, Reopened)

-------------------------------------------------------------------------------
(* The round: collectTaskFailures.                                         *)

\* Mutant: the watermark itself is scanned again.
FreshOrLast(mark) == {r \in Runs : run[r] = "recorded" /\ r >= mark}

Fresh(mark) == {r \in Runs : run[r] = "recorded" /\ r > mark}

\* ORDER BY finished_at
InOrder(items) == \A i, j \in DOMAIN items : i < j => items[i][2] < items[j][2]

Scan ==
  /\ collector.pc = "idle"
  /\ LET fresh == Fresh(memory.mark) IN
       IF fresh = {} THEN collector' = [AtRest EXCEPT !.pc = "tail"]
       ELSE \E rows \in SetToSeqs({Run(r) : r \in fresh}) :
              /\ InOrder(rows)
              /\ collector' = [AtRest EXCEPT !.pc = "runs", !.high = Max(fresh), !.queue = rows]
  /\ UNCHANGED <<eventVars, sourceVars, memory, disk, faults, seen, lost, again>>

ScanFails ==
  /\ collector.pc = "idle" /\ Fault
  /\ collector' = [AtRest EXCEPT !.pc = "tail"]
  /\ UNCHANGED <<eventVars, sourceVars, memory, disk, seen, lost, again>>

\* A failed Upsert is logged and the run is passed over, the named loss.
CollectRun ==
  /\ collector.pc = "runs" /\ collector.queue # <<>>
  /\ collector' = [collector EXCEPT !.queue = Tail(@)]
  /\ LET item == Head(collector.queue) IN
       \/ /\ seen' = [seen EXCEPT ![item] = Min({2, @ + 1})]
          /\ UNCHANGED <<lost, faults>>
       \/ /\ Fault
          /\ lost' = lost \cup {item}
          /\ UNCHANGED seen
  /\ UNCHANGED <<eventVars, sourceVars, memory, disk, again>>

\* persistState: a file that cannot be written is only logged.
Persist(new) ==
  /\ memory' = new
  /\ \/ disk' = new /\ UNCHANGED faults
     \/ Fault /\ UNCHANGED disk

SaveMark ==
  /\ collector.pc = "runs" /\ collector.queue = <<>>
  /\ Persist([memory EXCEPT !.mark = collector.high])
  /\ collector' = [AtRest EXCEPT !.pc = "tail"]
  /\ UNCHANGED <<eventVars, sourceVars, seen, lost, again>>

-------------------------------------------------------------------------------
(* The round: tailOne.  The cursor is advanced to the size of the file and *)
(* saved before a line is read; the reading goes on to the end the file has*)
(* by then.                                                                *)

WindowStart(size) == IF size > Window THEN size - Window ELSE 0

\* Mutant: a log without a usable cursor is followed from its end.
ResolveAtEnd(offset, size) == IF offset = 0 \/ offset > size THEN size ELSE offset

ResolveOffset(offset, size) ==
  IF offset = 0 \/ offset > size THEN WindowStart(size) ELSE offset

\* Named loss: what stands before the window of a log without a usable cursor.
BeforeWindow == IF memory.offset = 0 \/ memory.offset > Len(file)
                THEN {file[k] : k \in 1..WindowStart(Len(file))} ELSE {}

TailOne ==
  /\ collector.pc = "tail"
  /\ LET size == Len(file)
         start == ResolveOffset(memory.offset, size) IN
       IF start >= size
         THEN /\ collector' = AtRest
              /\ UNCHANGED <<memory, disk, faults, lost>>
         ELSE /\ Persist([memory EXCEPT !.offset = size])
              /\ collector' = [AtRest EXCEPT !.pc = "read", !.pos = start]
              /\ lost' = lost \cup Unseen(BeforeWindow)
  /\ UNCHANGED <<eventVars, sourceVars, seen, again>>

\* The file cannot be opened, or the cursor cannot be reached: the next round tries.
TailFails ==
  /\ collector.pc = "tail" /\ Fault
  /\ collector' = AtRest
  /\ UNCHANGED <<eventVars, sourceVars, memory, disk, seen, lost, again>>

\* The lines that have been scanned are processed, the last batch of a scan as well.
Take(upto) ==
  LET chunk == SubSeq(file, collector.pos + 1, upto) IN
    collector' = IF chunk = <<>> THEN AtRest
                 ELSE [AtRest EXCEPT !.pc = "lines", !.pos = upto, !.full = (Len(chunk) = Batch),
                         !.queue = [i \in DOMAIN chunk |-> Line(chunk[i])]]

\* The scanner hands over a full batch, or what is left at the end of the file.
ReadBatch ==
  /\ collector.pc = "read"
  /\ Take(Min({collector.pos + Batch, Len(file)}))
  /\ UNCHANGED <<eventVars, sourceVars, memory, disk, faults, seen, lost, again>>

\* A line longer than its buffer (1 MB), or a read that fails, ends the scan, which
\* is only logged.  Named loss: what is left before the cursor, saved long before.
ScanBreaks ==
  /\ collector.pc = "read" /\ Fault
  /\ \E upto \in collector.pos..(collector.pos + Batch - 1) :
       /\ upto <= Len(file)
       /\ Take(upto)
       /\ lost' = lost \cup Unseen({file[k] : k \in {j \in DOMAIN file :
                                                    upto < j /\ j <= memory.offset}})
  /\ UNCHANGED <<eventVars, sourceVars, memory, disk, seen, again>>

BatchDone ==
  /\ collector.pc = "lines" /\ collector.queue = <<>> /\ call["collector"].pc = "idle"
  /\ collector' = IF collector.full THEN [collector EXCEPT !.pc = "read"] ELSE AtRest
  /\ UNCHANGED <<eventVars, sourceVars, memory, disk, faults, seen, lost, again>>

\* loadState: what was saved, or, when it cannot be read or parsed, no cursor and a
\* watermark half an hour back.
Loaded == {disk} \cup [mark : {0} \cup {r \in Runs : run[r] # "running"}, offset : {0}]

\* The process dies and is started again, with a round from the start.  Named loss:
\* runs and lines that the watermark and the cursor have passed.  Named repetition:
\* what was counted and lies beyond them.
Crash ==
  /\ Fault
  /\ collector' = AtRest
  /\ call' = [c \in Callers |-> IF c = "collector" THEN NoCall
                                ELSE IF call[c].pc = "idle" THEN NoCall ELSE [NoCall EXCEPT !.pc = "over"]]
  /\ \E saved \in Loaded :
       LET behind == {k \in DOMAIN file : k <= saved.offset}
           ahead == IF saved.offset > Len(file) THEN DOMAIN file ELSE DOMAIN file \ behind
           passed == {r \in Runs : run[r] = "recorded" /\ r <= saved.mark /\ seen[Run(r)] = 0} IN
         /\ memory' = saved
         /\ lost' = lost \cup {Run(r) : r \in passed} \cup Unseen({file[k] : k \in behind})
                         \cup {i \in InHand : i[1] = "line" /\ i[2] \notin ToSet(file)}
         /\ again' = again \cup {Run(r) : r \in {q \in Runs : q > saved.mark /\ seen[Run(q)] > 0}}
                           \cup {i \in {Line(file[k]) : k \in ahead} : seen[i] > 0}
  /\ UNCHANGED <<event, sourceVars, disk, acts, seen, recurred>>

-------------------------------------------------------------------------------
Upserts(c) == Lookup(c) \/ Write(c) \/ Archive(c)
Round == Scan \/ CollectRun \/ SaveMark \/ TailOne \/ ReadBatch \/ BatchDone \/ Upserts("collector")
Sources == (\E r \in Runs : Ends(r) \/ Recorded(r)) \/ LineWritten \/ Truncate
People == Claim \/ Resolve \/ Ignore \/ Reopen
Failures == ScanFails \/ TailFails \/ ScanBreaks \/ Crash \/ \E c \in Callers : UpsertFails(c)

Next == Round \/ Sources \/ People \/ Failures \/ \E c \in Posts : Upserts(c)

\* The cron engine starts a round every minute and every call of it returns.
Fairness == WF_vars(Round)

Spec == Init /\ [][Next]_vars /\ Fairness

-------------------------------------------------------------------------------
(* Properties.                                                             *)

\* The shape of the row, the cursors and the rounds.
TypeOK ==
  /\ event \in [status : {"none", "open", "processing"} \cup Closed, owned : BOOLEAN]
  /\ call \in [Callers -> [pc : {"idle", "found", "noise", "over"}, stale : BOOLEAN,
                           read : {"none", "open", "processing"} \cup Closed]]
  /\ run \in [Runs -> {"running", "ended", "recorded"}]
  /\ file \in Seq(1..MaxLines) /\ written \in 0..MaxLines
  /\ {memory, disk} \subseteq [mark : 0..MaxRuns, offset : 0..MaxLines]
  /\ collector.pc \in {"idle", "runs", "tail", "read", "lines"}
  /\ collector.queue \in Seq(Items)
  /\ acts \in 0..MaxActs /\ faults \in 0..MaxFaults
  /\ seen \in [Items -> 0..2] /\ lost \cup again \subseteq Items
  /\ recurred \in BOOLEAN

\* What people are working on is taken out of their hands only by a call that
\* read the row before they acted on it: the rules of noise and the counting
\* leave a row in processing alone (error_event_env_noise_policy.go:11).
OnlyStaleCallsInterfere ==
  [][event.status = "processing" /\ event' # event /\ acts' = acts
       => \E c \in Callers : call[c].stale /\ call'[c] # call[c]]_vars

\* An occurrence looked up after a conclusion reopens the event: no row stays
\* resolved while the error it closed goes on (014_create_error_events.sql:5).
ResolvedMeansQuiet == event.status = "resolved" => ~recurred

\* An item is counted a second time only if its line was written while the log
\* was being read, or a crash threw the collector back behind it.
CountedOnce == \A i \in Items : seen[i] > 1 => i \in again

Occurred == {Run(r) : r \in {q \in Runs : run[q] = "recorded"}} \cup {Line(l) : l \in 1..written}

\* Whatever is recorded or written is counted in the end, unless one of the
\* named events lost it: a late row of a run, a log cut or read from its window,
\* a scan that broke off, an Upsert that failed, a crash.
EveryErrorIsCounted == []<>(\A i \in Occurred : seen[i] > 0 \/ i \in lost)
================================================================================
