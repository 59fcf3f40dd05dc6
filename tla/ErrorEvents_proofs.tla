-------------------------- MODULE ErrorEvents_proofs ---------------------------
(***************************************************************************)
(* Proofs about the error events, for any number of posts, runs, lines,    *)
(* actions of people and faults, any window and any batch: an event that   *)
(* was resolved is reopened by what recurs, what people work on is left to *)
(* them but for stale calls, and nothing is counted twice but by one of    *)
(* the named events.                                                       *)
(*                                                                         *)
(* The first two rest on what a call that is not stale knows of the row    *)
(* (CallsSound); the third on what the watermark and the cursor have       *)
(* passed (RunsSound, LinesSound).                                         *)
(***************************************************************************)
EXTENDS ErrorEvents, FiniteSetTheorems, SequenceTheorems, WellFoundedInduction, TLAPS

\* The row and the calls.
RowTyped ==
  /\ event \in [status : {"none", "open", "processing"} \cup Closed, owned : BOOLEAN]
  /\ call \in [Callers -> [pc : {"idle", "found", "noise", "over"}, stale : BOOLEAN,
                           read : {"none", "open", "processing"} \cup Closed]]
  /\ acts \in Nat

\* While a person's conclusion stands, a call that is not stale has read it.
CallsSound ==
  \A c \in Callers : ~call[c].stale =>
    /\ call[c].pc = "found" /\ event.status \in {"processing", "resolved"}
         => call[c].read = event.status
    /\ call[c].pc = "noise" => event.status # "processing"

EventInv == RowTyped /\ CallsSound /\ ResolvedMeansQuiet

\* The collector, its sources and the history.
RoundTyped ==
  /\ file \in Seq(1..MaxLines) /\ written \in 0..MaxLines
  /\ memory \in [mark : 0..MaxRuns, offset : Nat]
  /\ disk \in [mark : 0..MaxRuns, offset : Nat]
  /\ collector \in [pc : {"idle", "runs", "tail", "read", "lines"}, queue : Seq(Items),
                    high : 0..MaxRuns, pos : Nat, full : BOOLEAN]
  /\ seen \in [Items -> 0..2]
  /\ again \subseteq Items

\* Lines stand in the log once, in the order they were written, and nothing is
\* known of a line before.
FileSound ==
  /\ \A j, k \in DOMAIN file : j < k => file[j] < file[k]
  /\ \A k \in DOMAIN file : file[k] <= written
  /\ \A l \in 1..MaxLines :
       seen[Line(l)] > 0 \/ (\E i \in DOMAIN collector.queue : collector.queue[i] = Line(l))
         => l <= written

\* The queue holds no item twice, and none that was counted before.
QueueSound ==
  /\ \A i, j \in DOMAIN collector.queue : collector.queue[i] = collector.queue[j] => i = j
  /\ \A i \in DOMAIN collector.queue :
       seen[collector.queue[i]] = 0 \/ collector.queue[i] \in again
  /\ collector.pc \notin {"runs", "lines"} => collector.queue = <<>>
  /\ call["collector"].pc = "found" => collector.pc = "lines" /\ collector.queue # <<>>

\* The runs counted are those the watermark has passed, or will have.
RunsSound ==
  /\ collector.pc = "runs" =>
       \A i \in DOMAIN collector.queue :
         \E r \in Runs : /\ collector.queue[i] = Run(r)
                         /\ memory.mark < r /\ r <= collector.high
  /\ \A r \in Runs :
       \/ seen[Run(r)] = 0 \/ Run(r) \in again \/ r <= memory.mark
       \/ /\ collector.pc = "runs" /\ r <= collector.high
          /\ \A i \in DOMAIN collector.queue : collector.queue[i] # Run(r)
  /\ collector.pc = "runs" => memory.mark <= collector.high

\* The lines counted lie before a cursor that is within the log, and before the
\* position of the reading under way, which the lines in hand do not pass.
LinesSound ==
  /\ \A k \in DOMAIN file : Line(file[k]) \notin again =>
       /\ seen[Line(file[k])] > 0 => k <= memory.offset /\ memory.offset <= Len(file)
       /\ seen[Line(file[k])] > 0 /\ Reading => k <= collector.pos
       /\ Reading => k <= memory.offset /\ memory.offset <= Len(file)
  /\ collector.pc = "lines" =>
       /\ \A i \in DOMAIN collector.queue : \E l \in 1..MaxLines : collector.queue[i] = Line(l)
       /\ \A k \in DOMAIN file, i \in DOMAIN collector.queue :
            collector.queue[i] = Line(file[k]) => k <= collector.pos

RoundInv == RoundTyped /\ FileSound /\ QueueSound /\ RunsSound /\ LinesSound /\ CountedOnce

IInv == EventInv /\ RoundInv

-------------------------------------------------------------------------------
(* The event, its calls and the people.                                    *)

\* Nothing has occurred, nobody calls.
LEMMA InitEvent == Init => EventInv
BY BoundAssumption DEF Init, EventInv, RowTyped, CallsSound, ResolvedMeansQuiet, NoCall

\* Steps that leave the row and the calls alone.
LEMMA EventUntouched ==
  ASSUME EventInv, UNCHANGED eventVars
  PROVE  EventInv'
BY DEF EventInv, RowTyped, CallsSound, ResolvedMeansQuiet, eventVars

\* A call reads the row as it is.
LEMMA LookupKeepsEvent ==
  ASSUME EventInv, NEW c \in Callers, Lookup(c)
  PROVE  EventInv'
<1>1. RowTyped'
  BY DEF EventInv, RowTyped, Lookup
<1>2. CallsSound' /\ ResolvedMeansQuiet'
  BY DEF EventInv, RowTyped, CallsSound, ResolvedMeansQuiet, Lookup
<1> QED BY <1>1, <1>2 DEF EventInv

\* A call that has ended, in any way.
LEMMA EndedKeepsEvent ==
  ASSUME EventInv, NEW c \in Callers, call' = Ended(c), UNCHANGED <<event, acts, recurred>>
  PROVE  EventInv'
<1>1. RowTyped'
  BY DEF EventInv, RowTyped, Ended, NoCall
<1>2. CallsSound' /\ ResolvedMeansQuiet'
  BY DEF EventInv, RowTyped, CallsSound, ResolvedMeansQuiet, Ended, NoCall
<1> QED BY <1>1, <1>2 DEF EventInv

\* A call writes by what it read: unless it is stale, it leaves the row of a
\* person at work alone and reopens what was closed.
LEMMA WriteKeepsEvent ==
  ASSUME EventInv, NEW c \in Callers, Write(c)
  PROVE  EventInv'
<1>1. CASE Conflicts(c)
  BY <1>1, EndedKeepsEvent DEF Write
<1>2. CASE ~Conflicts(c)
  <2> DEFINE noise == [pc |-> "noise", read |-> event'.status, stale |-> FALSE]
  <2>0. /\ call[c].pc = "found" /\ event' = Written(c)
        /\ recurred' = (recurred \/ ~call[c].stale) /\ acts' = acts
    BY <1>2 DEF Write
  <2>a. event' \in [status : {"none", "open", "processing"} \cup Closed, owned : BOOLEAN]
    BY <2>0 DEF Written, Reopened, EventInv, RowTyped
  <2>b. \/ event'.status = "open" /\ call' = [call EXCEPT ![c] = noise]
        \/ call' = Ended(c)
    BY <1>2 DEF Write, NoiseMatters
  <2>1. /\ \A d \in Callers \ {c} : call'[d] = call[d]
        /\ call'[c] \in [pc : {"idle", "noise", "over"}, stale : {FALSE},
                         read : {"none", "open", "processing"} \cup Closed]
        /\ call'[c].pc = "noise" => event'.status = "open"
        /\ DOMAIN call' = Callers /\ call' = [d \in Callers |-> call'[d]]
    <3>1. CASE event'.status = "open" /\ call' = [call EXCEPT ![c] = noise]
      BY <3>1 DEF EventInv, RowTyped
    <3>2. CASE call' = Ended(c)
      BY <3>2 DEF EventInv, RowTyped, Ended, NoCall
    <3> QED BY <2>b, <3>1, <3>2
  <2> HIDE DEF noise
  <2>2. \/ event' = event
        \/ event'.status = "open"
    BY <2>0 DEF Written, Reopened
  <2>3. RowTyped'
    <3>1. \A d \in Callers :
            call'[d] \in [pc : {"idle", "found", "noise", "over"}, stale : BOOLEAN,
                          read : {"none", "open", "processing"} \cup Closed]
      BY <2>1 DEF EventInv, RowTyped
    <3> QED BY <2>0, <2>a, <2>1, <3>1 DEF EventInv, RowTyped
  <2>4. CallsSound'
    BY <2>1, <2>2 DEF EventInv, RowTyped, CallsSound
  <2>5. ResolvedMeansQuiet'
    BY <2>0, <2>2 DEF EventInv, RowTyped, CallsSound, ResolvedMeansQuiet, Written, Reopens,
                      Reopened, Closed
  <2> QED BY <2>3, <2>4, <2>5 DEF EventInv
<1> QED BY <1>1, <1>2

\* The rules of noise, by a call that is not stale, do not meet a row at work.
LEMMA ArchiveKeepsEvent ==
  ASSUME EventInv, NEW c \in Callers, Archive(c)
  PROVE  EventInv'
<1>1. RowTyped'
  <2>1. event' \in [status : {"none", "open", "processing"} \cup Closed, owned : BOOLEAN]
    <3>1. [status |-> "ignored", owned |-> FALSE]
             \in [status : {"none", "open", "processing"} \cup Closed, owned : BOOLEAN]
      BY DEF Closed
    <3> QED BY <3>1 DEF EventInv, RowTyped, Archive
  <2>2. call' = Ended(c) /\ acts' = acts
    BY DEF Archive
  <2> QED BY <2>1, <2>2 DEF EventInv, RowTyped, Ended, NoCall
<1>2. CallsSound' /\ ResolvedMeansQuiet'
  BY DEF EventInv, RowTyped, CallsSound, ResolvedMeansQuiet, Archive, Ended, NoCall
<1> QED BY <1>1, <1>2 DEF EventInv

\* People: whatever they do, the calls that have read the row become stale.
LEMMA PeopleKeepEvent ==
  ASSUME EventInv, People
  PROVE  EventInv'
<1>1. /\ event' \in [status : {"none", "open", "processing"} \cup Closed, owned : BOOLEAN]
      /\ acts' = acts + 1 /\ recurred' = FALSE
      /\ call' = [c \in Callers |-> [call[c] EXCEPT !.stale = call[c].pc \in {"found", "noise"}]]
  <2> DEFINE rows == [status : {"none", "open", "processing"} \cup Closed, owned : BOOLEAN]
  <2>1. event \in rows /\ Reopened \in rows
    BY DEF EventInv, RowTyped, Reopened
  <2>2. \A actor \in BOOLEAN : [status |-> "processing", owned |-> actor] \in rows
    OBVIOUS
  <2>3. [event EXCEPT !.status = "resolved"] \in rows
        /\ [event EXCEPT !.status = "ignored"] \in rows
    BY <2>1 DEF Closed
  <2> HIDE DEF rows
  <2>4. \A allowed : \A result \in rows : Acts(allowed, result) => event' \in rows
    BY DEF Acts
  <2>5. event' \in rows
    BY <2>1, <2>2, <2>3, <2>4 DEF People, Claim, Resolve, Ignore, Reopen
  <2>6. \E allowed, result : Acts(allowed, result)
    BY DEF People, Claim, Resolve, Ignore, Reopen
  <2> QED BY <2>5, <2>6 DEF Acts, rows
<1>2. RowTyped'
  <2>1. \A c \in Callers : call'[c] \in [pc : {"idle", "found", "noise", "over"}, stale : BOOLEAN,
                                        read : {"none", "open", "processing"} \cup Closed]
    <3> SUFFICES ASSUME NEW c \in Callers
                 PROVE  call'[c] \in [pc : {"idle", "found", "noise", "over"}, stale : BOOLEAN,
                                      read : {"none", "open", "processing"} \cup Closed]
      OBVIOUS
    <3>1. CASE call[c].pc \in {"found", "noise"}
      <4>1. call'[c] = [call[c] EXCEPT !.stale = TRUE]
        BY <1>1, <3>1
      <4> QED BY <4>1 DEF EventInv, RowTyped
    <3>2. CASE call[c].pc \notin {"found", "noise"}
      <4>1. call'[c] = [call[c] EXCEPT !.stale = FALSE]
        <5>1. (call[c].pc \in {"found", "noise"}) = FALSE
          BY <3>2
        <5>2. call'[c] = [call[c] EXCEPT !.stale = call[c].pc \in {"found", "noise"}]
          BY <1>1
        <5> QED BY <5>1, <5>2, Zenon
      <4> QED BY <4>1 DEF EventInv, RowTyped
    <3> QED BY <3>1, <3>2
  <2>2. call' = [c \in Callers |-> call'[c]]
    BY <1>1
  <2> QED BY <1>1, <2>1, <2>2 DEF EventInv, RowTyped
<1>3. CallsSound' /\ ResolvedMeansQuiet'
  BY <1>1 DEF EventInv, RowTyped, CallsSound, ResolvedMeansQuiet
<1> QED BY <1>2, <1>3 DEF EventInv

\* A crash ends the calls.
LEMMA CrashKeepsEvent ==
  ASSUME EventInv, Crash
  PROVE  EventInv'
<1>1. RowTyped'
  BY DEF EventInv, RowTyped, Crash, NoCall
<1>2. CallsSound' /\ ResolvedMeansQuiet'
  BY DEF EventInv, RowTyped, CallsSound, ResolvedMeansQuiet, Crash, NoCall
<1> QED BY <1>1, <1>2 DEF EventInv

\* Every step of the system keeps the invariant of the event.
LEMMA StepKeepsEvent == EventInv /\ [Next]_vars => EventInv'
<1> SUFFICES ASSUME EventInv, [Next]_vars PROVE EventInv'
  OBVIOUS
<1>1. CASE \E c \in Callers : Upserts(c)
  BY <1>1, LookupKeepsEvent, WriteKeepsEvent, ArchiveKeepsEvent DEF Upserts
<1>2. CASE \E c \in Callers : UpsertFails(c)
  BY <1>2, EndedKeepsEvent DEF UpsertFails
<1>3. CASE People
  BY <1>3, PeopleKeepEvent
<1>4. CASE Crash
  BY <1>4, CrashKeepsEvent
<1>5. CASE \/ Scan \/ CollectRun \/ SaveMark \/ TailOne \/ ReadBatch \/ BatchDone
           \/ Sources \/ ScanFails \/ TailFails \/ ScanBreaks \/ UNCHANGED vars
  <2>1. UNCHANGED eventVars
    BY <1>5 DEF Scan, CollectRun, SaveMark, TailOne, ReadBatch, BatchDone, Sources, Ends,
                Recorded, LineWritten, Truncate, ScanFails, TailFails, ScanBreaks, vars, eventVars
  <2> QED BY <2>1, EventUntouched
<1> QED BY <1>1, <1>2, <1>3, <1>4, <1>5 DEF Next, Round, Failures, Callers

\* In every state, a call that is not stale knows of the conclusion that stands.
THEOREM EventInductive == Spec => []EventInv
BY InitEvent, StepKeepsEvent, PTL DEF Spec

\* An occurrence looked up after a conclusion reopens the event, whoever calls
\* and however the statements of several calls interleave.
THEOREM ResolvedStaysQuiet == Spec => []ResolvedMeansQuiet
BY EventInductive, PTL DEF EventInv

\* The row of a person at work is changed by nobody else, but for a call that
\* had read the row before the person acted.
THEOREM PeopleAreLeftAlone == Spec => OnlyStaleCallsInterfere
<1>1. EventInv /\ [Next]_vars =>
        [event.status = "processing" /\ event' # event /\ acts' = acts
           => \E c \in Callers : call[c].stale /\ call'[c] # call[c]]_vars
  <2> SUFFICES ASSUME EventInv, Next, event.status = "processing", event' # event, acts' = acts
               PROVE  \E c \in Callers : call[c].stale /\ call'[c] # call[c]
    OBVIOUS
  <2>1. ASSUME People PROVE FALSE
    BY <2>1 DEF People, Claim, Resolve, Ignore, Reopen, Acts, EventInv, RowTyped
  <2>2. ASSUME NEW c \in Callers, Write(c)
        PROVE  call[c].stale /\ call'[c] # call[c]
    <3>1. /\ call[c].pc = "found" /\ ~Conflicts(c)
          /\ call[c].read = "none" \/ Reopens(call[c].read)
      BY <2>2 DEF Write, Written
    <3>2. call[c].stale
      BY <3>1 DEF EventInv, CallsSound, Conflicts, Reopens, Closed
    <3>3. call'[c] # call[c]
      BY <2>2, <3>1 DEF Write, Ended, NoCall, EventInv, RowTyped
    <3> QED BY <3>2, <3>3
  <2>3. ASSUME NEW c \in Callers, Archive(c)
        PROVE  call[c].stale /\ call'[c] # call[c]
    BY <2>3 DEF Archive, Ended, NoCall, EventInv, RowTyped, CallsSound
  <2>4. CASE \E c \in Callers : Lookup(c) \/ UpsertFails(c)
    BY <2>4 DEF Lookup, UpsertFails
  <2>5. CASE \/ Scan \/ CollectRun \/ SaveMark \/ TailOne \/ ReadBatch \/ BatchDone
             \/ Sources \/ ScanFails \/ TailFails \/ ScanBreaks \/ Crash
    BY <2>5 DEF Scan, CollectRun, SaveMark, TailOne, ReadBatch, BatchDone, Sources, Ends,
                Recorded, LineWritten, Truncate, ScanFails, TailFails, ScanBreaks, Crash,
                eventVars
  <2> QED BY <2>1, <2>2, <2>3, <2>4, <2>5 DEF Next, Round, Failures, Upserts, Callers
<1> QED BY <1>1, EventInductive, PTL DEF Spec, OnlyStaleCallsInterfere

-------------------------------------------------------------------------------
(* Items, queues, the least and the greatest.                              *)

\* A run is not a line, and each has one name.
LEMMA ItemNames ==
  /\ \A r, l : Run(r) # Line(l)
  /\ \A r, q : Run(r) = Run(q) => r = q
  /\ \A k, l : Line(k) = Line(l) => k = l
  /\ \A r \in Runs : Run(r) \in Items
  /\ \A l \in 1..MaxLines : Line(l) \in Items
BY DEF Run, Line, Items

\* A queue without its first item.
LEMMA TailFacts ==
  ASSUME NEW S, NEW q \in Seq(S), q # <<>>
  PROVE  /\ Tail(q) \in Seq(S) /\ Head(q) = q[1] /\ 1 \in DOMAIN q
         /\ \A i \in DOMAIN Tail(q) : i + 1 \in DOMAIN q /\ i + 1 # 1 /\ Tail(q)[i] = q[i + 1]
OBVIOUS

\* The elements of a sequence.
LEMMA SeqFacts ==
  ASSUME NEW S, NEW q \in Seq(S)
  PROVE  /\ Len(q) \in Nat /\ DOMAIN q = 1..Len(q)
         /\ \A i \in DOMAIN q : q[i] \in S
OBVIOUS

\* A piece of a sequence that is not empty.
LEMMA PieceFacts ==
  ASSUME NEW S, NEW q \in Seq(S), NEW m \in Nat, NEW n \in Nat, n <= Len(q),
         SubSeq(q, m + 1, n) # <<>>
  PROVE  /\ m + 1 <= n
         /\ DOMAIN SubSeq(q, m + 1, n) = 1..(n - m)
         /\ \A i \in 1..(n - m) : SubSeq(q, m + 1, n)[i] = q[m + i] /\ m + i \in DOMAIN q
<1>1. m + 1 <= n
  BY SubSeqProperties
<1>2. Len(q) \in Nat /\ DOMAIN q = 1..Len(q)
  BY SeqFacts
<1> QED BY <1>1, <1>2, SubSeqProperties

\* The least of two numbers.
LEMMA LesserOfTwo ==
  ASSUME NEW a \in Int, NEW b \in Int
  PROVE  Min({a, b}) \in {a, b} /\ Min({a, b}) <= a /\ Min({a, b}) <= b
<1>1. \E x \in {a, b} : \A y \in {a, b} : x =< y
  BY a <= b \/ b <= a
<1> QED BY <1>1 DEF Min

\* The latest of some runs, by way of the least of their upper bounds.
LEMMA LatestRun ==
  ASSUME NEW S, S \subseteq Runs, S # {}
  PROVE  Max(S) \in S /\ \A r \in S : r <= Max(S)
<1> DEFINE bounds == {n \in Nat : \A r \in S : r <= n}
<1>1. S \subseteq Nat \ {0} /\ MaxRuns \in bounds
  BY BoundAssumption DEF Runs
<1>2. PICK n \in bounds : \A m \in bounds : ~ (<<m, n>> \in OpToRel(<, Nat))
  BY <1>1, WFMin, NatLessThanWellFounded
<1>3. \A m \in bounds : ~ (m < n)
  BY <1>2 DEF OpToRel
<1>4. n \in S
  <2> SUFFICES ASSUME n \notin S PROVE FALSE
    OBVIOUS
  <2>1. n \in Nat /\ \A r \in S : r <= n /\ r \in Nat \ {0}
    BY <1>1, <1>2
  <2>2. \A r \in S : r < n /\ r # 0
    BY <2>1
  <2>3. n - 1 \in Nat /\ \A r \in S : r <= n - 1
    BY <2>1, <2>2
  <2>4. n - 1 \in bounds
    BY <2>3
  <2> HIDE DEF bounds
  <2> QED BY <1>3, <2>1, <2>4
<1>5. \E x \in S : \A y \in S : x >= y
  BY <1>1, <1>2, <1>4
<1> QED BY <1>1, <1>5 DEF Max

\* The rows of a scan: each of the runs once.
LEMMA ScannedRows ==
  ASSUME NEW S, S \subseteq Runs, NEW rows \in SetToSeqs({Run(r) : r \in S})
  PROVE  /\ rows \in Seq(Items)
         /\ \A i, j \in DOMAIN rows : rows[i] = rows[j] => i = j
         /\ \A i \in DOMAIN rows : \E r \in S : rows[i] = Run(r)
<1> DEFINE T == {Run(r) : r \in S}
<1>1. IsFiniteSet(S)
  <2>1. MaxRuns \in Int
    BY BoundAssumption
  <2>2. IsFiniteSet(1..MaxRuns)
    BY <2>1, FS_Interval
  <2> QED BY <2>2, FS_Subset DEF Runs
<1>2. IsFiniteSet(T)
  <2>1. [r \in S |-> Run(r)] \in Surjection(S, T)
    BY DEF Surjection
  <2> QED BY <1>1, <2>1, FS_Surjection
<1>3. Cardinality(T) \in Nat
  BY <1>2, FS_CardinalityType
<1>4. T \subseteq Items
  BY ItemNames
<1>5. rows \in [1..Cardinality(T) -> T]
      /\ \A i, j \in 1..Cardinality(T) : i # j => rows[i] # rows[j]
  BY DEF SetToSeqs
<1>6. rows \in Seq(Items)
  BY <1>3, <1>4, <1>5
<1>7. DOMAIN rows = 1..Cardinality(T) /\ \A i \in DOMAIN rows : rows[i] \in T
  BY <1>5
<1> QED BY <1>5, <1>6, <1>7

-------------------------------------------------------------------------------
(* The rounds.                                                             *)

\* The first round has not begun.
LEMMA InitRound == Init => RoundInv
<1> SUFFICES ASSUME Init PROVE RoundInv
  OBVIOUS
<1> USE BoundAssumption DEF Init, Start, AtRest, NoCall
<1>1. RoundTyped
  BY DEF RoundTyped
<1>2. FileSound
  BY ItemNames DEF FileSound
<1>3. QueueSound
  BY DEF QueueSound, Callers
<1>4. RunsSound
  BY ItemNames DEF RunsSound
<1>5. LinesSound
  BY DEF LinesSound
<1>6. CountedOnce
  BY DEF CountedOnce
<1> QED BY <1>1, <1>2, <1>3, <1>4, <1>5, <1>6 DEF RoundInv

\* Steps that leave the round, the log and the history alone.
LEMMA RoundUntouched ==
  ASSUME RoundInv, UNCHANGED <<file, written, memory, disk, collector, seen, again>>,
         call'["collector"].pc = "found" =>
           collector.pc = "lines" /\ collector.queue # <<>>
  PROVE  RoundInv'
BY DEF RoundInv, RoundTyped, FileSound, QueueSound, RunsSound, LinesSound, CountedOnce, Reading

\* A new line was never counted; written while the log is read, it may be twice.
LEMMA LineWrittenKeepsRound ==
  ASSUME RoundInv, LineWritten
  PROVE  RoundInv'
<1> USE DEF LineWritten
<1>1. /\ written + 1 \in 1..MaxLines /\ written' = written + 1 /\ Len(file) \in Nat
      /\ file' \in Seq(1..MaxLines) /\ Len(file') = Len(file) + 1
      /\ DOMAIN file = 1..Len(file) /\ DOMAIN file' = 1..(Len(file) + 1)
      /\ \A k \in DOMAIN file : file'[k] = file[k]
      /\ file'[Len(file) + 1] = written + 1
  <2>1. MaxLines \in Nat /\ written \in 0..MaxLines /\ file \in Seq(1..MaxLines)
    BY BoundAssumption DEF RoundInv, RoundTyped
  <2>2. written + 1 \in 1..MaxLines /\ file' = Append(file, written + 1)
    BY <2>1
  <2> QED BY <2>1, <2>2
<1>2. again' = IF Reading THEN again \cup {Line(written + 1)} ELSE again
  OBVIOUS
<1>3. /\ seen[Line(written + 1)] = 0
      /\ \A i \in DOMAIN collector.queue : collector.queue[i] # Line(written + 1)
  <2>1. written \in Int /\ ~ (written + 1 <= written)
    BY DEF RoundInv, RoundTyped
  <2>2. Line(written + 1) \in Items
    BY <1>1, ItemNames
  <2>3. seen[Line(written + 1)] \in 0..2
    BY <2>2 DEF RoundInv, RoundTyped
  <2> QED BY <1>1, <2>1, <2>3 DEF RoundInv, FileSound
<1>4. UNCHANGED <<call, memory, disk, collector, seen>>
  BY DEF eventVars
<1>5. RoundTyped'
  BY <1>1, <1>2, <1>4, ItemNames DEF RoundInv, RoundTyped
<1>6. FileSound'
  <2>1. written \in Nat /\ \A k \in DOMAIN file : file[k] \in Nat /\ file[k] <= written
    <3>1. file \in Seq(1..MaxLines) /\ written \in Nat
      BY DEF RoundInv, RoundTyped
    <3>2. \A k \in DOMAIN file : file[k] \in 1..MaxLines
      BY <3>1, SeqFacts
    <3>3. \A k \in DOMAIN file : file[k] \in Nat
      BY <3>2
    <3> QED BY <3>1, <3>3 DEF RoundInv, FileSound
  <2>2. \A j, k \in DOMAIN file' : j < k => file'[j] < file'[k]
    BY <1>1, <2>1 DEF RoundInv, FileSound
  <2>3. \A k \in DOMAIN file' : file'[k] <= written'
    BY <1>1, <2>1
  <2> QED BY <1>1, <1>4, <2>1, <2>2, <2>3 DEF RoundInv, FileSound
<1>7. QueueSound' /\ RunsSound' /\ CountedOnce'
  BY <1>2, <1>4 DEF RoundInv, QueueSound, RunsSound, CountedOnce
<1>8. LinesSound'
  BY <1>1, <1>2, <1>3, <1>4 DEF RoundInv, RoundTyped, LinesSound, Reading
<1> QED BY <1>5, <1>6, <1>7, <1>8 DEF RoundInv

\* An empty log has no line that could be read again.
LEMMA TruncateKeepsRound ==
  ASSUME RoundInv, Truncate
  PROVE  RoundInv'
<1>1. /\ file' = <<>>
      /\ UNCHANGED <<call, written, memory, disk, collector, seen, again>>
  BY DEF Truncate, eventVars
<1>2. RoundTyped' /\ FileSound' /\ LinesSound'
  BY <1>1 DEF RoundInv, RoundTyped, FileSound, LinesSound
<1>3. QueueSound' /\ RunsSound' /\ CountedOnce'
  BY <1>1 DEF RoundInv, QueueSound, RunsSound, CountedOnce
<1> QED BY <1>2, <1>3 DEF RoundInv

\* The first item of the queue is counted, or given up.
LEMMA ItemTakenKeepsRound ==
  ASSUME RoundInv, collector.pc \in {"runs", "lines"}, collector.queue # <<>>,
         collector' = [collector EXCEPT !.queue = Tail(@)],
         \/ seen' = seen
         \/ seen' = [seen EXCEPT ![Head(collector.queue)] = Min({2, @ + 1})],
         UNCHANGED <<file, written, memory, disk, again>>,
         call'["collector"].pc # "found"
  PROVE  RoundInv'
<1> DEFINE q == collector.queue
           h == Head(collector.queue)
<1>1. /\ q \in Seq(Items) /\ h = q[1] /\ 1 \in DOMAIN q /\ h \in Items /\ Tail(q) \in Seq(Items)
      /\ \A i \in DOMAIN Tail(q) : i + 1 \in DOMAIN q /\ i + 1 # 1 /\ Tail(q)[i] = q[i + 1]
  BY TailFacts DEF RoundInv, RoundTyped
<1>2. /\ collector'.pc = collector.pc /\ collector'.queue = Tail(q)
      /\ collector'.high = collector.high /\ collector'.pos = collector.pos
      /\ collector' \in [pc : {"idle", "runs", "tail", "read", "lines"}, queue : Seq(Items),
                         high : 0..MaxRuns, pos : Nat, full : BOOLEAN]
  BY <1>1 DEF RoundInv, RoundTyped
<1>3. seen[h] = 0 \/ h \in again
  BY <1>1 DEF RoundInv, QueueSound
<1>4. /\ seen' \in [Items -> 0..2]
      /\ \A i \in Items \ {h} : seen'[i] = seen[i]
      /\ seen'[h] <= seen[h] + 1
  <2>1. seen \in [Items -> 0..2] /\ seen[h] \in 0..2
    BY <1>1 DEF RoundInv, RoundTyped
  <2>2. seen[h] + 1 \in Int /\ 2 \in Int
    BY <2>1
  <2>3. Min({2, seen[h] + 1}) \in {2, seen[h] + 1} /\ Min({2, seen[h] + 1}) <= 2
        /\ Min({2, seen[h] + 1}) <= seen[h] + 1
    BY <2>2, LesserOfTwo
  <2>4. Min({2, seen[h] + 1}) \in 0..2
    BY <2>1, <2>3
  <2>5. CASE seen' = seen
    BY <2>1, <2>5
  <2>6. CASE seen' = [seen EXCEPT ![h] = Min({2, seen[h] + 1})]
    BY <1>1, <2>1, <2>3, <2>4, <2>6
  <2> QED BY <2>5, <2>6
<1>5. \A i \in DOMAIN Tail(q) : Tail(q)[i] # h
  BY <1>1 DEF RoundInv, QueueSound
<1> HIDE DEF q, h
<1>6. RoundTyped'
  BY <1>2, <1>4 DEF RoundInv, RoundTyped
<1>7. FileSound'
  BY <1>1, <1>2, <1>4, ItemNames DEF RoundInv, RoundTyped, FileSound, q
<1>8. QueueSound'
  <2>1. \A i, j \in DOMAIN Tail(q) : Tail(q)[i] = Tail(q)[j] => i = j
    <3> SUFFICES ASSUME NEW i \in DOMAIN Tail(q), NEW j \in DOMAIN Tail(q),
                        Tail(q)[i] = Tail(q)[j]
                 PROVE  i = j
      OBVIOUS
    <3>1. i + 1 = j + 1
      BY <1>1 DEF RoundInv, QueueSound, q
    <3> QED BY <1>1, <3>1
  <2>2. \A i \in DOMAIN Tail(q) : seen'[Tail(q)[i]] = 0 \/ Tail(q)[i] \in again
    <3> SUFFICES ASSUME NEW i \in DOMAIN Tail(q)
                 PROVE  seen'[Tail(q)[i]] = 0 \/ Tail(q)[i] \in again
      OBVIOUS
    <3>1. Tail(q)[i] \in Items \ {h} /\ Tail(q)[i] = q[i + 1] /\ i + 1 \in DOMAIN q
      BY <1>1, <1>5
    <3> QED BY <1>4, <3>1 DEF RoundInv, QueueSound, q
  <2>3. collector'.queue = Tail(q) /\ collector'.pc \in {"runs", "lines"} /\ again' = again
    BY <1>2
  <2> DEFINE rest == Tail(q)
  <2> HIDE DEF q, rest
  <2>4. (\A i, j \in DOMAIN collector.queue : collector.queue[i] = collector.queue[j] => i = j)'
    BY <2>1, <2>3, Zenon DEF rest
  <2>5. (\A i \in DOMAIN collector.queue :
           seen[collector.queue[i]] = 0 \/ collector.queue[i] \in again)'
    BY <2>2, <2>3, Zenon DEF rest
  <2> QED BY <2>3, <2>4, <2>5, Zenon DEF QueueSound
<1>9. RunsSound'
  <2>1. \A r \in Runs : Run(r) = h => collector.pc = "runs" /\ r <= collector.high
    BY <1>1, ItemNames DEF RoundInv, RunsSound, LinesSound, q
  <2>2. \A r \in Runs : Run(r) # h => seen'[Run(r)] = seen[Run(r)]
    BY <1>4, ItemNames
  <2> QED BY <1>1, <1>2, <1>5, <2>1, <2>2 DEF RoundInv, RunsSound, q
<1>10. LinesSound'
  <2>1. \A k \in DOMAIN file : Line(file[k]) \in Items
    <3>1. \A k \in DOMAIN file : file[k] \in 1..MaxLines
      <4>1. file \in Seq(1..MaxLines)
        BY DEF RoundInv, RoundTyped
      <4> QED BY <4>1, SeqFacts
    <3> QED BY <3>1, ItemNames
  <2>2. \A k \in DOMAIN file : Line(file[k]) = h => collector.pc = "lines" /\ k <= collector.pos
    BY <1>1, ItemNames DEF RoundInv, RunsSound, LinesSound, q
  <2>3. \A k \in DOMAIN file : Line(file[k]) # h => seen'[Line(file[k])] = seen[Line(file[k])]
    BY <1>4, <2>1
  <2> QED BY <1>1, <1>2, <2>2, <2>3 DEF RoundInv, LinesSound, Reading, q
<1>11. CountedOnce'
  <2>1. h \in Items /\ seen[h] \in 0..2 /\ seen'[h] \in 0..2 /\ seen'[h] <= seen[h] + 1
    BY <1>1, <1>4 DEF RoundInv, RoundTyped
  <2>2. seen'[h] > 1 => h \in again
    BY <1>3, <2>1
  <2> QED BY <1>4, <2>2 DEF RoundInv, CountedOnce
<1> QED BY <1>6, <1>7, <1>8, <1>9, <1>10, <1>11 DEF RoundInv

\* A failed run is counted or passed over.
LEMMA CollectRunKeepsRound ==
  ASSUME RoundInv, CollectRun
  PROVE  RoundInv'
<1>1. call["collector"].pc # "found" /\ call' = call
  BY DEF RoundInv, QueueSound, CollectRun, eventVars
<1> QED BY <1>1, ItemTakenKeepsRound DEF CollectRun, sourceVars

\* What the collector has at rest.
LEMMA Resting ==
  ASSUME NEW p \in {"idle", "tail", "read"}, NEW n \in Nat
  PROVE  /\ [AtRest EXCEPT !.pc = p].pc = p /\ [AtRest EXCEPT !.pc = p].queue = <<>>
         /\ [AtRest EXCEPT !.pc = p, !.pos = n].pc = p
         /\ [AtRest EXCEPT !.pc = p, !.pos = n].queue = <<>>
         /\ [AtRest EXCEPT !.pc = p, !.pos = n].pos = n
         /\ AtRest = [AtRest EXCEPT !.pc = "idle"] /\ AtRest.pc = "idle"
         /\ {[AtRest EXCEPT !.pc = p], [AtRest EXCEPT !.pc = p, !.pos = n]} \subseteq
              [pc : {"idle", "runs", "tail", "read", "lines"}, queue : Seq(Items),
               high : 0..MaxRuns, pos : Nat, full : BOOLEAN]
<1>1. <<>> \in Seq(Items) /\ 0 \in 0..MaxRuns
  BY BoundAssumption
<1>2. AtRest \in [pc : {"idle", "runs", "tail", "read", "lines"}, queue : Seq(Items),
                  high : 0..MaxRuns, pos : Nat, full : BOOLEAN]
      /\ AtRest.queue = <<>> /\ AtRest.pc = "idle"
  BY <1>1 DEF AtRest
<1>3. AtRest = [AtRest EXCEPT !.pc = "idle"]
  BY <1>2
<1> QED BY <1>2, <1>3

\* A round that begins, or that has nothing more to do with the runs.
EmptyStates == {AtRest, [AtRest EXCEPT !.pc = "tail"]}

\* The collector begins with nothing in hand, or is done with what it had.
LEMMA OnlyEmptyHanded ==
  ASSUME RoundInv, collector.queue = <<>>, collector.pc # "runs",
         UNCHANGED <<call, file, written, memory, disk, seen, again>>,
         call["collector"].pc # "found",
         collector' \in EmptyStates
  PROVE  RoundInv'
<1>1. collector' \in [pc : {"idle", "runs", "tail", "read", "lines"}, queue : Seq(Items),
                      high : 0..MaxRuns, pos : Nat, full : BOOLEAN]
      /\ collector'.pc \in {"idle", "tail"} /\ collector'.queue = <<>>
  <2>1. CASE collector' = AtRest
    BY <2>1, Resting, 0 \in Nat
  <2>2. CASE collector' = [AtRest EXCEPT !.pc = "tail"]
    BY <2>2, Resting, 0 \in Nat
  <2> QED BY <2>1, <2>2 DEF EmptyStates
<1>2. RoundTyped'
  BY <1>1 DEF RoundInv, RoundTyped
<1>3. FileSound' /\ QueueSound' /\ CountedOnce'
  BY <1>1 DEF RoundInv, FileSound, QueueSound, CountedOnce
<1>4. RunsSound' /\ LinesSound'
  BY <1>1 DEF RoundInv, RunsSound, LinesSound, Reading
<1> QED BY <1>2, <1>3, <1>4 DEF RoundInv

\* A scan takes the runs behind the watermark, none of which was counted.
LEMMA ScanKeepsRound ==
  ASSUME RoundInv, Scan
  PROVE  RoundInv'
<1>1. /\ collector.pc = "idle" /\ collector.queue = <<>> /\ call["collector"].pc # "found"
      /\ UNCHANGED <<call, file, written, memory, disk, seen, again>>
  BY DEF Scan, eventVars, sourceVars, RoundInv, QueueSound
<1>2. CASE Fresh(memory.mark) = {}
  <2>1. collector' = [AtRest EXCEPT !.pc = "tail"]
    BY <1>2 DEF Scan
  <2>2. collector' \in EmptyStates
    BY <2>1 DEF EmptyStates
  <2> QED BY <1>1, <2>1, <2>2, OnlyEmptyHanded
<1>3. CASE Fresh(memory.mark) # {}
  <2> DEFINE fresh == Fresh(memory.mark)
  <2>1. fresh \subseteq Runs /\ fresh # {} /\ \A r \in fresh : memory.mark < r
    BY <1>3 DEF Fresh, RoundInv, RoundTyped, Runs
  <2>2. PICK rows \in SetToSeqs({Run(r) : r \in fresh}) :
          collector' = [AtRest EXCEPT !.pc = "runs", !.high = Max(fresh), !.queue = rows]
    BY <1>3 DEF Scan
  <2> HIDE DEF fresh
  <2>3. /\ rows \in Seq(Items)
        /\ \A i, j \in DOMAIN rows : rows[i] = rows[j] => i = j
        /\ \A i \in DOMAIN rows : \E r \in fresh : rows[i] = Run(r)
    BY <2>1, ScannedRows
  <2>4. Max(fresh) \in Runs /\ memory.mark < Max(fresh) /\ \A r \in fresh : r <= Max(fresh)
    BY <2>1, LatestRun
  <2>5. /\ collector'.pc = "runs" /\ collector'.queue = rows /\ collector'.high = Max(fresh)
        /\ collector' \in [pc : {"idle", "runs", "tail", "read", "lines"}, queue : Seq(Items),
                           high : 0..MaxRuns, pos : Nat, full : BOOLEAN]
    <3>1. collector' = [pc |-> "runs", queue |-> rows, high |-> Max(fresh), pos |-> 0,
                        full |-> FALSE]
      BY <2>2 DEF AtRest
    <3> QED BY <2>3, <2>4, <3>1 DEF Runs
  <2>6. RoundTyped'
    BY <1>1, <2>5 DEF RoundInv, RoundTyped
  <2>7. FileSound'
    BY <1>1, <2>3, <2>5, ItemNames DEF RoundInv, FileSound
  <2>8. \A r \in fresh : seen[Run(r)] = 0 \/ Run(r) \in again
    BY <1>1, <2>1 DEF RoundInv, RoundTyped, RunsSound, Runs
  <2>9. QueueSound'
    BY <1>1, <2>3, <2>5, <2>8 DEF RoundInv, QueueSound
  <2>10. RunsSound'
    BY <1>1, <2>1, <2>3, <2>4, <2>5 DEF RoundInv, RoundTyped, RunsSound, Runs
  <2>11. LinesSound'
    BY <1>1, <2>5 DEF RoundInv, LinesSound, Reading
  <2>12. CountedOnce'
    BY <1>1 DEF RoundInv, CountedOnce
  <2> QED BY <2>6, <2>7, <2>9, <2>10, <2>11, <2>12 DEF RoundInv
<1> QED BY <1>2, <1>3

\* A scan that fails leaves the watermark where it is.
LEMMA ScanFailsKeepsRound ==
  ASSUME RoundInv, ScanFails
  PROVE  RoundInv'
<1>1. /\ collector.pc = "idle" /\ collector.queue = <<>> /\ call["collector"].pc # "found"
      /\ collector' = [AtRest EXCEPT !.pc = "tail"]
      /\ UNCHANGED <<call, file, written, memory, disk, seen, again>>
  BY DEF ScanFails, eventVars, sourceVars, RoundInv, QueueSound
<1>2. collector' \in EmptyStates
  BY <1>1 DEF EmptyStates
<1> QED BY <1>1, <1>2, OnlyEmptyHanded

LEMMA TailFailsKeepsRound ==
  ASSUME RoundInv, TailFails
  PROVE  RoundInv'
<1>1. /\ collector.pc = "tail" /\ collector.queue = <<>> /\ call["collector"].pc # "found"
      /\ collector' = AtRest
      /\ UNCHANGED <<call, file, written, memory, disk, seen, again>>
  BY DEF TailFails, eventVars, sourceVars, RoundInv, QueueSound
<1>2. collector' \in EmptyStates
  BY <1>1 DEF EmptyStates
<1> QED BY <1>1, <1>2, OnlyEmptyHanded

\* The watermark passes the runs of the round, all of which are done.
LEMMA SaveMarkKeepsRound ==
  ASSUME RoundInv, SaveMark
  PROVE  RoundInv'
<1>1. /\ collector.pc = "runs" /\ collector.queue = <<>> /\ call["collector"].pc # "found"
      /\ collector' = [AtRest EXCEPT !.pc = "tail"]
      /\ UNCHANGED <<call, file, written, seen, again>>
      /\ memory' = [memory EXCEPT !.mark = collector.high]
      /\ disk' = disk \/ disk' = memory'
  BY DEF SaveMark, Persist, eventVars, sourceVars, RoundInv, QueueSound
<1>2. /\ memory' \in [mark : 0..MaxRuns, offset : Nat]
      /\ memory'.offset = memory.offset /\ memory'.mark = collector.high
  BY <1>1 DEF RoundInv, RoundTyped
<1>3. disk' \in [mark : 0..MaxRuns, offset : Nat]
  BY <1>1, <1>2 DEF RoundInv, RoundTyped
<1>4. collector' \in [pc : {"idle", "runs", "tail", "read", "lines"}, queue : Seq(Items),
                      high : 0..MaxRuns, pos : Nat, full : BOOLEAN]
      /\ collector'.pc = "tail" /\ collector'.queue = <<>>
  BY <1>1, Resting, 0 \in Nat
<1>5. RoundTyped'
  BY <1>1, <1>2, <1>3, <1>4 DEF RoundInv, RoundTyped
<1>6. FileSound' /\ QueueSound' /\ CountedOnce'
  BY <1>1, <1>4 DEF RoundInv, FileSound, QueueSound, CountedOnce
<1>7. RunsSound'
  BY <1>1, <1>2, <1>4 DEF RoundInv, RoundTyped, RunsSound, Runs
<1>8. LinesSound'
  BY <1>1, <1>2, <1>4 DEF RoundInv, LinesSound, Reading
<1> QED BY <1>5, <1>6, <1>7, <1>8 DEF RoundInv

\* The cursor moves to the end of the log, and the reading begins behind every
\* line that was counted.
LEMMA TailOneKeepsRound ==
  ASSUME RoundInv, TailOne
  PROVE  RoundInv'
<1> DEFINE size == Len(file)
           start == ResolveOffset(memory.offset, size)
<1>1. /\ collector.pc = "tail" /\ collector.queue = <<>> /\ call["collector"].pc # "found"
      /\ UNCHANGED <<call, file, written, seen, again>>
  BY DEF TailOne, eventVars, sourceVars, RoundInv, QueueSound
<1>2. size \in Nat /\ DOMAIN file = 1..size /\ start \in Nat /\ memory.offset \in Nat
  <2>1. file \in Seq(1..MaxLines) /\ memory.offset \in Nat /\ Window \in Nat
    BY BoundAssumption DEF RoundInv, RoundTyped
  <2>2. size \in Nat /\ DOMAIN file = 1..size
    BY <2>1, SeqFacts
  <2> QED BY <2>1, <2>2 DEF ResolveOffset, WindowStart
<1>3. \A k \in DOMAIN file : Line(file[k]) \notin again /\ seen[Line(file[k])] > 0 => k <= start
  BY <1>2 DEF RoundInv, LinesSound, ResolveOffset
<1>4. CASE start >= size
  <2>1. collector' = AtRest /\ UNCHANGED <<memory, disk>>
    BY <1>4 DEF TailOne
  <2>2. collector' \in EmptyStates
    BY <2>1 DEF EmptyStates
  <2> QED BY <1>1, <2>1, <2>2, OnlyEmptyHanded
<1>5. CASE start < size
  <2>1. /\ collector' = [AtRest EXCEPT !.pc = "read", !.pos = start]
        /\ memory' = [memory EXCEPT !.offset = size]
        /\ disk' = disk \/ disk' = memory'
    BY <1>2, <1>5 DEF TailOne, Persist
  <2> HIDE DEF size, start
  <2>2. /\ collector'.pc = "read" /\ collector'.queue = <<>> /\ collector'.pos = start
        /\ collector' \in [pc : {"idle", "runs", "tail", "read", "lines"}, queue : Seq(Items),
                           high : 0..MaxRuns, pos : Nat, full : BOOLEAN]
    BY <1>2, <2>1, Resting
  <2>3. /\ memory' \in [mark : 0..MaxRuns, offset : Nat]
        /\ memory'.mark = memory.mark /\ memory'.offset = size
    BY <1>2, <2>1 DEF RoundInv, RoundTyped
  <2>4. disk' \in [mark : 0..MaxRuns, offset : Nat]
    BY <2>1, <2>3 DEF RoundInv, RoundTyped
  <2>5. RoundTyped'
    BY <1>1, <2>2, <2>3, <2>4 DEF RoundInv, RoundTyped
  <2>6. FileSound' /\ QueueSound' /\ CountedOnce'
    BY <1>1, <2>2 DEF RoundInv, FileSound, QueueSound, CountedOnce
  <2>7. RunsSound'
    BY <1>1, <2>2, <2>3 DEF RoundInv, RunsSound
  <2>8. LinesSound'
    BY <1>1, <1>2, <1>3, <2>2, <2>3 DEF LinesSound, Reading, size
  <2> QED BY <2>5, <2>6, <2>7, <2>8 DEF RoundInv
<1> QED BY <1>2, <1>4, <1>5

\* A batch is taken from behind the position, so no line of it was counted.
LEMMA TakeKeepsRound ==
  ASSUME RoundInv, collector.pc = "read", NEW upto \in Nat, upto <= Len(file), Take(upto),
         UNCHANGED <<call, file, written, memory, disk, seen, again>>
  PROVE  RoundInv'
<1> DEFINE chunk == SubSeq(file, collector.pos + 1, upto)
           lines == [i \in DOMAIN chunk |-> Line(chunk[i])]
<1>1. /\ collector.pc = "read" /\ collector.queue = <<>> /\ call["collector"].pc # "found"
      /\ UNCHANGED <<call, file, written, memory, disk, seen, again>>
  BY DEF RoundInv, QueueSound
<1>2. CASE chunk = <<>>
  <2>1. collector' = AtRest
    BY <1>2 DEF Take
  <2>2. collector' \in EmptyStates
    BY <2>1 DEF EmptyStates
  <2> QED BY <1>1, <2>1, <2>2, OnlyEmptyHanded
<1>3. CASE chunk # <<>>
  <2>1. /\ file \in Seq(1..MaxLines) /\ Len(file) \in Nat /\ DOMAIN file = 1..Len(file)
        /\ \A k \in DOMAIN file : file[k] \in 1..MaxLines
        /\ collector.pos \in Nat /\ Batch \in Nat \ {0}
    <3>1. file \in Seq(1..MaxLines)
      BY DEF RoundInv, RoundTyped
    <3> QED BY <3>1, SeqFacts, BatchAssumption DEF RoundInv, RoundTyped
  <2>2. upto \in Nat /\ upto <= Len(file)
    OBVIOUS
  <2>3. /\ collector.pos + 1 <= upto
        /\ DOMAIN chunk = 1..(upto - collector.pos)
        /\ \A i \in DOMAIN chunk : collector.pos + i \in DOMAIN file
                                   /\ chunk[i] = file[collector.pos + i]
    <3>1. /\ collector.pos + 1 <= upto
          /\ DOMAIN chunk = 1..(upto - collector.pos)
          /\ \A i \in 1..(upto - collector.pos) :
               chunk[i] = file[collector.pos + i] /\ collector.pos + i \in DOMAIN file
      BY <1>3, <2>1, <2>2, PieceFacts
    <3> HIDE DEF chunk
    <3> QED BY <3>1
  <2>4. /\ lines \in Seq(Items)
        /\ DOMAIN lines = 1..(upto - collector.pos)
        /\ \A i \in DOMAIN lines : /\ collector.pos + i \in DOMAIN file
                                   /\ lines[i] = Line(file[collector.pos + i])
    <3>1. \A i \in 1..(upto - collector.pos) : lines[i] = Line(file[collector.pos + i])
      BY <2>3
    <3>2. \A i \in 1..(upto - collector.pos) : Line(file[collector.pos + i]) \in Items
      BY <2>1, <2>3, ItemNames
    <3>3. lines \in [1..(upto - collector.pos) -> Items]
      BY <2>3, <3>1, <3>2
    <3>4. upto - collector.pos \in Nat
      BY <2>1, <2>2, <2>3
    <3> HIDE DEF lines, chunk
    <3>5. DOMAIN lines = 1..(upto - collector.pos) /\ lines \in Seq(Items)
      BY <3>3, <3>4
    <3>6. \A i \in 1..(upto - collector.pos) : collector.pos + i \in DOMAIN file
      BY <2>3
    <3> QED BY <3>1, <3>5, <3>6
  <2>5. collector' = [AtRest EXCEPT !.pc = "lines", !.pos = upto,
                                    !.full = (Len(chunk) = Batch), !.queue = lines]
    BY <1>3 DEF Take
  <2> HIDE DEF lines, chunk
  <2>6. /\ collector'.pc = "lines" /\ collector'.queue = lines /\ collector'.pos = upto
        /\ collector' \in [pc : {"idle", "runs", "tail", "read", "lines"}, queue : Seq(Items),
                           high : 0..MaxRuns, pos : Nat, full : BOOLEAN]
    <3>1. collector' = [pc |-> "lines", queue |-> lines, high |-> 0, pos |-> upto,
                        full |-> (Len(chunk) = Batch)]
      BY <2>5 DEF AtRest
    <3>2. (Len(chunk) = Batch) \in BOOLEAN /\ 0 \in 0..MaxRuns
      BY BoundAssumption
    <3> QED BY <2>2, <2>4, <3>1, <3>2
  <2>7. RoundTyped'
    BY <1>1, <2>6 DEF RoundInv, RoundTyped
  <2>8. \A j, k \in DOMAIN file : Line(file[j]) = Line(file[k]) => j = k
    <3> SUFFICES ASSUME NEW j \in DOMAIN file, NEW k \in DOMAIN file,
                        Line(file[j]) = Line(file[k])
                 PROVE  j = k
      OBVIOUS
    <3>1. file[j] = file[k]
      BY ItemNames
    <3>2. ~ (j < k) /\ ~ (k < j)
      BY <2>1, <3>1 DEF RoundInv, FileSound
    <3> QED BY <2>1, <3>2
  <2>9. FileSound'
    BY <1>1, <2>1, <2>4, <2>6, ItemNames DEF RoundInv, FileSound
  <2>10. QueueSound'
    <3>1. \A i, j \in DOMAIN lines : lines[i] = lines[j] => i = j
      BY <2>1, <2>4, <2>8
    <3>2. \A i \in DOMAIN lines : seen[lines[i]] = 0 \/ lines[i] \in again
      <4> SUFFICES ASSUME NEW i \in DOMAIN lines, lines[i] \notin again
                   PROVE  seen[lines[i]] = 0
        OBVIOUS
      <4> DEFINE k == collector.pos + i
      <4>1. k \in DOMAIN file /\ lines[i] = Line(file[k]) /\ ~ (k <= collector.pos)
        BY <2>1, <2>4
      <4>2. seen[Line(file[k])] \in 0..2
        BY <2>1, <4>1, ItemNames DEF RoundInv, RoundTyped
      <4>3. ~ (seen[Line(file[k])] > 0)
        BY <1>1, <4>1 DEF RoundInv, LinesSound, Reading
      <4> QED BY <4>1, <4>2, <4>3
    <3>3. lines # <<>>
      <4>1. 1 \in DOMAIN lines
        BY <2>1, <2>2, <2>3, <2>4
      <4> QED BY <4>1
    <3> QED BY <1>1, <2>6, <3>1, <3>2, <3>3 DEF QueueSound
  <2>11. RunsSound'
    BY <1>1, <2>6 DEF RoundInv, RunsSound
  <2>12. LinesSound'
    <3>1. \A k \in DOMAIN file, i \in DOMAIN lines : lines[i] = Line(file[k]) => k <= upto
      BY <2>1, <2>2, <2>4, <2>8
    <3>2. \A i \in DOMAIN lines : \E l \in 1..MaxLines : lines[i] = Line(l)
      BY <2>1, <2>4
    <3>3. \A k \in DOMAIN file : k <= collector.pos => k <= upto
      BY <2>1, <2>2, <2>3
    <3> QED BY <1>1, <2>6, <3>1, <3>2, <3>3 DEF RoundInv, LinesSound, Reading
  <2>13. CountedOnce'
    BY <1>1 DEF RoundInv, CountedOnce
  <2> QED BY <2>7, <2>9, <2>10, <2>11, <2>12, <2>13 DEF RoundInv
<1> QED BY <1>2, <1>3

LEMMA ReadBatchKeepsRound ==
  ASSUME RoundInv, ReadBatch
  PROVE  RoundInv'
<1> DEFINE upto == Min({collector.pos + Batch, Len(file)})
<1>1. /\ collector.pc = "read" /\ Take(upto)
      /\ UNCHANGED <<call, file, written, memory, disk, seen, again>>
  BY DEF ReadBatch, eventVars, sourceVars
<1>2. upto \in Nat /\ upto <= Len(file)
  <2>1. file \in Seq(1..MaxLines) /\ collector.pos \in Nat /\ Batch \in Nat
    BY BatchAssumption DEF RoundInv, RoundTyped
  <2>2. collector.pos + Batch \in Nat /\ Len(file) \in Nat
    BY <2>1, SeqFacts
  <2>3. collector.pos + Batch \in Int /\ Len(file) \in Int
    BY <2>2
  <2>4. upto \in {collector.pos + Batch, Len(file)} /\ upto <= Len(file)
    BY <2>3, LesserOfTwo
  <2> HIDE DEF upto
  <2> QED BY <2>2, <2>4
<1> HIDE DEF upto
<1> QED BY <1>1, <1>2, TakeKeepsRound

\* What was scanned before the scan broke is a batch like any other.
LEMMA ScanBreaksKeepsRound ==
  ASSUME RoundInv, ScanBreaks
  PROVE  RoundInv'
<1>1. /\ collector.pc = "read"
      /\ UNCHANGED <<call, file, written, memory, disk, seen, again>>
  BY DEF ScanBreaks, eventVars, sourceVars
<1>2. PICK upto \in collector.pos..(collector.pos + Batch - 1) : upto <= Len(file) /\ Take(upto)
  BY DEF ScanBreaks
<1>3. upto \in Nat
  <2>1. collector.pos \in Nat /\ Batch \in Nat
    BY BatchAssumption DEF RoundInv, RoundTyped
  <2> QED BY <1>2, <2>1
<1> QED BY <1>1, <1>2, <1>3, TakeKeepsRound

\* After a full batch the reading goes on; otherwise the round is over.
LEMMA BatchDoneKeepsRound ==
  ASSUME RoundInv, BatchDone
  PROVE  RoundInv'
<1>1. /\ collector.pc = "lines" /\ collector.queue = <<>> /\ call["collector"].pc # "found"
      /\ UNCHANGED <<call, file, written, memory, disk, seen, again>>
  BY DEF BatchDone, eventVars, sourceVars
<1>2. CASE collector.full
  <2>1. collector' = [collector EXCEPT !.pc = "read"]
    BY <1>2 DEF BatchDone
  <2>2. /\ collector'.pc = "read" /\ collector'.queue = <<>> /\ collector'.pos = collector.pos
        /\ collector' \in [pc : {"idle", "runs", "tail", "read", "lines"}, queue : Seq(Items),
                           high : 0..MaxRuns, pos : Nat, full : BOOLEAN]
    BY <1>1, <2>1 DEF RoundInv, RoundTyped
  <2>3. RoundTyped' /\ FileSound' /\ QueueSound' /\ CountedOnce'
    BY <1>1, <2>2 DEF RoundInv, RoundTyped, FileSound, QueueSound, CountedOnce
  <2>4. RunsSound' /\ LinesSound'
    BY <1>1, <2>2 DEF RoundInv, RunsSound, LinesSound, Reading
  <2> QED BY <2>3, <2>4 DEF RoundInv
<1>3. CASE ~collector.full
  <2>1. collector' = AtRest
    BY <1>3 DEF BatchDone
  <2>2. collector' \in EmptyStates
    BY <2>1 DEF EmptyStates
  <2> QED BY <1>1, <2>1, <2>2, OnlyEmptyHanded
<1> QED BY <1>2, <1>3

\* After a crash whatever was counted and is not behind the saved watermark
\* and cursor is named.
LEMMA CrashKeepsRound ==
  ASSUME RoundInv, Crash
  PROVE  RoundInv'
<1>0. PICK saved \in Loaded :
        /\ memory' = saved
        /\ again' = again \cup {Run(r) : r \in {q \in Runs : q > saved.mark /\ seen[Run(q)] > 0}}
                         \cup {i \in {Line(file[k]) :
                                      k \in IF saved.offset > Len(file) THEN DOMAIN file
                                           ELSE DOMAIN file \ {k \in DOMAIN file : k <= saved.offset}}
                                : seen[i] > 0}
  BY DEF Crash
<1> DEFINE behind == {k \in DOMAIN file : k <= saved.offset}
           ahead == IF saved.offset > Len(file) THEN DOMAIN file ELSE DOMAIN file \ behind
           runs == {Run(r) : r \in {q \in Runs : q > saved.mark /\ seen[Run(q)] > 0}}
           lines == {i \in {Line(file[k]) : k \in ahead} : seen[i] > 0}
<1>1. /\ memory' = saved /\ collector' = AtRest
      /\ UNCHANGED <<file, written, disk, seen>>
      /\ again' = (again \cup runs) \cup lines
      /\ call' = [c \in Callers |-> IF c = "collector" THEN NoCall
                                     ELSE IF call[c].pc = "idle" THEN NoCall
                                     ELSE [NoCall EXCEPT !.pc = "over"]]
  BY <1>0 DEF Crash, sourceVars
<1>11. saved \in [mark : 0..MaxRuns, offset : Nat]
  BY BoundAssumption DEF Loaded, Runs, RoundInv, RoundTyped
<1>2. call'["collector"].pc # "found"
  <2>1. call'["collector"] = NoCall
    BY <1>1 DEF Callers
  <2> QED BY <2>1 DEF NoCall
<1>3. collector'.pc = "idle" /\ collector'.queue = <<>>
  BY <1>1 DEF AtRest
<1>4. /\ file \in Seq(1..MaxLines) /\ Len(file) \in Nat /\ DOMAIN file = 1..Len(file)
      /\ \A k \in DOMAIN file : file[k] \in 1..MaxLines
  <2>1. file \in Seq(1..MaxLines)
    BY DEF RoundInv, RoundTyped
  <2> QED BY <2>1, SeqFacts
<1>5. /\ \A r \in Runs : r > saved.mark /\ seen[Run(r)] > 0 => Run(r) \in again'
      /\ \A k \in ahead : seen[Line(file[k])] > 0 => Line(file[k]) \in again'
      /\ again \subseteq again'
  BY <1>1
<1>6. runs \subseteq Items /\ lines \subseteq Items
  BY <1>4, ItemNames
<1> HIDE DEF runs, lines
<1>7. RoundTyped'
  <2>1. collector' \in [pc : {"idle", "runs", "tail", "read", "lines"}, queue : Seq(Items),
                        high : 0..MaxRuns, pos : Nat, full : BOOLEAN]
    BY <1>1, Resting, 0 \in Nat
  <2> QED BY <1>1, <1>6, <1>11, <2>1 DEF RoundInv, RoundTyped
<1>8. FileSound' /\ QueueSound' /\ CountedOnce'
  BY <1>1, <1>2, <1>3, <1>5 DEF RoundInv, FileSound, QueueSound, CountedOnce
<1>9. RunsSound'
  <2>1. \A r \in Runs : seen[Run(r)] \in 0..2 /\ r \in Nat /\ saved.mark \in Nat
    BY <1>11, ItemNames DEF RoundInv, RoundTyped, Runs
  <2> QED BY <1>1, <1>3, <1>5, <2>1 DEF RunsSound
<1>10. LinesSound'
  <2>1. saved.offset \in Nat
    BY <1>11
  <2>2. \A k \in DOMAIN file : Line(file[k]) \notin again' /\ seen[Line(file[k])] > 0
          => k <= saved.offset /\ saved.offset <= Len(file)
    BY <1>4, <1>5, <2>1
  <2> QED BY <1>1, <1>3, <2>2 DEF LinesSound, Reading
<1> QED BY <1>7, <1>8, <1>9, <1>10 DEF RoundInv

\* What a caller does with its call; the collector has a line in hand by then.
LEMMA CallsKeepRound ==
  ASSUME RoundInv, RowTyped, NEW c \in Callers, Upserts(c) \/ UpsertFails(c)
  PROVE  RoundInv'
<1>1. "collector" \in Callers /\ DOMAIN call = Callers
  BY DEF Callers, RowTyped
<1>2. UNCHANGED <<file, written, memory, disk, again>>
  BY DEF Upserts, Lookup, Write, Archive, UpsertFails, sourceVars
<1>3. ASSUME call' = Ended(c) PROVE call'["collector"].pc # "found" \/ c # "collector"
  BY <1>1, <1>3 DEF Ended, NoCall
<1>4. CASE Lookup(c)
  <2>1. UNCHANGED <<collector, seen>>
    BY <1>4 DEF Lookup
  <2>2. c = "collector" => collector.pc = "lines" /\ collector.queue # <<>>
    BY <1>4 DEF Lookup, HandsOver
  <2>3. c # "collector" => call'["collector"] = call["collector"]
    BY <1>1, <1>4 DEF Lookup
  <2>4. call'["collector"].pc = "found" => collector.pc = "lines" /\ collector.queue # <<>>
    BY <2>2, <2>3 DEF RoundInv, QueueSound
  <2> QED BY <1>2, <2>1, <2>4, RoundUntouched
<1>5. CASE Archive(c)
  <2>1. UNCHANGED <<collector, seen>> /\ call' = Ended(c)
    BY <1>5 DEF Archive
  <2>2. c # "collector" => call'["collector"] = call["collector"]
    BY <1>1, <2>1 DEF Ended
  <2>3. call'["collector"].pc = "found" => collector.pc = "lines" /\ collector.queue # <<>>
    BY <1>3, <2>1, <2>2 DEF RoundInv, QueueSound
  <2> QED BY <1>2, <2>1, <2>3, RoundUntouched
<1>6. CASE Write(c) \/ UpsertFails(c)
  <2>1. /\ call[c].pc = "found"
        /\ LineDone(c, TRUE) \/ LineDone(c, FALSE)
        /\ \/ call' = Ended(c)
           \/ call' = [call EXCEPT ![c] = [pc |-> "noise", read |-> event'.status,
                                          stale |-> FALSE]]
    BY <1>6 DEF Write, UpsertFails
  <2>2. CASE c # "collector"
    <3>1. call'["collector"] = call["collector"]
      BY <1>1, <2>1, <2>2 DEF Ended
    <3>2. UNCHANGED <<collector, seen>>
      BY <2>1, <2>2 DEF LineDone
    <3>3. call'["collector"].pc = "found" => collector.pc = "lines" /\ collector.queue # <<>>
      BY <3>1 DEF RoundInv, QueueSound
    <3> QED BY <1>2, <3>2, <3>3, RoundUntouched
  <2>3. CASE c = "collector"
    <3>1. collector.pc \in {"runs", "lines"} /\ collector.queue # <<>>
      BY <2>1, <2>3 DEF RoundInv, QueueSound
    <3>2. /\ collector' = [collector EXCEPT !.queue = Tail(@)]
          /\ \/ seen' = seen
             \/ seen' = [seen EXCEPT ![Head(collector.queue)] = Min({2, @ + 1})]
      BY <2>1, <2>3 DEF LineDone
    <3>3. call'["collector"].pc # "found"
      BY <1>1, <1>3, <2>1, <2>3
    <3> QED BY <1>2, <3>1, <3>2, <3>3, ItemTakenKeepsRound
  <2> QED BY <2>2, <2>3
<1> QED BY <1>4, <1>5, <1>6 DEF Upserts

\* Every step of the system keeps the invariant of the rounds.
LEMMA StepKeepsRound == RoundInv /\ RowTyped /\ [Next]_vars => RoundInv'
<1> SUFFICES ASSUME RoundInv, RowTyped, [Next]_vars PROVE RoundInv'
  OBVIOUS
<1>1. CASE \E c \in Callers : Upserts(c) \/ UpsertFails(c)
  BY <1>1, CallsKeepRound
<1>2. CASE Scan \/ CollectRun \/ SaveMark \/ TailOne \/ ReadBatch \/ BatchDone
  BY <1>2, ScanKeepsRound, CollectRunKeepsRound, SaveMarkKeepsRound, TailOneKeepsRound,
     ReadBatchKeepsRound, BatchDoneKeepsRound
<1>3. CASE LineWritten \/ Truncate \/ ScanFails \/ TailFails \/ ScanBreaks \/ Crash
  BY <1>3, LineWrittenKeepsRound, TruncateKeepsRound, ScanFailsKeepsRound, TailFailsKeepsRound,
     ScanBreaksKeepsRound, CrashKeepsRound
<1>4. CASE People \/ UNCHANGED vars \/ \E r \in Runs : Ends(r) \/ Recorded(r)
  <2>1. UNCHANGED <<file, written, memory, disk, collector, seen, again>>
    BY <1>4 DEF People, Claim, Resolve, Ignore, Reopen, Acts, Ends, Recorded, vars, sourceVars
  <2>2. call'["collector"].pc = call["collector"].pc
    <3>1. CASE People
      <4>1. call' = [c \in Callers |->
                       [call[c] EXCEPT !.stale = call[c].pc \in {"found", "noise"}]]
        BY <3>1 DEF People, Claim, Resolve, Ignore, Reopen, Acts
      <4>2. call'["collector"] = [call["collector"] EXCEPT !.stale =
                                     call["collector"].pc \in {"found", "noise"}]
        BY <4>1, Zenon DEF Callers
      <4>3. call["collector"] \in [pc : {"idle", "found", "noise", "over"}, stale : BOOLEAN,
                                   read : {"none", "open", "processing"} \cup Closed]
        BY DEF RowTyped, Callers
      <4> QED BY <4>2, <4>3
    <3>2. CASE UNCHANGED vars \/ \E r \in Runs : Ends(r) \/ Recorded(r)
      BY <3>2 DEF Ends, Recorded, vars, eventVars
    <3> QED BY <1>4, <3>1, <3>2
  <2>3. call'["collector"].pc = "found" => collector.pc = "lines" /\ collector.queue # <<>>
    BY <2>2 DEF RoundInv, QueueSound
  <2> QED BY <2>1, <2>3, RoundUntouched
<1> QED BY <1>1, <1>2, <1>3, <1>4 DEF Next, Round, Sources, Failures, Callers

\* The event and the rounds together: the inductive invariant of the system.
THEOREM Inductive == Spec => []IInv
<1>1. Init => IInv
  BY InitEvent, InitRound DEF IInv
<1>2. IInv /\ [Next]_vars => IInv'
  BY StepKeepsEvent, StepKeepsRound DEF IInv, EventInv
<1> QED BY <1>1, <1>2, PTL DEF Spec

\* No failed run and no line is counted twice, unless its line was written while
\* the log was being read or a crash threw the collector back behind it.
THEOREM CountedButOnce == Spec => []CountedOnce
BY Inductive, PTL DEF IInv, RoundInv
===============================================================================
