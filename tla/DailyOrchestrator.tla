--------------------------- MODULE DailyOrchestrator ---------------------------
(***************************************************************************)
(* The trading day of quantsys-v2: one thread wakes up every minute, works *)
(* through the phases up to the one the clock is in, and records in the    *)
(* day's row of daily_orchestrator_state how far it got.  After a restart  *)
(* of the process the thread first resumes from that row.                  *)
(*                                                                         *)
(* Phases are numbered in PHASE_ORDER, IDLE being 0; the day is cut into   *)
(* the slots between which the answer of _determine_phase, or of the       *)
(* comparison with 9:31, changes.                                          *)
(***************************************************************************)
EXTENDS Naturals, FiniteSets

CONSTANT MaxFaults   \* bound: crashes, failed database accesses and lost resumes

ASSUME FaultsAssumption == MaxFaults \in Nat

IDLE == 0
PRE_MARKET == 1
MARKET_OPEN == 2
INTRADAY == 3
MARKET_CLOSE == 4
POST_MARKET == 5
REVIEW == 6
Phases == 1..6

\* 0 the night, 1 from 8:30, 2 from 9:25, 3 from 9:31, 4 from 9:35, 5 from 15:00,
\* 6 from 15:05, 7 from 15:30, 8 from 16:30, 9 from 17:30.
Slots == 0..9
Target == [s \in Slots |-> CASE s = 1 -> PRE_MARKET
                             [] s \in {2, 3} -> MARKET_OPEN
                             [] s = 4 -> INTRADAY
                             [] s = 5 -> MARKET_CLOSE
                             [] s = 7 -> POST_MARKET
                             [] s = 8 -> REVIEW
                             [] OTHER -> IDLE]
Begins(p) == CHOOSE s \in Slots : Target[s] = p /\ \A r \in Slots : Target[r] = p => s <= r
MatchSlot == 3

VARIABLES
  slot,      \* the clock
  row,       \* [phase, done, notified]: the row of the day
  pc,        \* the thread: down, booting, idle, visiting phases, or in a handler
  todo,      \* phases the loop of tick() or of the resume still visits
  current,   \* phase whose handler runs, or 0
  matching,  \* this tick ends with the matching of the pending orders
  faults,
  starts,    \* history of the day: phase -> how often its handler was started
  finished,  \* history of the day: phases whose handler returned
  pushes,    \* history of the day: daily_review sent to the agent
  settled,   \* history of the day: T+1 settlement "done", "failed" or "open"
  matched,   \* history of the day: a matching of the pending orders has begun
  boots,     \* history of the day: starts of the process
  mishaps,   \* history of the day: the faults that met it
  unmarked   \* history of the day: pushes that a crash or an error left unmarked

vars == <<slot, row, pc, todo, current, matching, faults, starts, finished, pushes,
          settled, matched, boots, mishaps, unmarked>>
thread == <<pc, todo, current, matching>>
history == <<starts, finished, pushes, settled, matched, boots, mishaps, unmarked>>

NewRow == [phase |-> IDLE, done |-> {}, notified |-> FALSE]

FreshDay ==
  /\ row' = NewRow
  /\ starts' = [p \in Phases |-> 0] /\ finished' = {}
  /\ pushes' = 0 /\ unmarked' = 0 /\ boots' = 0 /\ mishaps' = 0
  /\ settled' = "open" /\ matched' = FALSE

Init == /\ slot = 0 /\ row = NewRow
        /\ pc = "idle" /\ todo = {} /\ current = 0 /\ matching = FALSE
        /\ faults = 0
        /\ starts = [p \in Phases |-> 0] /\ finished = {}
        /\ pushes = 0 /\ unmarked = 0 /\ boots = 0 /\ mishaps = 0
        /\ settled = "open" /\ matched = FALSE

-------------------------------------------------------------------------------
(* The clock does not wait for the thread, except that no handler is still *)
(* running at midnight.                                                    *)

Advance ==
  /\ slot < 9
  /\ slot' = slot + 1
  /\ UNCHANGED <<row, thread, faults, history>>

Midnight ==
  /\ slot = 9
  /\ pc \in {"down", "boot", "idle"}
  /\ slot' = 0
  /\ FreshDay
  /\ UNCHANGED <<thread, faults>>

-------------------------------------------------------------------------------
(* tick()                                                                  *)

\* Mutants: the loop takes the target alone; it stops before the target.
OnlyTarget(p) == p > row.phase /\ p = Target[slot]
BeforeTarget(p) == p > row.phase /\ p < Target[slot]

\* The phases between the one the row has reached and the one the clock is in.
Behind(p) == p > row.phase /\ p <= Target[slot]

\* _all_phases_done
AllPhasesDone == {PRE_MARKET, MARKET_OPEN, POST_MARKET, REVIEW} \subseteq row.done

Tick ==
  /\ pc = "idle"
  /\ IF Target[slot] = IDLE /\ row.phase # IDLE /\ AllPhasesDone
       THEN row' = [row EXCEPT !.phase = IDLE] /\ UNCHANGED thread
       ELSE /\ pc' = "visit"
            /\ todo' = {p \in Phases : Behind(p)}
            /\ matching' = (Target[slot] = MARKET_OPEN /\ slot >= MatchSlot)
            /\ UNCHANGED <<row, current>>
  /\ UNCHANGED <<slot, faults, history>>

-------------------------------------------------------------------------------
(* _monitor_loop: the process starts, the thread resumes, then it ticks.   *)

Start ==
  /\ pc = "down"
  /\ pc' = "boot"
  /\ boots' = boots + 1
  /\ UNCHANGED <<slot, row, todo, current, matching, faults, starts, finished, pushes,
                 settled, matched, mishaps, unmarked>>

\* A fault, within its bound.
Mishap == faults < MaxFaults /\ faults' = faults + 1 /\ mishaps' = mishaps + 1

\* Mutant: the resume goes on after the interrupted phase.
AfterInterrupted(p) == p > row.phase /\ Begins(p) <= slot

\* resume_from_breakpoint: from the current phase on, what has begun by now.
Resumes(p) == p >= row.phase /\ Begins(p) <= slot

Resume ==
  /\ pc = "boot"
  /\ IF row.phase = IDLE
       THEN pc' = "idle" /\ UNCHANGED todo
       ELSE pc' = "visit" /\ todo' = {p \in Phases : Resumes(p)}
  /\ UNCHANGED <<slot, row, current, matching, faults, history>>

\* The guard of trading days fails closed, or the row cannot be read: the resume
\* is over, is not tried again, and the thread goes on to its ticks.
ResumeLost ==
  /\ pc = "boot"
  /\ Mishap
  /\ pc' = "idle"
  /\ UNCHANGED <<slot, row, todo, current, matching, starts, finished, pushes, settled,
                 matched, boots, unmarked>>

-------------------------------------------------------------------------------
(* The loop over the phases, and _execute_phase.                           *)

NextPhase == CHOOSE p \in todo : \A q \in todo : p <= q

\* An attempt to settle the positions of the day that came to nothing.
Unsettled == IF settled = "open" THEN "failed" ELSE settled

Skip ==
  /\ pc = "visit" /\ todo # {}
  /\ NextPhase \in row.done
  /\ todo' = todo \ {NextPhase}
  /\ UNCHANGED <<slot, row, pc, current, matching, faults, history>>

\* _transition commits the phase, then its handler is called.
Begin ==
  /\ pc = "visit" /\ todo # {}
  /\ NextPhase \notin row.done
  /\ row' = [row EXCEPT !.phase = NextPhase]
  /\ current' = NextPhase
  /\ todo' = todo \ {NextPhase}
  /\ pc' = "handler"
  /\ starts' = [starts EXCEPT ![NextPhase] = @ + 1]
  /\ UNCHANGED <<slot, matching, faults, finished, pushes, settled, matched, boots,
                 mishaps, unmarked>>

\* A commit fails, of the transition or within a handler where that of the error
\* count fails with it, or the row cannot be read again after a commit: the
\* exception ends the tick, or the resume, which is not tried again.
CommitFails ==
  /\ \/ pc = "visit" /\ todo # {}
     \/ pc \in {"handler", "push", "rest"}
  /\ Mishap
  /\ settled' = IF pc = "handler" /\ current = MARKET_OPEN THEN Unsettled ELSE settled
  /\ unmarked' = unmarked + IF pc = "push" THEN 1 ELSE 0
  /\ pc' = "idle" /\ todo' = {} /\ current' = 0 /\ matching' = FALSE
  /\ UNCHANGED <<slot, row, starts, finished, pushes, matched, boots>>

\* settle_t1_all at the beginning of the handler of MARKET_OPEN.
SettleT1 ==
  /\ pc = "handler" /\ current = MARKET_OPEN
  /\ settled' = "done"
  /\ pc' = "rest"
  /\ UNCHANGED <<slot, row, todo, current, matching, faults, starts, finished, pushes,
                 matched, boots, mishaps, unmarked>>

\* The handler of REVIEW: nothing is sent if the agent was notified today.
Push ==
  /\ pc = "handler" /\ current = REVIEW
  /\ IF row.notified THEN pc' = "rest" /\ UNCHANGED pushes
     ELSE pc' = "push" /\ pushes' = pushes + 1
  /\ UNCHANGED <<slot, row, todo, current, matching, faults, starts, finished, settled,
                 matched, boots, mishaps, unmarked>>

\* Mutant: context is updated in place, and the column is not seen as changed.
MarkedInPlace == row

\* _mark_review_notified: the context is replaced and flagged as modified.
Marked == [row EXCEPT !.notified = TRUE]

MarkReviewNotified ==
  /\ pc = "push"
  /\ row' = Marked
  /\ pc' = "rest"
  /\ UNCHANGED <<slot, todo, current, matching, faults, history>>

\* _mark_phase_completed adds the phase to the dictionary that was read and
\* assigns the same object: the column is written only when it was empty.
Completed(p) == IF row.done = {} THEN {p} ELSE row.done

HandlerEnds == pc' = "visit" /\ current' = 0

\* A handler returns.  That of MARKET_OPEN matches too if it ends after 9:31.
Return ==
  /\ IF current \in {MARKET_OPEN, REVIEW} THEN pc = "rest" ELSE pc = "handler"
  /\ row' = [row EXCEPT !.done = Completed(current)]
  /\ finished' = finished \cup {current}
  /\ matched' = (matched \/ (current = MARKET_OPEN /\ slot >= MatchSlot))
  /\ HandlerEnds
  /\ UNCHANGED <<slot, todo, matching, faults, starts, pushes, settled, boots, mishaps,
                 unmarked>>

\* A handler raises, or a commit of it fails: the error is counted, and the loop
\* goes on.
Raise ==
  /\ pc \in {"handler", "push", "rest"}
  /\ settled' = IF pc = "handler" /\ current = MARKET_OPEN THEN Unsettled ELSE settled
  /\ unmarked' = unmarked + IF pc = "push" THEN 1 ELSE 0
  /\ HandlerEnds
  /\ UNCHANGED <<slot, row, todo, matching, faults, starts, finished, pushes, matched,
                 boots, mishaps>>

\* The end of tick(), with _match_pending_orders in its window.
End ==
  /\ pc = "visit" /\ todo = {}
  /\ matched' = (matched \/ matching)
  /\ pc' = "idle" /\ matching' = FALSE
  /\ UNCHANGED <<slot, row, todo, current, faults, starts, finished, pushes, settled,
                 boots, mishaps, unmarked>>

Crash ==
  /\ pc # "down"
  /\ Mishap
  /\ unmarked' = unmarked + IF pc = "push" THEN 1 ELSE 0
  /\ pc' = "down" /\ todo' = {} /\ current' = 0 /\ matching' = FALSE
  /\ UNCHANGED <<slot, row, starts, finished, pushes, settled, matched, boots>>

-------------------------------------------------------------------------------
Step == \/ Tick \/ Resume \/ Skip \/ Begin \/ SettleT1 \/ Push \/ MarkReviewNotified
        \/ Return \/ End

Next == \/ Advance \/ Midnight \/ Start \/ Step \/ Raise \/ ResumeLost \/ CommitFails
        \/ Crash

\* The thread runs and ticks every minute, the process is started again, and
\* time passes.
Spec == /\ Init /\ [][Next]_vars
        /\ WF_vars(Step) /\ WF_vars(Start) /\ WF_vars(Midnight)

-------------------------------------------------------------------------------
\* Type invariant.
TypeOK ==
  /\ slot \in Slots
  /\ row \in [phase : 0..6, done : SUBSET Phases, notified : BOOLEAN]
  /\ pc \in {"down", "boot", "idle", "visit", "handler", "push", "rest"}
  /\ todo \subseteq Phases
  /\ current \in 0..6 /\ (current # 0 <=> pc \in {"handler", "push", "rest"})
  /\ matching \in BOOLEAN
  /\ faults \in 0..MaxFaults
  /\ starts \in [Phases -> Nat] /\ finished \subseteq Phases
  /\ pushes \in Nat /\ boots \in Nat /\ mishaps \in Nat /\ unmarked \in Nat
  /\ settled \in {"open", "done", "failed"} /\ matched \in BOOLEAN

\* Late or restarted, the day is worked through in turn: a phase is started only
\* after its window of the day has begun, and after all the earlier phases.
StartedInTurn ==
  \A p \in Phases : starts[p] > 0 =>
    Begins(p) <= slot /\ \A q \in 1..(p - 1) : starts[q] > 0

\* A phase is started again only after a restart: however many ticks fall into
\* its window, it is worked through once per process.
OncePerProcess == \A p \in Phases : starts[p] <= 1 + boots

\* The agent is woken once for the review of a day, and once more for every
\* crash, or failed commit, between the push and its mark.
ReviewPushedOnce == pushes <= 1 + unmarked

\* No single fault of the day, wherever it falls, has the pending orders matched
\* before the settlement of the positions was attempted: it takes a process that
\* ends in the handler of MARKET_OPEN and a resume that is lost as well.
MatchAfterSettlement == matched => settled # "open" \/ mishaps >= 2

\* _in_orchestrator_window: the loop does without the guard of trading days, which
\* fails closed, for "a hiccup of the database would silently stop the T+1
\* settlement": what lies beyond MARKET_OPEN is reached with it attempted.
SettlementNotStopped == row.phase > MARKET_OPEN => settled # "open"

\* As long as the clock stays in a window and the process runs, the thread gets
\* to the phase of that window.
WindowIsReached ==
  \A p \in Phases : slot = Begins(p) ~> row.phase >= p \/ slot # Begins(p)

\* resume_from_breakpoint: "if phases are unfinished, go on with them": one that
\* was finished today is not started again.
FinishedNotRedone == [][\A p \in finished : starts'[p] <= starts[p]]_vars
===============================================================================
