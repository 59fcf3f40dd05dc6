----------------------- MODULE DailyOrchestrator_proofs -----------------------
(***************************************************************************)
(* Proofs about the trading day, for any number of days, of restarts and   *)
(* of failed commits: types, that the phases are started in turn, that a   *)
(* process works through a phase once, that the review is pushed once, and *)
(* that no single fault has orders matched before the settlement.          *)
(*                                                                         *)
(* They rest on what the row that survives a crash says about the phases   *)
(* the loop still has to visit.                                            *)
(***************************************************************************)
EXTENDS DailyOrchestrator, TLAPS

\* Between its ticks the thread has nothing in hand; a handler that runs is that
\* of the phase in the row, and only the one of REVIEW pushes.
ThreadSound ==
  /\ pc \in {"down", "boot", "idle"} => todo = {} /\ ~matching
  /\ current # 0 => current = row.phase /\ current \notin todo
  /\ pc = "push" => current = REVIEW

\* What the row has reached, completed or has in hand was started.
RowSound ==
  /\ \A p \in Phases : p <= row.phase \/ p \in row.done \/ p = current => starts[p] > 0
  /\ \A p, q \in row.done : p = q

\* The loop goes on from the row, in turn, with phases that have begun.
TodoSound ==
  \A p \in todo :
    /\ Begins(p) <= slot
    /\ p >= row.phase
    /\ \A q \in 1..(p - 1) : q \in todo \/ starts[q] > 0

\* What a phase may still be started for: it lies ahead, or the process is new.
StartsBounded ==
  \A p \in Phases :
    (\/ pc # "down" /\ p > row.phase
     \/ pc = "boot"
     \/ p \in todo) => starts[p] <= boots

\* A push is marked in the row, in hand, or known to be unmarked.
PushSound ==
  /\ pushes <= unmarked + (IF row.notified \/ pc = "push" THEN 1 ELSE 0)
  /\ pc = "push" => ~row.notified

\* The handler of MARKET_OPEN is still to settle, in this tick or resume.
SettlementDue == MARKET_OPEN \in todo \/ (pc = "handler" /\ current = MARKET_OPEN)

\* Until the settlement is attempted, the day does not get beyond MARKET_OPEN:
\* its handler is due, or a restart will come back to it.
BeforeSettlement ==
  /\ row.phase <= MARKET_OPEN /\ MARKET_OPEN \notin row.done
  /\ row.phase = MARKET_OPEN => SettlementDue \/ pc \in {"down", "boot"}
  /\ \A p \in todo : p > MARKET_OPEN => SettlementDue
  /\ matching => SettlementDue

\* The handler that is to settle runs: no fault has met it yet.
Settles == pc = "handler" /\ current = MARKET_OPEN

\* So it is as long as one fault has met the day at most, and it has met it if
\* MARKET_OPEN was begun and its handler runs no more.
SettlementSound ==
  settled = "open" =>
    /\ mishaps < 2 => BeforeSettlement
    /\ row.phase = MARKET_OPEN /\ ~Settles => mishaps >= 1
    /\ current = MARKET_OPEN => pc = "handler"

IInv == /\ TypeOK
        /\ ThreadSound
        /\ RowSound
        /\ TodoSound
        /\ StartsBounded
        /\ PushSound
        /\ SettlementSound
        /\ StartedInTurn
        /\ OncePerProcess
        /\ MatchAfterSettlement

-------------------------------------------------------------------------------
\* The table of the day: what each slot asks for, and when each phase begins.
LEMMA TargetTable ==
  /\ Target[0] = 0 /\ Target[1] = 1 /\ Target[2] = 2 /\ Target[3] = 2 /\ Target[4] = 3
  /\ Target[5] = 4 /\ Target[6] = 0 /\ Target[7] = 5 /\ Target[8] = 6 /\ Target[9] = 0
BY DEF Target, Slots, IDLE, PRE_MARKET, MARKET_OPEN, INTRADAY, MARKET_CLOSE, POST_MARKET,
       REVIEW

\* The first slot of a phase, given by its two defining facts.
LEMMA FirstSlot ==
  ASSUME NEW p \in Phases, NEW s \in Slots, Target[s] = p,
         \A r \in Slots : Target[r] = p => s <= r
  PROVE  Begins(p) = s
<1>1. \A t \in Slots : (Target[t] = p /\ \A r \in Slots : Target[r] = p => t <= r) => t = s
  BY DEF Slots
<1>2. QED
  BY <1>1 DEF Begins

\* Where each phase begins.
LEMMA BeginsTable ==
  /\ Begins(1) = 1 /\ Begins(2) = 2 /\ Begins(3) = 4
  /\ Begins(4) = 5 /\ Begins(5) = 7 /\ Begins(6) = 8
<1>1. \A r \in Slots : r \in {0, 1, 2, 3, 4, 5, 6, 7, 8, 9}
  BY DEF Slots
<1>2. Begins(1) = 1
  BY <1>1, TargetTable, FirstSlot DEF Slots, Phases
<1>3. Begins(2) = 2
  BY <1>1, TargetTable, FirstSlot DEF Slots, Phases
<1>4. Begins(3) = 4
  BY <1>1, TargetTable, FirstSlot DEF Slots, Phases
<1>5. Begins(4) = 5
  BY <1>1, TargetTable, FirstSlot DEF Slots, Phases
<1>6. Begins(5) = 7
  BY <1>1, TargetTable, FirstSlot DEF Slots, Phases
<1>7. Begins(6) = 8
  BY <1>1, TargetTable, FirstSlot DEF Slots, Phases
<1>8. QED
  BY <1>2, <1>3, <1>4, <1>5, <1>6, <1>7

\* Phases begin in the order of their numbers, and those up to the one the
\* clock is in have begun.
LEMMA DayInOrder ==
  /\ \A s \in Slots : Target[s] \in 0..6
  /\ \A p \in Phases : Begins(p) \in Slots
  /\ \A p, q \in Phases : q <= p => Begins(q) <= Begins(p)
  /\ \A p \in Phases, s \in Slots : p <= Target[s] => Begins(p) <= s
<1>1. /\ \A r \in Slots : r \in {0, 1, 2, 3, 4, 5, 6, 7, 8, 9}
      /\ \A p \in Phases : p \in {1, 2, 3, 4, 5, 6}
  BY DEF Slots, Phases
<1>2. QED
  BY <1>1, TargetTable, BeginsTable DEF Slots

\* The loop takes the least of the phases it still has to visit.
LEMMA LeastFirst ==
  ASSUME TypeOK, todo # {}
  PROVE  NextPhase \in todo /\ NextPhase \in Phases /\ \A q \in todo : NextPhase <= q
<1>1. PICK m \in todo : \A q \in todo : m <= q
  <2>1. \A q \in todo : q \in {1, 2, 3, 4, 5, 6}
    BY DEF TypeOK, Phases
  <2>2. CASE 1 \in todo BY <2>1, <2>2
  <2>3. CASE 2 \in todo /\ 1 \notin todo BY <2>1, <2>3
  <2>4. CASE 3 \in todo /\ todo \cap {1, 2} = {} BY <2>1, <2>4
  <2>5. CASE 4 \in todo /\ todo \cap {1, 2, 3} = {} BY <2>1, <2>5
  <2>6. CASE 5 \in todo /\ todo \cap {1, 2, 3, 4} = {} BY <2>1, <2>6
  <2>7. CASE 6 \in todo /\ todo \cap {1, 2, 3, 4, 5} = {} BY <2>1, <2>7
  <2>8. QED BY <2>1, <2>2, <2>3, <2>4, <2>5, <2>6, <2>7
<1>2. QED
  BY <1>1 DEF NextPhase, TypeOK

\* The dictionary of completed phases never holds two, so the row is never set
\* back to IDLE.
LEMMA NeverAllDone == RowSound => ~AllPhasesDone
BY DEF RowSound, AllPhasesDone, PRE_MARKET, MARKET_OPEN

-------------------------------------------------------------------------------
\* The row of a new day.
LEMMA EmptyRow ==
  /\ NewRow \in [phase : 0..6, done : SUBSET Phases, notified : BOOLEAN]
  /\ NewRow.phase = 0 /\ NewRow.done = {} /\ NewRow.notified = FALSE
BY DEF NewRow, IDLE

\* The initial state satisfies every part.
LEMMA InitIInv == Init => IInv
<1> SUFFICES ASSUME Init PROVE IInv
  OBVIOUS
<1> USE EmptyRow DEF Init
<1>1. TypeOK
  <2>1. starts \in [Phases -> Nat] /\ finished \subseteq Phases OBVIOUS
  <2>2. current \in 0..6 /\ (current # 0 <=> pc \in {"handler", "push", "rest"}) OBVIOUS
  <2>3. row \in [phase : 0..6, done : SUBSET Phases, notified : BOOLEAN] BY EmptyRow
  <2>4. slot \in Slots /\ faults \in 0..MaxFaults BY FaultsAssumption DEF Slots
  <2>5. pushes \in Nat /\ boots \in Nat /\ mishaps \in Nat /\ unmarked \in Nat OBVIOUS
  <2>6. settled \in {"open", "done", "failed"} /\ matched \in BOOLEAN /\ matching \in BOOLEAN
    OBVIOUS
  <2>7. QED BY <2>1, <2>2, <2>3, <2>4, <2>5, <2>6 DEF TypeOK
<1>2. ThreadSound /\ RowSound /\ TodoSound /\ StartsBounded
  BY DEF ThreadSound, RowSound, TodoSound, StartsBounded, Phases
<1>3. PushSound /\ SettlementSound
  BY DEF PushSound, SettlementSound, BeforeSettlement, MARKET_OPEN
<1>4. StartedInTurn /\ OncePerProcess /\ MatchAfterSettlement
  BY DEF StartedInTurn, OncePerProcess, MatchAfterSettlement
<1>5. QED
  BY <1>1, <1>2, <1>3, <1>4 DEF IInv

\* Types, with the phase in hand while a handler runs.
LEMMA TypeStep == TypeOK /\ [Next]_vars => TypeOK'
<1> SUFFICES ASSUME TypeOK, [Next]_vars PROVE TypeOK'
  OBVIOUS
<1> USE FaultsAssumption DEF TypeOK, thread, history
<1>1. CASE Advance BY <1>1 DEF Advance, Slots
<1>2. CASE Midnight
  <2>1. starts' \in [Phases -> Nat] /\ finished' \subseteq Phases BY <1>2 DEF Midnight, FreshDay
  <2>2. row' \in [phase : 0..6, done : SUBSET Phases, notified : BOOLEAN]
    BY <1>2, EmptyRow DEF Midnight, FreshDay
  <2>3. slot' \in Slots BY <1>2 DEF Midnight, Slots
  <2>4. pushes' \in Nat /\ boots' \in Nat /\ mishaps' \in Nat /\ unmarked' \in Nat
    BY <1>2 DEF Midnight, FreshDay
  <2>5. settled' \in {"open", "done", "failed"} /\ matched' \in BOOLEAN BY <1>2 DEF Midnight, FreshDay
  <2>6. UNCHANGED <<thread, faults>> BY <1>2 DEF Midnight
  <2>7. QED BY <2>1, <2>2, <2>3, <2>4, <2>5, <2>6
<1>3. CASE Start BY <1>3 DEF Start
<1>4. CASE Tick
  <2>1. CASE row' = [row EXCEPT !.phase = IDLE] /\ UNCHANGED thread
    BY <1>4, <2>1 DEF Tick, IDLE
  <2>2. CASE pc' = "visit" /\ UNCHANGED <<row, current>> /\ todo' = {p \in Phases : Behind(p)}
             /\ matching' = (Target[slot] = MARKET_OPEN /\ slot >= MatchSlot)
    BY <1>4, <2>2 DEF Tick
  <2>3. QED BY <1>4, <2>1, <2>2 DEF Tick
<1>5. CASE Resume BY <1>5 DEF Resume
<1>6. CASE Skip BY <1>6 DEF Skip
<1>7. CASE Begin
  <2>1. NextPhase \in Phases BY <1>7, LeastFirst DEF Begin
  <2>2. QED BY <1>7, <2>1 DEF Begin, Phases
<1>8. CASE CommitFails
  <2>1. unmarked' \in Nat /\ mishaps' \in Nat /\ faults' \in 0..MaxFaults
    BY <1>8 DEF CommitFails, Mishap
  <2>2. settled' \in {"open", "done", "failed"} BY <1>8 DEF CommitFails, Unsettled
  <2>3. current' \in 0..6 /\ (current' # 0 <=> pc' \in {"handler", "push", "rest"})
    BY <1>8 DEF CommitFails
  <2>4. QED BY <1>8, <2>1, <2>2, <2>3 DEF CommitFails
<1>9. CASE SettleT1 BY <1>9 DEF SettleT1
<1>10. CASE Push BY <1>10 DEF Push
<1>11. CASE MarkReviewNotified BY <1>11 DEF MarkReviewNotified, Marked
<1>12. CASE Return
  <2>1. current \in Phases BY <1>12 DEF Return, Phases
  <2>2. Completed(current) \subseteq Phases BY <2>1 DEF Completed
  <2>3. QED BY <1>12, <2>1, <2>2 DEF Return, HandlerEnds
<1>13. CASE Raise BY <1>13 DEF Raise, HandlerEnds, Unsettled
<1>14. CASE End BY <1>14 DEF End
<1>15. CASE Crash
  <2>1. unmarked' \in Nat /\ mishaps' \in Nat /\ faults' \in 0..MaxFaults
    BY <1>15 DEF Crash, Mishap
  <2>2. current' \in 0..6 /\ (current' # 0 <=> pc' \in {"handler", "push", "rest"})
    BY <1>15 DEF Crash
  <2>3. QED BY <1>15, <2>1, <2>2 DEF Crash
<1>16. CASE ResumeLost BY <1>16 DEF ResumeLost, Mishap
<1>17. CASE UNCHANGED vars BY <1>17 DEF vars
<1>18. QED
  BY <1>1, <1>2, <1>3, <1>4, <1>5, <1>6, <1>7, <1>8, <1>9, <1>10, <1>11, <1>12, <1>13,
     <1>14, <1>15, <1>16, <1>17 DEF Next, Step

\* The thread drops what it had in hand when its tick ends, whatever ends it.
LEMMA ThreadStep == IInv /\ [Next]_vars => ThreadSound'
<1> SUFFICES ASSUME TypeOK, ThreadSound, [Next]_vars PROVE ThreadSound'
  BY DEF IInv
<1> USE DEF ThreadSound, TypeOK, thread, history
<1>1. CASE Advance \/ Midnight \/ Start BY <1>1 DEF Advance, Midnight, Start
<1>2. CASE Tick BY <1>2 DEF Tick
<1>3. CASE Resume BY <1>3 DEF Resume
<1>4. CASE Skip BY <1>4 DEF Skip
<1>5. CASE Begin
  <2>1. NextPhase \in Phases BY <1>5, LeastFirst DEF Begin
  <2>2. row'.phase = NextPhase BY <1>5, <2>1 DEF Begin
  <2>3. QED BY <1>5, <2>1, <2>2 DEF Begin
<1>6. CASE ResumeLost \/ CommitFails \/ Crash
  BY <1>6 DEF ResumeLost, CommitFails, Crash
<1>7. CASE SettleT1 BY <1>7 DEF SettleT1
<1>8. CASE Push BY <1>8 DEF Push
<1>9. CASE MarkReviewNotified BY <1>9 DEF MarkReviewNotified, Marked
<1>10. CASE Return \/ Raise BY <1>10 DEF Return, Raise, HandlerEnds
<1>11. CASE End BY <1>11 DEF End
<1>12. CASE UNCHANGED vars BY <1>12 DEF vars
<1>13. QED
  BY <1>1, <1>2, <1>3, <1>4, <1>5, <1>6, <1>7, <1>8, <1>9, <1>10, <1>11, <1>12
     DEF Next, Step

\* A phase is entered in the row together with its start; the first one to be
\* completed stays the only one in the dictionary.
LEMMA RowStep == IInv /\ [Next]_vars => RowSound'
<1> SUFFICES ASSUME TypeOK, RowSound, TodoSound, [Next]_vars PROVE RowSound'
  BY DEF IInv
<1> USE DEF RowSound, TypeOK, thread, history
<1>1. CASE Midnight
  <2>1. row'.phase = 0 /\ row'.done = {} BY <1>1, EmptyRow DEF Midnight, FreshDay
  <2>2. current' = 0 BY <1>1 DEF Midnight
  <2>3. QED BY <2>1, <2>2 DEF Phases
<1>2. CASE Tick
  BY <1>2, NeverAllDone DEF Tick
<1>3. CASE Begin
  <2>1. NextPhase \in todo /\ NextPhase \in Phases /\ \A q \in todo : NextPhase <= q
    BY <1>3, LeastFirst DEF Begin
  <2>2. row'.phase = NextPhase /\ row'.done = row.done /\ current' = NextPhase
    BY <1>3 DEF Begin
  <2>3. \A p \in Phases : /\ starts'[p] \in Nat /\ starts'[p] >= starts[p]
                          /\ p = NextPhase => starts'[p] > 0
    BY <1>3, <2>1 DEF Begin
  <2>4. \A p \in Phases : p < NextPhase => starts[p] > 0
    BY <2>1 DEF TodoSound, Phases
  <2>5. \A p \in Phases : p <= NextPhase \/ p \in row.done => starts'[p] > 0
    BY <2>1, <2>3, <2>4 DEF Phases
  <2>6. QED BY <2>1, <2>2, <2>5
<1>4. CASE Return
  <2>1. current \in Phases /\ current' = 0 BY <1>4 DEF Return, HandlerEnds, Phases
  <2>2. row'.done = Completed(current) /\ row'.phase = row.phase BY <1>4 DEF Return
  <2>3. QED BY <1>4, <2>1, <2>2 DEF Return, Completed, Phases
<1>5. CASE ResumeLost \/ CommitFails \/ Crash
  BY <1>5 DEF ResumeLost, CommitFails, Crash, Phases
<1>6. CASE Raise BY <1>6 DEF Raise, HandlerEnds, Phases
<1>7. CASE MarkReviewNotified BY <1>7 DEF MarkReviewNotified, Marked
<1>8. CASE Resume \/ SettleT1 \/ Push BY <1>8 DEF Resume, SettleT1, Push
<1>9. CASE Advance \/ Start \/ Skip \/ End BY <1>9 DEF Advance, Start, Skip, End
<1>10. CASE UNCHANGED vars BY <1>10 DEF vars
<1>11. QED
  BY <1>1, <1>2, <1>3, <1>4, <1>5, <1>6, <1>7, <1>8, <1>9, <1>10 DEF Next, Step

\* The loop's phases have begun when they are chosen, and stay in turn.
LEMMA TodoStep == IInv /\ [Next]_vars => TodoSound'
<1> SUFFICES ASSUME TypeOK, ThreadSound, RowSound, TodoSound, [Next]_vars PROVE TodoSound'
  BY DEF IInv
<1> USE DEF TypeOK, TodoSound, thread, history
<1>0. \A p \in Phases : Begins(p) \in Nat
  BY DayInOrder DEF Slots
<1>1. CASE Advance BY <1>0, <1>1 DEF Advance, Slots
<1>2. CASE Midnight BY <1>2 DEF Midnight, ThreadSound
<1>3. CASE Tick
  <2>1. CASE UNCHANGED thread
    BY <1>3, <2>1 DEF Tick, ThreadSound
  <2>2. CASE UNCHANGED row /\ todo' = {p \in Phases : Behind(p)}
    <3> SUFFICES ASSUME NEW p \in Phases, Behind(p)
                 PROVE  /\ Begins(p) <= slot
                        /\ p >= row.phase
                        /\ \A q \in 1..(p - 1) : Behind(q) \/ starts[q] > 0
      BY <1>3, <2>2 DEF Tick, Phases
    <3>1. Target[slot] \in 0..6 /\ Begins(p) <= slot BY DayInOrder DEF Behind
    <3>2. QED BY <3>1 DEF Behind, RowSound, Phases
  <2>3. QED BY <1>3, <2>1, <2>2 DEF Tick
<1>4. CASE Resume
  <2>1. CASE UNCHANGED todo BY <1>4, <2>1 DEF Resume, ThreadSound
  <2>2. CASE todo' = {p \in Phases : Resumes(p)}
    <3> SUFFICES ASSUME NEW p \in Phases, Resumes(p)
                 PROVE  \A q \in 1..(p - 1) : Resumes(q) \/ starts[q] > 0
      BY <1>4, <2>2 DEF Resume, Resumes, Phases
    <3>1. \A q \in 1..(p - 1) : q \in Phases /\ Begins(q) <= slot
      BY <1>0, DayInOrder DEF Resumes, Phases, Slots
    <3>2. QED BY <3>1 DEF Resumes, RowSound, Phases
  <2>3. QED BY <1>4, <2>1, <2>2 DEF Resume
<1>5. CASE Skip
  <2>1. NextPhase \in todo /\ \A q \in todo : NextPhase <= q BY <1>5, LeastFirst DEF Skip
  <2>2. starts[NextPhase] > 0 BY <1>5, <2>1 DEF Skip, RowSound
  <2>3. QED BY <1>5, <2>1, <2>2 DEF Skip
<1>6. CASE Begin
  <2>1. NextPhase \in todo /\ NextPhase \in Phases /\ \A q \in todo : NextPhase <= q
    BY <1>6, LeastFirst DEF Begin
  <2>2. row'.phase = NextPhase BY <1>6 DEF Begin
  <2>3. \A p \in Phases : /\ starts'[p] >= starts[p]
                          /\ p = NextPhase => starts'[p] > 0
    BY <1>6, <2>1 DEF Begin
  <2>4. QED BY <1>6, <2>1, <2>2, <2>3 DEF Begin, Phases
<1>7. CASE ResumeLost \/ CommitFails \/ Crash
  BY <1>7 DEF ResumeLost, CommitFails, Crash
<1>8. CASE SettleT1 \/ Push BY <1>8 DEF SettleT1, Push
<1>9. CASE MarkReviewNotified \/ Return \/ Raise
  BY <1>9 DEF MarkReviewNotified, Marked, Return, Raise, HandlerEnds
<1>10. CASE Start \/ End BY <1>10 DEF Start, End
<1>11. CASE UNCHANGED vars BY <1>11 DEF vars
<1>12. QED
  BY <1>1, <1>2, <1>3, <1>4, <1>5, <1>6, <1>7, <1>8, <1>9, <1>10, <1>11 DEF Next, Step

\* A start uses up what the phase may still be started for in this process.
LEMMA StartsStep == IInv /\ [Next]_vars => StartsBounded' /\ OncePerProcess'
<1> SUFFICES ASSUME TypeOK, ThreadSound, RowSound, TodoSound, StartsBounded, OncePerProcess,
                    [Next]_vars
             PROVE  StartsBounded' /\ OncePerProcess'
  BY DEF IInv
<1> USE DEF TypeOK, StartsBounded, OncePerProcess, thread, history
<1>1. CASE Advance BY <1>1 DEF Advance
<1>2. CASE Midnight
  <2>1. \A p \in Phases : starts'[p] = 0 BY <1>2 DEF Midnight, FreshDay
  <2>2. boots' = 0 BY <1>2 DEF Midnight, FreshDay
  <2>3. QED BY <2>1, <2>2
<1>3. CASE Start BY <1>3 DEF Start, ThreadSound
<1>4. CASE Tick
  <2>1. UNCHANGED row BY <1>4, NeverAllDone DEF Tick
  <2>2. QED BY <1>4, <2>1 DEF Tick, Behind
<1>5. CASE Resume BY <1>5 DEF Resume
<1>6. CASE Skip BY <1>6 DEF Skip
<1>7. CASE Begin
  <2>1. NextPhase \in todo /\ NextPhase \in Phases /\ \A q \in todo : NextPhase <= q
    BY <1>7, LeastFirst DEF Begin
  <2>2. row'.phase = NextPhase /\ row.phase <= NextPhase BY <1>7, <2>1 DEF Begin, TodoSound
  <2>3. /\ starts'[NextPhase] = starts[NextPhase] + 1
        /\ \A p \in Phases \ {NextPhase} : starts'[p] = starts[p]
    BY <1>7, <2>1 DEF Begin
  <2>4. starts[NextPhase] <= boots BY <2>1
  <2>5. QED BY <1>7, <2>1, <2>2, <2>3, <2>4 DEF Begin, Phases
<1>8. CASE ResumeLost \/ CommitFails \/ Crash
  BY <1>8 DEF ResumeLost, CommitFails, Crash
<1>9. CASE SettleT1 \/ Push BY <1>9 DEF SettleT1, Push
<1>10. CASE MarkReviewNotified \/ Return \/ Raise
  BY <1>10 DEF MarkReviewNotified, Marked, Return, Raise, HandlerEnds
<1>11. CASE End BY <1>11 DEF End
<1>12. CASE UNCHANGED vars BY <1>12 DEF vars
<1>13. QED
  BY <1>1, <1>2, <1>3, <1>4, <1>5, <1>6, <1>7, <1>8, <1>9, <1>10, <1>11, <1>12
     DEF Next, Step

\* A phase is started as the least of those left, after all that come before it.
LEMMA TurnStep == IInv /\ [Next]_vars => StartedInTurn'
<1> SUFFICES ASSUME TypeOK, TodoSound, StartedInTurn, [Next]_vars PROVE StartedInTurn'
  BY DEF IInv
<1> USE DEF TypeOK, StartedInTurn, thread, history
<1>1. CASE Advance
  <2>1. \A p \in Phases : Begins(p) \in Nat BY DayInOrder DEF Slots
  <2>2. QED BY <1>1, <2>1 DEF Advance, Slots
<1>2. CASE Midnight
  <2>1. \A p \in Phases : starts'[p] = 0 BY <1>2 DEF Midnight, FreshDay
  <2>2. QED BY <2>1
<1>3. CASE Begin
  <2>1. NextPhase \in todo /\ NextPhase \in Phases /\ \A q \in todo : NextPhase <= q
    BY <1>3, LeastFirst DEF Begin
  <2>2. \A p \in Phases : /\ starts'[p] \in Nat /\ starts'[p] >= starts[p]
                          /\ p # NextPhase => starts'[p] = starts[p]
    BY <1>3, <2>1 DEF Begin
  <2>3. Begins(NextPhase) <= slot /\ \A q \in 1..(NextPhase - 1) : starts[q] > 0
    BY <2>1 DEF TodoSound, Phases
  <2>4. SUFFICES ASSUME NEW p \in Phases, starts'[p] > 0
                 PROVE  Begins(p) <= slot /\ \A q \in 1..(p - 1) : starts'[q] > 0
    BY <1>3 DEF Begin
  <2>5. Begins(p) <= slot /\ \A q \in 1..(p - 1) : starts[q] > 0
    BY <2>2, <2>3, <2>4
  <2>6. QED BY <2>2, <2>5 DEF Phases
<1>4. CASE Start \/ Tick \/ Resume \/ Skip \/ SettleT1 \/ Push \/ MarkReviewNotified
  BY <1>4 DEF Start, Tick, Resume, Skip, SettleT1, Push, MarkReviewNotified
<1>5. CASE Return \/ Raise \/ End \/ ResumeLost \/ CommitFails \/ Crash
  BY <1>5 DEF Return, Raise, End, ResumeLost, CommitFails, Crash
<1>6. CASE UNCHANGED vars BY <1>6 DEF vars
<1>7. QED BY <1>1, <1>2, <1>3, <1>4, <1>5, <1>6 DEF Next, Step

\* A push needs an unmarked row; what ends between push and mark is counted.
LEMMA PushStep == IInv /\ [Next]_vars => PushSound'
<1> SUFFICES ASSUME TypeOK, PushSound, [Next]_vars PROVE PushSound'
  BY DEF IInv
<1> USE DEF TypeOK, PushSound, thread, history
<1>1. CASE Midnight BY <1>1, EmptyRow DEF Midnight, FreshDay
<1>2. CASE Tick BY <1>2 DEF Tick
<1>3. CASE Begin BY <1>3 DEF Begin
<1>4. CASE ResumeLost \/ CommitFails \/ Crash
  BY <1>4 DEF ResumeLost, CommitFails, Crash
<1>5. CASE Push BY <1>5 DEF Push
<1>6. CASE MarkReviewNotified BY <1>6 DEF MarkReviewNotified, Marked
<1>7. CASE Return BY <1>7 DEF Return, HandlerEnds
<1>8. CASE Raise BY <1>8 DEF Raise, HandlerEnds
<1>9. CASE Advance \/ Start \/ Resume \/ Skip \/ SettleT1 \/ End
  BY <1>9 DEF Advance, Start, Resume, Skip, SettleT1, End
<1>10. CASE UNCHANGED vars BY <1>10 DEF vars
<1>11. QED
  BY <1>1, <1>2, <1>3, <1>4, <1>5, <1>6, <1>7, <1>8, <1>9, <1>10 DEF Next, Step

\* No step of the day reopens the settlement or takes back a fault.
LEMMA DayGoesOn ==
  ASSUME TypeOK, [Next]_vars, settled' = "open", ~Midnight
  PROVE  settled = "open" /\ mishaps' \in Nat /\ mishaps' >= mishaps
<1> USE DEF TypeOK, thread, history, Unsettled
<1>1. CASE ResumeLost \/ CommitFails \/ Crash
  BY <1>1 DEF ResumeLost, CommitFails, Crash, Mishap
<1>2. CASE SettleT1 \/ Raise \/ Return \/ End BY <1>2 DEF SettleT1, Raise, Return, End
<1>3. CASE Advance \/ Start \/ Tick \/ Resume \/ Skip \/ Begin \/ Push \/ MarkReviewNotified
  BY <1>3 DEF Advance, Start, Tick, Resume, Skip, Begin, Push, MarkReviewNotified
<1>4. CASE UNCHANGED vars BY <1>4 DEF vars
<1>5. QED BY <1>1, <1>2, <1>3, <1>4 DEF Next, Step

\* With one fault at most, only the handler of MARKET_OPEN takes the day beyond an
\* open settlement: a second one would have to end the resume that comes back to it.
LEMMA BeforeStep ==
  ASSUME TypeOK, ThreadSound, RowSound, TodoSound, StartedInTurn, SettlementSound,
         [Next]_vars, settled = "open", settled' = "open", mishaps < 2, mishaps' < 2,
         ~Midnight
  PROVE  BeforeSettlement'
<1>0. /\ BeforeSettlement
      /\ row.phase = MARKET_OPEN /\ ~Settles => mishaps >= 1
      /\ current = MARKET_OPEN => pc = "handler"
  BY DEF SettlementSound
<1> USE DEF TypeOK, BeforeSettlement, SettlementDue, Settles, MARKET_OPEN, thread, history
<1>1. CASE Advance BY <1>0, <1>1 DEF Advance
<1>2. CASE ResumeLost
  <2>1. row.phase # 2 BY <1>0, <1>2 DEF ResumeLost, Mishap
  <2>2. QED BY <1>0, <1>2, <2>1 DEF ResumeLost
<1>3. CASE Start BY <1>0, <1>3 DEF Start
<1>4. CASE Tick
  <2>1. UNCHANGED row BY <1>4, NeverAllDone DEF Tick
  <2>2. CASE UNCHANGED thread BY <1>0, <1>4, <2>1, <2>2 DEF Tick
  <2>3. CASE /\ pc' = "visit" /\ todo' = {p \in Phases : Behind(p)} /\ UNCHANGED current
             /\ matching' = (Target[slot] = 2 /\ slot >= MatchSlot)
    <3>1. row.phase # 2 /\ current # 2 BY <1>0, <1>4, <2>3 DEF Tick, ThreadSound
    <3>2. Target[slot] \in 0..6 /\ (Target[slot] >= 2 => 2 \in todo')
      BY <1>0, <1>4, <2>3, <3>1, DayInOrder DEF Tick, Behind, Phases
    <3>3. \A p \in todo' : p \in Phases /\ p <= Target[slot] BY <2>3 DEF Behind
    <3>4. matching' => 2 \in todo'
      <4>1. matching' => Target[slot] = 2 BY <2>3, Zenon
      <4>2. QED BY <3>2, <4>1
    <3>5. \A p \in todo' : p > 2 => 2 \in todo' BY <3>2, <3>3 DEF Phases
    <3>6. QED BY <1>0, <2>1, <2>3, <3>1, <3>4, <3>5, <1>4 DEF Tick
  <2>4. QED BY <1>4, <2>2, <2>3 DEF Tick, IDLE
<1>5. CASE Resume
  <2>1. CASE row.phase = 0
    BY <1>0, <1>5, <2>1 DEF Resume, IDLE, ThreadSound
  <2>2. CASE pc' = "visit" /\ todo' = {p \in Phases : Resumes(p)} /\ UNCHANGED <<matching, current>>
    <3>1. \A p \in Phases : p >= 2 /\ Resumes(p) => Resumes(2)
      BY <1>0, <1>5, DayInOrder DEF Resume, Resumes, Phases, Slots
    <3>2. row.phase = 2 => 2 \in todo'
      BY <2>2 DEF RowSound, StartedInTurn, Resumes, Phases
    <3>3. ~matching' BY <1>5, <2>2 DEF Resume, ThreadSound
    <3>4. QED BY <1>0, <1>5, <2>2, <3>1, <3>2, <3>3 DEF Resume, Phases
  <2>3. QED BY <1>5, <2>1, <2>2 DEF Resume, IDLE
<1>6. CASE Skip
  <2>1. NextPhase \in todo /\ NextPhase # 2
    BY <1>0, <1>6, LeastFirst DEF Skip
  <2>2. QED BY <1>0, <1>6, <2>1 DEF Skip
<1>7. CASE Begin
  <2>1. NextPhase \in todo /\ NextPhase \in Phases /\ \A q \in todo : NextPhase <= q
    BY <1>7, LeastFirst DEF Begin
  <2>2. row'.phase = NextPhase /\ row'.done = row.done BY <1>7 DEF Begin
  <2>3. QED BY <1>0, <1>7, <2>1, <2>2 DEF Begin, Phases
<1>8. CASE CommitFails
  <2>1. ~Settles BY <1>8 DEF CommitFails, Unsettled
  <2>2. row.phase # 2 BY <1>0, <1>8, <2>1 DEF CommitFails, Mishap
  <2>3. QED BY <1>0, <1>8, <2>2 DEF CommitFails
<1>9. CASE SettleT1 BY <1>9 DEF SettleT1
<1>10. CASE Push BY <1>0, <1>10 DEF Push, REVIEW
<1>11. CASE MarkReviewNotified BY <1>0, <1>11 DEF MarkReviewNotified, Marked
<1>12. CASE Return
  <2>1. current # 2 /\ current \in Phases BY <1>0, <1>12 DEF Return, Phases
  <2>2. row'.phase = row.phase /\ 2 \notin row'.done BY <1>0, <1>12, <2>1 DEF Return, Completed
  <2>3. row.phase # 2 BY <1>12, <2>1 DEF Return, ThreadSound, Phases
  <2>4. QED BY <1>0, <1>12, <2>1, <2>2, <2>3 DEF Return, HandlerEnds
<1>13. CASE Raise
  <2>1. current # 2 /\ current \in Phases BY <1>0, <1>13 DEF Raise, Unsettled, Phases
  <2>2. row.phase # 2 BY <1>13, <2>1 DEF ThreadSound, Phases
  <2>3. QED BY <1>0, <1>13, <2>1, <2>2 DEF Raise, HandlerEnds
<1>14. CASE End BY <1>0, <1>14 DEF End
<1>15. CASE Crash
  <2>1. UNCHANGED row /\ pc' = "down" /\ todo' = {} /\ ~matching' BY <1>15 DEF Crash
  <2>2. QED BY <1>0, <2>1
<1>16. CASE UNCHANGED vars BY <1>0, <1>16 DEF vars
<1>17. QED
  BY <1>1, <1>2, <1>3, <1>4, <1>5, <1>6, <1>7, <1>8, <1>9, <1>10, <1>11, <1>12, <1>13,
     <1>14, <1>15, <1>16 DEF Next, Step

\* The handler of MARKET_OPEN leaves the settlement open only to a fault.
LEMMA SettlesStep ==
  ASSUME TypeOK, ThreadSound, RowSound, SettlementSound, [Next]_vars,
         settled = "open", settled' = "open", ~Midnight
  PROVE  /\ row'.phase = MARKET_OPEN /\ ~Settles' => mishaps' >= 1
         /\ current' = MARKET_OPEN => pc' = "handler"
<1>0. /\ row.phase = MARKET_OPEN /\ ~Settles => mishaps >= 1
      /\ current = MARKET_OPEN => pc = "handler"
  BY DEF SettlementSound
<1> USE <1>0 DEF TypeOK, Settles, MARKET_OPEN, thread, history
<1>1. CASE Tick
  <2>1. UNCHANGED <<row, current, mishaps>> /\ pc = "idle" BY <1>1, NeverAllDone DEF Tick
  <2>2. QED BY <2>1
<1>2. CASE Begin
  <2>1. NextPhase \in Phases /\ row'.phase = NextPhase /\ current' = NextPhase /\ pc' = "handler"
    BY <1>2, LeastFirst DEF Begin
  <2>2. QED BY <2>1
<1>3. CASE ResumeLost \/ CommitFails \/ Crash
  <2>1. mishaps' = mishaps + 1 BY <1>3 DEF ResumeLost, CommitFails, Crash, Mishap
  <2>2. current' = 2 => pc' = "handler" BY <1>3 DEF ResumeLost, CommitFails, Crash
  <2>3. QED BY <2>1, <2>2
<1>4. CASE SettleT1 BY <1>4 DEF SettleT1
<1>5. CASE Return \/ Raise
  <2>1. UNCHANGED mishaps /\ row'.phase = row.phase /\ current' = 0
    BY <1>5 DEF Return, Raise, HandlerEnds
  <2>2. ~Settles BY <1>5 DEF Return, Raise, Unsettled
  <2>3. QED BY <2>1, <2>2
<1>6. CASE Push BY <1>6 DEF Push, REVIEW
<1>7. CASE MarkReviewNotified BY <1>7 DEF MarkReviewNotified, Marked
<1>8. CASE Advance \/ Start \/ Resume \/ Skip \/ End
  BY <1>8 DEF Advance, Start, Resume, Skip, End
<1>9. CASE UNCHANGED vars BY <1>9 DEF vars
<1>10. QED
  BY <1>1, <1>2, <1>3, <1>4, <1>5, <1>6, <1>7, <1>8, <1>9 DEF Next, Step

\* The settlement stays ahead of the day, which a new row begins afresh.
LEMMA SettlementStep == IInv /\ [Next]_vars => SettlementSound'
<1> SUFFICES ASSUME TypeOK, ThreadSound, RowSound, TodoSound, StartedInTurn, SettlementSound,
                    [Next]_vars, settled' = "open"
             PROVE  SettlementSound'
  BY DEF IInv, SettlementSound
<1>1. CASE Midnight
  <2>1. row'.phase = 0 /\ row'.done = {} BY <1>1, EmptyRow DEF Midnight, FreshDay
  <2>2. todo' = {} /\ ~matching' /\ current' = 0
    BY <1>1 DEF Midnight, thread, ThreadSound, TypeOK
  <2>3. QED BY <2>1, <2>2 DEF SettlementSound, BeforeSettlement, MARKET_OPEN
<1>2. CASE ~Midnight
  <2>1. settled = "open" /\ mishaps' \in Nat /\ mishaps' >= mishaps BY <1>2, DayGoesOn
  <2>2. mishaps' < 2 => mishaps < 2 BY <2>1 DEF TypeOK
  <2>3. mishaps' < 2 => BeforeSettlement' BY <1>2, <2>1, <2>2, BeforeStep
  <2>4. QED BY <1>2, <2>1, <2>3, SettlesStep DEF SettlementSound
<1>3. QED BY <1>1, <1>2

\* A matching begins at the end of a tick that left no settlement due, or in the
\* handler that has settled; an attempt is never taken back within the day.
LEMMA MatchStep == IInv /\ [Next]_vars => MatchAfterSettlement'
<1> SUFFICES ASSUME TypeOK, SettlementSound, MatchAfterSettlement, [Next]_vars
             PROVE  MatchAfterSettlement'
  BY DEF IInv
<1> USE DEF TypeOK, MatchAfterSettlement, thread, history
<1>1. CASE Midnight BY <1>1 DEF Midnight, FreshDay
<1>2. CASE ResumeLost \/ CommitFails \/ Crash
  <2>1. mishaps' = mishaps + 1 /\ UNCHANGED matched
    BY <1>2 DEF ResumeLost, CommitFails, Crash, Mishap
  <2>2. settled # "open" => settled' # "open"
    BY <1>2 DEF ResumeLost, CommitFails, Crash, Unsettled
  <2>3. QED BY <2>1, <2>2
<1>3. CASE SettleT1 BY <1>3 DEF SettleT1
<1>4. CASE Return BY <1>4 DEF Return, SettlementSound
<1>5. CASE End
  BY <1>5 DEF End, SettlementSound, BeforeSettlement, SettlementDue
<1>6. CASE Advance \/ Start \/ Tick \/ Resume \/ Skip \/ Begin
  BY <1>6 DEF Advance, Start, Tick, Resume, Skip, Begin
<1>7. CASE Push \/ MarkReviewNotified \/ Raise
  BY <1>7 DEF Push, MarkReviewNotified, Raise, Unsettled
<1>8. CASE UNCHANGED vars BY <1>8 DEF vars
<1>9. QED BY <1>1, <1>2, <1>3, <1>4, <1>5, <1>6, <1>7, <1>8 DEF Next, Step

\* The whole is inductive.
LEMMA Inductive == Spec => []IInv
<1>1. IInv /\ [Next]_vars => IInv'
  BY TypeStep, ThreadStep, RowStep, TodoStep, StartsStep, PushStep, SettlementStep, TurnStep,
     MatchStep DEF IInv
<1>2. QED BY InitIInv, <1>1, PTL DEF Spec

-------------------------------------------------------------------------------
\* The row, the thread and the counters keep their types, and a phase is in hand
\* exactly while a handler runs.
THEOREM TypeCorrect == Spec => []TypeOK
<1>1. IInv => TypeOK BY DEF IInv
<1>2. QED BY Inductive, <1>1, PTL

\* However the process is interrupted and the clock runs on, no phase is started
\* before its window of the day or before an earlier phase.
THEOREM PhasesInTurn == Spec => []StartedInTurn
<1>1. IInv => StartedInTurn BY DEF IInv
<1>2. QED BY Inductive, <1>1, PTL

\* A phase is started at most once per process, though the dictionary of completed
\* phases loses all but the first: the phase in the row alone holds the ticks back.
THEOREM StartedOncePerProcess == Spec => []OncePerProcess
<1>1. IInv => OncePerProcess BY DEF IInv
<1>2. QED BY Inductive, <1>1, PTL

\* The agent is woken once for the review, and once more for each interruption
\* between the push and its mark.
THEOREM ReviewOnce == Spec => []ReviewPushedOnce
<1>1. IInv => ReviewPushedOnce BY DEF IInv, TypeOK, PushSound, ReviewPushedOnce
<1>2. QED BY Inductive, <1>1, PTL

\* Whichever single fault meets a day, none of its orders is matched before the
\* settlement was attempted: the row keeps MARKET_OPEN until a restart comes back
\* to it, and only a second fault ends that resume for good.
THEOREM SettledBeforeMatching == Spec => []MatchAfterSettlement
<1>1. IInv => MatchAfterSettlement BY DEF IInv
<1>2. QED BY Inductive, <1>1, PTL
===============================================================================
