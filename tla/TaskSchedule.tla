----------------------------- MODULE TaskSchedule -----------------------------
(***************************************************************************)
(* Which tasks the running scheduler of agent-os fires, and with what      *)
(* content: the tasks table, the entries of the cron engine, and the map   *)
(* cronEntries that ties them together.                                    *)
(*                                                                         *)
(* The three are changed by HTTP handlers (register, update, pause,        *)
(* resume, delete, orphan cleanup), by the clock-jump recovery, and by the *)
(* command line, which is another process and only sees the table.  The    *)
(* handlers read a task before they take the scheduler's mutex and write   *)
(* the whole row under it; the orphan cleanup deletes without it.          *)
(***************************************************************************)
EXTENDS Naturals, FiniteSets, Functions

CONSTANTS Tasks,      \* task ids; an id is registered at most once
          Clients,    \* concurrent HTTP requests
          Clock,      \* the clock-jump monitor, as a holder of the mutex
          Nobody,     \* the mutex is free
          GoodExprs,  \* cron expressions the parser accepts
          BadExprs,   \* cron expressions it refuses
          NoExpr,     \* the empty expression
          Hooks,      \* webhook urls, standing for all a task says besides its
                      \* schedule (payload, command, service, timeout)
          EntryIds,   \* ids of cron entries, unique within one engine
          NoEntry     \* no id

Exprs == GoodExprs \cup BadExprs \cup {NoExpr}

ASSUME ScheduleAssumption ==
  /\ Clock \notin Clients /\ Nobody \notin Clients \cup {Clock}
  /\ NoExpr \notin GoodExprs \cup BadExprs /\ GoodExprs \cap BadExprs = {}
  /\ NoEntry \notin EntryIds /\ EntryIds # {}

VARIABLES
  db,       \* the table tasks: task -> a set of no row or one row
  born,     \* tasks that have been registered (deleted ones included)
  engine,   \* the entries of the cron engine: what they fire, and for whom
  entries,  \* cronEntries: task -> the id of its entry, or NoEntry
  mutex,    \* holder of s.mu for writing, or Nobody
  req,      \* client -> the request it is in the middle of
  snap,     \* task -> the row the clock recovery has read, if any
  paused,   \* history: tasks paused, and not asked to be enabled since
  unsynced  \* history: tasks enabled behind the back of the cron engine

scheduleVars == <<db, born, engine, entries, mutex, req, snap, paused, unsynced>>

Row == [schedule : Exprs, cron : Exprs, enabled : BOOLEAN, hook : Hooks]

\* schedule, or cron when schedule is empty
ExprOf(row) == IF row.schedule # NoExpr THEN row.schedule ELSE row.cron

\* A table holds for each task {} or {row}.
NoRows == [t \in Tasks |-> {}]

\* GetScheduledTasks
ScheduledRows == [t \in Tasks |-> {row \in db[t] : row.enabled /\ ExprOf(row) # NoExpr}]

\* What cron.AddFunc stores: the parsed expression and the callback, which
\* keeps the task it was made from.
JobOf(t, row, id) == [id |-> id, task |-> t, expr |-> ExprOf(row), hook |-> row.hook]
Jobs == [id : EntryIds, task : Tasks, expr : GoodExprs, hook : Hooks]

Idle == [stage |-> "idle"]
Finish(c) == req' = [req EXCEPT ![c] = Idle]
Free == mutex = Nobody

-------------------------------------------------------------------------------
(* Building the schedule from the table: at start, and after a clock jump. *)

\* Mutant: the error of AddFunc is not looked at.
ParsedOrNot(rows) == {t \in Tasks : \E row \in rows[t] : ExprOf(row) # NoExpr}

\* The tasks whose row parses.
Parsed(rows) == {t \in Tasks : \E row \in rows[t] : ExprOf(row) \in GoodExprs}

\* A new engine, which numbers its entries afresh, and a new map.
EngineOf(rows, ids) == UNION {{JobOf(t, row, ids[t]) : row \in rows[t]} : t \in DOMAIN ids}
EntriesOf(ids) == [t \in Tasks |-> IF t \in DOMAIN ids THEN ids[t] ELSE NoEntry]

BuildFrom(rows) ==
  \E ids \in Injection(Parsed(rows), EntryIds) :
    /\ engine' = EngineOf(rows, ids)
    /\ entries' = EntriesOf(ids)

\* Start of the process, or a restart after a crash: requests in progress are
\* gone, rows that do not parse are skipped.
Restart ==
  /\ BuildFrom(ScheduledRows)
  /\ mutex' = Nobody
  /\ req' = [c \in Clients |-> Idle]
  /\ snap' = NoRows
  /\ unsynced' = {}
  /\ UNCHANGED <<db, born, paused>>

\* Mutant: the recovery looks at the column schedule alone.
RecoverReadSchedule ==
  /\ Free
  /\ mutex' = Clock
  /\ snap' = [t \in Tasks |-> {row \in ScheduledRows[t] : row.schedule # NoExpr}]
  /\ UNCHANGED <<db, born, engine, entries, req, paused, unsynced>>

\* recoverFutureSchedule takes the mutex and reads the rows ...
RecoverRead ==
  /\ Free
  /\ mutex' = Clock
  /\ snap' = ScheduledRows
  /\ UNCHANGED <<db, born, engine, entries, req, paused, unsynced>>

\* ... and rebuildCronLocked replaces the engine if every one of them parses.
AllParse(rows) == \A t \in Tasks : \A row \in rows[t] : ExprOf(row) \in GoodExprs

RecoverSwap ==
  /\ mutex = Clock
  /\ IF AllParse(snap)
     THEN /\ BuildFrom(snap)
          /\ unsynced' = {t \in unsynced : snap[t] = {}}
     ELSE UNCHANGED <<engine, entries, unsynced>>
  /\ mutex' = Nobody
  /\ snap' = NoRows
  /\ UNCHANGED <<db, born, req, paused>>

-------------------------------------------------------------------------------
(* Requests.  A request holds the row it wants to write; "place" is the     *)
(* stage in which it holds the mutex and still has to call scheduleTask.    *)

\* POST /scheduler/tasks: handleRegisterTask sets schedule and cron alike.
\* RegisterTask inserts the row; the entry follows if there is one to make.
Register(c, t, row) ==
  /\ req[c] = Idle /\ Free
  /\ t \notin born
  /\ row.schedule = row.cron
  /\ born' = born \cup {t}
  /\ db' = [db EXCEPT ![t] = {row}]
  /\ IF row.enabled /\ row.schedule # NoExpr
     THEN /\ mutex' = c
          /\ req' = [req EXCEPT ![c] = [stage |-> "place", task |-> t, row |-> row]]
     ELSE UNCHANGED <<mutex, req>>
  /\ UNCHANGED <<engine, entries, snap, paused, unsynced>>

\* PUT /scheduler/tasks/{id}, pause and resume: the handler reads the row
\* without the mutex and changes the fields the request names.
Edits == [field : {"cron"}, value : Exprs]
           \cup [field : {"hook"}, value : Hooks]
           \cup [field : {"enabled"}, value : BOOLEAN]

Edited(row, e) ==
  CASE e.field = "cron" -> [row EXCEPT !.cron = e.value, !.schedule = e.value]
    [] e.field = "hook" -> [row EXCEPT !.hook = e.value]
    [] e.field = "enabled" -> [row EXCEPT !.enabled = e.value]

ReadTask(c, t, e) ==
  /\ req[c] = Idle
  /\ \E row \in db[t] :
       req' = [req EXCEPT ![c] = [stage |-> "write", task |-> t, row |-> Edited(row, e), edit |-> e]]
  /\ UNCHANGED <<db, born, engine, entries, mutex, snap, paused, unsynced>>

\* Mutant: the entry is replaced when the request is about the schedule.
ReschedulesByRequest(old, new, edit) == edit.field # "hook"

\* Reschedule if the schedule or the enabled flag changed.
Reschedules(old, new, edit) == old.schedule # new.schedule \/ old.enabled # new.enabled

\* UpdateTask takes the mutex, reads the row again, and writes all of the
\* handler's copy over it; an entry is replaced only if the schedule or the
\* enabled flag differs from the row just read.  The row may be gone by now,
\* or the write may fail (ok = FALSE): then nothing changes.
UpdateRow(c, ok) ==
  /\ req[c].stage = "write" /\ Free
  /\ LET t == req[c].task
         new == req[c].row
         edit == req[c].edit IN
     IF db[t] = {} \/ ~ ok
     THEN Finish(c) /\ UNCHANGED <<db, mutex, paused>>
     ELSE /\ db' = [db EXCEPT ![t] = {new}]
          /\ IF \E old \in db[t] : Reschedules(old, new, edit)
             THEN /\ mutex' = c
                  /\ req' = [req EXCEPT ![c] = [stage |-> "place", task |-> t, row |-> new]]
             ELSE Finish(c) /\ UNCHANGED mutex
          /\ paused' = IF edit.field # "enabled" THEN paused
                       ELSE IF edit.value THEN paused \ {t} ELSE paused \cup {t}
  /\ UNCHANGED <<born, engine, entries, snap, unsynced>>

\* Mutant: the entry stays in the engine.
WithoutNothing(t) == engine

\* The entry the map names for t is taken out of the engine.
Without(t) == {e \in engine : e.id # entries[t]}

\* The rest of UpdateTask and RegisterTask: the old entry is removed, and
\* scheduleTask adds the new one unless the expression does not parse.
PlaceJob(c) ==
  /\ req[c].stage = "place"
  /\ LET t == req[c].task
         row == req[c].row IN
     /\ IF row.enabled /\ row.schedule \in GoodExprs
        THEN \E id \in EntryIds :
               /\ \A e \in Without(t) : e.id # id
               /\ engine' = Without(t) \cup {JobOf(t, row, id)}
               /\ entries' = [entries EXCEPT ![t] = id]
        ELSE /\ engine' = Without(t)
             /\ entries' = [entries EXCEPT ![t] = NoEntry]
     /\ unsynced' = unsynced \ {t}
  /\ mutex' = Nobody
  /\ Finish(c)
  /\ UNCHANGED <<db, born, snap, paused>>

\* DELETE /scheduler/tasks/{id}: the entry goes first, then the row; if the
\* second fails the task stays, enabled and without an entry.
DeleteTask(t, ok) ==
  /\ Free
  /\ engine' = Without(t)
  /\ entries' = [entries EXCEPT ![t] = NoEntry]
  /\ db' = IF ok THEN [db EXCEPT ![t] = {}] ELSE db
  /\ unsynced' = IF ok THEN unsynced \ {t} ELSE unsynced \cup {t}
  /\ UNCHANGED <<born, mutex, req, snap, paused>>

\* DELETE /scheduler/orphaned-tasks/{id}: CleanupOrphanedTask looks into
\* cronEntries under the read lock ...
CleanupCheck(c, t) ==
  /\ req[c] = Idle /\ Free
  /\ t \in born
  /\ entries[t] = NoEntry
  /\ req' = [req EXCEPT ![c] = [stage |-> "cleanup", task |-> t]]
  /\ UNCHANGED <<db, born, engine, entries, mutex, snap, paused, unsynced>>

\* ... and deletes the row after it has let go of the lock.
CleanupDelete(c) ==
  /\ req[c].stage = "cleanup"
  /\ db' = [db EXCEPT ![req[c].task] = {}]
  /\ Finish(c)
  /\ UNCHANGED <<born, engine, entries, mutex, snap, paused, unsynced>>

\* agent-os scheduler register / delete, run from a shell: only the table is
\* changed (the schedule column alone on register).
CliRegister(t, row) ==
  /\ t \notin born
  /\ row.cron = NoExpr
  /\ born' = born \cup {t}
  /\ db' = [db EXCEPT ![t] = {row}]
  /\ unsynced' = unsynced \cup {t}
  /\ UNCHANGED <<engine, entries, mutex, req, snap, paused>>

CliDelete(t) ==
  /\ db[t] # {}
  /\ db' = [db EXCEPT ![t] = {}]
  /\ UNCHANGED <<born, engine, entries, mutex, req, snap, paused, unsynced>>
-------------------------------------------------------------------------------
\* A row without schedule can only have been inserted into the table by hand.
HandmadeRows == {row \in Row : row.schedule = NoExpr /\ row.cron \in GoodExprs}

\* The process has just started, on a table that is empty or holds rows
\* inserted by hand.
ScheduleInit ==
  /\ db \in [Tasks -> {{}} \cup {{row} : row \in HandmadeRows}]
  /\ born = {t \in Tasks : db[t] # {}}
  /\ \E ids \in Injection(Parsed(ScheduledRows), EntryIds) :
       engine = EngineOf(ScheduledRows, ids) /\ entries = EntriesOf(ids)
  /\ mutex = Nobody
  /\ req = [c \in Clients |-> Idle]
  /\ snap = NoRows
  /\ paused = {}
  /\ unsynced = {}

ScheduleNext ==
  \/ Restart \/ RecoverRead \/ RecoverSwap
  \/ \E c \in Clients, t \in Tasks :
       \/ \E row \in Row : Register(c, t, row)
       \/ \E e \in Edits : ReadTask(c, t, e)
       \/ CleanupCheck(c, t)
  \/ \E c \in Clients : \/ \E ok \in BOOLEAN : UpdateRow(c, ok)
                        \/ PlaceJob(c) \/ CleanupDelete(c)
  \/ \E t \in Tasks : \/ \E ok \in BOOLEAN : DeleteTask(t, ok)
                      \/ \E row \in Row : CliRegister(t, row)
                      \/ CliDelete(t)

ScheduleSpec == ScheduleInit /\ [][ScheduleNext]_scheduleVars

-------------------------------------------------------------------------------
Requests == {Idle} \cup [stage : {"place"}, task : Tasks, row : Row]
              \cup [stage : {"write"}, task : Tasks, row : Row, edit : Edits]
              \cup [stage : {"cleanup"}, task : Tasks]

\* A table column holds at most one row for each task.
Tables == [Tasks -> {{}} \cup {{row} : row \in Row}]

\* Every variable keeps its type.
ScheduleTypeOK ==
  /\ db \in Tables /\ snap \in Tables
  /\ born \in SUBSET Tasks /\ paused \in SUBSET Tasks /\ unsynced \in SUBSET Tasks
  /\ engine \in SUBSET Jobs
  /\ entries \in [Tasks -> EntryIds \cup {NoEntry}]
  /\ mutex \in Clients \cup {Clock, Nobody}
  /\ req \in [Clients -> Requests]

\* The engine holds exactly the entries that cronEntries names, one for a
\* task: an entry the map does not know could never be removed and would fire
\* a paused or deleted task forever.  This holds at every step, also while a
\* recovery has swapped in an engine that numbers its entries afresh.
EntriesMatchEngine ==
  /\ \A e \in engine : entries[e.task] = e.id
  /\ \A t \in Tasks : entries[t] # NoEntry => \E e \in engine : e.id = entries[t] /\ e.task = t

JobsFor(t) == {e \in engine : e.task = t}

\* Once the mutex is free, a task that the table says is disabled is not
\* scheduled, however the edits, pauses and recoveries before were interleaved.
DisabledNotScheduled ==
  Free => \A t \in Tasks : \A row \in db[t] : ~ row.enabled => JobsFor(t) = {}

\* Once the mutex is free, a scheduled task fires at the times its row says,
\* also after a request that wrote a stale copy of the row back (UpdateTask
\* compares with the row it reads again under the mutex).
ExprIsCurrent ==
  Free => \A t \in Tasks : \A row \in db[t] :
            ExprOf(row) # NoExpr => \A e \in JobsFor(t) : e.expr = ExprOf(row)

\* Once the mutex is free, an enabled task whose schedule parses is in the
\* engine, except one enabled by another process or left by a failed delete.
EnabledIsScheduled ==
  Free => \A t \in Tasks \ unsynced : \A row \in db[t] :
            (row.enabled /\ row.schedule \in GoodExprs) => JobsFor(t) # {}

\* What the table says is what the engine does, whenever no request or recovery
\* holds the mutex.
RowsDecide == DisabledNotScheduled /\ ExprIsCurrent /\ EnabledIsScheduled

\* "A recovery must not make tasks disappear": whether it swaps the engine or,
\* because some expression does not parse, keeps the old one, no task that is
\* still to be scheduled loses its entry.
RecoveryNeverDrops ==
  [][mutex = Clock =>
       \A t \in Tasks : \A row \in db'[t] :
         (row.enabled /\ ExprOf(row) # NoExpr /\ JobsFor(t) # {}) => JobsFor(t)' # {}]_scheduleVars

-------------------------------------------------------------------------------
(* Statements of the repository that the code does not keep. *)

\* scheduler.go: UpdateTask updates an existing task, and the callback is one
\* for the normal and the recovery path so that the two do not drift apart.
\* What an entry fires is what the row says.
HookIsCurrent ==
  Free => \A t \in Tasks : \A row \in db[t], e \in JobsFor(t) : e.hook = row.hook

\* scheduler_handler.go: handlePauseTask pauses a task (disables it); it stays
\* so until somebody asks for it to be enabled.
PauseSticks == \A t \in paused : \A row \in db[t] : ~ row.enabled
===============================================================================
