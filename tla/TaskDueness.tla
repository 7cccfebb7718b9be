----------------------------- MODULE TaskDueness -----------------------------
(***************************************************************************)
(* When src/modules/tasks/application/scheduler.ts runs a task on its own: *)
(* the freshness it reads from the run history, the slot a task claims in  *)
(* memory (lastScheduledAt), the calendar cursors that outlive the         *)
(* process, the shared timer, its tick, and the delayed startup sweep.     *)
(* The history is the store of sqlite-task-run-repository.server.ts: rows  *)
(* are replaced by run id and only the newest ones are kept.               *)
(*                                                                         *)
(* A run starts as soon as it is queued (TaskRuntime models the queue and  *)
(* the budget), scheduleNext is one step (TaskScheduler models what        *)
(* crosses it), and at startup every snapshot already exists, so that no   *)
(* startup run is awaited.  Of a row, the finish time is kept for a        *)
(* success only: nothing reads the others.                                 *)
(***************************************************************************)
EXTENDS Naturals, Sequences, FiniteSetsExt, SequencesExt

CONSTANTS
    Catalog,      \* the tasks, in the order the scheduler looks at them
    Calendar,     \* tasks with a daily schedule; the others have an interval
    Startup,      \* tasks with startupPolicy "if-stale"
    Period,       \* the interval, and the length of a day
    Grace,        \* startupSweepDelayMs
    MaxEntries,   \* rows the history keeps
    MaxTime,      \* bounds: time, runs and skips per process, and upsets:
    MaxRuns,      \*   exits, preference updates, failed reads and writes
    MaxUpsets     \*   of the store

Task == Range(Catalog)

ASSUME DuenessAssumption ==
    /\ Calendar \subseteq Task /\ Startup \subseteq Task
    /\ Catalog \in Seq(Task)
    /\ {Period, MaxEntries} \subseteq Nat \ {0}
    /\ {Grace, MaxTime, MaxRuns, MaxUpsets} \subseteq Nat

Never == 0      \* no time; the clock starts at 1
NoTick == [i |-> 0, at |-> Never, step |-> "read"]

VARIABLES
    now,
    enabled,     \* preferences: the enabled tasks
    rows,        \* task_runs in the order of rowid
    cursor,      \* nextRunAt of the stored calendar cursors
    up,          \* the process runs and its scheduler has started
    sequence,    \* the counter of run ids
    scheduled,   \* lastScheduledAt
    active,      \* the run id a task executes, or 0
    stopping,    \* tasks whose final row is stored and that still are active
    timer,       \* when the shared timer fires
    tick,        \* a tick in progress: the task it is at, when it fired, and
                 \*   whether it reads or, found due, is about to be run
    rearm,       \* start() or refresh() is about to call scheduleNext
    refreshing,  \* updatePreference has stored and not refreshed yet
    sweep,       \* when the delayed startup sweep fires
    sweeping,    \* it has fired and is under way
    delayed,     \* the tasks left to it
    lastGood,    \* history: the newest success of each task
    upsets       \* history: the upsets so far

stored == <<enabled, rows, cursor>>
claims == <<scheduled, delayed>>
timers == <<timer, tick, rearm, sweep, sweeping>>
vars == <<now, stored, up, sequence, active, stopping, claims, timers,
          refreshing, lastGood, upsets>>

Time == Nat     \* a time, or Never

Row == [id : {"run", "skip"} \X Nat, task : Task, at : Time, fin : Time,
        status : {"running", "succeeded", "failed", "skipped", "abandoned"}]

TypeOK ==
    /\ now \in Time \ {Never} /\ up \in BOOLEAN
    /\ enabled \subseteq Task /\ cursor \in [Calendar -> Time]
    /\ rows \in Seq(Row) /\ Len(rows) <= MaxEntries
    /\ sequence \in Nat /\ active \in [Task -> Nat]
    /\ scheduled \in [Task -> Time] /\ delayed \subseteq Startup
    /\ timer \in Time /\ sweep \in Time
    /\ tick \in [i : 0..Len(Catalog) + 1, at : Time, step : {"read", "run"}]
    /\ rearm \in BOOLEAN /\ refreshing \in BOOLEAN /\ sweeping \in BOOLEAN
    /\ stopping \subseteq Task
    /\ lastGood \in [Task -> Time] /\ upsets \in Nat

-----------------------------------------------------------------------------
(* Schedules and freshness.                                                *)

Next1(t, from) ==
    IF t \in Calendar THEN (from \div Period + 1) * Period ELSE from + Period

Successes(t) ==
    {i \in DOMAIN rows : rows[i].task = t /\ rows[i].status = "succeeded"}

LastSuccess(t) == Max({rows[i].fin : i \in Successes(t)} \union {Never})

Fresh(t, at) == LastSuccess(t) # Never /\ Next1(t, LastSuccess(t)) > at

IsDue(t, at) ==
    /\ t \in enabled
    /\ ~(scheduled[t] # Never /\ Next1(t, scheduled[t]) > at)
    /\ ~Fresh(t, at)

Base(t) == Max({scheduled[t], LastSuccess(t)})

-----------------------------------------------------------------------------
(* The run history.                                                        *)

Upsert(rs, row) ==
    IF \E i \in DOMAIN rs : rs[i].id = row.id
    THEN [i \in DOMAIN rs |-> IF rs[i].id = row.id THEN row ELSE rs[i]]
    ELSE Append(rs, row)

Compact(rs) ==
    IF Len(rs) <= MaxEntries THEN rs
    ELSE RemoveAt(rs, CHOOSE i \in DOMAIN rs :
             \A j \in DOMAIN rs \ {i} :
                 rs[j].at > rs[i].at \/ (rs[j].at = rs[i].at /\ j > i))

Store(row) == rows' = Compact(Upsert(rows, row))

(* Mutant of RunNow: a busy task is run a second time.                     *)
RunNowAgain(t) ==
    /\ sequence < MaxRuns
    /\ sequence' = sequence + 1
    /\ Store([id |-> <<"run", sequence'>>, task |-> t,
              status |-> "running", at |-> now, fin |-> Never])
    /\ active' = [active EXCEPT ![t] = sequence']

(* runNow: a second run of a busy task is recorded as skipped.             *)
RunNow(t) ==
    /\ sequence < MaxRuns
    /\ sequence' = sequence + 1
    /\ IF active[t] # 0
       THEN /\ Store([id |-> <<"skip", sequence'>>, task |-> t,
                      status |-> "skipped", at |-> now, fin |-> Never])
            /\ UNCHANGED active
       ELSE /\ Store([id |-> <<"run", sequence'>>, task |-> t,
                      status |-> "running", at |-> now, fin |-> Never])
            /\ active' = [active EXCEPT ![t] = sequence']

(* The executor of t returns, throws or is cancelled: its row is stored,   *)
(* and only then (execute's finally) is the task free for another run.     *)
Finish(t, status) ==
    LET id == <<"run", active[t]>>
        at == IF \E i \in DOMAIN rows : rows[i].id = id
              THEN rows[CHOOSE i \in DOMAIN rows : rows[i].id = id].at
              ELSE now
    IN /\ up /\ active[t] # 0 /\ t \notin stopping
       /\ Store([id |-> id, task |-> t, status |-> status,
                 at |-> at,
                 fin |-> IF status = "succeeded" THEN now ELSE Never])
       /\ stopping' = stopping \union {t}
       /\ lastGood' = IF status = "succeeded"
                      THEN [lastGood EXCEPT ![t] = now] ELSE lastGood
       /\ UNCHANGED <<now, enabled, cursor, up, sequence, active, claims,
                      timers, refreshing, upsets>>

(* What follows a stored row, and a sweep from one task to the next, waits *)
(* for nothing but the synchronous store: no timer fires and no request    *)
(* comes in before it ends.                                                *)
Settled == stopping = {} /\ ~sweeping

(* Between the list a tick has read and its runNow lie fewer turns of the  *)
(* microtask queue than between a row stored behind that list (withRuns is *)
(* first come, first served) and its task's leaving active; for a row      *)
(* stored before the list, leaving now or before the list is the same.     *)
Deciding(t) == tick.step = "run" /\ Catalog[tick.i] = t

Freed(t) ==
    /\ t \in stopping /\ ~Deciding(t)
    /\ stopping' = stopping \ {t}
    /\ active' = [active EXCEPT ![t] = 0]
    /\ UNCHANGED <<now, stored, up, sequence, claims, timers, refreshing,
                   lastGood, upsets>>

ManualRun(t) ==
    /\ up /\ Settled
    /\ RunNow(t)
    /\ UNCHANGED <<now, enabled, cursor, up, stopping, claims, timers,
                   refreshing, lastGood, upsets>>

-----------------------------------------------------------------------------
(* scheduleNext.                                                           *)

(* An occurrence armed earlier has passed and nothing ran for it.          *)
CatchUpAnyway(t) ==    \* mutant of CatchUp: freshness is not looked at
    /\ t \in Calendar
    /\ cursor[t] # Never /\ cursor[t] <= now
    /\ scheduled[t] < cursor[t]

CatchUp(t) ==
    /\ t \in Calendar
    /\ cursor[t] # Never /\ cursor[t] <= now
    /\ ~Fresh(t, now)
    /\ scheduled[t] < cursor[t]

Candidate(t) ==
    CASE CatchUp(t) -> now
      [] ~CatchUp(t) /\ Base(t) # Never -> Next1(t, Base(t))
      [] ~CatchUp(t) /\ Base(t) = Never /\ t \in Startup \ Calendar -> now
      [] OTHER -> Next1(t, now)

(* Mutant of NextCursor: an overdue occurrence is moved on.                *)
NextCursorOn(t) ==
    IF t \notin enabled THEN Never ELSE Next1(t, now)

NextCursor(t) ==
    CASE t \notin enabled -> Never
      [] t \in enabled /\ ~CatchUp(t) /\ Candidate(t) > now -> Candidate(t)
      [] OTHER -> cursor[t]

ScheduleNext ==
    /\ rearm \/ tick.i > Len(Catalog)
    /\ rearm' = FALSE /\ tick' = NoTick
    /\ timer' = IF enabled = {} THEN Never
                ELSE Max({now, Min({Candidate(t) : t \in enabled})})
    /\ cursor' = [t \in Calendar |-> NextCursor(t)]
    /\ UNCHANGED <<now, enabled, rows, up, sequence, active, stopping, claims,
                   sweep, sweeping, refreshing, lastGood, upsets>>

-----------------------------------------------------------------------------
(* The shared timer and its tick, one task after the other.                *)

TimerFires ==
    /\ up /\ timer # Never /\ timer <= now /\ Settled
    /\ timer' = Never
    /\ tick' = [i |-> 1, at |-> now, step |-> "read"]
    /\ UNCHANGED <<now, stored, up, sequence, active, stopping, claims, rearm,
                   sweep, sweeping, refreshing, lastGood, upsets>>

Reads == tick.i \in 1..Len(Catalog) /\ tick.step = "read"

(* isDue, which ends in a read of the rows of the task.                    *)
TickReads ==
    /\ Reads
    /\ tick' = IF IsDue(Catalog[tick.i], tick.at)
               THEN [tick EXCEPT !.step = "run"]
               ELSE [tick EXCEPT !.i = @ + 1]
    /\ UNCHANGED <<now, stored, up, sequence, active, stopping, claims, timer,
                   rearm, sweep, sweeping, refreshing, lastGood, upsets>>

(* The preference or the rows cannot be read: the task is passed over.     *)
TickSkips ==
    /\ Reads /\ upsets < MaxUpsets
    /\ upsets' = upsets + 1
    /\ tick' = [tick EXCEPT !.i = @ + 1]
    /\ UNCHANGED <<now, stored, up, sequence, active, stopping, claims, timer,
                   rearm, sweep, sweeping, refreshing, lastGood>>

(* What was found due is run, whatever has happened since the read.        *)
TickTask ==
    /\ tick.i \in 1..Len(Catalog) /\ tick.step = "run"
    /\ tick' = [tick EXCEPT !.step = "read", !.i = tick.i + 1]
    /\ scheduled' = [scheduled EXCEPT ![Catalog[tick.i]] = tick.at]
    /\ RunNow(Catalog[tick.i])
    /\ UNCHANGED <<now, enabled, cursor, up, stopping, delayed, timer, rearm,
                   sweep, sweeping, refreshing, lastGood, upsets>>

(* Mutant of TickFails: nothing is armed again.                            *)
TickFailsForGood ==
    /\ tick.i \in 1..Len(Catalog) /\ tick.step = "run"
    /\ upsets < MaxUpsets /\ now < MaxTime
    /\ upsets' = upsets + 1
    /\ scheduled' = [scheduled EXCEPT ![Catalog[tick.i]] = Never]
    /\ sequence < MaxRuns /\ sequence' = sequence + 1
    /\ timer' = Never
    /\ tick' = NoTick
    /\ UNCHANGED <<now, stored, up, active, stopping, delayed, rearm, sweep,
                   sweeping, refreshing, lastGood>>

(* The row cannot be stored: the task gives its slot back and the tick     *)
(* comes again a little later (TICK_RETRY_DELAY_MS).                       *)
TickFails ==
    /\ tick.i \in 1..Len(Catalog) /\ tick.step = "run"
    /\ upsets < MaxUpsets /\ now < MaxTime
    /\ upsets' = upsets + 1
    /\ scheduled' = [scheduled EXCEPT ![Catalog[tick.i]] = Never]
    /\ sequence < MaxRuns /\ sequence' = sequence + 1
    /\ timer' = now + 1
    /\ tick' = NoTick
    /\ UNCHANGED <<now, stored, up, active, stopping, delayed, rearm, sweep,
                   sweeping, refreshing, lastGood>>

-----------------------------------------------------------------------------
(* start(), the delayed sweep, refresh() and the end of the process.       *)

(* recoverRunning, and a claim on every startup task that is due.          *)
Start ==
    /\ ~up
    /\ up' = TRUE
    /\ rows' = [i \in DOMAIN rows |->
                   IF rows[i].status = "running"
                   THEN [rows[i] EXCEPT !.status = "abandoned"]
                   ELSE rows[i]]
    /\ delayed' = {t \in Startup : IsDue(t, now)}
    /\ scheduled' = [t \in Task |-> IF t \in delayed' THEN now
                                    ELSE scheduled[t]]
    /\ sweep' = IF delayed' = {} THEN Never ELSE now + Grace
    /\ rearm' = TRUE
    /\ UNCHANGED <<now, enabled, cursor, sequence, active, stopping, timer,
                   tick, sweeping, refreshing, lastGood, upsets>>

(* The grace timer fires, and runs what it was left, due or not by now:    *)
(* the clock stands still until the last one, so now is its fireAt.        *)
SweepFires ==
    /\ up /\ sweep # Never /\ sweep <= now /\ Settled
    /\ sweep' = Never
    /\ sweeping' = TRUE
    /\ UNCHANGED <<now, stored, up, sequence, active, stopping, claims, timer,
                   tick, rearm, refreshing, lastGood, upsets>>

SweepTask ==
    /\ sweeping
    /\ \E t \in delayed :
          /\ scheduled' = [scheduled EXCEPT ![t] = now]
          /\ RunNow(t)
          /\ delayed' = delayed \ {t}
    /\ sweeping' = (delayed' # {})
    /\ UNCHANGED <<now, enabled, cursor, up, stopping, timer, tick, rearm,
                   sweep, refreshing, lastGood, upsets>>

(* A row cannot be stored: the task keeps its slot, the others are left.   *)
SweepFails ==
    /\ sweeping /\ upsets < MaxUpsets
    /\ upsets' = upsets + 1
    /\ sequence < MaxRuns /\ sequence' = sequence + 1
    /\ \E t \in delayed : scheduled' = [scheduled EXCEPT ![t] = now]
    /\ delayed' = {} /\ sweeping' = FALSE
    /\ UNCHANGED <<now, stored, up, active, stopping, timer, tick, rearm,
                   sweep, refreshing, lastGood>>

(* updatePreference: the store first, ...                                  *)
UpdatePreference(t) ==
    /\ up /\ Settled /\ ~refreshing /\ upsets < MaxUpsets
    /\ enabled' = IF t \in enabled THEN enabled \ {t} ELSE enabled \union {t}
    /\ refreshing' = TRUE
    /\ upsets' = upsets + 1
    /\ UNCHANGED <<now, rows, cursor, up, sequence, active, stopping, claims,
                   timers, lastGood>>

(* ... then refresh(): a new lifecycle, in which the tick, the grace timer *)
(* and its sweep of the old one do nothing; the claims stay.               *)
Refresh ==
    /\ up /\ refreshing
    /\ refreshing' = FALSE
    /\ timer' = Never /\ tick' = NoTick /\ rearm' = TRUE
    /\ sweep' = Never /\ sweeping' = FALSE
    /\ delayed' = {}
    /\ UNCHANGED <<now, stored, up, sequence, active, stopping, scheduled,
                   lastGood, upsets>>

(* The process ends: the store is what is left.                            *)
Exit ==
    /\ up /\ upsets < MaxUpsets
    /\ upsets' = upsets + 1
    /\ up' = FALSE
    /\ sequence' = 0
    /\ scheduled' = [t \in Task |-> Never] /\ delayed' = {}
    /\ active' = [t \in Task |-> 0] /\ stopping' = {}
    /\ timer' = Never /\ tick' = NoTick /\ rearm' = FALSE
    /\ sweep' = Never /\ sweeping' = FALSE
    /\ refreshing' = FALSE
    /\ UNCHANGED <<now, stored, lastGood>>

TimePasses ==
    /\ now < MaxTime /\ Settled
    /\ now' = now + 1
    /\ UNCHANGED <<stored, up, sequence, active, stopping, claims, timers,
                   refreshing, lastGood, upsets>>

-----------------------------------------------------------------------------

Init ==
    /\ now = 1
    /\ enabled \in SUBSET Task
    /\ rows = <<>> /\ cursor = [t \in Calendar |-> Never]
    /\ up = FALSE /\ sequence = 0
    /\ scheduled = [t \in Task |-> Never] /\ delayed = {}
    /\ active = [t \in Task |-> 0] /\ stopping = {}
    /\ timer = Never /\ tick = NoTick /\ rearm = FALSE
    /\ sweep = Never /\ sweeping = FALSE
    /\ refreshing = FALSE
    /\ lastGood = [t \in Task |-> Never]
    /\ upsets = 0

TimerStep ==
    TimerFires \/ TickReads \/ TickTask \/ ScheduleNext \/ SweepFires \/ SweepTask

Rejected == TickSkips \/ TickFails \/ SweepFails

Next ==
    \/ Start \/ Exit \/ TimePasses
    \/ TimerStep \/ Rejected
    \/ \E t \in Task :
          \/ ManualRun(t) \/ UpdatePreference(t) \/ Freed(t)
          \/ \E status \in {"succeeded", "failed"} : Finish(t, status)
    \/ Refresh

Spec == Init /\ [][Next]_vars

-----------------------------------------------------------------------------
(* Properties.                                                             *)

(* The newest success of t is no longer in the history: another run took   *)
(* its id, or newer rows pushed it out.                                    *)
Forgotten(t) == lastGood[t] # LastSuccess(t)

(* A timer that is armed for at once finds a task to run, so the scheduler *)
(* never spins: cursors, slots and freshness are three records of what has *)
(* run, and scheduleNext and isDue read them differently.                  *)
ArmedForWork ==
    [][timer # now /\ timer' = now => \E t \in Task : IsDue(t, now)]_vars

(* While nothing is under way, the timer of a scheduler that has enabled   *)
(* tasks is armed, and no later than a period after the last run or        *)
(* attempt of any of them (a time that has passed means at once; a tick    *)
(* that failed comes back after 1), whatever runs, failed writes and       *)
(* preference updates came in between.                                     *)
Idle == up /\ ~rearm /\ ~refreshing /\ tick = NoTick
TimerCovers ==
    Idle => \A t \in enabled :
        /\ timer # Never
        /\ Base(t) # Never /\ ~Forgotten(t)
             => timer <= Max({now + 1, Next1(t, Base(t))})

(* An occurrence nothing has run for, because no process ran when it came, *)
(* is run at once by the next one, even for a task that never succeeded,   *)
(* and stays in the store until then.                                      *)
Missed(t) ==
    /\ cursor[t] # Never /\ cursor[t] <= now
    /\ LastSuccess(t) < cursor[t] /\ scheduled[t] < cursor[t]
MissedCaughtUp ==
    /\ [](Idle => \A t \in Calendar \cap enabled :
              Missed(t) => timer # Never /\ timer <= now + 1)
    /\ [][\A t \in Calendar \cap enabled :
              Missed(t) => cursor'[t] = cursor[t]]_vars

(* A tick runs no task whose last success is less than a period old, even  *)
(* one that succeeds between the read and the run: its row is stored       *)
(* before it leaves active.  Except that the history has forgotten it.     *)
TickStarts(t) ==
    tick'.i = tick.i + 1 /\ active'[t] # active[t] /\ active'[t] # 0
StillGood(t, at) == lastGood[t] # Never /\ Next1(t, lastGood[t]) > at
FreshSpared ==
    [][\A t \in Task : TickStarts(t) /\ ~Forgotten(t)
           => ~StillGood(t, tick.at)]_vars

(* What the scheduler says of its history: a successful terminal record is *)
(* the source of truth for freshness.  So a success that is less than a    *)
(* period old is in it while the task itself is idle.                      *)
FreshnessKept ==
    \A t \in Task : active[t] = 0 /\ StillGood(t, now) => Fresh(t, now)

(* What it says of a startup task it defers: the grace timer runs it (or   *)
(* tries to).                                                              *)
ClaimsRun ==
    [][\A t \in delayed \ delayed' :
           active'[t] # 0 \/ ~up' \/ sequence' # sequence]_vars

=============================================================================
