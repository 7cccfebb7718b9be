---------------------------- MODULE TaskScheduler ----------------------------
(***************************************************************************)
(* The life of the scheduler of                                            *)
(* src/modules/tasks/application/scheduler.ts: start() with its recovery,  *)
(* startup sweep and barrier, the delayed sweep, the shared timer and its  *)
(* tick, refresh() and stop(), over the runs of TaskRuntime.               *)
(*                                                                         *)
(* Which tasks are due is left open: a sweep or a tick may run any task it *)
(* has not run yet, and end at any point where it is about to look at the  *)
(* next one.                                                               *)
(***************************************************************************)
EXTENDS TaskRuntime

CONSTANTS
    StartupTask,    \* startupPolicy "if-stale", of STARTUP_BARRIER_TASK_IDS
    RequiredTask    \* REQUIRED_STARTUP_TASK_IDS

ASSUME StartupAssumption ==
    /\ StartupTask \subseteq Task
    /\ RequiredTask \subseteq StartupTask
    /\ Trigger = {"manual", "schedule", "startup"}

VARIABLES
    started,
    startPc,    \* where performStart is; "up" once the promise resolved
    todo,       \* startup tasks the sweep has not looked at
    launch,     \* the run the sweep awaits, or NoRun
    awaited,    \* startupRuns, what the barrier waits for
    late,       \* tasks left to the delayed sweep
    lateRun,    \* the run the delayed sweep awaits, or NoRun
    armed,      \* lifecycle of the armed shared timer or its tick, or 0
    rearming,   \* lifecycles of the calls of scheduleNext, by a refresh() or
                \*   at the end of a tick, that still read their stores
    tickRun,    \* the run the tick awaits, or NoRun
    stopPc,     \* where stop() is
    stopWait,   \* activeExecutions as stop() saw them and not settled yet
    stopStart   \* stop() also waits for a pending start()

startVars == <<started, startPc, todo, launch, awaited, late, lateRun>>
tickVars == <<armed, rearming, tickRun>>
stopVars == <<stopPc, stopWait, stopStart>>
vars == <<rtVars, startVars, tickVars, stopVars>>

Starting == startPc \in {"recovering", "sweeping", "barrier", "arming"}

SchedulerTypeOK ==
    /\ TypeOK
    /\ started \in BOOLEAN
    /\ startPc \in {"off", "recovering", "sweeping", "barrier",
                   "arming", "up"}
    /\ todo \subseteq Task
    /\ launch \in Run \union {NoRun}
    /\ awaited \subseteq Run
    /\ late \subseteq Task
    /\ lateRun \in Run \union {NoRun}
    /\ armed \in Nat
    /\ rearming \subseteq Nat
    /\ tickRun \in Run \union {NoRun}
    /\ stopPc \in {"idle", "waiting"}
    /\ stopWait \subseteq Run
    /\ stopStart \in BOOLEAN
    /\ launch # NoRun => startPc = "sweeping"
    /\ lateRun # NoRun => startPc \in {"arming", "up"}
    /\ tickRun # NoRun => armed # 0
    /\ stopStart => Starting /\ stopPc = "waiting"

Init ==
    /\ RuntimeInit
    /\ started = FALSE
    /\ startPc = "off" /\ todo = {} /\ launch = NoRun
    /\ awaited = {} /\ late = {} /\ lateRun = NoRun
    /\ armed = 0 /\ rearming = {} /\ tickRun = NoRun
    /\ stopPc = "idle" /\ stopWait = {} /\ stopStart = FALSE

-----------------------------------------------------------------------------
(* Runs on their own, and the triggers of the task API, which do not look  *)
(* at `started`.  An execution that settles leaves the set stop() awaits.  *)

(* Mutant of Background: only an execution that succeeds leaves the set.   *)
BackgroundThen(A) ==
    /\ A
    /\ stopWait' = {r \in stopWait :
                       pc[r] = "endSucceeded" => pc'[r] \in Executing}
    /\ UNCHANGED <<startVars, tickVars, stopPc, stopStart>>

Background(A) ==
    /\ A
    /\ stopWait' = {r \in stopWait : pc'[r] \in Executing}
    /\ UNCHANGED <<startVars, tickVars, stopPc, stopStart>>

ManualRun(t) ==
    /\ Call(t, "manual")
    /\ UNCHANGED <<startVars, tickVars, stopVars>>

-----------------------------------------------------------------------------
(* start(): recovery, the startup sweep and the barrier.                   *)

Start ==
    /\ startPc = "off" /\ ~started
    /\ NewLifecycle
    /\ started' = TRUE
    /\ startPc' = "recovering"
    /\ todo' = StartupTask
    /\ UNCHANGED <<launch, awaited, late, lateRun, tickVars, stopVars>>

(* The catch block of performStart; the promise of start() rejects.        *)
StartFailed ==
    /\ startPc' = "off" /\ started' = FALSE
    /\ todo' = {} /\ launch' = NoRun /\ awaited' = {}
    /\ late' = {} /\ lateRun' = NoRun
    /\ armed' = 0 /\ tickRun' = NoRun
    /\ stopStart' = FALSE
    /\ UNCHANGED <<rearming, stopPc, stopWait>>

(* recoverRunning(); the assertion behind it is the first of the sweep.    *)
Recover ==
    /\ startPc = "recovering"
    /\ AbandonOpen
    /\ startPc' = "sweeping"
    /\ UNCHANGED <<started, todo, launch, awaited, late, lateRun, tickVars,
                   stopVars>>

(* A due startup task is run: its snapshot is missing, or there is no      *)
(* grace period.                                                           *)
SweepRun(t) ==
    /\ startPc = "sweeping" /\ started /\ launch = NoRun
    /\ t \in todo
    /\ Call(t, "startup")
    /\ todo' = todo \ {t}
    /\ launch' = sequence + 1
    /\ UNCHANGED <<started, startPc, awaited, late, lateRun, tickVars, stopVars>>

(* A due startup task that is not awaited is left to the delayed sweep.    *)
SweepDefer(t) ==
    /\ startPc = "sweeping" /\ started /\ launch = NoRun
    /\ t \in todo
    /\ todo' = todo \ {t}
    /\ late' = late \union {t}
    /\ UNCHANGED <<rtVars, started, startPc, launch, awaited, lateRun,
                   tickVars, stopVars>>

Settled(r) == pc[r] \notin Calling
Rejected(r) == pc[r] \in {"rejected", "wedged"}

(* The awaited runNow resolved; the barrier waits for the run only if its  *)
(* snapshot is missing.                                                    *)
SweepResume ==
    /\ startPc = "sweeping" /\ launch # NoRun /\ Settled(launch)
    /\ started /\ ~Rejected(launch)
    /\ awaited' \in {awaited, awaited \union {launch}}
    /\ launch' = NoRun
    /\ UNCHANGED <<rtVars, started, startPc, todo, late, lateRun, tickVars,
                   stopVars>>

(* The tasks left in todo are not due.                                     *)
SweepEnd ==
    /\ startPc = "sweeping" /\ launch = NoRun /\ started
    /\ startPc' = "barrier"
    /\ todo' = {}
    /\ UNCHANGED <<rtVars, started, launch, awaited, late, lateRun, tickVars,
                   stopVars>>

BarrierOpen == \A r \in awaited : settled[r] # "none"
BarrierLenient ==    \* mutant of BarrierOk
    \A r \in awaited : task[r] \in RequiredTask => settled[r] # "failed"
BarrierOk ==
    \A r \in awaited :
        task[r] \in RequiredTask => settled[r] \in {"succeeded", "cancelled"}

(* awaitStartupBarrier holds; scheduleNext reads the stores and then arms  *)
(* the timer, unless stop() came in between.                               *)
BarrierPass ==
    /\ startPc = "barrier" /\ BarrierOpen /\ BarrierOk /\ started
    /\ startPc' = "arming"
    /\ UNCHANGED <<rtVars, started, todo, launch, awaited, late, lateRun,
                   tickVars, stopVars>>

StartResolves ==
    /\ startPc = "arming"
    /\ startPc' = "up"
    /\ awaited' = {}
    /\ armed' = IF started THEN lifecycle ELSE armed
    /\ stopStart' = FALSE
    /\ UNCHANGED <<rtVars, started, todo, launch, late, lateRun, rearming,
                   tickRun, stopPc, stopWait>>

(* recoverRunning() rejects, or the sweep cannot read a preference or the  *)
(* rows of a task.                                                         *)
RecoverFails ==
    /\ \/ startPc = "recovering"
       \/ startPc = "sweeping" /\ launch = NoRun /\ todo # {}
    /\ ClearRetries
    /\ StartFailed

(* The awaited runNow rejected, or stop() came in between                  *)
(* (assertCurrentStart).                                                   *)
SweepFails ==
    /\ startPc = "sweeping"
    /\ IF launch = NoRun THEN ~started
       ELSE Settled(launch) /\ (~started \/ Rejected(launch))
    /\ ClearRetries
    /\ StartFailed

(* A required startup task failed, or stop() came in between.              *)
BarrierFails ==
    /\ startPc = "barrier" /\ BarrierOpen
    /\ ~(BarrierOk /\ started)
    /\ ClearRetries
    /\ StartFailed

(* The delayed startup timer, which is set before scheduleNext is awaited, *)
(* fires and sweeps the deferred tasks.                                    *)
LateRun(t) ==
    /\ startPc \in {"arming", "up"} /\ started /\ lateRun = NoRun
    /\ t \in late
    /\ Call(t, "startup")
    /\ late' = late \ {t}
    /\ lateRun' = sequence + 1
    /\ UNCHANGED <<started, startPc, todo, launch, awaited, tickVars, stopVars>>

LateResume ==
    /\ lateRun # NoRun /\ Settled(lateRun)
    /\ lateRun' = NoRun
    /\ late' = IF Rejected(lateRun) THEN {} ELSE late
    /\ UNCHANGED <<rtVars, started, startPc, todo, launch, awaited, tickVars,
                   stopVars>>

-----------------------------------------------------------------------------
(* The shared timer.                                                       *)

(* While the timer is armed it may fire, and the tick runs what is due one *)
(* task after the other; it passes no expected lifecycle.                  *)
TickRun(t) ==
    /\ armed # 0 /\ tickRun = NoRun
    /\ Call(t, "schedule")
    /\ tickRun' = sequence + 1
    /\ UNCHANGED <<armed, rearming, startVars, stopVars>>

(* The run of the tick was stored, or it rejected: then the tick arms the  *)
(* timer again and ends.                                                   *)
TickResume ==
    /\ tickRun # NoRun /\ Settled(tickRun)
    /\ tickRun' = NoRun
    /\ UNCHANGED <<rtVars, armed, rearming, startVars, stopVars>>

(* The tick has seen all tasks and calls scheduleNext.                     *)
TickEnds ==
    /\ armed # 0 /\ tickRun = NoRun
    /\ rearming' = rearming \union {armed}
    /\ armed' = 0
    /\ UNCHANGED <<rtVars, tickRun, startVars, stopVars>>

(* refresh(): a new lifecycle and no timer; a tick or a delayed sweep of   *)
(* the old one stops at its next check, its call of runNow goes on.        *)
Refresh ==
    /\ ~Starting /\ started
    /\ NewLifecycle
    /\ armed' = 0 /\ tickRun' = NoRun
    /\ rearming' = rearming \union {lifecycle'}
    /\ late' = {} /\ lateRun' = NoRun
    /\ UNCHANGED <<started, startPc, todo, launch, awaited, stopVars>>

(* Mutant of Rearmed: nothing is compared after the reads.                 *)
RearmedAnyway(l) ==
    /\ l \in rearming
    /\ rearming' = rearming \ {l}
    /\ armed' = l
    /\ UNCHANGED <<rtVars, startVars, tickRun, stopVars>>

(* scheduleNext has read the stores and compares the lifecycle again.      *)
Rearmed(l) ==
    /\ l \in rearming
    /\ rearming' = rearming \ {l}
    /\ armed' = IF started /\ lifecycle = l THEN l ELSE armed
    /\ UNCHANGED <<rtVars, startVars, tickRun, stopVars>>

-----------------------------------------------------------------------------
(* stop().                                                                 *)

(* A second call while one waits: stopWait and stopStart are what the      *)
(* later one waits for, which the earlier one waited for too.              *)
StopBegin ==
    /\ Shutdown
    /\ started' = FALSE
    /\ armed' = 0 /\ tickRun' = NoRun
    /\ late' = {} /\ lateRun' = NoRun
    /\ stopPc' = "waiting"
    /\ stopWait' = {r \in Run : pc[r] \in Executing}
    /\ stopStart' = Starting
    /\ UNCHANGED <<startPc, todo, launch, awaited, rearming>>

StopDone ==
    /\ stopPc = "waiting" /\ stopWait = {} /\ ~stopStart
    /\ stopPc' = "idle"
    /\ startPc' = IF startPc = "up" /\ ~started THEN "off" ELSE startPc
    /\ UNCHANGED <<rtVars, started, todo, launch, awaited, late, lateRun,
                   tickVars, stopWait, stopStart>>

-----------------------------------------------------------------------------

StartStep ==
    \/ Recover \/ SweepResume \/ SweepEnd \/ SweepFails
    \/ BarrierPass \/ BarrierFails \/ StartResolves \/ LateResume
    \/ \E t \in Task : SweepRun(t) \/ SweepDefer(t) \/ LateRun(t)
TickStep ==
    \/ TickResume \/ TickEnds \/ \E t \in Task : TickRun(t)
    \/ \E l \in rearming : Rearmed(l)

Next ==
    \/ \E t \in Task : ManualRun(t)
    \/ \E r \in Run : Background(RunStep(r))
    \/ Start \/ StartStep \/ RecoverFails
    \/ TickStep \/ Refresh
    \/ StopBegin \/ StopDone

Spec == Init /\ [][Next]_vars

(* Fairness: the run store answers, a granted acquire resumes, a timeout   *)
(* fires and an executor settles once its signal is aborted; start() and   *)
(* stop() go on when what they await is there.  Triggers, retry timers,    *)
(* cancels, ticks and the delayed sweep carry none.                        *)
Settles(r) == aborted[r] /\ (ExecutorReturns(r) \/ ExecutorThrows(r))
StartGoesOn ==
    \/ Recover \/ SweepResume \/ SweepEnd \/ SweepFails
    \/ BarrierPass \/ BarrierFails \/ StartResolves
Fairness ==
    /\ \A r \in Run :
          /\ WF_vars(Background(StoreStep(r)))
          /\ WF_vars(Background(Acquired(r)))
          /\ WF_vars(Background(Timeout(r)))
          /\ WF_vars(Background(Settles(r)))
    /\ WF_vars(StartGoesOn)
    /\ WF_vars(StopDone)

FairSpec == Spec /\ Fairness

-----------------------------------------------------------------------------
(* Properties.                                                             *)

(* start() gets past its barrier only when the row of every required run   *)
(* it awaited says succeeded or cancelled, although completions are        *)
(* settled by the terminal transition, by a skip and, ahead of the row, by *)
(* stop(), and rows are rewritten by retries.                              *)
BarrierHonest ==
    [][startPc = "barrier" /\ startPc' = "arming" =>
          \A r \in awaited :
              task[r] \in RequiredTask
                  => status[r] \in {"succeeded", "cancelled"}]_vars

(* A timer that is armed belongs to the lifecycle that is running, although *)
(* scheduleNext arms it after awaits that stop() and refresh() can cross.   *)
TimerCurrent == armed # 0 => started /\ armed = lifecycle

(* A dropped startup run never settles its completion.                     *)
StartupRunDropped == \E r \in awaited : pc[r] = "dropped"

(* start() settles, unless drain dropped a run its barrier waits for.      *)
StartSettles == Starting ~> (~Starting \/ StartupRunDropped)

(* stop() resolves, with the same exception: it waits for the start.       *)
StopResolves == stopPc # "idle" ~> (stopPc = "idle" \/ StartupRunDropped)

(* A collector that waits for the heavy permit gets it or is cancelled.    *)
WaitersServed == \A r \in Run : pc[r] = "waiting" ~> pc[r] # "waiting"

=============================================================================
