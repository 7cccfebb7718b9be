----------------------------- MODULE TaskRuntime -----------------------------
(***************************************************************************)
(* The run machinery of src/modules/tasks/application/scheduler.ts:        *)
(* runNow, drain, execute, the retry timers, cancel, and what start(),     *)
(* refresh() and stop() do to runs, over the heavy-collector permit of     *)
(* ResourceBudget.  When those calls happen is left open here; module      *)
(* TaskScheduler adds the startup sweep, the shared timer and stop().      *)
(*                                                                         *)
(* An action is one synchronous segment of the code: what runs between two *)
(* awaits.  pc[r] says which await the continuation of run r is parked at, *)
(* status[r] is the row of r in the run store.  Wall-clock time is left    *)
(* out: a timer that is armed may fire, a task that is asked for is due.   *)
(***************************************************************************)
EXTENDS ResourceBudget

CONSTANTS
    Task,           \* ids of the catalog
    HeavyTask,      \* tasks of category "collection"
    Trigger,        \* the reasons runNow is called for
    Rank,           \* definition.queue as a number, per task
    MaxAttempts,    \* definition.retry.maxAttempts
    MaxQueue,       \* options.maxQueueSize
    MaxRun,         \* bound: run ids a behaviour may allocate
    MaxLifecycle,   \* bound: value of the lifecycle counter
    MaxFaults       \* bound: calls of the run store that may reject

Run == 1..MaxRun
NoRun == 0

ASSUME TaskAssumption ==
    /\ Task # {}
    /\ HeavyTask \subseteq Task
    /\ Trigger \subseteq {"manual", "schedule", "startup"}
    /\ Rank \in [Task -> 0..2]

ASSUME BoundAssumption ==
    /\ MaxAttempts \in Nat
    /\ MaxQueue \in Nat \ {0}
    /\ MaxRun \in Nat
    /\ MaxLifecycle \in Nat
    /\ MaxFaults \in Nat
    /\ Client = Run

VARIABLES
    sequence,   \* run ids allocated so far
    task,       \* per run: its task
    trigger,    \* per run: "manual", "schedule" or "startup"
    attempt,    \* per run: the attempt number of its record
    status,     \* per run: the row in the store, "none" while there is none
    settled,    \* per startup run: what its completion settled to, or "none"
    guard,      \* per run: the lifecycle a continuation captured, or 0
    pc,         \* per run: where its continuation is parked
    aborted,    \* per run: the signal of the controller `active` holds for it
    queue,      \* the runs pushed and not yet shifted
    active,     \* taskId -> the run that owns the task, or NoRun
    faults,     \* rejections the store has produced
    lifecycle

callVars == <<sequence, task, trigger>>
rowVars == <<attempt, status, settled, guard>>
drainVars == <<queue, active>>
rtVars == <<callVars, rowVars, pc, drainVars, aborted, budgetVars, faults,
            lifecycle>>

-----------------------------------------------------------------------------
(* Vocabulary.                                                             *)

Terminal == {"succeeded", "failed", "cancelled", "skipped", "abandoned"}
Status == {"none", "queued", "running"} \union Terminal

(* Where an execution is parked once its run has been taken from the queue. *)
Ending == {"endSucceeded", "endAborted", "endCancelled", "endFailed",
           "endRetry"}
Executing == {"waiting", "acquired", "executing"} \union Ending
Owning == {"starting"} \union Executing

(* Where a call of runNow is parked; the caller's promise is pending.      *)
Calling == {"appending", "skipping", "withdrawing", "starting"}

Pc == Calling \union Owning \union
      {"idle", "retryWait", "requeueing", "dropped", "wedged", "rejected",
       "done"}

IsHeavy(r) == task[r] \in HeavyTask

(* The terminal status each parked ending is about to store.               *)
EndStatus(p) ==
    CASE p = "endSucceeded" -> "succeeded"
      [] p \in {"endAborted", "endCancelled"} -> "cancelled"
      [] OTHER -> "failed"

(* Mutant of Settle: only a success settles the completion.                *)
SettleOnSuccess(r, s) ==
    settled' = [settled EXCEPT ![r] =
                   IF trigger[r] = "startup" /\ @ = "none" /\ s = "succeeded"
                   THEN s ELSE @]

(* settleStartupCompletion: the first terminal record of a startup run.    *)
Settle(r, s) ==
    settled' = [settled EXCEPT ![r] =
                   IF trigger[r] = "startup" /\ @ = "none" THEN s ELSE @]

TypeOK ==
    /\ sequence \in 0..MaxRun
    /\ task \in [Run -> Task]
    /\ trigger \in [Run -> {"manual", "schedule", "startup"}]
    /\ attempt \in [Run -> Nat]
    /\ status \in [Run -> Status]
    /\ settled \in [Run -> {"none"} \union Terminal]
    /\ guard \in [Run -> Nat]
    /\ pc \in [Run -> Pc]
    /\ aborted \in [Run -> BOOLEAN]
    /\ queue \subseteq Run
    /\ active \in [Task -> Run \union {NoRun}]
    /\ BudgetTypeOK
    /\ faults \in Nat
    /\ lifecycle \in Nat

RuntimeInit ==
    /\ sequence = 0
    /\ task = [r \in Run |-> CHOOSE t \in Task : TRUE]
    /\ trigger = [r \in Run |-> "manual"]
    /\ attempt = [r \in Run |-> 0]
    /\ status = [r \in Run |-> "none"]
    /\ settled = [r \in Run |-> "none"]
    /\ guard = [r \in Run |-> 0]
    /\ pc = [r \in Run |-> "idle"]
    /\ aborted = [r \in Run |-> FALSE]
    /\ queue = {}
    /\ active = [t \in Task |-> NoRun]
    /\ BudgetInit
    /\ faults = 0
    /\ lifecycle = 0

-----------------------------------------------------------------------------
(* drain(): one pass over the queue, up to the await of the transition to  *)
(* "running".  Items are shifted by priority; an item whose task is active *)
(* is dropped (`continue`), the first other one becomes the active run.    *)
(* q, act and p are the queue, the active map and the parked continuations *)
(* at the moment drain is called.                                          *)

Priority(r) ==
    IF trigger[r] = "manual" /\ attempt[r] = 1 THEN 2 ELSE Rank[task[r]]

Ahead(r, s) ==
    \/ Priority(r) > Priority(s)
    \/ Priority(r) = Priority(s) /\ r < s

(* Mutant of Drain: the shifted item is taken whatever `active` holds.     *)
DrainUnchecked(q, act, p) ==
    IF q = {}
    THEN queue' = q /\ active' = act /\ pc' = p
    ELSE \E next \in q :
            /\ queue' = q \ {next}
            /\ active' = [act EXCEPT ![task[next]] = next]
            /\ pc' = [p EXCEPT ![next] = "starting"]

Drain(q, act, p) ==
    \/ /\ \A r \in q : act[task[r]] # NoRun
       /\ queue' = {}
       /\ active' = act
       /\ pc' = [r \in Run |-> IF r \in q THEN "dropped" ELSE p[r]]
    \/ \E next \in q :
          /\ act[task[next]] = NoRun
          /\ \A s \in q : Ahead(s, next) => act[task[s]] # NoRun
          /\ queue' = {s \in q : s # next /\ ~Ahead(s, next)}
          /\ active' = [act EXCEPT ![task[next]] = next]
          /\ pc' = [r \in Run |->
                       IF r = next THEN "starting"
                       ELSE IF r \in q /\ Ahead(r, next) THEN "dropped"
                       ELSE p[r]]

-----------------------------------------------------------------------------
(* runNow, up to its first await.  g is expectedLifecycle, or 0.           *)

Blocked(t, why) ==
    \/ active[t] # NoRun
    \/ \E r \in queue : task[r] = t
    \/ Cardinality(queue) >= MaxQueue /\ why # "manual"

RunNow(t, why, g) ==
    LET r == sequence + 1 IN
    /\ sequence < MaxRun
    /\ sequence' = r
    /\ task' = [task EXCEPT ![r] = t]
    /\ trigger' = [trigger EXCEPT ![r] = why]
    /\ attempt' = [attempt EXCEPT ![r] = 1]
    /\ guard' = [guard EXCEPT ![r] = g]
    /\ pc' = [pc EXCEPT ![r] = IF Blocked(t, why) THEN "skipping"
                               ELSE "appending"]
    /\ UNCHANGED <<status, settled, drainVars, aborted, budgetVars, faults, lifecycle>>

(* The row of a skipped run is stored and the call returns it.             *)
RecordSkip(r) ==
    /\ pc[r] = "skipping"
    /\ status' = [status EXCEPT ![r] = "skipped"]
    /\ Settle(r, "skipped")
    /\ pc' = [pc EXCEPT ![r] = "done"]
    /\ UNCHANGED <<callVars, attempt, guard, drainVars, aborted, budgetVars, faults,
                   lifecycle>>

(* Mutants of AppendDone: the push is not followed by a drain; the return  *)
(* behind the withdrawal is missing.                                       *)
AppendOnly(r) ==
    /\ pc[r] = "appending"
    /\ status' = [status EXCEPT ![r] = "queued"]
    /\ queue' = queue \union {r}
    /\ pc' = [pc EXCEPT ![r] = "done"]
    /\ UNCHANGED <<callVars, attempt, settled, guard, active, aborted,
                   budgetVars, faults, lifecycle>>

AppendFallsThrough(r) ==
    /\ pc[r] = "appending"
    /\ status' = [status EXCEPT ![r] =
                     IF guard[r] \in {0, lifecycle} THEN "queued" ELSE "cancelled"]
    /\ Drain(queue \union {r}, active, pc)
    /\ UNCHANGED <<callVars, attempt, settled, guard, aborted, budgetVars,
                   faults, lifecycle>>

(* append(run) resolved.  A run guarded by an old lifecycle is withdrawn,  *)
(* any other is pushed and the queue drained in the same segment.          *)
AppendDone(r) ==
    /\ pc[r] = "appending"
    /\ status' = [status EXCEPT ![r] = "queued"]
    /\ IF guard[r] # 0 /\ guard[r] # lifecycle
       THEN /\ pc' = [pc EXCEPT ![r] = "withdrawing"]
            /\ UNCHANGED drainVars
       ELSE Drain(queue \union {r}, active, pc)
    /\ guard' = [guard EXCEPT ![r] = 0]
    /\ UNCHANGED <<callVars, attempt, settled, aborted, budgetVars, faults,
                   lifecycle>>

(* The append or the withdrawal rejected: runNow rejects, forgets the run. *)
AppendFails(r) ==
    /\ pc[r] \in {"appending", "skipping", "withdrawing"}
    /\ faults < MaxFaults
    /\ faults' = faults + 1
    /\ pc' = [pc EXCEPT ![r] = "rejected"]
    /\ UNCHANGED <<callVars, rowVars, drainVars, aborted, budgetVars, lifecycle>>

(* The transition of a withdrawn run to "cancelled".                       *)
Withdraw(r) ==
    /\ pc[r] = "withdrawing"
    /\ status' = [status EXCEPT ![r] = "cancelled"]
    /\ Settle(r, "cancelled")
    /\ pc' = [pc EXCEPT ![r] = "done"]
    /\ UNCHANGED <<callVars, attempt, guard, drainVars, aborted, budgetVars, faults,
                   lifecycle>>

-----------------------------------------------------------------------------
(* execute.                                                                *)

(* The transition to "running" resolved: execute starts in the same        *)
(* segment and runs up to its first await, then drain looks at the queue.  *)
StartDone(r) ==
    /\ pc[r] = "starting"
    /\ status' = [status EXCEPT ![r] = "running"]
    /\ \/ /\ IsHeavy(r)
          /\ Take(r)
          /\ Drain(queue, active, [pc EXCEPT ![r] = "acquired"])
       \/ /\ IsHeavy(r) /\ ~aborted[r]
          /\ Enqueue(r)
          /\ Drain(queue, active, [pc EXCEPT ![r] = "waiting"])
       \/ /\ aborted[r]
          /\ IsHeavy(r) => ~HasRoom
          /\ Drain(queue, active, [pc EXCEPT ![r] = "endCancelled"])
          /\ UNCHANGED budgetVars
       \/ /\ ~IsHeavy(r) /\ ~aborted[r]
          /\ Drain(queue, active, [pc EXCEPT ![r] = "executing"])
          /\ UNCHANGED budgetVars
    /\ UNCHANGED <<callVars, attempt, settled, guard, aborted, faults, lifecycle>>

(* The transition to "running" rejected: drain rejects, the entry of       *)
(* `active` stays and no execution exists that could remove it.            *)
StartFails(r) ==
    /\ pc[r] = "starting"
    /\ faults < MaxFaults
    /\ faults' = faults + 1
    /\ pc' = [pc EXCEPT ![r] = "wedged"]
    /\ UNCHANGED <<callVars, rowVars, drainVars, aborted, budgetVars, lifecycle>>

(* acquire() resolved: throwIfAborted, then the executor is called.        *)
Acquired(r) ==
    /\ pc[r] = "acquired"
    /\ pc' = [pc EXCEPT ![r] = IF aborted[r] THEN "endCancelled"
                               ELSE "executing"]
    /\ UNCHANGED <<callVars, rowVars, drainVars, aborted, budgetVars, faults, lifecycle>>

(* The timeout timer, armed only once the permit is held, aborts the run.  *)
Timeout(r) ==
    /\ pc[r] = "executing" /\ ~aborted[r]
    /\ aborted' = [aborted EXCEPT ![r] = TRUE]
    /\ UNCHANGED <<callVars, rowVars, pc, drainVars, budgetVars, faults,
                   lifecycle>>

(* The executor returned.                                                  *)
ExecutorReturns(r) ==
    /\ pc[r] = "executing"
    /\ pc' = [pc EXCEPT ![r] = IF aborted[r] THEN "endAborted"
                               ELSE "endSucceeded"]
    /\ UNCHANGED <<callVars, rowVars, drainVars, aborted, budgetVars, faults, lifecycle>>

(* Mutant of ExecutorThrows: one retry too many.                           *)
ThrowsOffByOne(r) ==
    /\ pc[r] = "executing"
    /\ attempt[r] <= MaxAttempts + 1
    /\ pc' = [pc EXCEPT ![r] = "endRetry"]
    /\ UNCHANGED <<callVars, rowVars, drainVars, aborted, budgetVars, faults, lifecycle>>

(* The executor threw: an AbortError or an aborted signal cancels the run, *)
(* a retryable error of an attempt within the budget asks for a retry.     *)
ExecutorThrows(r) ==
    /\ pc[r] = "executing"
    /\ \/ pc' = [pc EXCEPT ![r] = "endCancelled"]
       \/ /\ ~aborted[r]
          /\ pc' = [pc EXCEPT ![r] = "endFailed"]
       \/ /\ ~aborted[r]
          /\ attempt[r] <= MaxAttempts
          /\ pc' = [pc EXCEPT ![r] = "endRetry"]
    /\ UNCHANGED <<callVars, rowVars, drainVars, aborted, budgetVars, faults, lifecycle>>

(* The finally block and the drain behind it; p parks the run itself, and  *)
(* the acquire of the run that gets the permit resolves.  The controller   *)
(* goes with the entry of `active`.                                        *)
Finally(r, p) ==
    /\ Release(r)
    /\ aborted' = [aborted EXCEPT ![r] = FALSE]
    /\ Drain(queue,
             [active EXCEPT ![task[r]] = NoRun],
             [s \in Run |-> IF s = r THEN p
                            ELSE IF s \in permit' \ permit THEN "acquired"
                            ELSE pc[s]])

(* The terminal transition resolved.  A retry arms its timer with the      *)
(* lifecycle of this moment, not of the moment the run began.              *)
EndDone(r) ==
    /\ pc[r] \in Ending
    /\ status' = [status EXCEPT ![r] = EndStatus(pc[r])]
    /\ Settle(r, EndStatus(pc[r]))
    /\ IF pc[r] = "endRetry"
       THEN Finally(r, "retryWait") /\ guard' = [guard EXCEPT ![r] = lifecycle]
       ELSE Finally(r, "done") /\ UNCHANGED guard
    /\ UNCHANGED <<callVars, attempt, faults, lifecycle>>

(* The terminal transition rejected.  Inside the try block the catch block *)
(* tries once more; inside the catch block the row keeps "running".        *)
EndFails(r) ==
    /\ pc[r] \in Ending
    /\ faults < MaxFaults
    /\ faults' = faults + 1
    /\ IF pc[r] \in {"endSucceeded", "endAborted"}
       THEN /\ pc' = [pc EXCEPT ![r] = IF aborted[r] THEN "endCancelled"
                                       ELSE "endFailed"]
            /\ UNCHANGED <<drainVars, aborted, budgetVars>>
       ELSE Finally(r, "done")
    /\ UNCHANGED <<callVars, rowVars, lifecycle>>

-----------------------------------------------------------------------------
(* Retry timers.                                                           *)

RetryFires(r) ==
    /\ pc[r] = "retryWait"
    /\ pc' = [pc EXCEPT ![r] = IF guard[r] = lifecycle THEN "requeueing"
                               ELSE "done"]
    /\ UNCHANGED <<callVars, rowVars, drainVars, aborted, budgetVars, faults, lifecycle>>

(* Mutant of RequeueDone: the lifecycle is not compared a second time.     *)
RequeueUnguarded(r) ==
    /\ pc[r] = "requeueing"
    /\ status' = [status EXCEPT ![r] = "queued"]
    /\ attempt' = [attempt EXCEPT ![r] = @ + 1]
    /\ Drain(queue \union {r}, active, pc)
    /\ UNCHANGED <<callVars, settled, guard, aborted, budgetVars, faults, lifecycle>>

(* The transition back to "queued" resolved.  The lifecycle is compared    *)
(* again; a run whose lifecycle is over keeps its "queued" row.            *)
RequeueDone(r) ==
    /\ pc[r] = "requeueing"
    /\ status' = [status EXCEPT ![r] = "queued"]
    /\ attempt' = [attempt EXCEPT ![r] = @ + 1]
    /\ IF guard[r] = lifecycle
       THEN Drain(queue \union {r}, active, pc)
       ELSE /\ pc' = [pc EXCEPT ![r] = "dropped"]
            /\ UNCHANGED drainVars
    /\ guard' = [guard EXCEPT ![r] = 0]
    /\ UNCHANGED <<callVars, settled, aborted, budgetVars, faults, lifecycle>>

RequeueFails(r) ==
    /\ pc[r] = "requeueing"
    /\ faults < MaxFaults
    /\ faults' = faults + 1
    /\ pc' = [pc EXCEPT ![r] = "done"]
    /\ UNCHANGED <<callVars, rowVars, drainVars, aborted, budgetVars, lifecycle>>

-----------------------------------------------------------------------------
(* Aborts.                                                                 *)

(* cancel(runId).  A run that waits for its retry timer is neither queued  *)
(* nor active, so the call does nothing to it; the listener of a run that  *)
(* waits for the permit rejects its acquire in the same segment.           *)
Cancel(r) ==
    /\ active[task[r]] = r \/ r \in queue
    /\ IF r \in queue
       THEN /\ queue' = queue \ {r}
            /\ pc' = [pc EXCEPT ![r] = "withdrawing"]
            /\ UNCHANGED <<aborted, budgetVars>>
       ELSE /\ aborted' = [aborted EXCEPT ![r] = TRUE]
            /\ pc' = [pc EXCEPT ![r] = IF @ = "waiting" THEN "endCancelled"
                                       ELSE @]
            /\ Leave({r})
            /\ UNCHANGED queue
    /\ UNCHANGED <<callVars, rowVars, active, faults, lifecycle>>

-----------------------------------------------------------------------------
(* What start(), refresh() and stop() do to runs.                          *)

(* ++lifecycle in start() and refresh().                                   *)
NewLifecycle ==
    /\ lifecycle < MaxLifecycle
    /\ lifecycle' = lifecycle + 1
    /\ UNCHANGED <<callVars, rowVars, pc, drainVars, aborted, budgetVars, faults>>

(* recoverRunning(): every open row becomes "abandoned".                   *)
AbandonOpen ==
    /\ status' = [r \in Run |-> IF status[r] \in {"queued", "running"}
                                THEN "abandoned" ELSE status[r]]
    /\ UNCHANGED <<callVars, attempt, settled, guard, pc, drainVars, aborted,
                   budgetVars, faults, lifecycle>>

(* stop() up to the await of the executions: a new lifecycle, no retry     *)
(* timer, no queue; every active run is aborted, and the completion of a   *)
(* startup run settles without waiting for its row.  The await in between  *)
(* is for queued runs, and there are none (QueueDrained).                  *)
Shutdown ==
    LET owners == {r \in Run : active[task[r]] = r} IN
    /\ lifecycle < MaxLifecycle
    /\ lifecycle' = lifecycle + 1
    /\ queue' = {}
    /\ aborted' = [r \in Run |-> aborted[r] \/ r \in owners]
    /\ pc' = [r \in Run |->
                 IF pc[r] = "retryWait" THEN "done"
                 ELSE IF r \in queue THEN "withdrawing"
                 ELSE IF r \in owners /\ pc[r] = "waiting" THEN "endCancelled"
                 ELSE pc[r]]
    /\ Leave(owners)
    /\ settled' = [r \in Run |->
                      IF r \in owners /\ trigger[r] = "startup"
                           /\ settled[r] = "none"
                      THEN "cancelled" ELSE settled[r]]
    /\ UNCHANGED <<callVars, attempt, status, guard, active, faults>>

(* The catch block of a failed start clears the retry timers.              *)
ClearRetries ==
    /\ pc' = [r \in Run |-> IF pc[r] = "retryWait" THEN "done" ELSE pc[r]]
    /\ UNCHANGED <<callVars, rowVars, drainVars, aborted, budgetVars, faults, lifecycle>>

-----------------------------------------------------------------------------
(* The steps a run takes by itself, and all that can happen to runs.       *)

StoreStep(r) ==
    RecordSkip(r) \/ AppendDone(r) \/ Withdraw(r) \/ StartDone(r)
        \/ EndDone(r) \/ RequeueDone(r)
StoreFault(r) ==
    AppendFails(r) \/ StartFails(r) \/ EndFails(r) \/ RequeueFails(r)
Execution(r) == Acquired(r) \/ ExecutorReturns(r) \/ ExecutorThrows(r)
RunStep(r) ==
    StoreStep(r) \/ StoreFault(r) \/ Execution(r) \/ Timeout(r)
        \/ RetryFires(r) \/ Cancel(r)

(* A startup call passes the lifecycle it belongs to, the others do not.   *)
Call(t, why) == RunNow(t, why, IF why = "startup" THEN lifecycle ELSE 0)

RuntimeNext ==
    \/ \E t \in Task, why \in Trigger : Call(t, why)
    \/ \E r \in Run : RunStep(r)
    \/ NewLifecycle \/ AbandonOpen \/ Shutdown \/ ClearRetries

RuntimeSpec == RuntimeInit /\ [][RuntimeNext]_rtVars

-----------------------------------------------------------------------------
(* Properties.                                                             *)

(* Single flight: between the moment drain takes a run and the end of its  *)
(* finally block, no second run of the same task is being executed, in     *)
(* whatever order manual, scheduled, startup and retried runs arrive.      *)
SingleFlight ==
    \A r, s \in Run :
        r # s /\ task[r] = task[s] => ~(pc[r] \in Owning /\ pc[s] \in Owning)

(* The heavy budget: at most Limit collectors run, counting those that     *)
(* were aborted before, while or after they waited for their permit.       *)
HeavyBudget ==
    Cardinality({r \in Run : IsHeavy(r) /\ pc[r] \in {"acquired", "executing"}})
        <= Limit

(* No permit leaks: the counter counts the permits held, each belongs to a *)
(* live execution, and a run waits only while every permit is taken.       *)
PermitsAccounted ==
    /\ inFlight = Cardinality(permit)
    /\ \A r \in permit : pc[r] \in Executing \ {"waiting"}
    /\ waiters = {r \in Run : pc[r] = "waiting"}
    /\ waiters # {} => inFlight = Limit

(* Every push is drained in the segment that makes it, so between segments *)
(* the queue is empty: priorities never compare two runs, the queue is     *)
(* never full, and stop() and cancel() never find a queued run.            *)
QueueDrained == queue = {}

(* A run that carries a lifecycle starts only in that lifecycle, although  *)
(* its row is appended between the capture and the start.                  *)
StaleRunsStayOut ==
    [][\A r \in Run :
          pc[r] \in {"appending", "requeueing"} /\ pc'[r] = "starting"
              => guard[r] \in {0, lifecycle}]_rtVars

(* What a run achieved stays in its row: only a failed row is written      *)
(* again (by its retry), and an abandoned one by an execution still alive. *)
RowsFinal ==
    [][\A r \in Run :
          status[r] \in {"succeeded", "cancelled", "skipped"}
              => status'[r] = status[r]]_rtVars

(* A run is executed once and retried at most MaxAttempts times, whatever  *)
(* lifecycles its retries cross.                                           *)
RetryBounded == \A r \in Run : attempt[r] <= MaxAttempts + 1

(* Each entry of `active` belongs to a run whose continuation will remove  *)
(* it again.                                                               *)
ActiveIsReleased ==
    \A t \in Task : active[t] # NoRun => pc[active[t]] \in Owning

=============================================================================
