------------------------- MODULE TaskSchedulerProofs -------------------------
(***************************************************************************)
(* Proofs about TaskScheduler, for every catalog, startup set and bound:   *)
(* the scheduler only takes steps of the run machinery, so what is proved  *)
(* of TaskRuntime holds of it, and its timer and its barrier are honest.   *)
(***************************************************************************)
EXTENDS TaskScheduler, TaskRuntimeProofs

-----------------------------------------------------------------------------
(* The scheduler over the run machinery.                                   *)

(* What every step but the one of stop() does to the runs.                 *)
Ordinary ==
    \/ \E t \in Task, why \in Trigger : Call(t, why)
    \/ \E r \in Run : RunStep(r)
    \/ NewLifecycle \/ AbandonOpen \/ ClearRetries
    \/ UNCHANGED rtVars

LEMMA OrdinaryStep ==
    ASSUME [Next]_vars, ~StopBegin
    PROVE  Ordinary
<1>1. CASE \E t \in Task : ManualRun(t)
  BY <1>1, StartupAssumption DEF ManualRun, Ordinary
<1>2. CASE \E r \in Run : Background(RunStep(r))
  BY <1>2 DEF Background, Ordinary
<1>3. CASE Start \/ Refresh
  BY <1>3 DEF Start, Refresh, Ordinary
<1>4. CASE RecoverFails \/ SweepFails \/ BarrierFails
  BY <1>4 DEF RecoverFails, SweepFails, BarrierFails, Ordinary
<1>5. CASE Recover
  BY <1>5 DEF Recover, Ordinary
<1>6. CASE \E t \in Task : SweepRun(t) \/ LateRun(t) \/ TickRun(t)
  BY <1>6, StartupAssumption DEF SweepRun, LateRun, TickRun, Ordinary
<1>7. CASE \/ SweepResume \/ SweepEnd \/ BarrierPass \/ StartResolves
           \/ LateResume \/ TickResume \/ TickEnds \/ StopDone
           \/ (\E l \in rearming : Rearmed(l))
           \/ \E t \in Task : SweepDefer(t)
  BY <1>7 DEF SweepResume, SweepEnd, BarrierPass, StartResolves, LateResume,
              TickResume, TickEnds, Rearmed, StopDone, SweepDefer, Ordinary
<1>8. CASE UNCHANGED vars
  BY <1>8 DEF vars, Ordinary
<1> QED
  BY <1>1, <1>2, <1>3, <1>4, <1>5, <1>6, <1>7, <1>8
     DEF Next, StartStep, TickStep

LEMMA RuntimeStep ==
    ASSUME [Next]_vars
    PROVE  [RuntimeNext]_rtVars
<1>1. CASE StopBegin
  BY <1>1 DEF StopBegin, RuntimeNext
<1>2. CASE ~StopBegin
  BY <1>2, OrdinaryStep DEF Ordinary, RuntimeNext
<1> QED
  BY <1>1, <1>2

(* The scheduler implements the run machinery: the startup sweep, the      *)
(* ticks, refresh() and stop() reach runs only through its operations.     *)
THEOREM DrivesTheRuntime == Spec => RuntimeSpec
<1>1. Init => RuntimeInit
  BY DEF Init
<1>2. [Next]_vars => [RuntimeNext]_rtVars
  BY RuntimeStep
<1> QED
  BY <1>1, <1>2, PTL DEF Spec, RuntimeSpec

(* So what is proved of the run machinery holds of the whole scheduler.    *)
THEOREM RuntimeGuarantees ==
    Spec => /\ [](SingleFlight /\ HeavyBudget /\ PermitsAccounted)
            /\ [](QueueDrained /\ RetryBounded)
            /\ RowsFinal /\ StaleRunsStayOut
BY DrivesTheRuntime, SingleFlightHolds, HeavyBudgetHolds, NoPermitLeaks,
   QueueAlwaysDrained, RetriesBounded, RowsStayFinal, StaleRunsAreKeptOut, PTL

-----------------------------------------------------------------------------
(* The inductive invariant.                                                *)

(* A run id that was not allocated owns nothing and has settled nothing.   *)
Unused ==
    \A r \in Run :
        r > sequence => settled[r] = "none" /\ \A t \in Task : active[t] # r

(* start() holds runs only while it sweeps or waits, the delayed sweep only *)
(* while the scheduler is started.                                         *)
Sweeps ==
    /\ launch # NoRun => startPc = "sweeping"
    /\ lateRun # NoRun => started
    /\ awaited # {} => startPc \in {"sweeping", "barrier", "arming"}

(* A completion that says how the run ended says what its row says.        *)
Backed(r) == settled[r] \in {"succeeded", "cancelled"} => status[r] = settled[r]

Honest ==
    started /\ startPc \in {"sweeping", "barrier"} =>
        \A r \in Run : r \in awaited \/ r = launch => Backed(r)

SchedInv ==
    /\ RowInv
    /\ SchedulerTypeOK
    /\ TimerCurrent
    /\ Unused
    /\ Sweeps
    /\ Honest

-----------------------------------------------------------------------------
(* What a step does to completions.                                        *)

(* A step of r reaches the completion of r alone, and gives r a task or    *)
(* takes one from it.                                                      *)
LEMMA RunReach ==
    ASSUME RowInv, Unused, NEW r \in Run, RunStep(r)
    PROVE  /\ r <= sequence
           /\ sequence' = sequence
           /\ \A s \in Run \ {r} : settled'[s] = settled[s]
           /\ settled'[r] = settled[r] \/ settled'[r] = status'[r]
           /\ \A t \in Task : active'[t] \in {active[t], r, NoRun}
<1>1. sequence' = sequence
  BY DEF RunStep, StoreStep, StoreFault, Execution, RecordSkip, AppendDone,
         Withdraw, StartDone, EndDone, RequeueDone, AppendFails, StartFails,
         EndFails, RequeueFails, Acquired, ExecutorReturns, ExecutorThrows,
         Timeout, RetryFires, Cancel, callVars
<1>2. r <= sequence
  <2>1. sequence \in Nat /\ r \in Nat
    BY BoundAssumption DEF RowInv, IInv, TypeOK, Run
  <2>2. CASE Cancel(r)
    <3>1. task[r] \in Task /\ active[task[r]] = r
      BY <2>2 DEF Cancel, RowInv, IInv, TypeOK, QueueDrained
    <3> QED
      BY <2>1, <3>1 DEF Unused
  <2>3. CASE ~Cancel(r)
    <3>1. pc[r] # "idle"
      BY <2>3 DEF RunStep, StoreStep, StoreFault, Execution, RecordSkip,
             AppendDone, Withdraw, StartDone, EndDone, RequeueDone,
             AppendFails, StartFails, EndFails, RequeueFails, Acquired,
             ExecutorReturns, ExecutorThrows, Timeout, RetryFires, Ending
    <3> QED
      BY <2>1, <3>1 DEF RowInv, IInv, Fresh
  <2> QED
    BY <2>2, <2>3
<1>3. /\ \A s \in Run \ {r} : settled'[s] = settled[s]
      /\ settled'[r] = settled[r] \/ settled'[r] = status'[r]
  <2>1. CASE RecordSkip(r) \/ Withdraw(r) \/ EndDone(r)
    <3>1. PICK v \in Status : /\ Settle(r, v)
                              /\ status' = [status EXCEPT ![r] = v]
      BY <2>1 DEF RecordSkip, Withdraw, EndDone, EndStatus, Status, Terminal
    <3>2. settled \in [Run -> {"none"} \union Terminal]
          /\ status \in [Run -> Status]
      BY DEF RowInv, IInv, TypeOK
    <3> QED
      BY <3>1, <3>2 DEF Settle
  <2>2. CASE ~(RecordSkip(r) \/ Withdraw(r) \/ EndDone(r))
    <3>1. UNCHANGED settled
      BY <2>2 DEF RunStep, StoreStep, StoreFault, Execution, AppendDone,
             StartDone, RequeueDone, AppendFails, StartFails, EndFails,
             RequeueFails, Acquired, ExecutorReturns, ExecutorThrows, Timeout,
             RetryFires, Cancel, rowVars
    <3> QED
      BY <3>1
  <2> QED
    BY <2>1, <2>2
<1>4. \A t \in Task : active'[t] \in {active[t], r, NoRun}
  <2>1. \/ active' = active
        \/ active' = [active EXCEPT ![task[r]] = r]
        \/ active' = [active EXCEPT ![task[r]] = NoRun]
    <3>1. CASE AppendDone(r) \/ RequeueDone(r)
      BY <3>1, AppendEffect, RequeueEffect DEF RowInv, IInv
    <3>2. CASE StartDone(r)
      BY <3>2, StartEffect DEF RowInv, IInv
    <3>3. ASSUME NEW p \in Pc, Finally(r, p)
          PROVE  active' = [active EXCEPT ![task[r]] = NoRun]
      BY <3>3, FinallyEffect DEF RowInv, IInv
    <3>4. CASE EndDone(r) \/ EndFails(r)
      BY <3>3, <3>4 DEF EndDone, EndFails, drainVars, Pc
    <3>5. CASE \/ RecordSkip(r) \/ Withdraw(r) \/ AppendFails(r)
               \/ StartFails(r) \/ RequeueFails(r) \/ Acquired(r)
               \/ ExecutorReturns(r) \/ ExecutorThrows(r) \/ Timeout(r)
               \/ RetryFires(r) \/ Cancel(r)
      BY <3>5 DEF RecordSkip, Withdraw, AppendFails, StartFails, RequeueFails,
                  Acquired, ExecutorReturns, ExecutorThrows, Timeout,
                  RetryFires, Cancel, drainVars
    <3> QED
      BY <3>1, <3>2, <3>4, <3>5 DEF RunStep, StoreStep, StoreFault, Execution
  <2>2. active \in [Task -> Run \union {NoRun}]
    BY DEF RowInv, IInv, TypeOK
  <2> QED
    BY <2>1, <2>2
<1> QED
  BY <1>1, <1>2, <1>3, <1>4

(* Outside stop() a completion is settled together with the row.           *)
LEMMA SettledWithRow ==
    ASSUME RowInv, Unused, Ordinary, NEW s \in Run
    PROVE  settled'[s] = settled[s] \/ settled'[s] = status'[s]
<1>1. ASSUME NEW r \in Run, RunStep(r)
      PROVE  settled'[s] = settled[s] \/ settled'[s] = status'[s]
  <2>1. CASE s = r
    BY <1>1, <2>1, RunReach
  <2>2. CASE s # r
    BY <1>1, <2>2, RunReach
  <2> QED
    BY <2>1, <2>2
<1>2. CASE ~\E r \in Run : RunStep(r)
  BY <1>2 DEF Ordinary, Call, RunNow, NewLifecycle, AbandonOpen, ClearRetries,
              rtVars, rowVars
<1> QED
  BY <1>1, <1>2

LEMMA BackedKept ==
    ASSUME RowInv, Unused, Ordinary, NEW s \in Run, Backed(s)
    PROVE  Backed(s)'
<1>1. status[s] \in Achieved => status'[s] = status[s]
  <2>1. [RuntimeNext]_rtVars
    BY DEF Ordinary, RuntimeNext
  <2> QED
    BY <2>1, NextKept DEF Kept
<1> QED
  BY <1>1, SettledWithRow DEF Backed, Achieved

(* The ids behind the counter stay unused.                                 *)
LEMMA UnusedKept ==
    ASSUME RowInv, Unused, [RuntimeNext]_rtVars
    PROVE  Unused'
<1>1. sequence \in Nat
  BY BoundAssumption DEF RowInv, IInv, TypeOK
<1>2. CASE \E t \in Task, why \in Trigger : Call(t, why)
  <2>1. sequence' = sequence + 1 /\ UNCHANGED <<settled, active>>
    BY <1>2 DEF Call, RunNow, drainVars
  <2>2. \A r \in Run : r > sequence' => r > sequence
    BY <1>1, <2>1, BoundAssumption DEF Run
  <2> QED
    BY <2>1, <2>2 DEF Unused
<1>3. ASSUME NEW r \in Run, RunStep(r)
      PROVE  Unused'
  <2> SUFFICES ASSUME NEW s \in Run, s > sequence
               PROVE  settled'[s] = "none" /\ \A t \in Task : active'[t] # s
    BY <1>3, RunReach DEF Unused
  <2>1. s # r /\ s # NoRun
    BY <1>1, <1>3, RunReach, BoundAssumption DEF Run, NoRun
  <2> QED
    BY <1>3, <2>1, RunReach DEF Unused
<1>4. CASE Shutdown
  <2> SUFFICES ASSUME NEW s \in Run, s > sequence
               PROVE  settled'[s] = "none" /\ \A t \in Task : active'[t] # s
    BY <1>4 DEF Unused, Shutdown, callVars
  <2>1. settled[s] = "none" /\ active[task[s]] # s
    BY DEF Unused, RowInv, IInv, TypeOK
  <2>2. settled'[s] = settled[s] /\ active' = active
    BY <1>4, <2>1 DEF Shutdown
  <2> QED
    BY <2>1, <2>2 DEF Unused
<1>5. CASE NewLifecycle \/ AbandonOpen \/ ClearRetries \/ UNCHANGED rtVars
  BY <1>5 DEF Unused, NewLifecycle, AbandonOpen, ClearRetries, rtVars,
              callVars, rowVars, drainVars
<1> QED
  BY <1>2, <1>3, <1>4, <1>5 DEF RuntimeNext

-----------------------------------------------------------------------------
(* Which steps touch the counter of lifecycles.                            *)

LEMMA LifecycleKept ==
    ASSUME \/ \E t \in Task, why \in Trigger : Call(t, why)
           \/ \E r \in Run : RunStep(r)
           \/ AbandonOpen \/ ClearRetries \/ UNCHANGED rtVars
    PROVE  lifecycle' = lifecycle
BY DEF Call, RunNow, RunStep, StoreStep, StoreFault, Execution, RecordSkip,
       AppendDone, Withdraw, StartDone, EndDone, RequeueDone, AppendFails,
       StartFails, EndFails, RequeueFails, Acquired, ExecutorReturns,
       ExecutorThrows, Timeout, RetryFires, Cancel, AbandonOpen, ClearRetries,
       rtVars

(* The run the sweep or the tick asks for exists.                          *)
LEMMA NewRun ==
    ASSUME TypeOK, NEW t \in Task, NEW why \in Trigger, Call(t, why)
    PROVE  sequence + 1 \in Run /\ sequence + 1 # NoRun
BY BoundAssumption DEF TypeOK, Call, RunNow, Run, NoRun

-----------------------------------------------------------------------------
(* The scheduler's own variables.                                          *)

(* SchedulerTypeOK without the types of the run machinery, in two parts.   *)
Types ==
    /\ started \in BOOLEAN
    /\ startPc \in {"off", "recovering", "sweeping", "barrier",
                   "arming", "up"}
    /\ stopPc \in {"idle", "waiting"}
    /\ stopStart \in BOOLEAN
    /\ todo \subseteq Task /\ late \subseteq Task
    /\ launch \in Run \union {NoRun}
    /\ lateRun \in Run \union {NoRun}
    /\ tickRun \in Run \union {NoRun}
    /\ awaited \subseteq Run /\ stopWait \subseteq Run
    /\ armed \in Nat /\ rearming \subseteq Nat

Phases ==
    /\ launch # NoRun => startPc = "sweeping"
    /\ lateRun # NoRun => startPc \in {"arming", "up"}
    /\ tickRun # NoRun => armed # 0
    /\ stopStart => Starting /\ stopPc = "waiting"

LEMMA SchedulerTypes == SchedulerTypeOK <=> TypeOK /\ Types /\ Phases
BY DEF SchedulerTypeOK, Types, Phases

Own == Types /\ Phases /\ TimerCurrent /\ Sweeps /\ Honest

(* start() keeps to runs whose completions say what their rows say.        *)
LEMMA HonestStep ==
    ASSUME RowInv, Unused, Ordinary,
           started' /\ startPc' \in {"sweeping", "barrier"} =>
               \A r \in Run : r \in awaited' \/ r = launch' => Backed(r)
    PROVE  Honest'
BY BackedKept DEF Honest

(* Steps of runs and calls of the task API.                                *)
LEMMA RunOwn ==
    ASSUME SchedInv, Ordinary, Own,
           lifecycle' = lifecycle,
           UNCHANGED <<startVars, tickVars, stopPc, stopStart>>,
           stopWait' \subseteq stopWait
    PROVE  Own'
<1> USE DEF startVars, tickVars
<1>1. Honest'
  BY HonestStep DEF SchedInv, Honest
<1> QED
  BY <1>1 DEF Own, Types, Phases, TimerCurrent, Sweeps, Starting

(* start() and its recovery.                                               *)
LEMMA StartOwn ==
    ASSUME SchedInv, Own, RowInv', Start \/ Recover
    PROVE  Own'
<1> USE DEF tickVars, stopVars
<1>1. CASE Start
  <2>1. Ordinary
    BY <1>1 DEF Start, Ordinary
  <2>2. Honest'
    BY <1>1, <2>1, HonestStep DEF SchedInv, Start
  <2>3. TimerCurrent'
    BY <1>1 DEF Own, TimerCurrent, Start
  <2>4. Types' /\ Phases' /\ Sweeps'
    BY <1>1, StartupAssumption DEF Start, Own, Types, Phases, Sweeps, Starting
  <2> QED
    BY <2>2, <2>3, <2>4 DEF Own
<1>2. CASE Recover
  <2>1. Ordinary /\ lifecycle' = lifecycle
    BY <1>2, LifecycleKept DEF Recover, Ordinary
  <2>2. awaited' = {} /\ launch' = NoRun
    BY <1>2 DEF Recover, Own, Sweeps
  <2>3. \A r \in Run : r # NoRun
    BY BoundAssumption DEF Run, NoRun
  <2>4. Honest'
    BY <2>1, <2>2, <2>3, HonestStep DEF SchedInv
  <2>5. Types' /\ Phases' /\ Sweeps' /\ TimerCurrent'
    BY <1>2, <2>1
       DEF Recover, Own, Types, Phases, Sweeps, Starting, TimerCurrent
  <2> QED
    BY <2>4, <2>5 DEF Own
<1> QED
  BY <1>1, <1>2

(* A start() that fails leaves nothing behind.                             *)
LEMMA FailedOwn ==
    ASSUME SchedInv, Own, RecoverFails \/ SweepFails \/ BarrierFails
    PROVE  Own'
<1>1. /\ StartFailed
      /\ Ordinary
  BY DEF RecoverFails, SweepFails, BarrierFails, Ordinary
<1>2. Honest'
  BY <1>1, HonestStep DEF StartFailed, SchedInv
<1>3. Types'
  BY <1>1 DEF StartFailed, Own, Types, NoRun
<1>4. Phases' /\ TimerCurrent' /\ Sweeps'
  BY <1>1 DEF StartFailed, Phases, TimerCurrent, Sweeps
<1> QED
  BY <1>2, <1>3, <1>4 DEF Own

(* A sweep asks for a run: a new one, whose completion is open.            *)
LEMMA SweepOwn ==
    ASSUME SchedInv, Own, NEW t \in Task, SweepRun(t) \/ LateRun(t)
    PROVE  Own'
<1> USE DEF tickVars, stopVars
<1>1. /\ Call(t, "startup") /\ UNCHANGED awaited
      /\ SweepRun(t) => launch' = sequence + 1
  BY DEF SweepRun, LateRun
<1>2. "startup" \in Trigger
  BY StartupAssumption
<1>3. Ordinary /\ lifecycle' = lifecycle
  BY <1>1, <1>2, LifecycleKept DEF Ordinary
<1>4. sequence + 1 \in Run /\ sequence + 1 # NoRun
  BY <1>1, <1>2, NewRun DEF SchedInv, RowInv, IInv
<1>5. settled[sequence + 1] = "none"
  <2>1. sequence + 1 > sequence
    BY BoundAssumption DEF SchedInv, RowInv, IInv, TypeOK
  <2> QED
    BY <1>4, <2>1 DEF SchedInv, Unused
<1>6. Honest'
  <2>1. CASE SweepRun(t)
    <3>1. started /\ startPc = "sweeping"
      BY <2>1 DEF SweepRun
    <3>2. \A r \in Run : r \in awaited' \/ r = launch' => Backed(r)
      BY <1>1, <1>5, <2>1, <3>1 DEF Own, Honest, Backed
    <3> QED
      BY <1>3, <3>2, HonestStep DEF SchedInv
  <2>2. CASE LateRun(t)
    BY <1>3, <2>2, HonestStep DEF SchedInv, LateRun
  <2> QED
    BY <2>1, <2>2
<1>7. Types'
  BY <1>1, <1>4 DEF SweepRun, LateRun, Own, Types
<1>8. Phases' /\ Sweeps' /\ TimerCurrent'
  BY <1>1, <1>3
     DEF SweepRun, LateRun, Own, Phases, Sweeps, Starting, TimerCurrent
<1> QED
  BY <1>6, <1>7, <1>8 DEF Own

(* The other steps of the sweeps and of the barrier.                       *)
LEMMA SweepGoesOn ==
    ASSUME SchedInv, Own,
           \/ SweepResume \/ SweepEnd \/ BarrierPass \/ StartResolves
           \/ LateResume \/ \E t \in Task : SweepDefer(t)
    PROVE  Own'
<1> USE DEF tickVars, stopVars
<1>1. UNCHANGED rtVars
  BY DEF SweepResume, SweepEnd, BarrierPass, StartResolves, LateResume,
         SweepDefer
<1>2. Ordinary /\ lifecycle' = lifecycle
  BY <1>1, LifecycleKept DEF Ordinary
<1>3. lifecycle \in Nat
  BY DEF SchedInv, RowInv, IInv, TypeOK
<1>4. Types'
  BY <1>3 DEF SweepResume, SweepEnd, BarrierPass, StartResolves, LateResume,
         SweepDefer, Own, Types, NoRun
<1>5. Phases'
  BY DEF SweepResume, SweepEnd, BarrierPass, StartResolves, LateResume,
         SweepDefer, Own, Phases, Starting, TimerCurrent
<1>6. TimerCurrent' /\ Sweeps'
  BY <1>2 DEF SweepResume, SweepEnd, BarrierPass, StartResolves, LateResume,
         SweepDefer, Own, TimerCurrent, Sweeps
<1>7. Honest'
  <2>1. CASE BarrierPass \/ StartResolves \/ LateResume
    BY <1>2, <2>1, HonestStep DEF SchedInv, BarrierPass, StartResolves,
       LateResume, Own, Phases, Sweeps
  <2>2. CASE SweepResume \/ SweepEnd \/ \E t \in Task : SweepDefer(t)
    <3>1. \A r \in Run : r \in awaited' \/ r = launch' => Backed(r)
      <4>1. \A r \in Run : r # NoRun
        BY BoundAssumption DEF Run, NoRun
      <4> QED
        BY <2>2, <4>1 DEF SweepResume, SweepEnd, SweepDefer, Own, Honest
    <3> QED
      BY <1>2, <3>1, HonestStep DEF SchedInv
  <2> QED
    BY <2>1, <2>2
<1> QED
  BY <1>4, <1>5, <1>6, <1>7 DEF Own

(* The tick and refresh().                                                 *)
LEMMA TickOwn ==
    ASSUME SchedInv, Own, RowInv',
           \/ TickResume \/ TickEnds \/ Refresh
           \/ (\E l \in rearming : Rearmed(l))
           \/ \E t \in Task : TickRun(t)
    PROVE  Own'
<1> USE DEF startVars, stopVars
<1>1. CASE TickResume \/ TickEnds \/ \E l \in rearming : Rearmed(l)
  <2>1. Ordinary /\ lifecycle' = lifecycle
    BY <1>1, LifecycleKept DEF TickResume, TickEnds, Rearmed, Ordinary
  <2>2. Honest'
    BY <1>1, <2>1, HonestStep DEF TickResume, TickEnds, Rearmed, SchedInv,
       Own, Honest
  <2>3. Types'
    <3>1. CASE TickResume
      BY <3>1 DEF TickResume, Own, Types, NoRun
    <3>2. CASE TickEnds
      BY <3>2 DEF TickEnds, Own, Types
    <3>3. ASSUME NEW l \in rearming, Rearmed(l)
          PROVE  Types'
      BY <3>3 DEF Rearmed, Own, Types
    <3> QED
      BY <1>1, <3>1, <3>2, <3>3
  <2>4. Phases' /\ Sweeps' /\ TimerCurrent'
    BY <1>1, <2>1 DEF TickResume, TickEnds, Rearmed, Own, Types, Phases,
       Sweeps, Starting, TimerCurrent, NoRun
  <2> QED
    BY <2>2, <2>3, <2>4 DEF Own
<1>2. ASSUME NEW t \in Task, TickRun(t)
      PROVE  Own'
  <2>1. "schedule" \in Trigger
    BY StartupAssumption
  <2>2. Ordinary /\ lifecycle' = lifecycle
    BY <1>2, <2>1, LifecycleKept DEF TickRun, Ordinary
  <2>3. sequence + 1 \in Run
    BY <1>2, <2>1, NewRun DEF TickRun, SchedInv, RowInv, IInv
  <2>4. Honest'
    BY <1>2, <2>2, HonestStep DEF TickRun, SchedInv, Own, Honest
  <2>5. Types'
    BY <1>2, <2>3 DEF TickRun, Own, Types
  <2>6. Phases' /\ Sweeps' /\ TimerCurrent'
    BY <1>2, <2>2 DEF TickRun, Own, Phases, Sweeps, Starting, TimerCurrent
  <2> QED
    BY <2>4, <2>5, <2>6 DEF Own
<1>3. CASE Refresh
  <2>1. Ordinary
    BY <1>3 DEF Refresh, Ordinary
  <2>2. Honest'
    BY <1>3, <2>1, HonestStep DEF Refresh, Starting, SchedInv
  <2>3. lifecycle' \in Nat
    BY DEF RowInv, IInv, TypeOK
  <2>4. Types'
    BY <1>3, <2>3 DEF Refresh, Own, Types, NoRun
  <2>5. ~stopStart /\ awaited' = {}
    BY <1>3 DEF Refresh, Own, Phases, Sweeps, Starting
  <2>6. Phases' /\ Sweeps' /\ TimerCurrent'
    BY <1>3, <2>5 DEF Refresh, Own, Phases, Sweeps, TimerCurrent
  <2> QED
    BY <2>2, <2>4, <2>6 DEF Own
<1> QED
  BY <1>1, <1>2, <1>3

(* stop(): no timer is left armed, and start() finds itself overtaken.     *)
LEMMA StopOwn ==
    ASSUME SchedInv, Own, StopBegin \/ StopDone
    PROVE  Own'
<1> USE DEF tickVars
<1>1. CASE StopBegin
  <2>1. Honest'
    BY <1>1 DEF StopBegin, Honest
  <2>2. Types'
    <3>1. stopStart' \in BOOLEAN
      BY <1>1 DEF StopBegin, Starting
    <3>2. /\ launch' \in Run \union {NoRun}
          /\ startPc' \in {"off", "recovering", "sweeping", "barrier",
                          "arming", "up"}
      BY <1>1 DEF StopBegin, Own, Types
    <3>3. UNCHANGED <<todo, awaited, rearming>>
          /\ started' = FALSE /\ armed' = 0 /\ tickRun' = NoRun
          /\ late' = {} /\ lateRun' = NoRun
          /\ stopPc' = "waiting" /\ stopWait' \subseteq Run
      BY <1>1 DEF StopBegin
    <3> QED
      BY <3>1, <3>2, <3>3 DEF Own, Types, NoRun
  <2>3. Phases' /\ Sweeps' /\ TimerCurrent'
    BY <1>1 DEF StopBegin, Own, Phases, Sweeps, TimerCurrent, Starting
  <2> QED
    BY <2>1, <2>2, <2>3 DEF Own
<1>2. CASE StopDone
  <2>1. Ordinary /\ lifecycle' = lifecycle
    BY <1>2, LifecycleKept DEF StopDone, Ordinary
  <2>2. Honest'
    BY <1>2, <2>1, HonestStep DEF StopDone, SchedInv, Own, Honest
  <2>3. Types' /\ Phases' /\ Sweeps' /\ TimerCurrent'
    BY <1>2, <2>1
       DEF StopDone, Own, Types, Phases, Sweeps, TimerCurrent, Starting
  <2> QED
    BY <2>2, <2>3 DEF Own
<1> QED
  BY <1>1, <1>2

-----------------------------------------------------------------------------
(* The invariant is inductive.                                             *)

LEMMA SchedInvParts == SchedInv <=> RowInv /\ Unused /\ Own
BY SchedulerTypes DEF SchedInv, Own, RowInv, IInv

LEMMA SchedInit ==
    ASSUME Init
    PROVE  SchedInv
<1>1. RowInv
  <2>1. Sealed
    BY DEF Init, RuntimeInit, Sealed, Achieved
  <2>2. Tried
    BY BoundAssumption DEF Init, RuntimeInit, Tried
  <2> QED
    BY <2>1, <2>2, InitInvariant DEF RowInv, Init
<1>2. Unused
  BY BoundAssumption DEF Init, RuntimeInit, Unused, Run, NoRun
<1>3. Own
  BY DEF Init, Own, Types, Phases, TimerCurrent, Sweeps, Honest, NoRun,
         Starting
<1> QED
  BY <1>1, <1>2, <1>3, SchedInvParts

LEMMA SchedNext ==
    ASSUME SchedInv, [Next]_vars
    PROVE  SchedInv'
<1>1. RowInv' /\ Unused'
  <2>1. [RuntimeNext]_rtVars
    BY RuntimeStep
  <2>2. IInv'
    BY <2>1, NextInvariant DEF SchedInv, RowInv
  <2>3. Sealed' /\ Tried'
    BY <2>1, NextKept DEF SchedInv, Kept, Sealed, Tried
  <2> QED
    BY <2>1, <2>2, <2>3, UnusedKept DEF SchedInv, RowInv
<1>2. Own
  BY SchedInvParts
<1>3. Own'
  <2> USE DEF startVars, tickVars, stopVars
  <2>1. ASSUME NEW t \in Task, ManualRun(t)
        PROVE  Own'
    <3>1. "manual" \in Trigger
      BY StartupAssumption
    <3>2. Ordinary /\ lifecycle' = lifecycle
      BY <2>1, <3>1, LifecycleKept DEF ManualRun, Ordinary
    <3> QED
      BY <1>2, <2>1, <3>2, RunOwn DEF ManualRun
  <2>2. ASSUME NEW r \in Run, Background(RunStep(r))
        PROVE  Own'
    <3>1. Ordinary /\ lifecycle' = lifecycle
      BY <2>2, LifecycleKept DEF Background, Ordinary
    <3> QED
      BY <1>2, <2>2, <3>1, RunOwn DEF Background
  <2>3. CASE UNCHANGED vars
    <3>1. Ordinary /\ lifecycle' = lifecycle
      BY <2>3, LifecycleKept DEF vars, Ordinary
    <3> QED
      BY <1>2, <2>3, <3>1, RunOwn DEF vars
  <2>4. CASE Start \/ Recover
    BY <1>1, <1>2, <2>4, StartOwn
  <2>5. CASE RecoverFails \/ SweepFails \/ BarrierFails
    BY <1>2, <2>5, FailedOwn
  <2>6. ASSUME NEW t \in Task, SweepRun(t) \/ LateRun(t)
        PROVE  Own'
    BY <1>2, <2>6, SweepOwn
  <2>7. CASE \/ SweepResume \/ SweepEnd \/ BarrierPass \/ StartResolves
             \/ LateResume \/ \E t \in Task : SweepDefer(t)
    BY <1>2, <2>7, SweepGoesOn
  <2>8. CASE \/ TickResume \/ TickEnds \/ Refresh
             \/ (\E l \in rearming : Rearmed(l))
             \/ \E t \in Task : TickRun(t)
    BY <1>1, <1>2, <2>8, TickOwn
  <2>9. CASE StopBegin \/ StopDone
    BY <1>2, <2>9, StopOwn
  <2> QED
    BY <2>1, <2>2, <2>3, <2>4, <2>5, <2>6, <2>7, <2>8, <2>9
       DEF Next, StartStep, TickStep
<1> QED
  BY <1>1, <1>3 DEF SchedInv, SchedulerTypeOK, Own, Types, Phases, RowInv, IInv

-----------------------------------------------------------------------------
(* Theorems.                                                               *)

(* The inductive invariant of the scheduler.                               *)
THEOREM SchedulerInvariance == Spec => []SchedInv
<1>1. Init => SchedInv
  BY SchedInit
<1>2. SchedInv /\ [Next]_vars => SchedInv'
  BY SchedNext
<1> QED
  BY <1>1, <1>2, PTL DEF Spec

(* Every variable of the scheduler keeps its type and phase.               *)
THEOREM SchedulerTypeCorrect == Spec => []SchedulerTypeOK
<1>1. SchedInv => SchedulerTypeOK
  BY DEF SchedInv
<1> QED
  BY <1>1, SchedulerInvariance, PTL

(* An armed timer is one of a running scheduler and of its lifecycle.      *)
THEOREM TimerStaysCurrent == Spec => []TimerCurrent
<1>1. SchedInv => TimerCurrent
  BY DEF SchedInv
<1> QED
  BY <1>1, SchedulerInvariance, PTL

(* The barrier opens only over rows that ended well.                       *)
THEOREM BarrierIsHonest == Spec => BarrierHonest
<1>1. ASSUME SchedInv, [Next]_vars, startPc = "barrier", startPc' = "arming"
      PROVE  \A r \in awaited :
                task[r] \in RequiredTask
                    => status[r] \in {"succeeded", "cancelled"}
  <2>1. BarrierPass
    BY <1>1 DEF Next, StartStep, TickStep, ManualRun, Background, Start,
       Recover, SweepResume, SweepEnd, StartResolves, LateResume, SweepRun,
       SweepDefer, LateRun, RecoverFails, SweepFails, BarrierFails,
       StartFailed, TickResume, TickEnds, Rearmed, TickRun, Refresh, StopBegin,
       StopDone, vars, startVars, tickVars, stopVars
  <2>2. \A r \in awaited : Backed(r)
    BY <1>1, <2>1 DEF SchedInv, Honest, BarrierPass, SchedulerTypeOK
  <2> QED
    BY <2>1, <2>2 DEF BarrierPass, BarrierOk, Backed
<1>2. SchedInv /\ [Next]_vars
          => [startPc = "barrier" /\ startPc' = "arming" =>
                 \A r \in awaited :
                    task[r] \in RequiredTask
                        => status[r] \in {"succeeded", "cancelled"}]_vars
  BY <1>1
<1> QED
  BY <1>2, SchedulerInvariance, PTL DEF Spec, BarrierHonest

=============================================================================
