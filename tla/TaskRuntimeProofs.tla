-------------------------- MODULE TaskRuntimeProofs --------------------------
(***************************************************************************)
(* Proofs about TaskRuntime, for every catalog, permit limit, retry budget *)
(* and number of runs.                                                     *)
(***************************************************************************)
EXTENDS TaskRuntime, FiniteSetTheorems, TLAPS

-----------------------------------------------------------------------------
(* The inductive invariant, in named parts.                                *)

(* A run id that was not allocated has no continuation.                    *)
Fresh == \A r \in Run : r > sequence => pc[r] = "idle"

(* Each execution owns the entry of its task in `active`.                  *)
Ownership == \A r \in Run : pc[r] \in Owning => active[task[r]] = r

(* A collector that is about to run or runs holds a permit.                *)
HeavyHolds ==
    \A r \in Run : IsHeavy(r) /\ pc[r] \in {"acquired", "executing"}
                       => r \in permit

Budgeted == inFlight <= Limit

IInv ==
    /\ TypeOK
    /\ QueueDrained
    /\ Fresh
    /\ Ownership
    /\ PermitsAccounted
    /\ HeavyHolds
    /\ Budgeted

-----------------------------------------------------------------------------
(* Operators.                                                              *)

(* drain() with nothing in the queue changes nothing.                      *)
LEMMA DrainEmpty ==
    ASSUME NEW act, NEW p, p \in [Run -> Pc], Drain({}, act, p)
    PROVE  queue' = {} /\ active' = act /\ pc' = p
BY DEF Drain

(* drain() with one run in the queue starts the run or drops it.           *)
LEMMA DrainOne ==
    ASSUME NEW r \in Run, NEW act, NEW p, p \in [Run -> Pc],
           TypeOK, Drain({r}, act, p)
    PROVE  /\ queue' = {}
           /\ \/ /\ act[task[r]] = NoRun
                 /\ active' = [act EXCEPT ![task[r]] = r]
                 /\ pc' = [p EXCEPT ![r] = "starting"]
              \/ /\ act[task[r]] # NoRun
                 /\ active' = act
                 /\ pc' = [p EXCEPT ![r] = "dropped"]
<1>1. ~Ahead(r, r)
  <2>1. Priority(r) \in Nat
    BY TaskAssumption DEF Priority, TypeOK
  <2>2. r \in Nat
    BY BoundAssumption DEF Run
  <2> QED
    BY <2>1, <2>2 DEF Ahead
<1>2. CASE act[task[r]] # NoRun
  BY <1>2 DEF Drain
<1>3. CASE act[task[r]] = NoRun
  BY <1>1, <1>3 DEF Drain
<1> QED
  BY <1>2, <1>3

(* The permits are finitely many.                                          *)
LEMMA PermitsFinite ==
    ASSUME TypeOK
    PROVE  IsFiniteSet(permit)
<1>1. IsFiniteSet(Run)
  BY FS_Interval, BoundAssumption DEF Run
<1> QED
  BY <1>1, FS_Subset, BoundAssumption DEF TypeOK, BudgetTypeOK

-----------------------------------------------------------------------------
(* What each segment that drains does, now that it finds the queue empty.  *)

(* The stored row of a call: the call is withdrawn, or its run is the only *)
(* one drain sees and starts or is dropped.                                *)
LEMMA AppendEffect ==
    ASSUME TypeOK, QueueDrained, NEW r \in Run, AppendDone(r)
    PROVE  /\ queue' = {}
           /\ \/ /\ guard[r] \notin {0, lifecycle}
                 /\ active' = active
                 /\ pc' = [pc EXCEPT ![r] = "withdrawing"]
              \/ /\ guard[r] \in {0, lifecycle}
                 /\ active[task[r]] = NoRun
                 /\ active' = [active EXCEPT ![task[r]] = r]
                 /\ pc' = [pc EXCEPT ![r] = "starting"]
              \/ /\ guard[r] \in {0, lifecycle}
                 /\ active' = active
                 /\ pc' = [pc EXCEPT ![r] = "dropped"]
<1>1. CASE guard[r] # 0 /\ guard[r] # lifecycle
  BY <1>1 DEF AppendDone, QueueDrained, drainVars
<1>2. CASE guard[r] \in {0, lifecycle}
  <2>1. Drain({r}, active, pc)
    <3>1. queue \union {r} = {r}
      BY DEF QueueDrained
    <3> QED
      BY <1>2, <3>1 DEF AppendDone
  <2> QED
    BY <1>2, <2>1, DrainOne DEF TypeOK
<1> QED
  BY <1>1, <1>2

(* The stored row of a retry: out of its lifecycle it is dropped, otherwise *)
(* it is the only run drain sees.                                          *)
LEMMA RequeueEffect ==
    ASSUME TypeOK, QueueDrained, NEW r \in Run, RequeueDone(r)
    PROVE  /\ queue' = {}
           /\ \/ /\ guard[r] = lifecycle
                 /\ active[task[r]] = NoRun
                 /\ active' = [active EXCEPT ![task[r]] = r]
                 /\ pc' = [pc EXCEPT ![r] = "starting"]
              \/ /\ active' = active
                 /\ pc' = [pc EXCEPT ![r] = "dropped"]
<1>1. CASE guard[r] # lifecycle
  BY <1>1 DEF RequeueDone, QueueDrained, drainVars
<1>2. CASE guard[r] = lifecycle
  <2>1. Drain({r}, active, pc)
    <3>1. queue \union {r} = {r}
      BY DEF QueueDrained
    <3> QED
      BY <1>2, <3>1 DEF RequeueDone
  <2> QED
    BY <1>2, <2>1, DrainOne DEF TypeOK
<1> QED
  BY <1>1, <1>2

(* The stored "running" row: execute takes a permit, waits for one, ends at *)
(* once because it was aborted, or needs none.                             *)
LEMMA StartEffect ==
    ASSUME TypeOK, QueueDrained, NEW r \in Run, StartDone(r)
    PROVE  /\ queue' = {}
           /\ active' = active
           /\ \/ /\ Take(r)
                 /\ pc' = [pc EXCEPT ![r] = "acquired"]
              \/ /\ Enqueue(r)
                 /\ pc' = [pc EXCEPT ![r] = "waiting"]
              \/ /\ UNCHANGED budgetVars
                 /\ pc' = [pc EXCEPT ![r] = "endCancelled"]
              \/ /\ ~IsHeavy(r)
                 /\ UNCHANGED budgetVars
                 /\ pc' = [pc EXCEPT ![r] = "executing"]
<1>1. \A p \in {"acquired", "waiting", "endCancelled", "executing"} :
          /\ [pc EXCEPT ![r] = p] \in [Run -> Pc]
          /\ Drain(queue, active, [pc EXCEPT ![r] = p])
               => /\ queue' = {} /\ active' = active
                  /\ pc' = [pc EXCEPT ![r] = p]
  <2> TAKE p \in {"acquired", "waiting", "endCancelled", "executing"}
  <2>1. [pc EXCEPT ![r] = p] \in [Run -> Pc]
    BY DEF TypeOK, Pc, Owning, Executing, Ending
  <2> QED
    BY <2>1, DrainEmpty DEF QueueDrained
<1> QED
  BY <1>1 DEF StartDone

(* The parked continuations after the finally block of r.                  *)
After(r, p) ==
    [s \in Run |-> IF s = r THEN p
                   ELSE IF s \in permit' \ permit THEN "acquired" ELSE pc[s]]

(* The finally block: the task is free again and the permit goes back or   *)
(* on to the run that waited for it.                                       *)
LEMMA FinallyEffect ==
    ASSUME TypeOK, QueueDrained, NEW r \in Run, NEW p \in Pc, Finally(r, p)
    PROVE  /\ queue' = {}
           /\ active' = [active EXCEPT ![task[r]] = NoRun]
           /\ pc' = After(r, p)
           /\ aborted' = [aborted EXCEPT ![r] = FALSE]
           /\ Release(r)
<1>1. After(r, p) \in [Run -> Pc]
  BY DEF TypeOK, After, Pc, Owning, Executing
<1>2. Drain({}, [active EXCEPT ![task[r]] = NoRun], After(r, p))
  BY DEF Finally, After, QueueDrained
<1> QED
  BY <1>1, <1>2, DrainEmpty DEF Finally

-----------------------------------------------------------------------------
(* The permit counter.                                                     *)

(* acquire() with room keeps the counter equal to the permits held.        *)
LEMMA TakeCounts ==
    ASSUME TypeOK, inFlight = Cardinality(permit), NEW r \in Run,
           r \notin permit, Take(r)
    PROVE  /\ inFlight' = Cardinality(permit')
           /\ inFlight' \in Nat
           /\ inFlight' <= Limit
<1>1. Cardinality(permit \union {r}) = Cardinality(permit) + 1
  BY PermitsFinite, FS_AddElement
<1> QED
  BY <1>1, LimitAssumption DEF Take, HasRoom, TypeOK, BudgetTypeOK

(* So does the release, whether or not a waiter takes the permit over.     *)
LEMMA ReleaseCounts ==
    ASSUME TypeOK, inFlight = Cardinality(permit), Budgeted,
           waiters # {} => inFlight = Limit,
           waiters \intersect permit = {},
           NEW r \in Run, Release(r)
    PROVE  /\ inFlight' = Cardinality(permit')
           /\ inFlight' \in Nat
           /\ inFlight' <= Limit
           /\ waiters' # {} => inFlight' = Limit
<1>1. CASE r \notin permit
  BY <1>1 DEF Release, TypeOK, BudgetTypeOK, Budgeted, budgetVars, lineVars
<1>2. CASE r \in permit
  <2>1. /\ IsFiniteSet(permit \ {r})
        /\ Cardinality(permit \ {r}) = Cardinality(permit) - 1
        /\ Cardinality(permit \ {r}) \in Nat
    BY <1>2, PermitsFinite, FS_RemoveElement, FS_CardinalityType
  <2>2. CASE waiters = {}
    <3>1. /\ inFlight' = inFlight - 1
          /\ permit' = permit \ {r}
          /\ waiters' = {}
      BY <1>2, <2>2 DEF Release, lineVars
    <3> QED
      BY <2>1, <3>1, LimitAssumption DEF TypeOK, BudgetTypeOK, Budgeted
  <2>3. CASE waiters # {}
    <3>1. PICK w \in waiters : permit' = (permit \ {r}) \union {w}
                               /\ inFlight' = inFlight
      BY <1>2, <2>3 DEF Release
    <3>2. Cardinality(permit') = Cardinality(permit \ {r}) + 1
      BY <2>1, <3>1, FS_AddElement
    <3> QED
      BY <2>1, <2>3, <3>1, <3>2 DEF TypeOK, BudgetTypeOK, Budgeted
  <2> QED
    BY <2>2, <2>3
<1> QED
  BY <1>1, <1>2

(* The type of the line and of the permits after a release.                *)
LEMMA ReleaseTypes ==
    ASSUME TypeOK, waiters \intersect permit = {}, NEW r \in Run, Release(r)
    PROVE  /\ waiters' \subseteq waiters
           /\ before' \subseteq waiters' \X waiters'
           /\ permit' \subseteq Client
           /\ permit \ {r} \subseteq permit'
           /\ permit' \subseteq (permit \ {r}) \union waiters
           /\ r \notin waiters => r \notin permit'
           /\ waiters' = waiters \ permit'
BY DEF TypeOK, BudgetTypeOK, Release, Without, First, budgetVars, lineVars

-----------------------------------------------------------------------------
(* The invariant is inductive.                                             *)

(* The parts of the invariant that relate the variables to each other.     *)
Related ==
    QueueDrained /\ Fresh /\ Ownership /\ PermitsAccounted /\ HeavyHolds
        /\ Budgeted

(* A continuation that moves from p to q and touches nothing it shares.    *)
LEMMA PhaseChange ==
    ASSUME IInv, NEW r \in Run, NEW q \in Pc,
           pc' = [pc EXCEPT ![r] = q],
           pc[r] # "idle",
           q \in Owning => pc[r] \in Owning,
           pc[r] # "waiting", q # "waiting",
           r \in permit => q \in Executing,
           IsHeavy(r) /\ q \in {"acquired", "executing"} => r \in permit,
           UNCHANGED <<sequence, task, queue, active, budgetVars>>
    PROVE  Related'
<1> USE DEF IInv, budgetVars, lineVars
<1>1. QueueDrained' /\ Budgeted'
  BY DEF QueueDrained, Budgeted
<1>2. Fresh' /\ Ownership' /\ HeavyHolds'
  BY DEF Fresh, Ownership, HeavyHolds, TypeOK, IsHeavy
<1>3. PermitsAccounted'
  BY DEF PermitsAccounted, TypeOK
<1> QED
  BY <1>1, <1>2, <1>3 DEF Related

(* A run that drain takes: its task was free, its continuation held        *)
(* nothing.                                                                *)
LEMMA Launch ==
    ASSUME IInv, NEW r \in Run,
           pc[r] \in {"appending", "requeueing"},
           active[task[r]] = NoRun,
           active' = [active EXCEPT ![task[r]] = r],
           pc' = [pc EXCEPT ![r] = "starting"],
           queue' = {},
           UNCHANGED <<sequence, task, budgetVars>>
    PROVE  Related'
<1> USE DEF IInv
<1>1. r # NoRun /\ task[r] \in Task
  BY BoundAssumption DEF TypeOK, NoRun, Run
<1>2. QueueDrained' /\ Budgeted' /\ Fresh'
  BY DEF QueueDrained, Budgeted, budgetVars, TypeOK, Fresh
<1>3. Ownership'
  <2> SUFFICES ASSUME NEW s \in Run, pc'[s] \in Owning
               PROVE  active'[task[s]] = s
    BY DEF Ownership
  <2>1. CASE s = r
    BY <1>1, <2>1 DEF TypeOK
  <2>2. CASE s # r
    <3>1. active[task[s]] = s
      BY <2>2 DEF Ownership, TypeOK
    <3>2. s # NoRun
      BY BoundAssumption DEF NoRun, Run
    <3> QED
      BY <1>1, <3>1, <3>2 DEF TypeOK
  <2> QED
    BY <2>1, <2>2
<1>4. HeavyHolds'
  BY DEF TypeOK, HeavyHolds, IsHeavy, budgetVars
<1>5. PermitsAccounted'
  <2>1. UNCHANGED <<inFlight, waiters, permit>>
    BY DEF budgetVars, lineVars
  <2>2. r \notin permit
    BY DEF PermitsAccounted, Executing, Ending
  <2>3. \A s \in Run : pc'[s] = "waiting" <=> pc[s] = "waiting"
    BY DEF TypeOK
  <2>4. \A s \in permit : pc'[s] \in Executing \ {"waiting"}
    BY <2>2, BoundAssumption DEF PermitsAccounted, TypeOK, BudgetTypeOK
  <2> QED
    BY <2>1, <2>3, <2>4 DEF PermitsAccounted
<1> QED
  BY <1>2, <1>3, <1>4, <1>5 DEF Related

(* runNow() up to its first await keeps the invariant: the run id is fresh. *)
LEMMA CallStep ==
    ASSUME IInv, NEW t \in Task, NEW why \in Trigger, Call(t, why)
    PROVE  IInv'
<1> DEFINE r == sequence + 1
<1>1. r \in Run /\ pc[r] = "idle"
  BY BoundAssumption DEF IInv, TypeOK, Run, Fresh, Call, RunNow
<1>2. PICK p \in {"skipping", "appending"} : pc' = [pc EXCEPT ![r] = p]
  BY DEF Call, RunNow
<1>3. /\ task' = [task EXCEPT ![r] = t]
      /\ sequence' = r
      /\ UNCHANGED <<queue, active, budgetVars>>
  BY DEF Call, RunNow, drainVars
<1> HIDE DEF r
<1>4. TypeOK'
  <2>1. why \in {"manual", "schedule", "startup"}
    BY TaskAssumption
  <2>2. UNCHANGED <<status, settled, aborted, faults, lifecycle>>
    BY DEF Call, RunNow
  <2>3. /\ trigger' = [trigger EXCEPT ![r] = why]
        /\ attempt' = [attempt EXCEPT ![r] = 1]
        /\ \E g \in Nat : guard' = [guard EXCEPT ![r] = g]
    BY DEF Call, RunNow, r, IInv, TypeOK
  <2>4. BudgetTypeOK'
    BY <1>3 DEF IInv, TypeOK, BudgetTypeOK, budgetVars, lineVars
  <2>5. sequence' \in 0..MaxRun
    BY <1>1, <1>3, BoundAssumption DEF Run
  <2> QED
    BY <1>1, <1>2, <1>3, <2>1, <2>2, <2>3, <2>4, <2>5
       DEF IInv, TypeOK, Pc, Calling
<1>5. QueueDrained' /\ Budgeted'
  BY <1>3 DEF IInv, QueueDrained, Budgeted, budgetVars, lineVars
<1>6. Fresh' /\ Ownership' /\ HeavyHolds'
  <2>1. \A s \in Run : s > r => s > sequence /\ s # r
    BY BoundAssumption DEF r, IInv, TypeOK, Run
  <2>2. Fresh'
    BY <1>2, <1>3, <2>1 DEF IInv, TypeOK, Fresh
  <2>3. p \notin Owning /\ pc'[r] = p
    BY <1>1, <1>2 DEF IInv, TypeOK, Owning, Executing, Ending
  <2> QED
    BY <1>1, <1>2, <1>3, <2>2, <2>3
       DEF IInv, TypeOK, Ownership, HeavyHolds, IsHeavy, budgetVars
<1>7. PermitsAccounted'
  <2>1. UNCHANGED <<inFlight, waiters, permit>>
    BY <1>3 DEF budgetVars, lineVars
  <2>2. r \notin permit
    BY <1>1 DEF IInv, PermitsAccounted, Executing, Ending
  <2>3. \A s \in Run : pc'[s] = "waiting" <=> pc[s] = "waiting"
    BY <1>1, <1>2 DEF IInv, TypeOK
  <2>4. \A s \in permit : pc'[s] \in Executing \ {"waiting"}
    BY <1>2, <2>2, BoundAssumption
       DEF IInv, PermitsAccounted, TypeOK, BudgetTypeOK
  <2> QED
    BY <2>1, <2>3, <2>4 DEF IInv, PermitsAccounted
<1> QED
  BY <1>4, <1>5, <1>6, <1>7 DEF IInv

(* So does the resolved append, with the push and the drain behind it.     *)
LEMMA AppendStep ==
    ASSUME IInv, NEW r \in Run, AppendDone(r)
    PROVE  IInv'
<1>1. /\ pc[r] = "appending"
      /\ UNCHANGED <<sequence, task, budgetVars>>
      /\ queue' = {} /\ queue' = queue
  BY AppendEffect DEF IInv, AppendDone, callVars, QueueDrained
<1>2. \/ /\ active' = active
         /\ \E p \in {"withdrawing", "dropped"} : pc' = [pc EXCEPT ![r] = p]
      \/ /\ active[task[r]] = NoRun
         /\ active' = [active EXCEPT ![task[r]] = r]
         /\ pc' = [pc EXCEPT ![r] = "starting"]
  BY AppendEffect DEF IInv
<1>3. TypeOK'
  BY <1>1, <1>2 DEF IInv, TypeOK, BudgetTypeOK, AppendDone, callVars, Status,
                    Pc, Calling, Owning, budgetVars, lineVars
<1>4. ASSUME active' = active, NEW p \in {"withdrawing", "dropped"},
             pc' = [pc EXCEPT ![r] = p]
      PROVE  Related'
  <2>1. r \notin permit
    BY <1>1 DEF IInv, PermitsAccounted, Executing, Ending
  <2>2. p \in Pc /\ p \notin Owning
    BY DEF Pc, Calling, Owning, Executing, Ending
  <2> QED
    BY <1>1, <1>4, <2>1, <2>2, PhaseChange
<1>5. Related'
  BY <1>1, <1>2, <1>4, Launch
<1> QED
  BY <1>3, <1>5 DEF IInv, Related

(* So does the resolved transition of a retry back to "queued".            *)
LEMMA RequeueStep ==
    ASSUME IInv, NEW r \in Run, RequeueDone(r)
    PROVE  IInv'
<1>1. /\ pc[r] = "requeueing"
      /\ UNCHANGED <<sequence, task, budgetVars>>
      /\ queue' = {} /\ queue' = queue
  BY RequeueEffect DEF IInv, RequeueDone, callVars, QueueDrained
<1>2. \/ /\ active' = active
         /\ \E p \in {"withdrawing", "dropped"} : pc' = [pc EXCEPT ![r] = p]
      \/ /\ active[task[r]] = NoRun
         /\ active' = [active EXCEPT ![task[r]] = r]
         /\ pc' = [pc EXCEPT ![r] = "starting"]
  BY RequeueEffect DEF IInv
<1>3. TypeOK'
  BY <1>1, <1>2 DEF IInv, TypeOK, BudgetTypeOK, RequeueDone, callVars, Status,
                    Pc, Calling, Owning, budgetVars, lineVars
<1>4. ASSUME active' = active, NEW p \in {"withdrawing", "dropped"},
             pc' = [pc EXCEPT ![r] = p]
      PROVE  Related'
  <2>1. r \notin permit
    BY <1>1 DEF IInv, PermitsAccounted, Executing, Ending
  <2>2. p \in Pc /\ p \notin Owning
    BY DEF Pc, Calling, Owning, Executing, Ending
  <2> QED
    BY <1>1, <1>4, <2>1, <2>2, PhaseChange
<1>5. Related'
  BY <1>1, <1>2, <1>4, Launch
<1> QED
  BY <1>3, <1>5 DEF IInv, Related

(* So does the start of an execution, on each of execute's four ways.      *)
LEMMA StartedStep ==
    ASSUME IInv, NEW r \in Run, StartDone(r)
    PROVE  IInv'
<1>1. /\ pc[r] = "starting" /\ r \notin permit /\ r \notin waiters
      /\ UNCHANGED <<sequence, task, active>>
      /\ queue' = {}
      /\ \/ Take(r) /\ pc' = [pc EXCEPT ![r] = "acquired"]
         \/ Enqueue(r) /\ pc' = [pc EXCEPT ![r] = "waiting"]
         \/ /\ UNCHANGED budgetVars
            /\ \/ pc' = [pc EXCEPT ![r] = "endCancelled"]
               \/ ~IsHeavy(r) /\ pc' = [pc EXCEPT ![r] = "executing"]
  BY StartEffect DEF IInv, StartDone, callVars, PermitsAccounted, Executing, Ending
<1>2. /\ inFlight' = Cardinality(permit')
      /\ inFlight' \in Nat
      /\ inFlight' <= Limit
      /\ waiters' # {} => inFlight' = Limit
  <2>1. CASE Take(r)
    <3>1. waiters' = {}
      BY <2>1, LimitAssumption
         DEF IInv, TypeOK, BudgetTypeOK, PermitsAccounted, Take, HasRoom, lineVars
    <3> QED
      BY <1>1, <2>1, <3>1, TakeCounts DEF IInv, PermitsAccounted
  <2>2. CASE Enqueue(r)
    BY <2>2, LimitAssumption DEF IInv, TypeOK, BudgetTypeOK, PermitsAccounted, Budgeted,
             Enqueue, HasRoom
  <2>3. CASE UNCHANGED budgetVars
    BY <2>3 DEF IInv, TypeOK, BudgetTypeOK, PermitsAccounted, Budgeted,
                budgetVars, lineVars
  <2> QED
    BY <1>1, <2>1, <2>2, <2>3
<1>3. TypeOK'
  <2>1. BudgetTypeOK'
    BY <1>1, <1>2, BoundAssumption
       DEF IInv, TypeOK, BudgetTypeOK, Take, Enqueue, budgetVars, lineVars
  <2> QED
    BY <1>1, <2>1 DEF IInv, TypeOK, StartDone, callVars, Status, Pc,
                      Owning, Executing, Ending
<1>4. QueueDrained' /\ Budgeted'
  BY <1>1, <1>2 DEF QueueDrained, Budgeted
<1>5. Fresh' /\ Ownership'
  BY <1>1 DEF IInv, TypeOK, Fresh, Ownership, Owning
<1>6. HeavyHolds'
  BY <1>1 DEF IInv, TypeOK, HeavyHolds, IsHeavy, Take, Enqueue, budgetVars
<1>7. PermitsAccounted'
  <2>1. waiters' = {s \in Run : pc'[s] = "waiting"}
    BY <1>1 DEF IInv, TypeOK, PermitsAccounted, Take, Enqueue, budgetVars,
                lineVars
  <2>2. \A s \in permit' : pc'[s] \in Executing \ {"waiting"}
    <3>1. permit' \subseteq permit \union {r}
      BY <1>1 DEF Take, Enqueue, budgetVars
    <3>2. CASE Enqueue(r) /\ pc' = [pc EXCEPT ![r] = "waiting"]
      BY <1>1, <3>2, BoundAssumption
         DEF IInv, TypeOK, BudgetTypeOK, PermitsAccounted, Enqueue
    <3>3. ASSUME NEW p \in {"acquired", "endCancelled", "executing"},
                 pc' = [pc EXCEPT ![r] = p]
          PROVE  \A s \in permit' : pc'[s] \in Executing \ {"waiting"}
      BY <3>1, <3>3, BoundAssumption
         DEF IInv, TypeOK, BudgetTypeOK, PermitsAccounted, Executing, Ending
    <3> QED
      BY <1>1, <3>2, <3>3
  <2> QED
    BY <1>2, <2>1, <2>2 DEF PermitsAccounted
<1> QED
  BY <1>3, <1>4, <1>5, <1>6, <1>7 DEF IInv

(* The end of an execution: the permit and the entry of `active` go.       *)
LEMMA FinallyStep ==
    ASSUME IInv, NEW r \in Run, NEW p \in {"retryWait", "done"},
           pc[r] \in Ending, Finally(r, p),
           UNCHANGED <<sequence, task>>
    PROVE  /\ Related'
           /\ BudgetTypeOK'
           /\ pc' \in [Run -> Pc]
           /\ aborted' \in [Run -> BOOLEAN]
           /\ queue' \subseteq Run
           /\ active' \in [Task -> Run \union {NoRun}]
<1>1. /\ queue' = {}
      /\ active' = [active EXCEPT ![task[r]] = NoRun]
      /\ pc' = After(r, p)
      /\ aborted' = [aborted EXCEPT ![r] = FALSE]
      /\ Release(r)
  <2>1. p \in Pc
    BY DEF Pc
  <2> QED
    BY <2>1, FinallyEffect DEF IInv
<1>2. /\ waiters \intersect permit = {}
      /\ r \notin waiters
      /\ waiters = {s \in Run : pc[s] = "waiting"}
  BY DEF IInv, PermitsAccounted, Ending
<1>3. /\ inFlight' = Cardinality(permit')
      /\ inFlight' \in Nat
      /\ inFlight' <= Limit
      /\ waiters' # {} => inFlight' = Limit
  BY <1>1, <1>2, ReleaseCounts DEF IInv, PermitsAccounted
<1>4. /\ waiters' = waiters \ permit'
      /\ before' \subseteq waiters' \X waiters'
      /\ permit' \subseteq Client
      /\ permit \ {r} \subseteq permit'
      /\ permit' \subseteq (permit \ {r}) \union waiters
  BY <1>1, <1>2, ReleaseTypes DEF IInv
<1>5. \A s \in Run :
         /\ s = r => pc'[s] = p
         /\ s # r /\ s \in permit' \ permit => pc'[s] = "acquired"
         /\ s # r /\ s \notin permit' \ permit => pc'[s] = pc[s]
  BY <1>1 DEF After
<1>6. BudgetTypeOK'
  BY <1>3, <1>4 DEF IInv, TypeOK, BudgetTypeOK
<1>7. /\ pc' \in [Run -> Pc]
      /\ aborted' \in [Run -> BOOLEAN]
      /\ queue' \subseteq Run
      /\ active' \in [Task -> Run \union {NoRun}]
  BY <1>1 DEF IInv, TypeOK, After, Pc, Owning, Executing
<1>8. QueueDrained' /\ Budgeted'
  BY <1>1, <1>3 DEF QueueDrained, Budgeted
<1>9. Fresh'
  BY <1>2, <1>4, <1>5 DEF IInv, Fresh, Ending, TypeOK
<1>10. Ownership'
  <2> SUFFICES ASSUME NEW s \in Run, pc'[s] \in Owning
               PROVE  active'[task[s]] = s
    BY DEF Ownership
  <2>1. s # r
    BY <1>5 DEF Owning, Executing, Ending
  <2>2. pc[s] \in Owning
    BY <1>2, <1>4, <1>5, <2>1 DEF Owning, Executing
  <2>3. active[task[s]] = s /\ active[task[r]] = r
    BY <2>2 DEF IInv, Ownership, Owning, Executing
  <2> QED
    BY <1>1, <2>1, <2>3 DEF IInv, TypeOK
<1>11. HeavyHolds'
  <2> SUFFICES ASSUME NEW s \in Run, IsHeavy(s),
                      pc'[s] \in {"acquired", "executing"}
               PROVE  s \in permit'
    BY DEF HeavyHolds, IsHeavy
  <2> QED
    BY <1>4, <1>5 DEF IInv, HeavyHolds
<1>12. PermitsAccounted'
  <2>1. waiters' = {s \in Run : pc'[s] = "waiting"}
    BY <1>2, <1>4, <1>5
  <2>2. \A s \in permit' : pc'[s] \in Executing \ {"waiting"}
    <3> SUFFICES ASSUME NEW s \in permit'
                 PROVE  pc'[s] \in Executing \ {"waiting"}
      OBVIOUS
    <3>1. s \in Run /\ s # r
      BY <1>2, <1>4, BoundAssumption DEF IInv, TypeOK, BudgetTypeOK
    <3>2. CASE s \in permit
      BY <1>5, <3>1, <3>2 DEF IInv, PermitsAccounted
    <3>3. CASE s \notin permit
      BY <1>5, <3>1, <3>3 DEF Executing
    <3> QED
      BY <3>2, <3>3
  <2> QED
    BY <1>3, <2>1, <2>2 DEF PermitsAccounted
<1> QED
  BY <1>6, <1>7, <1>8, <1>9, <1>10, <1>11, <1>12 DEF Related

(* So does the resolved terminal transition with the finally block.        *)
LEMMA EndStep ==
    ASSUME IInv, NEW r \in Run, EndDone(r)
    PROVE  IInv'
<1>1. PICK p \in {"retryWait", "done"} : Finally(r, p)
  BY DEF EndDone
<1>2. pc[r] \in Ending /\ UNCHANGED <<sequence, task>>
  BY DEF EndDone, callVars
<1>3. /\ Related' /\ BudgetTypeOK' /\ pc' \in [Run -> Pc]
      /\ aborted' \in [Run -> BOOLEAN] /\ queue' \subseteq Run
      /\ active' \in [Task -> Run \union {NoRun}]
  BY <1>1, <1>2, FinallyStep
<1>4. EndStatus(pc[r]) \in Terminal
  BY DEF EndStatus, Terminal
<1>5. /\ status' \in [Run -> Status]
      /\ settled' \in [Run -> {"none"} \union Terminal]
      /\ guard' \in [Run -> Nat]
  <2>1. guard' = guard \/ guard' = [guard EXCEPT ![r] = lifecycle]
    BY DEF EndDone
  <2> QED
    BY <1>4, <2>1 DEF IInv, TypeOK, EndDone, Settle, Status
<1> QED
  BY <1>3, <1>5 DEF IInv, Related, TypeOK, EndDone, callVars

(* So does the rejected one, in the try block and in the catch block.      *)
LEMMA EndFailsStep ==
    ASSUME IInv, NEW r \in Run, EndFails(r)
    PROVE  IInv'
<1>1. pc[r] \in Ending /\ UNCHANGED <<callVars, rowVars, lifecycle>>
      /\ faults' = faults + 1
  BY DEF EndFails
<1>2. CASE pc[r] \in {"endSucceeded", "endAborted"}
  <2>1. PICK p \in {"endCancelled", "endFailed"} : pc' = [pc EXCEPT ![r] = p]
    BY <1>2 DEF EndFails
  <2>2. UNCHANGED <<drainVars, aborted, budgetVars>>
    BY <1>2 DEF EndFails
  <2>3. p \in Pc /\ p \in Executing
    BY DEF Pc, Owning, Executing, Ending
  <2>4. Related'
    BY <1>1, <1>2, <2>1, <2>2, <2>3, PhaseChange
       DEF callVars, drainVars, Owning, Executing, Ending
  <2>5. TypeOK'
    BY <1>1, <2>1, <2>2, <2>3
       DEF IInv, TypeOK, BudgetTypeOK, callVars, rowVars, drainVars,
           budgetVars, lineVars
  <2> QED
    BY <2>4, <2>5 DEF IInv, Related
<1>3. CASE pc[r] \notin {"endSucceeded", "endAborted"}
  <2>1. Finally(r, "done")
    BY <1>3 DEF EndFails
  <2>2. /\ Related' /\ BudgetTypeOK' /\ pc' \in [Run -> Pc]
        /\ aborted' \in [Run -> BOOLEAN] /\ queue' \subseteq Run
        /\ active' \in [Task -> Run \union {NoRun}]
    BY <1>1, <2>1, FinallyStep DEF callVars
  <2> QED
    BY <1>1, <2>2 DEF IInv, Related, TypeOK, callVars, rowVars
<1> QED
  BY <1>2, <1>3

(* An abort takes runs out of the line.                                    *)
LEMMA AbortStep ==
    ASSUME IInv, NEW S \in SUBSET Run, Leave(S), pc' \in [Run -> Pc],
           \A s \in Run :
              \/ pc'[s] = pc[s] /\ ~(s \in S /\ pc[s] = "waiting")
              \/ s \in S /\ pc[s] = "waiting" /\ pc'[s] = "endCancelled"
              \/ pc[s] = "retryWait" /\ pc'[s] = "done",
           queue' = {},
           UNCHANGED <<sequence, task, active>>
    PROVE  Related' /\ BudgetTypeOK'
<1>1. /\ UNCHANGED <<inFlight, permit>>
      /\ waiters' = waiters \ S
      /\ before' \subseteq waiters' \X waiters'
  BY DEF Leave, Without, IInv, TypeOK, BudgetTypeOK
<1>2. QueueDrained' /\ Budgeted' /\ Fresh'
  BY <1>1 DEF IInv, QueueDrained, Budgeted, Fresh
<1>3. Ownership' /\ HeavyHolds'
  BY <1>1 DEF IInv, Ownership, HeavyHolds, IsHeavy, Owning, Executing, Ending
<1>4. PermitsAccounted'
  <2>1. waiters' = {s \in Run : pc'[s] = "waiting"}
    BY <1>1 DEF IInv, PermitsAccounted
  <2>2. \A s \in permit : pc'[s] \in Executing \ {"waiting"}
    BY BoundAssumption
       DEF IInv, TypeOK, BudgetTypeOK, PermitsAccounted, Executing, Ending
  <2> QED
    BY <1>1, <2>1, <2>2 DEF IInv, PermitsAccounted
<1> QED
  BY <1>1, <1>2, <1>3, <1>4 DEF Related, IInv, TypeOK, BudgetTypeOK

(* So does cancel(): it aborts the run that owns its task.                 *)
LEMMA CancelStep ==
    ASSUME IInv, NEW r \in Run, Cancel(r)
    PROVE  IInv'
<1>1. /\ aborted' = [aborted EXCEPT ![r] = TRUE]
      /\ pc' = [pc EXCEPT ![r] = IF @ = "waiting" THEN "endCancelled" ELSE @]
      /\ Leave({r})
      /\ UNCHANGED queue
      /\ UNCHANGED <<callVars, rowVars, active, faults, lifecycle>>
  BY DEF Cancel, IInv, QueueDrained
<1>2. pc' \in [Run -> Pc]
  BY <1>1 DEF IInv, TypeOK, Pc, Owning, Executing, Ending
<1>3. Related' /\ BudgetTypeOK'
  BY <1>1, <1>2, AbortStep DEF IInv, TypeOK, QueueDrained, callVars
<1> QED
  BY <1>1, <1>2, <1>3 DEF IInv, TypeOK, Related, callVars, rowVars

(* So does the synchronous part of stop().                                 *)
LEMMA ShutdownStep ==
    ASSUME IInv, Shutdown
    PROVE  IInv'
<1> DEFINE owners == {r \in Run : active[task[r]] = r}
<1>1. /\ lifecycle' = lifecycle + 1
      /\ queue' = {}
      /\ aborted' = [r \in Run |-> aborted[r] \/ r \in owners]
      /\ Leave(owners)
      /\ UNCHANGED <<callVars, attempt, status, guard, active, faults>>
  BY DEF Shutdown
<1>2. pc' = [r \in Run |->
               IF pc[r] = "retryWait" THEN "done"
               ELSE IF r \in owners /\ pc[r] = "waiting" THEN "endCancelled"
               ELSE pc[r]]
  BY DEF Shutdown, IInv, QueueDrained
<1>3. settled' \in [Run -> {"none"} \union Terminal]
  BY DEF Shutdown, IInv, TypeOK, Terminal
<1> HIDE DEF owners
<1>4. pc' \in [Run -> Pc]
  BY <1>2 DEF IInv, TypeOK, Pc, Owning, Executing, Ending
<1>5. Related' /\ BudgetTypeOK'
  <2>1. owners \in SUBSET Run
    BY DEF owners
  <2> QED
    BY <1>1, <1>2, <1>4, <2>1, AbortStep DEF callVars
<1> QED
  BY <1>1, <1>3, <1>4, <1>5 DEF IInv, TypeOK, Related, callVars

(* The segments that only move one continuation.                           *)
Moves(r, P) ==
    /\ \E q \in P : pc' = [pc EXCEPT ![r] = q]
    /\ UNCHANGED <<sequence, task, trigger, attempt, guard, queue, active,
                   aborted, budgetVars, lifecycle>>

(* Such a segment keeps the relations between the maps.                    *)
LEMMA MoveStep ==
    ASSUME IInv, NEW r \in Run,
           \/ pc[r] \in {"appending", "skipping", "withdrawing", "starting",
                         "retryWait", "requeueing"}
              /\ Moves(r, {"done", "rejected", "wedged", "requeueing"})
           \/ pc[r] \in {"acquired", "executing"}
              /\ Moves(r, Ending \union {"executing"})
    PROVE  Related' /\ pc' \in [Run -> Pc] /\ BudgetTypeOK'
<1>1. BudgetTypeOK'
  BY DEF Moves, IInv, TypeOK, BudgetTypeOK, budgetVars, lineVars
<1>2. CASE /\ pc[r] \in {"appending", "skipping", "withdrawing", "starting",
                         "retryWait", "requeueing"}
           /\ Moves(r, {"done", "rejected", "wedged", "requeueing"})
  <2>1. PICK q \in {"done", "rejected", "wedged", "requeueing"} :
                pc' = [pc EXCEPT ![r] = q]
    BY <1>2 DEF Moves
  <2>2. q \in Pc /\ q \notin Owning
    BY DEF Pc, Calling, Owning, Executing, Ending
  <2>3. r \notin permit
    BY <1>2 DEF IInv, PermitsAccounted, Executing, Ending
  <2>4. Related'
    BY <1>2, <2>1, <2>2, <2>3, PhaseChange DEF Moves
  <2> QED
    BY <1>1, <2>1, <2>2, <2>4 DEF IInv, TypeOK
<1>3. CASE /\ pc[r] \in {"acquired", "executing"}
           /\ Moves(r, Ending \union {"executing"})
  <2>1. PICK q \in Ending \union {"executing"} : pc' = [pc EXCEPT ![r] = q]
    BY <1>3 DEF Moves
  <2>2. q \in Pc /\ q \in Executing /\ q \notin {"waiting", "acquired"}
        /\ pc[r] \in Owning
    BY <1>3 DEF Pc, Owning, Executing, Ending
  <2>3. IsHeavy(r) => r \in permit
    BY <1>3 DEF IInv, HeavyHolds
  <2>4. Related'
    BY <1>3, <2>1, <2>2, <2>3, PhaseChange DEF Moves
  <2> QED
    BY <1>1, <2>1, <2>2, <2>4 DEF IInv, TypeOK
<1> QED
  BY <1>2, <1>3

(* So do the actions of that form: skips, rejections, aborts, timers and   *)
(* the executor's return.                                                  *)
LEMMA RunMoves ==
    ASSUME IInv, NEW r \in Run,
           \/ RecordSkip(r) \/ Withdraw(r) \/ AppendFails(r) \/ StartFails(r)
           \/ RequeueFails(r) \/ RetryFires(r) \/ Acquired(r)
           \/ ExecutorReturns(r) \/ ExecutorThrows(r)
    PROVE  IInv'
<1> USE DEF callVars, rowVars, drainVars
<1>1. \/ pc[r] \in {"appending", "skipping", "withdrawing", "starting",
                    "retryWait", "requeueing"}
         /\ Moves(r, {"done", "rejected", "wedged", "requeueing"})
      \/ pc[r] \in {"acquired", "executing"}
         /\ Moves(r, Ending \union {"executing"})
  <2>1. CASE RecordSkip(r) \/ Withdraw(r) \/ AppendFails(r) \/ StartFails(r)
                \/ RequeueFails(r)
    BY <2>1 DEF RecordSkip, Withdraw, AppendFails, StartFails, RequeueFails,
                Moves
  <2>2. CASE RetryFires(r)
    BY <2>2 DEF RetryFires, Moves
  <2>3. CASE Acquired(r)
    BY <2>3 DEF Acquired, Moves, Ending
  <2>4. CASE ExecutorReturns(r)
    BY <2>4 DEF ExecutorReturns, Moves, Ending
  <2>5. CASE ExecutorThrows(r)
    BY <2>5 DEF ExecutorThrows, Moves, Ending
  <2> QED
    BY <2>1, <2>2, <2>3, <2>4, <2>5
<1>2. Related' /\ pc' \in [Run -> Pc] /\ BudgetTypeOK'
  BY <1>1, MoveStep
<1>3. /\ UNCHANGED <<sequence, task, trigger, attempt, guard, queue, active,
                     aborted, lifecycle>>
  BY <1>1 DEF Moves
<1>4. /\ status' \in [Run -> Status]
      /\ settled' \in [Run -> {"none"} \union Terminal]
      /\ faults' \in Nat
  <2>1. CASE RecordSkip(r) \/ Withdraw(r)
    BY <2>1 DEF RecordSkip, Withdraw, Settle, Status, Terminal, IInv, TypeOK
  <2>2. CASE ~(RecordSkip(r) \/ Withdraw(r))
    BY <2>2 DEF AppendFails, StartFails, RequeueFails, RetryFires, Acquired,
                ExecutorReturns, ExecutorThrows, IInv, TypeOK
  <2> QED
    BY <2>1, <2>2
<1> QED
  BY <1>2, <1>3, <1>4 DEF IInv, TypeOK, Related

(* Every step of one run keeps the invariant.                              *)
LEMMA RunStepInvariant ==
    ASSUME IInv, NEW r \in Run, RunStep(r)
    PROVE  IInv'
<1>1. CASE AppendDone(r)
  BY <1>1, AppendStep
<1>2. CASE StartDone(r)
  BY <1>2, StartedStep
<1>3. CASE EndDone(r)
  BY <1>3, EndStep
<1>4. CASE RequeueDone(r)
  BY <1>4, RequeueStep
<1>5. CASE EndFails(r)
  BY <1>5, EndFailsStep
<1>6. CASE Cancel(r)
  BY <1>6, CancelStep
<1>7. CASE Timeout(r)
  BY <1>7 DEF Timeout, IInv, TypeOK, BudgetTypeOK, QueueDrained, Fresh,
              Ownership, PermitsAccounted, HeavyHolds, IsHeavy, Budgeted,
              callVars, rowVars, drainVars, budgetVars, lineVars
<1>8. CASE \/ RecordSkip(r) \/ Withdraw(r) \/ AppendFails(r) \/ StartFails(r)
           \/ RequeueFails(r) \/ RetryFires(r) \/ Acquired(r)
           \/ ExecutorReturns(r) \/ ExecutorThrows(r)
  BY <1>8, RunMoves
<1> QED
  BY <1>1, <1>2, <1>3, <1>4, <1>5, <1>6, <1>7, <1>8
     DEF RunStep, StoreStep, StoreFault, Execution

(* So do start(), recoverRunning() and the end of a failed start.          *)
LEMMA LifecycleSteps ==
    ASSUME IInv, NewLifecycle \/ AbandonOpen \/ ClearRetries
    PROVE  IInv'
<1> USE DEF callVars, rowVars, drainVars
<1>1. UNCHANGED <<sequence, task, trigger, attempt, guard, settled, drainVars,
                  aborted, budgetVars, faults>>
  BY DEF NewLifecycle, AbandonOpen, ClearRetries
<1>2. /\ lifecycle' \in Nat
      /\ status' \in [Run -> Status]
  BY DEF NewLifecycle, AbandonOpen, ClearRetries, IInv, TypeOK, Status,
         Terminal
<1>3. /\ pc' \in [Run -> Pc]
      /\ \A r \in Run : \/ pc'[r] = pc[r]
                        \/ pc[r] = "retryWait" /\ pc'[r] = "done"
  BY DEF NewLifecycle, AbandonOpen, ClearRetries, IInv, TypeOK, Pc
<1>4. TypeOK'
  BY <1>1, <1>2, <1>3 DEF IInv, TypeOK, BudgetTypeOK, budgetVars, lineVars
<1>5. QueueDrained' /\ Budgeted' /\ Fresh' /\ Ownership' /\ HeavyHolds'
  BY <1>1, <1>3 DEF IInv, QueueDrained, Budgeted, Fresh, Ownership,
         HeavyHolds, IsHeavy, Owning, Executing, Ending, budgetVars
<1>6. PermitsAccounted'
  <2>1. UNCHANGED <<inFlight, waiters, permit>>
    BY <1>1 DEF budgetVars, lineVars
  <2>2. waiters' = {r \in Run : pc'[r] = "waiting"}
    BY <1>3, <2>1 DEF IInv, PermitsAccounted
  <2>3. \A r \in permit : pc'[r] \in Executing \ {"waiting"}
    BY <1>3, BoundAssumption
       DEF IInv, TypeOK, BudgetTypeOK, PermitsAccounted, Executing, Ending
  <2> QED
    BY <2>1, <2>2, <2>3 DEF IInv, PermitsAccounted
<1> QED
  BY <1>4, <1>5, <1>6 DEF IInv

(* The invariant holds when the scheduler is created.                      *)
LEMMA InitInvariant ==
    ASSUME RuntimeInit
    PROVE  IInv
<1>1. TypeOK
  BY TaskAssumption, BoundAssumption
     DEF RuntimeInit, BudgetInit, TypeOK, BudgetTypeOK, Status, Pc, NoRun
<1>2. QueueDrained /\ Fresh /\ Ownership /\ HeavyHolds /\ Budgeted
  BY LimitAssumption
     DEF RuntimeInit, BudgetInit, QueueDrained, Fresh, Ownership, HeavyHolds,
         Budgeted, Owning, Executing, Ending
<1>3. PermitsAccounted
  BY FS_EmptySet DEF RuntimeInit, BudgetInit, PermitsAccounted
<1> QED
  BY <1>1, <1>2, <1>3 DEF IInv

(* Every step of the runtime keeps it.                                     *)
LEMMA NextInvariant ==
    ASSUME IInv, [RuntimeNext]_rtVars
    PROVE  IInv'
<1>1. CASE \E t \in Task, why \in Trigger : Call(t, why)
  BY <1>1, CallStep
<1>2. CASE \E r \in Run : RunStep(r)
  BY <1>2, RunStepInvariant
<1>3. CASE NewLifecycle \/ AbandonOpen \/ ClearRetries
  BY <1>3, LifecycleSteps
<1>4. CASE Shutdown
  BY <1>4, ShutdownStep
<1>5. CASE UNCHANGED rtVars
  BY <1>5 DEF IInv, TypeOK, BudgetTypeOK, QueueDrained, Fresh, Ownership,
              PermitsAccounted, HeavyHolds, IsHeavy, Budgeted, rtVars,
              callVars, rowVars, drainVars, budgetVars, lineVars
<1> QED
  BY <1>1, <1>2, <1>3, <1>4, <1>5 DEF RuntimeNext

-----------------------------------------------------------------------------
(* Theorems.                                                               *)

(* The inductive invariant holds of every behaviour; the theorems below    *)
(* read it.                                                                *)
THEOREM Invariance == RuntimeSpec => []IInv
<1>1. RuntimeInit => IInv
  BY InitInvariant
<1>2. IInv /\ [RuntimeNext]_rtVars => IInv'
  BY NextInvariant
<1> QED
  BY <1>1, <1>2, PTL DEF RuntimeSpec

(* Every variable keeps its type, the permit counter never goes negative.  *)
THEOREM TypeCorrect == RuntimeSpec => []TypeOK
<1>1. IInv => TypeOK
  BY DEF IInv
<1> QED
  BY <1>1, Invariance, PTL

(* The queue is empty whenever control returns to the event loop: the      *)
(* priorities that runNow assigns, maxQueueSize and the queued branches of *)
(* cancel() and stop() never take effect.                                  *)
THEOREM QueueAlwaysDrained == RuntimeSpec => []QueueDrained
<1>1. IInv => QueueDrained
  BY DEF IInv
<1> QED
  BY <1>1, Invariance, PTL

(* No two runs of a task are executed at the same time.                    *)
THEOREM SingleFlightHolds == RuntimeSpec => []SingleFlight
<1>1. IInv => SingleFlight
  BY DEF IInv, Ownership, SingleFlight
<1> QED
  BY <1>1, Invariance, PTL

(* No permit leaks.                                                        *)
THEOREM NoPermitLeaks == RuntimeSpec => []PermitsAccounted
<1>1. IInv => PermitsAccounted
  BY DEF IInv
<1> QED
  BY <1>1, Invariance, PTL

(* At most Limit heavy collectors run.                                     *)
THEOREM HeavyBudgetHolds == RuntimeSpec => []HeavyBudget
<1>1. IInv => HeavyBudget
  <2> DEFINE H == {r \in Run : IsHeavy(r) /\ pc[r] \in {"acquired", "executing"}}
  <2> SUFFICES ASSUME IInv
               PROVE  Cardinality(H) <= Limit
    BY DEF HeavyBudget
  <2>1. H \subseteq permit
    BY DEF IInv, HeavyHolds
  <2>2. IsFiniteSet(permit)
    BY PermitsFinite DEF IInv
  <2>3. /\ Cardinality(H) <= Cardinality(permit)
        /\ Cardinality(H) \in Nat /\ Cardinality(permit) \in Nat
    BY <2>1, <2>2, FS_Subset, FS_CardinalityType
  <2>4. Cardinality(permit) <= Limit
    BY DEF IInv, PermitsAccounted, Budgeted
  <2> HIDE DEF H
  <2> QED
    BY <2>3, <2>4, LimitAssumption
<1> QED
  BY <1>1, Invariance, PTL

-----------------------------------------------------------------------------
(* Rows, retries and lifecycles of a run.                                  *)

Achieved == {"succeeded", "cancelled", "skipped"}

(* A run whose row says what it achieved has no continuation left.         *)
Sealed == \A r \in Run : status[r] \in Achieved => pc[r] = "done"

(* A continuation that retries has an attempt left.                        *)
Tried ==
    \A r \in Run :
        /\ attempt[r] <= MaxAttempts + 1
        /\ pc[r] \in {"endRetry", "retryWait", "requeueing"}
               => attempt[r] <= MaxAttempts

RowInv == IInv /\ Sealed /\ Tried

(* What a step owes to one run.                                            *)
Kept(s) ==
    /\ status[s] \in Achieved => status'[s] = status[s]
    /\ status'[s] \in Achieved => pc'[s] = "done"
    /\ attempt'[s] <= MaxAttempts + 1
    /\ pc'[s] \in {"endRetry", "retryWait", "requeueing"}
           => attempt'[s] <= MaxAttempts
    /\ pc[s] \in {"appending", "requeueing"} /\ pc'[s] = "starting"
           => guard[s] \in {0, lifecycle}

(* What a step does to a run that did not take it.                         *)
Bystander(s) ==
    /\ \/ pc'[s] = pc[s]
       \/ pc[s] = "waiting" /\ pc'[s] \in {"acquired", "endCancelled"}
       \/ pc[s] = "retryWait" /\ pc'[s] = "done"
    /\ \/ status'[s] = status[s]
       \/ status[s] \in {"queued", "running"} /\ status'[s] = "abandoned"
    /\ attempt'[s] = attempt[s]

LEMMA BystanderKept ==
    ASSUME RowInv, NEW s \in Run, Bystander(s)
    PROVE  Kept(s)
<1>1. /\ attempt[s] \in Nat
      /\ attempt'[s] <= MaxAttempts + 1
  BY DEF RowInv, IInv, TypeOK, Bystander, Tried
<1>2. /\ status[s] \in Achieved => status'[s] = status[s]
      /\ status'[s] \in Achieved => pc'[s] = "done"
  BY DEF RowInv, Sealed, Bystander, Achieved
<1>3. pc'[s] \in {"endRetry", "retryWait", "requeueing"}
          => attempt'[s] <= MaxAttempts
  BY DEF RowInv, Tried, Bystander
<1>4. ~(pc[s] \in {"appending", "requeueing"} /\ pc'[s] = "starting")
  BY DEF Bystander
<1> QED
  BY <1>1, <1>2, <1>3, <1>4 DEF Kept

(* A step that parks the continuation of r at q and leaves the rows of the *)
(* other runs alone.                                                       *)
Parks(r, q) ==
    /\ pc' = [pc EXCEPT ![r] = q]
    /\ \A s \in Run \ {r} : status'[s] = status[s] /\ attempt'[s] = attempt[s]

LEMMA ParkedKept ==
    ASSUME RowInv, NEW r \in Run, NEW q, Parks(r, q), Kept(r)
    PROVE  \A s \in Run : Kept(s)
<1> TAKE s \in Run
<1>1. CASE s = r
  BY <1>1
<1>2. CASE s # r
  <2>1. Bystander(s)
    BY <1>2 DEF Bystander, Parks, RowInv, IInv, TypeOK
  <2> QED
    BY <2>1, BystanderKept
<1> QED
  BY <1>1, <1>2

(* The allocated run is new: it has no row and no attempt behind it.       *)
LEMMA CallKept ==
    ASSUME RowInv, NEW t \in Task, NEW why \in Trigger, Call(t, why)
    PROVE  \A s \in Run : Kept(s)
<1> DEFINE r == sequence + 1
<1>1. r \in Run /\ pc[r] = "idle"
  BY BoundAssumption DEF RowInv, IInv, TypeOK, Run, Fresh, Call, RunNow
<1>2. PICK q \in {"skipping", "appending"} : pc' = [pc EXCEPT ![r] = q]
  BY DEF Call, RunNow
<1>3. UNCHANGED status /\ attempt' = [attempt EXCEPT ![r] = 1]
  BY DEF Call, RunNow
<1> HIDE DEF r
<1>4. Parks(r, q)
  BY <1>1, <1>2, <1>3 DEF Parks, RowInv, IInv, TypeOK
<1>5. pc'[r] = q /\ attempt'[r] = 1 /\ status'[r] = status[r]
  BY <1>1, <1>2, <1>3 DEF RowInv, IInv, TypeOK
<1>6. status[r] \notin Achieved
  BY <1>1 DEF RowInv, Sealed
<1>7. 1 <= MaxAttempts + 1
  BY BoundAssumption
<1>8. Kept(r)
  BY <1>1, <1>5, <1>6, <1>7 DEF Kept
<1> QED
  BY <1>1, <1>4, <1>8, ParkedKept

(* A stored row of a call: the run starts only in its lifecycle.           *)
LEMMA AppendKept ==
    ASSUME RowInv, NEW r \in Run, AppendDone(r)
    PROVE  \A s \in Run : Kept(s)
<1>1. PICK q \in {"withdrawing", "starting", "dropped"} :
          /\ pc' = [pc EXCEPT ![r] = q]
          /\ q = "starting" => guard[r] \in {0, lifecycle}
  BY AppendEffect DEF RowInv, IInv
<1>2. /\ pc[r] = "appending"
      /\ status' = [status EXCEPT ![r] = "queued"]
      /\ UNCHANGED attempt
  BY DEF AppendDone
<1>3. Parks(r, q)
  BY <1>1, <1>2 DEF Parks, RowInv, IInv, TypeOK
<1>4. pc'[r] = q /\ status'[r] = "queued" /\ attempt'[r] = attempt[r]
  BY <1>1, <1>2 DEF RowInv, IInv, TypeOK
<1>5. status[r] \notin Achieved /\ attempt[r] <= MaxAttempts + 1
  BY <1>2 DEF RowInv, Sealed, Tried
<1>6. Kept(r)
  BY <1>1, <1>4, <1>5 DEF Kept, Achieved
<1> QED
  BY <1>3, <1>6, ParkedKept

(* A stored row of a retry: one attempt more than before.                  *)
LEMMA RequeueKept ==
    ASSUME RowInv, NEW r \in Run, RequeueDone(r)
    PROVE  \A s \in Run : Kept(s)
<1>1. PICK q \in {"starting", "dropped"} :
          /\ pc' = [pc EXCEPT ![r] = q]
          /\ q = "starting" => guard[r] = lifecycle
  BY RequeueEffect DEF RowInv, IInv
<1>2. /\ pc[r] = "requeueing"
      /\ status' = [status EXCEPT ![r] = "queued"]
      /\ attempt' = [attempt EXCEPT ![r] = @ + 1]
  BY DEF RequeueDone
<1>3. Parks(r, q)
  BY <1>1, <1>2 DEF Parks, RowInv, IInv, TypeOK
<1>4. pc'[r] = q /\ status'[r] = "queued" /\ attempt'[r] = attempt[r] + 1
  BY <1>1, <1>2 DEF RowInv, IInv, TypeOK
<1>5. status[r] \notin Achieved
  BY <1>2 DEF RowInv, Sealed
<1>6. attempt'[r] <= MaxAttempts + 1
  <2>1. attempt[r] <= MaxAttempts /\ attempt[r] \in Nat
    BY <1>2 DEF RowInv, Tried, IInv, TypeOK
  <2> QED
    BY <1>4, <2>1, BoundAssumption
<1>7. Kept(r)
  BY <1>1, <1>4, <1>5, <1>6 DEF Kept, Achieved
<1> QED
  BY <1>3, <1>7, ParkedKept

(* The row of a running execution is open until its end is stored.         *)
LEMMA StartKept ==
    ASSUME RowInv, NEW r \in Run, StartDone(r)
    PROVE  \A s \in Run : Kept(s)
<1>1. PICK q \in {"acquired", "waiting", "endCancelled", "executing"} :
          pc' = [pc EXCEPT ![r] = q]
  BY StartEffect DEF RowInv, IInv
<1>2. /\ pc[r] = "starting"
      /\ status' = [status EXCEPT ![r] = "running"]
      /\ UNCHANGED attempt
  BY DEF StartDone
<1>3. Parks(r, q)
  BY <1>1, <1>2 DEF Parks, RowInv, IInv, TypeOK
<1>4. pc'[r] = q /\ status'[r] = "running" /\ attempt'[r] = attempt[r]
  BY <1>1, <1>2 DEF RowInv, IInv, TypeOK
<1>5. status[r] \notin Achieved /\ attempt[r] <= MaxAttempts + 1
  BY <1>2 DEF RowInv, Sealed, Tried
<1>6. Kept(r)
  BY <1>2, <1>4, <1>5 DEF Kept, Achieved
<1> QED
  BY <1>3, <1>6, ParkedKept

(* The finally block hands the permit to a run that waits; nobody else     *)
(* moves.                                                                  *)
LEMMA FinallyKept ==
    ASSUME RowInv, NEW r \in Run, NEW q \in {"retryWait", "done"},
           pc[r] \in Ending, Finally(r, q), Kept(r),
           \A s \in Run \ {r} :
              status'[s] = status[s] /\ attempt'[s] = attempt[s]
    PROVE  \A s \in Run : Kept(s)
<1>1. pc' = After(r, q) /\ Release(r)
  BY FinallyEffect DEF RowInv, IInv, Pc
<1>2. permit' \subseteq permit \union {s \in Run : pc[s] = "waiting"}
  <2>1. waiters \intersect permit = {}
        /\ waiters = {s \in Run : pc[s] = "waiting"}
    BY DEF RowInv, IInv, PermitsAccounted
  <2> QED
    BY <1>1, <2>1, ReleaseTypes DEF RowInv, IInv
<1> TAKE s \in Run
<1>3. CASE s = r
  BY <1>3
<1>4. CASE s # r
  <2>1. s \in permit' \ permit => pc[s] = "waiting"
    BY <1>2
  <2>2. pc'[s] = IF s \in permit' \ permit THEN "acquired" ELSE pc[s]
    BY <1>1, <1>4 DEF After
  <2>3. Bystander(s)
    BY <1>4, <2>1, <2>2 DEF Bystander
  <2> QED
    BY <2>3, BystanderKept
<1> QED
  BY <1>3, <1>4

(* The stored end of an execution.                                         *)
LEMMA EndKept ==
    ASSUME RowInv, NEW r \in Run, EndDone(r)
    PROVE  \A s \in Run : Kept(s)
<1>1. /\ pc[r] \in Ending
      /\ status' = [status EXCEPT ![r] = EndStatus(pc[r])]
      /\ UNCHANGED attempt
  BY DEF EndDone, callVars
<1>2. PICK q \in {"retryWait", "done"} :
          Finally(r, q) /\ (q = "retryWait" <=> pc[r] = "endRetry")
  BY DEF EndDone
<1>3. pc'[r] = q
  BY <1>1, <1>2, FinallyEffect DEF RowInv, IInv, Pc, After
<1>4. status'[r] = EndStatus(pc[r]) /\ attempt'[r] = attempt[r]
  BY <1>1 DEF RowInv, IInv, TypeOK
<1>5. status[r] \notin Achieved
  BY <1>1 DEF RowInv, Sealed, Ending
<1>6. status'[r] \in Achieved => q = "done"
  BY <1>1, <1>2, <1>4 DEF EndStatus, Achieved, Ending
<1>7. /\ attempt[r] <= MaxAttempts + 1
      /\ q = "retryWait" => attempt[r] <= MaxAttempts
  BY <1>2 DEF RowInv, Tried
<1>8. Kept(r)
  BY <1>1, <1>2, <1>3, <1>4, <1>5, <1>6, <1>7 DEF Kept, Ending
<1>9. \A s \in Run \ {r} : status'[s] = status[s] /\ attempt'[s] = attempt[s]
  BY <1>1 DEF RowInv, IInv, TypeOK
<1> QED
  BY <1>1, <1>2, <1>8, <1>9, FinallyKept

(* The end of an execution that the store rejected.                        *)
LEMMA EndFailsKept ==
    ASSUME RowInv, NEW r \in Run, EndFails(r)
    PROVE  \A s \in Run : Kept(s)
<1>1. pc[r] \in Ending /\ UNCHANGED <<status, attempt>>
  BY DEF EndFails, rowVars
<1>2. status[r] \notin Achieved /\ attempt[r] <= MaxAttempts + 1
  BY <1>1 DEF RowInv, Sealed, Tried, Ending
<1>3. CASE pc[r] \in {"endSucceeded", "endAborted"}
  <2>1. PICK q \in {"endCancelled", "endFailed"} : pc' = [pc EXCEPT ![r] = q]
    BY <1>3 DEF EndFails
  <2>2. Parks(r, q) /\ pc'[r] = q
    BY <1>1, <2>1 DEF Parks, RowInv, IInv, TypeOK
  <2>3. Kept(r)
    BY <1>1, <1>2, <2>2 DEF Kept
  <2> QED
    BY <2>2, <2>3, ParkedKept
<1>4. CASE pc[r] \notin {"endSucceeded", "endAborted"}
  <2>1. Finally(r, "done")
    BY <1>4 DEF EndFails
  <2>2. pc'[r] = "done"
    BY <2>1, FinallyEffect DEF RowInv, IInv, Pc, After
  <2>3. Kept(r)
    BY <1>1, <1>2, <2>2 DEF Kept
  <2> QED
    BY <1>1, <2>1, <2>3, FinallyKept
<1> QED
  BY <1>3, <1>4

(* The segments of one run that only move its continuation: skips and      *)
(* withdrawals write the last row, a retry is asked for only with an       *)
(* attempt left.                                                           *)
LEMMA MoveKept ==
    ASSUME RowInv, NEW r \in Run,
           \/ RecordSkip(r) \/ Withdraw(r) \/ AppendFails(r) \/ StartFails(r)
           \/ RequeueFails(r) \/ RetryFires(r) \/ Acquired(r)
           \/ ExecutorReturns(r) \/ ExecutorThrows(r)
    PROVE  \A s \in Run : Kept(s)
<1>1. UNCHANGED attempt
  BY DEF RecordSkip, Withdraw, AppendFails, StartFails, RequeueFails,
         RetryFires, Acquired, ExecutorReturns, ExecutorThrows, rowVars
<1>2. pc[r] \notin {"done", "retryWait"} \/ RetryFires(r)
  BY DEF RecordSkip, Withdraw, AppendFails, StartFails, RequeueFails,
         RetryFires, Acquired, ExecutorReturns, ExecutorThrows
<1>3. status[r] \notin Achieved /\ attempt[r] <= MaxAttempts + 1
  BY <1>2 DEF RowInv, Sealed, Tried, RetryFires
<1>4. CASE RecordSkip(r) \/ Withdraw(r)
  <2>1. /\ pc' = [pc EXCEPT ![r] = "done"]
        /\ \E v \in Achieved : status' = [status EXCEPT ![r] = v]
    BY <1>4 DEF RecordSkip, Withdraw, Achieved
  <2>2. Parks(r, "done") /\ pc'[r] = "done"
    BY <1>1, <2>1 DEF Parks, RowInv, IInv, TypeOK
  <2>3. Kept(r)
    BY <1>1, <1>3, <2>2 DEF Kept
  <2> QED
    BY <2>2, <2>3, ParkedKept
<1>5. CASE ~(RecordSkip(r) \/ Withdraw(r))
  <2>1. UNCHANGED status
    BY <1>5 DEF AppendFails, StartFails, RequeueFails, RetryFires, Acquired,
                ExecutorReturns, ExecutorThrows, rowVars
  <2>2. PICK q \in Ending \union {"rejected", "wedged", "done", "requeueing",
                                  "executing"} :
            /\ pc' = [pc EXCEPT ![r] = q]
            /\ q \in {"endRetry", "requeueing"} => attempt[r] <= MaxAttempts
    <3>1. CASE AppendFails(r) \/ StartFails(r) \/ RequeueFails(r)
      BY <3>1 DEF AppendFails, StartFails, RequeueFails
    <3>2. CASE RetryFires(r)
      <4>1. attempt[r] <= MaxAttempts
        BY <3>2 DEF RetryFires, RowInv, Tried
      <4> QED
        BY <3>2, <4>1 DEF RetryFires
    <3>3. CASE Acquired(r) \/ ExecutorReturns(r)
      BY <3>3 DEF Acquired, ExecutorReturns, Ending
    <3>4. CASE ExecutorThrows(r)
      BY <3>4 DEF ExecutorThrows, Ending
    <3> QED
      BY <1>5, <3>1, <3>2, <3>3, <3>4
  <2>3. Parks(r, q) /\ pc'[r] = q
    BY <1>1, <2>1, <2>2 DEF Parks, RowInv, IInv, TypeOK
  <2>4. Kept(r)
    BY <1>1, <1>3, <2>1, <2>2, <2>3 DEF Kept, Ending
  <2> QED
    BY <2>3, <2>4, ParkedKept
<1> QED
  BY <1>4, <1>5

(* Timeouts, aborts and lifecycles touch rows only to abandon open ones.   *)
LEMMA OutsideKept ==
    ASSUME RowInv,
           \/ \E r \in Run : Timeout(r) \/ Cancel(r)
           \/ NewLifecycle \/ AbandonOpen \/ Shutdown \/ ClearRetries
           \/ UNCHANGED rtVars
    PROVE  \A s \in Run : Kept(s)
<1> TAKE s \in Run
<1> USE DEF rowVars
<1>1. /\ UNCHANGED attempt
      /\ \/ status'[s] = status[s]
         \/ status[s] \in {"queued", "running"} /\ status'[s] = "abandoned"
  BY DEF Timeout, Cancel, NewLifecycle, AbandonOpen, Shutdown, ClearRetries,
         rtVars
<1>2. \/ pc'[s] = pc[s]
      \/ pc[s] = "waiting" /\ pc'[s] = "endCancelled"
      \/ pc[s] = "retryWait" /\ pc'[s] = "done"
  <2>1. CASE \E r \in Run : Cancel(r)
    BY <2>1 DEF Cancel, RowInv, IInv, TypeOK, QueueDrained
  <2>2. CASE Shutdown
    BY <2>2 DEF Shutdown, RowInv, IInv, QueueDrained
  <2>3. CASE \/ \E r \in Run : Timeout(r)
             \/ NewLifecycle \/ AbandonOpen \/ ClearRetries
             \/ UNCHANGED rtVars
    BY <2>3 DEF Timeout, NewLifecycle, AbandonOpen, ClearRetries, rtVars
  <2> QED
    BY <2>1, <2>2, <2>3
<1>3. Bystander(s)
  BY <1>1, <1>2 DEF Bystander
<1> QED
  BY <1>3, BystanderKept

(* Every step of the runtime keeps what it owes to every run.              *)
LEMMA NextKept ==
    ASSUME RowInv, [RuntimeNext]_rtVars
    PROVE  \A s \in Run : Kept(s)
<1>1. CASE \E t \in Task, why \in Trigger : Call(t, why)
  BY <1>1, CallKept
<1>2. ASSUME NEW r \in Run, RunStep(r)
      PROVE  \A s \in Run : Kept(s)
  BY <1>2, AppendKept, RequeueKept, StartKept, EndKept, EndFailsKept,
     MoveKept, OutsideKept
     DEF RunStep, StoreStep, StoreFault, Execution
<1>3. CASE \/ NewLifecycle \/ AbandonOpen \/ Shutdown \/ ClearRetries
           \/ UNCHANGED rtVars
  BY <1>3, OutsideKept
<1> QED
  BY <1>1, <1>2, <1>3 DEF RuntimeNext

(* The parts about rows and attempts are inductive with IInv.              *)
THEOREM RowInvariance == RuntimeSpec => []RowInv
<1>1. RuntimeInit => RowInv
  <2> SUFFICES ASSUME RuntimeInit
               PROVE  RowInv
    OBVIOUS
  <2>1. Sealed
    BY DEF RuntimeInit, Sealed, Achieved
  <2>2. Tried
    BY BoundAssumption DEF RuntimeInit, Tried
  <2> QED
    BY <2>1, <2>2, InitInvariant DEF RowInv
<1>2. RowInv /\ [RuntimeNext]_rtVars => RowInv'
  <2> SUFFICES ASSUME RowInv, [RuntimeNext]_rtVars
               PROVE  RowInv'
    OBVIOUS
  <2>1. IInv'
    BY NextInvariant DEF RowInv
  <2>2. Sealed' /\ Tried'
    BY NextKept DEF Kept, Sealed, Tried
  <2> QED
    BY <2>1, <2>2 DEF RowInv
<1> QED
  BY <1>1, <1>2, PTL DEF RuntimeSpec

(* A run is attempted at most MaxAttempts + 1 times.                       *)
THEOREM RetriesBounded == RuntimeSpec => []RetryBounded
<1>1. RowInv => RetryBounded
  BY DEF RowInv, Tried, RetryBounded
<1> QED
  BY <1>1, RowInvariance, PTL

(* A stored success, cancellation or skip is never written again.          *)
THEOREM RowsStayFinal == RuntimeSpec => RowsFinal
<1>1. RowInv /\ [RuntimeNext]_rtVars
          => [\A r \in Run :
                 status[r] \in {"succeeded", "cancelled", "skipped"}
                     => status'[r] = status[r]]_rtVars
  BY NextKept DEF Kept, Achieved
<1> QED
  BY <1>1, RowInvariance, PTL DEF RuntimeSpec, RowsFinal

(* Neither a call nor a retry of an older lifecycle starts.                *)
THEOREM StaleRunsAreKeptOut == RuntimeSpec => StaleRunsStayOut
<1>1. RowInv /\ [RuntimeNext]_rtVars
          => [\A r \in Run :
                 pc[r] \in {"appending", "requeueing"} /\ pc'[r] = "starting"
                     => guard[r] \in {0, lifecycle}]_rtVars
  BY NextKept DEF Kept
<1> QED
  BY <1>1, RowInvariance, PTL DEF RuntimeSpec, StaleRunsStayOut

=============================================================================
