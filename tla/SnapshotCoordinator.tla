------------------------- MODULE SnapshotCoordinator -------------------------
(***************************************************************************)
(* One snapshot domain: src/platform/snapshot-runtime/coordinator.ts over  *)
(* its repository.  An action is one segment of the code between awaits; a *)
(* call of the repository takes effect (or fails without effect) in the    *)
(* segment that makes it and resolves in a later one.                      *)
(*                                                                         *)
(* The sources a collector reads are a version number that mutations       *)
(* increase; the data of a snapshot is the version it was collected from.  *)
(* The collector is that of the usage domain, usageCollect() of            *)
(* src/app/composition.server.ts over usage-collector.server.ts: a scan    *)
(* that runs out of time, throws or finds no healthy source falls back on  *)
(* what is there already, in memory or else in the store.                  *)
(***************************************************************************)
EXTENDS Naturals

CONSTANTS
    FreshFor,           \* options.freshForMs, in ticks of the clock
    Reloads,            \* options.reloadAfterCommit is configured
    ClearDuringLoad,    \* clear() may be called while load() is pending
    MaxVersion,         \* bound: versions of the sources
    MaxClock,           \* bound: ticks of the clock
    MaxFaults,          \* bound: calls of the repository that reject
    MaxRestarts         \* bound: restarts of the process

ASSUME SnapshotAssumption ==
    /\ FreshFor \in Nat /\ MaxVersion \in Nat \ {0, 1} /\ MaxClock \in Nat
    /\ MaxFaults \in Nat /\ MaxRestarts \in Nat
    /\ Reloads \in BOOLEAN /\ ClearDuringLoad \in BOOLEAN

VARIABLES
    world,      \* version of the sources
    clock,
    store,      \* the persisted envelope
    current,    \* the envelope in memory
    load,       \* "none", "pending" with loaded, or "done"
    loaded,
    hydrated,
    refresh,    \* where the refresh in flight is, or "idle"
    previous,   \* what the collector was given
    next,       \* the envelope this refresh is making
    aborted,    \* the signal of the refresh in flight
    clearing,   \* where clear() is
    invalidated,
    demanded,   \* history: the version the last invalidate() was about
    overlapped, \* history: a refresh was in flight when it was called
    faults,
    restarts

volatile == <<current, load, loaded, hydrated, refresh, previous, next, aborted,
              clearing, invalidated>>
history == <<demanded, overlapped>>
vars == <<world, clock, store, volatile, history, faults, restarts>>

Null == 0       \* the data of an empty envelope
Blank == 1      \* EMPTY_SNAPSHOT, which shows nothing but is not null; the
                \* versions of the sources come after it

(* An envelope: at is generatedAt.  The code does not keep the rest: began *)
(* is when the refresh that committed it started, taken is when its data   *)
(* was read from the sources, and from says whether that was a scan or the *)
(* spare of a refresh that had no scan and nothing in memory.              *)
Envelope ==
    {e \in [data : 0..MaxVersion, at : 0..MaxClock, began : 0..MaxClock,
            taken : 0..MaxClock, from : {"scan", "spare"},
            status : {"empty", "fresh", "stale"}] :
        /\ e.status = "empty" => e.data = Null
        /\ e.data = Null => e.status # "fresh"}
Empty == [data |-> Null, at |-> 0, began |-> 0, taken |-> 0, from |-> "scan",
          status |-> "empty"]

ByAge ==
    IF current.data = Null THEN "empty"
    ELSE IF clock - current.at <= FreshFor THEN "fresh" ELSE "stale"

StatusByAge ==      \* mutant of Status: the explicit stale status is lost
    IF invalidated /\ current.data # Null THEN "stale" ELSE ByAge

(* statusOf(current): an explicit staleness wins over the age.             *)
Status ==
    IF (invalidated /\ current.data # Null) \/ current.status = "stale"
    THEN "stale" ELSE ByAge

TypeOK ==
    /\ world \in Blank + 1..MaxVersion /\ clock \in 0..MaxClock
    /\ store \in Envelope /\ current \in Envelope
    /\ load \in {"none", "pending", "done"} /\ loaded \in Envelope
    /\ hydrated \in BOOLEAN
    /\ refresh \in {"idle", "collecting", "scanned", "failing", "saving",
                    "reloading"}
    /\ previous \in Envelope /\ next \in Envelope
    /\ aborted \in BOOLEAN
    /\ clearing \in {"no", "waiting", "erasing", "failing"}
    /\ invalidated \in BOOLEAN
    /\ demanded \in 0..MaxVersion /\ overlapped \in BOOLEAN
    /\ faults \in 0..MaxFaults /\ restarts \in 0..MaxRestarts

InitVolatile ==
    /\ current = Empty /\ load = "none" /\ loaded = Empty
    /\ hydrated = FALSE
    /\ refresh = "idle" /\ previous = Empty /\ next = Empty
    /\ aborted = FALSE /\ clearing = "no" /\ invalidated = FALSE

Init ==
    /\ world = Blank + 1 /\ clock = 0 /\ store = Empty
    /\ InitVolatile
    /\ demanded = 0 /\ overlapped = FALSE
    /\ faults = 0 /\ restarts = 0

-----------------------------------------------------------------------------
(* The repository.                                                         *)

(* One call of the repository: it works, or it rejects and does nothing.   *)
Call(effect, failure) ==
    \/ effect /\ UNCHANGED faults
    \/ faults < MaxFaults /\ faults' = faults + 1 /\ failure

-----------------------------------------------------------------------------
(* hydrate(): concurrent first reads share one load.                       *)

Hydrate ==
    /\ ~hydrated /\ load = "none"
    /\ load' = "pending"
    /\ Call(loaded' = store, loaded' = Empty)
    /\ UNCHANGED <<world, clock, store, current, hydrated, refresh, previous, next,
                   aborted, clearing, invalidated, history, restarts>>

HydrateDone ==
    /\ load = "pending"
    /\ load' = "done" /\ loaded' = Empty
    /\ current' = loaded
    /\ hydrated' = TRUE
    /\ UNCHANGED <<world, clock, store, refresh, previous, next, aborted,
                   clearing, invalidated, history, faults, restarts>>

-----------------------------------------------------------------------------
(* refreshNow(): single-flight, refused while clear() is going on.         *)

RefreshBegin ==
    /\ hydrated /\ clearing = "no" /\ refresh = "idle"
    /\ refresh' = "collecting"
    /\ previous' = current
    /\ next' = [Empty EXCEPT !.began = clock]
    /\ aborted' = FALSE
    /\ UNCHANGED <<world, clock, store, current, load, loaded, hydrated, clearing,
                   invalidated, history, faults, restarts>>

(* collect(): the scan reads the sources; the rest of the collector        *)
(* (classification, the index of the scan) and the commit come later.  A   *)
(* single source that came back lifeless keeps its previous evidence       *)
(* (retainSourceEvidence); the version does not tell sources apart.        *)
Scan ==
    /\ refresh = "collecting"
    /\ refresh' = "scanned"
    /\ next' = [next EXCEPT !.data = world, !.taken = clock, !.status = "fresh"]
    /\ UNCHANGED <<world, clock, store, current, load, loaded, hydrated, previous,
                   aborted, clearing, invalidated, history, faults, restarts>>

(* There is no scan, and nothing in memory to hand back: the result is     *)
(* what the collector's own load() finds, or EMPTY_SNAPSHOT, and it is not *)
(* marked staleRefreshed.                                                  *)
Spare ==
    /\ refresh = "collecting" /\ previous.data = Null
    /\ refresh' = "scanned"
    /\ LET With(data, taken) == [next EXCEPT !.data = data, !.taken = taken,
                                  !.from = "spare", !.status = "fresh"]
       IN Call(next' = IF store.data # Null THEN With(store.data, store.taken)
                       ELSE With(Blank, 0),
               next' = With(Blank, 0))
    /\ UNCHANGED <<world, clock, store, current, load, loaded, hydrated, previous,
                   aborted, clearing, invalidated, history, restarts>>

(* commit(): the abort check, then the save.                               *)
Commit(envelope) ==
    /\ ~aborted
    /\ next' = envelope
    /\ Call(store' = envelope /\ refresh' = "saving",
            UNCHANGED store /\ refresh' = "failing")
    /\ UNCHANGED <<world, clock, current, load, loaded, hydrated, previous, aborted,
                   clearing, invalidated, history, restarts>>

Collected == refresh = "scanned" /\ Commit([next EXCEPT !.at = clock])

(* staleRefreshed: the collector hands back what it was given.             *)
ReusedAsNew ==      \* mutant of Reused: stamps a fresh generatedAt and status
    /\ refresh = "collecting" /\ previous.data # Null
    /\ Commit([previous EXCEPT !.at = clock, !.began = next.began,
                               !.status = "fresh"])

ReusedNothing ==    \* mutant of Reused: also when there is nothing to reuse
    /\ refresh = "collecting"
    /\ Commit([previous EXCEPT !.status = "fresh"])

Reused ==
    /\ refresh = "collecting" /\ previous.data # Null
    /\ Commit([previous EXCEPT !.at = current.at, !.began = next.began,
                               !.status = "stale"])

RefreshEnds ==
    /\ refresh' = "idle" /\ aborted' = FALSE
    /\ previous' = Empty /\ next' = Empty

(* The collector threw, the signal was aborted, or the save rejected: the  *)
(* last-known-good stays, apart from its diagnostics.                      *)
FailedShowsNext ==      \* mutant of Failed: memory runs ahead of the store
    /\ refresh \in {"failing", "collecting", "scanned"}
    /\ RefreshEnds
    /\ current' = IF refresh = "failing" THEN next ELSE current
    /\ UNCHANGED <<world, clock, store, load, loaded, hydrated, clearing,
                   invalidated, history, faults, restarts>>

Failed ==
    /\ refresh \in {"failing", "collecting", "scanned"}
    /\ RefreshEnds
    /\ UNCHANGED <<world, clock, store, current, load, loaded, hydrated, clearing,
                   invalidated, history, faults, restarts>>

(* The envelope in memory is the committed one, or the one that            *)
(* reloadAfterCommit read back.                                            *)
Shown ==
    /\ RefreshEnds
    /\ current' = next
    /\ invalidated' = FALSE
    /\ UNCHANGED <<world, clock, store, load, loaded, hydrated, clearing, history,
                   restarts>>

(* save() resolved.                                                        *)
Saved ==
    /\ refresh = "saving"
    /\ IF Reloads
       THEN /\ refresh' = "reloading"
            /\ Call(next' = IF store.data # Null THEN store ELSE next,
                    UNCHANGED next)
            /\ UNCHANGED <<world, clock, store, current, load, loaded, hydrated,
                           previous, aborted, clearing, invalidated, history,
                           restarts>>
       ELSE Shown /\ UNCHANGED faults

Reloaded == refresh = "reloading" /\ Shown /\ UNCHANGED faults

-----------------------------------------------------------------------------
(* invalidate(), by the handler of a mutation.  It also asks the task      *)
(* runtime for a refresh; when one comes is left open.                     *)
Invalidate ==
    /\ hydrated
    /\ invalidated' = TRUE
    /\ current' = [current EXCEPT !.status = "stale"]
    /\ demanded' = world
    /\ overlapped' = (refresh # "idle")
    /\ UNCHANGED <<world, clock, store, load, loaded, hydrated, refresh, previous, next,
                   aborted, clearing, faults, restarts>>

(* clear(): waits for the refresh in flight and erases memory and store.   *)
Erase ==
    /\ current' = Empty
    /\ Call(store' = Empty /\ clearing' = "erasing",
            UNCHANGED store /\ clearing' = "failing")

ClearHasty ==       \* mutant of Clear: does not wait for the refresh
    /\ clearing = "no"
    /\ ClearDuringLoad \/ load # "pending"
    /\ Erase
    /\ UNCHANGED <<world, clock, load, loaded, hydrated, refresh, previous, next,
                   aborted, invalidated, history, restarts>>

Clear ==
    /\ clearing = "no"
    /\ ClearDuringLoad \/ load # "pending"
    /\ IF refresh = "idle" THEN Erase
       ELSE clearing' = "waiting" /\ UNCHANGED <<current, store, faults>>
    /\ UNCHANGED <<world, clock, load, loaded, hydrated, refresh, previous, next,
                   aborted, invalidated, history, restarts>>

ClearGoesOn ==
    /\ clearing = "waiting" /\ refresh = "idle"
    /\ Erase
    /\ UNCHANGED <<world, clock, load, loaded, hydrated, refresh, previous, next,
                   aborted, invalidated, history, restarts>>

ClearDone ==
    /\ clearing \in {"erasing", "failing"}
    /\ clearing' = "no"
    /\ hydrated' = (hydrated \/ clearing = "erasing")
    /\ UNCHANGED <<world, clock, store, current, load, loaded, refresh, previous,
                   next, aborted, invalidated, history, faults, restarts>>

-----------------------------------------------------------------------------
(* The environment.                                                        *)

(* The task runtime aborts the run that refreshes.                         *)
Abort ==
    /\ refresh # "idle" /\ ~aborted
    /\ aborted' = TRUE
    /\ UNCHANGED <<world, clock, store, current, load, loaded, hydrated, refresh,
                   previous, next, clearing, invalidated, history, faults, restarts>>

Mutate ==
    /\ world < MaxVersion
    /\ world' = world + 1
    /\ UNCHANGED <<clock, store, volatile, history, faults, restarts>>

Tick ==
    /\ clock < MaxClock
    /\ clock' = clock + 1
    /\ UNCHANGED <<world, store, volatile, history, faults, restarts>>

(* The process ends at any point and starts again: memory is lost.         *)
Restart ==
    /\ restarts < MaxRestarts
    /\ restarts' = restarts + 1
    /\ current' = Empty /\ load' = "none" /\ loaded' = Empty
    /\ hydrated' = FALSE
    /\ refresh' = "idle" /\ previous' = Empty /\ next' = Empty
    /\ aborted' = FALSE /\ clearing' = "no" /\ invalidated' = FALSE
    /\ demanded' = 0 /\ overlapped' = FALSE
    /\ UNCHANGED <<world, clock, store, faults>>

Next ==
    \/ Hydrate \/ HydrateDone
    \/ RefreshBegin \/ Scan \/ Spare \/ Collected \/ Reused \/ Failed \/ Saved \/ Reloaded
    \/ Invalidate \/ Clear \/ ClearGoesOn \/ ClearDone
    \/ Abort \/ Mutate \/ Tick \/ Restart

Spec == Init /\ [][Next]_vars

-----------------------------------------------------------------------------
(* Properties.                                                             *)

(* Readers see nothing or the last durable generation, and generations     *)
(* only move forward, through failed saves, reloads, aborts, clears and    *)
(* restarts.                                                               *)
Latest == INSTANCE LatestSnapshot WITH shown <- current.data,
                                       durable <- store.data
ShowsLatest == Latest!Spec

(* When nothing is in flight, a snapshot in memory is the persisted one,   *)
(* with its generatedAt, so a restart would show the same.                 *)
MemoryFollowsStore ==
    refresh = "idle" /\ current.data # Null =>
        /\ current.data = store.data
        /\ current.at = store.at

(* What is shown as fresh was read from the sources while the refresh that *)
(* stamped it was going on, however often it was handed back, reloaded and *)
(* read again by a later process, and it ages from there (P2-3).  Excused  *)
(* is a refresh that had nothing in memory to hand back.                   *)
FreshWasCollected ==
    Status = "fresh" /\ current.from = "scan" =>
        /\ current.data > Blank
        /\ current.taken \in current.began..current.at
        /\ clock - current.at <= FreshFor

(* The same of every refresh.                                              *)
FreshIsCollected ==
    Status = "fresh" => /\ current.data > Blank
                        /\ current.taken \in current.began..current.at

(* After invalidate() the snapshot does not read as fresh before a refresh *)
(* that began later has committed, when none was in flight at the call; a  *)
(* refresh that had nothing to hand back is excused as above.              *)
InvalidationHolds ==
    Status = "fresh" /\ current.from = "scan" /\ ~overlapped => current.data >= demanded

(* The same, whatever was in flight.                                       *)
InvalidationWins ==
    Status = "fresh" /\ current.from = "scan" => current.data >= demanded

=============================================================================
