--------------------------- MODULE SecurityScanner ---------------------------
(***************************************************************************)
(* The scan service, electron/security-scanner-service.ts: start and       *)
(* startAutomaticScan, the worker pool of a run, cancel, clear and the run *)
(* records and history they persist through the desktop broker.            *)
(*                                                                         *)
(* An action is one segment between two awaits.  A member of Scan is one   *)
(* call of start() or startAutomaticScan() and, when it gets that far, the *)
(* run it begins.  A request to the broker may be answered with a failure  *)
(* after it has taken effect (a timeout) or without.                       *)
(***************************************************************************)
EXTENDS Naturals, Sequences, FiniteSets

CONSTANTS
    Scan,
    Targets,        \* bound: Skills a scan resolves to
    Workers,        \* #scanConcurrency
    MaxClears,      \* bound: calls of clear()
    MaxFaults       \* bound: requests and discoveries that fail, restarts

NoScan == "none"
Clearing == "clear"     \* the place of clear() in the line for the history

ASSUME ScannerAssumption ==
    /\ {NoScan, Clearing} \cap Scan = {}
    /\ Targets \in Nat \ {0} /\ Workers \in Nat \ {0}
    /\ MaxClears \in Nat /\ MaxFaults \in Nat

VARIABLES
    epoch,
    scanId,     \* #state.scanId
    status,     \* #state.status
    cancelRequested,
    activeRun,
    pc,         \* per scan: the await it is parked at
    mine,       \* per scan: the epoch it captured, then the one it began
    left,       \* per scan: targets no worker has picked
    busy,       \* per scan: workers that scan a target
    seen,       \* per scan: how the targets it has entries for ended
    verdict,    \* per scan: the status its last record carries
    saves,      \* #runRecordQueue: scans whose record is being written
    turns,      \* #historyQueue: who holds or awaits the history lock
    clearPc,
    clearWait,  \* the run clear() awaits
    clearEpoch,
    row,        \* the run records
    history,    \* the scans with entries in the history
    doomed,     \* history: runs that had begun before a clear() that resolved
    clears,
    faults

session == <<epoch, scanId, status, cancelRequested, activeRun>>
locals == <<left, seen>>
runVars == <<mine, locals, busy, verdict>>
clearVars == <<clearPc, clearWait, clearEpoch, doomed, clears>>
stored == <<row, history>>
scannerVars == <<session, pc, runVars, saves, turns, clearVars, stored, faults>>

Outcome == {"complete", "partial", "failed"}
Starting == {"manual", "automatic", "listing", "resolving", "saving"}
Busy == status \in {"running", "cancelling"}

(* #isActive *)
Active(s) == epoch = mine[s] /\ scanId = s

TypeOK ==
    /\ epoch \in Nat /\ scanId \in Scan \cup {NoScan}
    /\ status \in {"idle", "running", "cancelling", "complete", "partial",
                   "failed", "cancelled"}
    /\ (scanId = NoScan) = (status = "idle")
    /\ cancelRequested \in BOOLEAN /\ activeRun \in Scan \cup {NoScan}
    /\ pc \in [Scan -> Starting \cup {"unused", "reading", "scanning", "locking",
                   "merging", "writing", "finishing", "failing", "done",
                   "refused"}]
    /\ mine \in [Scan -> Nat]
    /\ left \in [Scan -> 0..Targets] /\ busy \in [Scan -> 0..Workers]
    /\ seen \in [Scan -> SUBSET Outcome]
    /\ verdict \in [Scan -> {"none", "running", "complete", "partial", "failed",
                             "cancelled"}]
    /\ saves \in Seq(Scan) /\ turns \in Seq(Scan \cup {Clearing})
    /\ clearPc \in {"no", "draining", "erasing"}
    /\ clearWait \in Scan \cup {NoScan} /\ clearEpoch \in Nat
    /\ row \in [Scan -> {"none", "running", "complete", "partial", "failed",
                         "cancelled"}]
    /\ history \subseteq Scan /\ doomed \subseteq Scan
    /\ clears \in 0..MaxClears /\ faults \in 0..MaxFaults
    /\ activeRun # NoScan => pc[activeRun] \notin Starting \cup {"done"}

InitSession ==
    /\ epoch = 0 /\ scanId = NoScan /\ status = "idle"
    /\ cancelRequested = FALSE /\ activeRun = NoScan

ScannerInit ==
    /\ InitSession
    /\ pc = [s \in Scan |-> "unused"]
    /\ mine = [s \in Scan |-> 0]
    /\ left = [s \in Scan |-> 0]
    /\ busy = [s \in Scan |-> 0]
    /\ seen = [s \in Scan |-> {}]
    /\ verdict = [s \in Scan |-> "none"]
    /\ saves = <<>> /\ turns = <<>>
    /\ clearPc = "no" /\ clearWait = NoScan /\ clearEpoch = 0 /\ clears = 0
    /\ row = [s \in Scan |-> "none"]
    /\ history = {} /\ doomed = {}
    /\ faults = 0

Goto(s, where) == pc' = [pc EXCEPT ![s] = where]
Fault == faults < MaxFaults /\ faults' = faults + 1

(* The run of s is over: activeRun is dropped if it is still its own, and  *)
(* its local variables are gone.                                           *)
End(s) ==
    /\ Goto(s, "done")
    /\ activeRun' = IF activeRun = s THEN NoScan ELSE activeRun
    /\ left' = [left EXCEPT ![s] = 0] /\ seen' = [seen EXCEPT ![s] = {}]

-----------------------------------------------------------------------------
(* start() and startAutomaticScan().                                       *)

(* The checks, and the epoch only start() captures before its first await. *)
Start(s, automatic) ==
    /\ pc[s] = "unused" /\ clearPc = "no" /\ ~Busy
    /\ Goto(s, IF automatic THEN "automatic" ELSE "manual")
    /\ mine' = [mine EXCEPT ![s] = epoch]
    /\ UNCHANGED <<session, locals, busy, verdict, saves, turns, clearVars, stored,
                   faults>>

(* #modelConfig() resolved.                                                *)
Modelled(s) ==
    /\ pc[s] \in {"manual", "automatic"}
    /\ Goto(s, "listing")
    /\ mine' = [mine EXCEPT ![s] = IF pc[s] = "automatic" THEN epoch ELSE @]
    /\ UNCHANGED <<session, locals, busy, verdict, saves, turns, clearVars, stored,
                   faults>>

(* listSkills() resolved: a scan that crosses another one or a clear() is  *)
(* refused.                                                                *)
Listed(s) ==
    /\ pc[s] = "listing"
    /\ Goto(s, IF mine[s] = epoch THEN "resolving" ELSE "refused")
    /\ UNCHANGED <<session, runVars, saves, turns, clearVars, stored, faults>>

StartFails(s) ==
    /\ pc[s] \in {"manual", "automatic", "listing"}
    /\ Fault
    /\ Goto(s, "refused")
    /\ UNCHANGED <<session, runVars, saves, turns, clearVars, stored>>

(* #resolveTargets() resolved: #executeScan() up to the write of its       *)
(* record.  Neither the status nor the epoch is looked at again.           *)
Execute(s) ==
    /\ pc[s] = "resolving"
    /\ epoch' = epoch + 1
    /\ mine' = [mine EXCEPT ![s] = epoch + 1]
    /\ scanId' = s /\ status' = "running" /\ cancelRequested' = FALSE
    /\ \E n \in 1..Targets : left' = [left EXCEPT ![s] = n]
    /\ verdict' = [verdict EXCEPT ![s] = "running"]
    /\ saves' = Append(saves, s)
    /\ Goto(s, "saving")
    /\ UNCHANGED <<activeRun, busy, seen, turns, clearVars, stored, faults>>

NoTarget(s) ==
    /\ pc[s] = "resolving"
    /\ Goto(s, "refused")
    /\ UNCHANGED <<session, runVars, saves, turns, clearVars, stored, faults>>

-----------------------------------------------------------------------------
(* Run records: one write at a time, in the order they were asked for.     *)

Writing(s) == saves # <<>> /\ Head(saves) = s
Recorded(s) == [row EXCEPT ![s] = verdict[s]]

(* The record is written.  The first one starts the run, which ends at     *)
(* once when it is not active any more.                                    *)
Saved(s) ==
    /\ Writing(s)
    /\ row' = Recorded(s)
    /\ saves' = Tail(saves)
    /\ CASE pc[s] # "saving" -> End(s)
         [] pc[s] = "saving" /\ Active(s) ->
              activeRun' = s /\ Goto(s, "reading") /\ UNCHANGED locals
         [] pc[s] = "saving" /\ ~Active(s) ->
              activeRun' = NoScan /\ Goto(s, "done") /\ UNCHANGED locals
    /\ UNCHANGED <<epoch, scanId, status, cancelRequested, mine, busy, verdict, turns,
                   clearVars, history, faults>>

(* #run rejected: its catch block, over the records still to be written.   *)
Rejects(s, pending) ==
    IF Active(s)
    THEN /\ status' = "failed" /\ cancelRequested' = FALSE
         /\ verdict' = [verdict EXCEPT ![s] = "failed"]
         /\ saves' = Append(pending, s)
         /\ Goto(s, "failing")
         /\ UNCHANGED <<epoch, scanId, activeRun, locals>>
    ELSE /\ End(s)
         /\ saves' = pending
         /\ UNCHANGED <<epoch, scanId, status, cancelRequested, verdict>>

(* The write is answered with a failure.  The first one ends the call of   *)
(* start(), and leaves the state as #executeScan() has set it.             *)
SaveFails(s) ==
    /\ Writing(s)
    /\ Fault
    /\ row' \in {row, Recorded(s)}
    /\ CASE pc[s] = "saving" ->
              /\ Goto(s, "refused")
              /\ saves' = Tail(saves)
              /\ UNCHANGED <<session, locals, verdict>>
         [] pc[s] = "finishing" -> Rejects(s, Tail(saves))
         [] pc[s] = "failing" ->
              /\ End(s)
              /\ saves' = Tail(saves)
              /\ UNCHANGED <<epoch, scanId, status, cancelRequested, verdict>>
    /\ UNCHANGED <<mine, busy, turns, clearVars, history>>

-----------------------------------------------------------------------------
(* #run: the history of earlier scans, the worker pool, the commit.        *)

Read(s) ==
    /\ pc[s] = "reading"
    /\ Goto(s, "scanning")
    /\ UNCHANGED <<session, runVars, saves, turns, clearVars, stored, faults>>

ReadFails(s) ==
    /\ pc[s] = "reading"
    /\ Fault
    /\ Rejects(s, saves)
    /\ UNCHANGED <<mine, busy, turns, clearVars, stored>>

(* A worker picks its next target.                                         *)
Pick(s) ==
    /\ pc[s] = "scanning" /\ Active(s) /\ ~cancelRequested
    /\ left[s] > 0 /\ busy[s] < Workers
    /\ left' = [left EXCEPT ![s] = @ - 1]
    /\ busy' = [busy EXCEPT ![s] = @ + 1]
    /\ UNCHANGED <<session, pc, mine, seen, verdict, saves, turns, clearVars,
                   stored, faults>>

(* A worker has scanned its target (an unchanged Skill counts as complete).*)
(* Results of a run that is not active are dropped.                        *)
Scanned(s, o) ==
    /\ pc[s] = "scanning" /\ busy[s] > 0
    /\ busy' = [busy EXCEPT ![s] = @ - 1]
    /\ seen' = IF Active(s) THEN [seen EXCEPT ![s] = @ \cup {o}] ELSE seen
    /\ UNCHANGED <<session, pc, mine, left, verdict, saves, turns, clearVars,
                   stored, faults>>

(* Mutant of Verdict: a cancelled run is judged by its entries.            *)
VerdictByEntries(s) ==
    IF seen[s] = {"failed"} THEN "failed"
    ELSE IF seen[s] \cap {"failed", "partial"} # {} THEN "partial"
    ELSE "complete"

(* The final status of a run that is active, and its record.               *)
Verdict(s) ==
    IF cancelRequested THEN "cancelled"
    ELSE IF seen[s] = {"failed"} THEN "failed"
    ELSE IF seen[s] \cap {"failed", "partial"} # {} THEN "partial"
    ELSE "complete"

Conclude(s) ==
    /\ status' = Verdict(s) /\ cancelRequested' = FALSE
    /\ verdict' = [verdict EXCEPT ![s] = Verdict(s)]
    /\ saves' = Append(saves, s)
    /\ Goto(s, "finishing")
    /\ UNCHANGED <<epoch, scanId, activeRun, locals>>

Ended(s) ==
    End(s) /\ UNCHANGED <<epoch, scanId, status, cancelRequested, verdict, saves>>

(* The pool is done.  A run without a single entry has nothing to commit.  *)
Commit(s) ==
    /\ pc[s] = "scanning" /\ busy[s] = 0
    /\ left[s] = 0 \/ cancelRequested \/ ~Active(s)
    /\ CASE ~Active(s) -> Ended(s) /\ UNCHANGED turns
         [] Active(s) /\ seen[s] = {} -> Conclude(s) /\ UNCHANGED turns
         [] Active(s) /\ seen[s] # {} ->
              /\ turns' = Append(turns, s)
              /\ Goto(s, "locking")
              /\ UNCHANGED <<session, locals, verdict, saves>>
    /\ UNCHANGED <<mine, busy, clearVars, stored, faults>>

(* #appendHistory, behind the lock: read, look again, write.               *)
HasTurn(who) == turns # <<>> /\ Head(turns) = who

AppendStep(s, from, to) ==
    /\ pc[s] = from /\ HasTurn(s)
    /\ IF Active(s)
       THEN Goto(s, to) /\ UNCHANGED <<session, locals, verdict, saves, turns>>
       ELSE Ended(s) /\ turns' = Tail(turns)
    /\ UNCHANGED <<mine, busy, clearVars, stored, faults>>

Appended(s) ==
    /\ pc[s] = "writing"
    /\ history' = history \cup {s}
    /\ turns' = Tail(turns)
    /\ IF Active(s) THEN Conclude(s) ELSE Ended(s)
    /\ UNCHANGED <<mine, busy, clearVars, row, faults>>

AppendFails(s) ==
    /\ pc[s] \in {"merging", "writing"}
    /\ Fault
    /\ history' \in {history, IF pc[s] = "writing" THEN history \cup {s} ELSE history}
    /\ turns' = Tail(turns)
    /\ Rejects(s, saves)
    /\ UNCHANGED <<mine, busy, clearVars, row>>

-----------------------------------------------------------------------------
(* cancel() and clear().                                                   *)

Cancel ==
    /\ Busy
    /\ cancelRequested' = TRUE
    /\ status' = "cancelling"
    /\ UNCHANGED <<epoch, scanId, activeRun, pc, runVars, saves, turns, clearVars,
                   stored, faults>>

(* Mutant of Reset: a run that is not awaited goes on.                     *)
ResetHistoryOnly ==
    /\ clearEpoch' = epoch + 1
    /\ turns' = Append(turns, Clearing)
    /\ clearPc' = "erasing"
    /\ UNCHANGED <<epoch, scanId, status>>

(* The state is reset and the erasure waits for the history lock.          *)
Reset ==
    /\ epoch' = epoch + 1 /\ clearEpoch' = epoch + 1
    /\ scanId' = NoScan /\ status' = "idle"
    /\ turns' = Append(turns, Clearing)
    /\ clearPc' = "erasing"

(* Mutant of Clear: the lock is taken before the run is awaited.           *)
ClearLocksFirst ==
    /\ clearPc = "no" /\ clears < MaxClears
    /\ clears' = clears + 1
    /\ cancelRequested' = TRUE
    /\ clearWait' = activeRun
    /\ IF activeRun = NoScan THEN Reset
       ELSE /\ clearPc' = "draining"
            /\ turns' = Append(turns, Clearing)
            /\ UNCHANGED <<epoch, scanId, status, clearEpoch>>
    /\ UNCHANGED <<activeRun, pc, runVars, saves, doomed, stored, faults>>

(* With no run to await clear() resets the state in the same segment.      *)
Clear ==
    /\ clearPc = "no" /\ clears < MaxClears
    /\ clears' = clears + 1
    /\ cancelRequested' = TRUE
    /\ clearWait' = activeRun
    /\ IF activeRun = NoScan THEN Reset
       ELSE clearPc' = "draining" /\ UNCHANGED <<epoch, scanId, status, turns, clearEpoch>>
    /\ UNCHANGED <<activeRun, pc, runVars, saves, doomed, stored, faults>>

Drained ==
    /\ clearPc = "draining" /\ pc[clearWait] \in {"failing", "done"}
    /\ Reset
    /\ UNCHANGED <<cancelRequested, activeRun, pc, runVars, saves, clearWait, doomed,
                   clears, stored, faults>>

(* Mutant of Cleared: the request is taken back whoever made it.           *)
ClearedUncancels ==
    /\ clearPc = "erasing" /\ HasTurn(Clearing)
    /\ history' = {}
    /\ doomed' = {s \in Scan : mine[s] < clearEpoch /\ verdict[s] # "none"}
    /\ turns' = Tail(turns)
    /\ clearPc' = "no" /\ clearWait' = NoScan
    /\ cancelRequested' = FALSE
    /\ UNCHANGED <<epoch, scanId, status, activeRun, pc, runVars, saves, clearEpoch,
                   clears, row, faults>>

(* The history is erased; the run records stay.                            *)
Cleared ==
    /\ clearPc = "erasing" /\ HasTurn(Clearing)
    /\ history' = {}
    /\ doomed' = {s \in Scan : mine[s] < clearEpoch /\ verdict[s] # "none"}
    /\ turns' = Tail(turns)
    /\ clearPc' = "no" /\ clearWait' = NoScan
    /\ cancelRequested' = IF epoch = clearEpoch THEN FALSE ELSE cancelRequested
    /\ UNCHANGED <<epoch, scanId, status, activeRun, pc, runVars, saves, clearEpoch,
                   clears, row, faults>>

ClearFails ==
    /\ clearPc = "erasing" /\ HasTurn(Clearing)
    /\ Fault
    /\ history' \in {history, {}}
    /\ turns' = Tail(turns)
    /\ clearPc' = "no" /\ clearWait' = NoScan
    /\ UNCHANGED <<session, pc, runVars, saves, clearEpoch, doomed, clears, row>>

-----------------------------------------------------------------------------
(* The application ends at any point, perhaps behind the server's back     *)
(* with a write that has taken effect, and starts again;                   *)
(* recoverInterruptedRuns() closes the open records.                       *)
ScannerRestart ==
    /\ Fault
    /\ epoch' = 0 /\ scanId' = NoScan /\ status' = "idle"
    /\ cancelRequested' = FALSE /\ activeRun' = NoScan
    /\ \E landed \in {row} \cup {Recorded(s) : s \in {r \in Scan : Writing(r)}} :
          row' = [s \in Scan |-> IF landed[s] = "running" THEN "cancelled"
                                 ELSE landed[s]]
    /\ \E added \in SUBSET {s \in Scan : pc[s] = "writing"} :
          history' \in {history \cup added}
              \cup (IF clearPc = "erasing" /\ HasTurn(Clearing) THEN {{}} ELSE {})
    /\ pc' = [s \in Scan |-> IF pc[s] \in {"unused", "refused"} THEN pc[s] ELSE "done"]
    /\ mine' = [s \in Scan |-> 0] /\ left' = [s \in Scan |-> 0]
    /\ busy' = [s \in Scan |-> 0] /\ seen' = [s \in Scan |-> {}]
    /\ verdict' = [s \in Scan |-> "none"]
    /\ saves' = <<>> /\ turns' = <<>>
    /\ clearPc' = "no" /\ clearWait' = NoScan /\ clearEpoch' = 0
    /\ doomed' = {}
    /\ UNCHANGED clears

-----------------------------------------------------------------------------
Worker(s) == Pick(s) \/ \E o \in Outcome : Scanned(s, o)
Answer(s) ==    \* a scan goes on: what it awaits has been answered
    \/ Modelled(s) \/ Listed(s) \/ Execute(s) \/ NoTarget(s)
    \/ Saved(s) \/ Read(s) \/ Commit(s)
    \/ AppendStep(s, "locking", "merging") \/ AppendStep(s, "merging", "writing")
    \/ Appended(s)
Failure(s) == StartFails(s) \/ SaveFails(s) \/ ReadFails(s) \/ AppendFails(s)
ClearStep == Drained \/ Cleared

ScannerStep ==
    \/ \E s \in Scan : Start(s, FALSE) \/ Start(s, TRUE) \/ Answer(s) \/ Worker(s) \/ Failure(s)
    \/ Cancel \/ Clear \/ ClearStep \/ ClearFails

ScannerNext == ScannerStep \/ ScannerRestart

ScannerSpec == ScannerInit /\ [][ScannerNext]_scannerVars

(* Requests are answered (the broker's have timeouts) and a scan of one    *)
(* Skill ends.                                                             *)
ScannerFairness ==
    /\ \A s \in Scan : WF_scannerVars(Answer(s)) /\ WF_scannerVars(Worker(s))
    /\ WF_scannerVars(ClearStep)

ScannerFairSpec == ScannerSpec /\ ScannerFairness

-----------------------------------------------------------------------------
(* Properties.                                                             *)

(* The state says "running" only while a scan is going on that will leave  *)
(* that status again: start() refuses every call until then.               *)
BusyMeansScanning ==
    Busy => pc[scanId] \in {"saving", "reading", "scanning", "locking", "merging",
                            "writing"}

(* A clear() that has resolved holds: no run that had begun before it      *)
(* restores entries to the history, whatever it was parked at.             *)
ClearedStaysGone == doomed \cap history = {}

(* A cancel() that was accepted stays in force while the state says        *)
(* "cancelling", although starts and clears reset the request.             *)
CancelSticks == status = "cancelling" => cancelRequested

(* The record of a run says complete or partial only when every target has *)
(* an outcome and the entries are in the history, unless a clear() or      *)
(* another scan came in between.                                           *)
RecordsAreBacked ==
    [][\A s \in Scan :
          row'[s] # row[s] /\ row'[s] \in {"complete", "partial"} /\ Active(s)
              => s \in history /\ left[s] = 0 /\ busy[s] = 0]_scannerVars

(* A scan ends and clear() resolves, unless the write of the first record  *)
(* of the scan failed (BusyMeansScanning): neither waits for the other.    *)
Stuck == scanId # NoScan /\ pc[scanId] = "refused"
ScanEnds == Busy ~> (~Busy \/ Stuck)
ClearResolves == clearPc # "no" ~> clearPc = "no"

=============================================================================
