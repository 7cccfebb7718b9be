------------------------------ MODULE DataReset ------------------------------
(***************************************************************************)
(* The one-time reset of the local data that a packaged desktop launch     *)
(* makes before it opens the database, electron/release-data-reset.ts and  *)
(* its caller in electron/main.ts, composed with the ownership of the      *)
(* database among all processes (WriterOwnership).                         *)
(*                                                                         *)
(* The reset looks at the writer lock and then removes the directory the   *)
(* lock and the database are in; the processes that acquire the lock do    *)
(* not know of the reset.                                                  *)
(***************************************************************************)
EXTENDS WriterOwnership

CONSTANTS
    Desktop,    \* launches of the packaged application; the others are CLIs
    Prompts     \* the platform is one main.ts asks the user on

ASSUME ResetAssumption == Desktop \subseteq Proc /\ Prompts \in BOOLEAN

VARIABLES
    stage,      \* per process: how far its launch got
    consented,  \* the launches whose user agreed to the removal
    marker,     \* the completion marker in the user data directory
    rows        \* what the database holds

resetVars == <<stage, consented, marker, rows>>
allVars == <<vars, resetVars>>

ResetTypeOK ==
    /\ TypeOK
    /\ stage \in [Proc -> {"off", "asking", "preparing", "checking", "pending", "ready"}]
    /\ consented \subseteq Desktop
    /\ marker \in {"none", "declined", "completed"}
    /\ rows \in {"old", "none", "fresh", "used"}

ResetInit ==
    /\ Init
    /\ stage = [p \in Proc |-> "off"]
    /\ consented = {} /\ marker = "none" /\ rows \in {"old", "none"}

Proceed(p, to) == stage' = [stage EXCEPT ![p] = to]
At(p, where) == stage[p] = where /\ pc[p] = "closed"
Removing(p) == pc[p] = "resetting"

(* A startup failure is shown and the application quits.                   *)
StartupFails(p) == Goto(p, "dead") /\ exiting' = exiting \cup {p}

-----------------------------------------------------------------------------
(* prepareReleaseDataResetWithConfirmation().  The single instance lock    *)
(* keeps two launches from being alive at once.                            *)

LaunchSilently(p) ==        \* mutant of Launch: nobody is asked
    /\ p \in Desktop /\ At(p, "off") /\ opens[p] = 0
    /\ \A q \in Desktop \ {p} : stage[q] = "off" \/ ~Alive(q)
    /\ Proceed(p, "preparing")
    /\ UNCHANGED <<vars, consented, marker, rows>>

Launch(p) ==
    /\ p \in Desktop /\ At(p, "off") /\ opens[p] = 0
    /\ \A q \in Desktop \ {p} : stage[q] = "off" \/ ~Alive(q)
    /\ Proceed(p, IF Prompts /\ marker = "none" THEN "asking" ELSE "preparing")
    /\ UNCHANGED <<vars, consented, marker, rows>>

Confirm(p) ==
    /\ At(p, "asking")
    /\ consented' = consented \cup {p}
    /\ Proceed(p, "preparing")
    /\ UNCHANGED <<vars, marker, rows>>

(* A marker that cannot be written only means to be asked again.           *)
Decline(p) ==
    /\ At(p, "asking")
    /\ \/ marker' = "declined" /\ UNCHANGED faults
       \/ UNCHANGED marker /\ Fault
    /\ Proceed(p, "ready")
    /\ UNCHANGED <<lock, pc, opens, attempt, seen, held, exiting, contended,
                   consented, rows>>

-----------------------------------------------------------------------------
(* prepareReleaseDataReset().                                              *)

Prepare(p) ==
    /\ At(p, "preparing")
    /\ Proceed(p, IF marker = "none" THEN "checking" ELSE "ready")
    /\ UNCHANGED <<vars, consented, marker, rows>>

(* assertNoActiveDatabaseWriter: a lock of a live process blocks the launch. *)
CheckLockOnly(p) ==         \* mutant of CheckWriter: only this user's own pid
    /\ At(p, "checking")
    /\ contended' = (contended \/ \E q \in Proc : Acquiring(q))
    /\ IF lock.pid = p THEN StartupFails(p)
       ELSE Goto(p, "resetting") /\ UNCHANGED exiting
    /\ UNCHANGED <<lock, opens, attempt, seen, held, faults, resetVars>>

CheckWriter(p) ==
    /\ At(p, "checking")
    /\ contended' = (contended \/ \E q \in Proc : Acquiring(q))
    /\ IF lock # NoRecord /\ Alive(lock.pid)
       THEN StartupFails(p)
       ELSE Goto(p, "resetting") /\ UNCHANGED exiting
    /\ UNCHANGED <<lock, opens, attempt, seen, held, faults, resetVars>>

(* removeResetTarget: the recursive removal takes the database and the     *)
(* lock one after the other, in the order the directory lists them.        *)
RemoveNext(p) ==
    /\ Removing(p)
    /\ \/ rows # "none" /\ rows' = "none" /\ UNCHANGED lock
       \/ lock # NoRecord /\ lock' = NoRecord /\ UNCHANGED rows
    /\ UNCHANGED <<pc, opens, attempt, seen, held, exiting, faults, contended,
                   stage, consented, marker>>

(* The directory is empty and goes.                                        *)
RemovedAndMarked(p) ==      \* mutant of Removed: marked before the warmup
    /\ Removing(p) /\ rows = "none" /\ lock = NoRecord
    /\ marker' = "completed"
    /\ Goto(p, "closed") /\ Proceed(p, "pending")
    /\ UNCHANGED <<lock, opens, attempt, seen, held, exiting, faults, contended,
                   consented, rows>>

Removed(p) ==
    /\ Removing(p) /\ rows = "none" /\ lock = NoRecord
    /\ Goto(p, "closed") /\ Proceed(p, "pending")
    /\ UNCHANGED <<lock, opens, attempt, seen, held, exiting, faults, contended,
                   consented, marker, rows>>

(* The removal stops where it is.                                          *)
RemoveFails(p) ==
    /\ Removing(p) /\ Fault
    /\ StartupFails(p)
    /\ UNCHANGED <<lock, opens, attempt, seen, held, contended, resetVars>>

-----------------------------------------------------------------------------
(* The database, and completeReleaseDataResetAfterWarmup().                *)

(* A desktop launch opens the database once, with the reset behind it.     *)
OpenDatabase(p) ==
    /\ p \in Desktop => opens[p] = 0 /\ stage[p] \in {"pending", "ready"}
    /\ Open(p)
    /\ UNCHANGED resetVars

(* The migrations of an empty database.                                    *)
Initialize(p) ==
    /\ pc[p] = "open" /\ rows = "none" /\ rows' = "fresh"
    /\ UNCHANGED <<vars, stage, consented, marker>>

(* The user's work.                                                        *)
Use(p) ==
    /\ pc[p] = "open" /\ rows = "fresh" /\ rows' = "used"
    /\ UNCHANGED <<vars, stage, consented, marker>>

(* The warmup went through.                                                *)
Mark(p) ==
    /\ stage[p] = "pending" /\ pc[p] = "open" /\ rows # "none"
    /\ marker' = "completed" /\ Proceed(p, "ready")
    /\ UNCHANGED <<vars, consented, rows>>

-----------------------------------------------------------------------------
Own1(p) == (Step(p) \/ Close(p) \/ Exit(p) \/ Crash(p)) /\ UNCHANGED resetVars

ResetStep(p) ==
    \/ Launch(p) \/ Confirm(p) \/ Decline(p) \/ Prepare(p) \/ CheckWriter(p)
    \/ RemoveNext(p) \/ Removed(p) \/ RemoveFails(p) \/ Initialize(p) \/ Use(p) \/ Mark(p)

ResetNext == \E p \in Proc : ResetStep(p) \/ OpenDatabase(p) \/ Own1(p)

ResetSpec == ResetInit /\ [][ResetNext]_allVars
ResetFairSpec ==
    ResetSpec /\ \A p \in Proc : WF_allVars(Step(p) /\ UNCHANGED resetVars)

-----------------------------------------------------------------------------
(* Properties.                                                             *)

Removal == rows # "none" /\ rows' = "none"

(* Data is removed only by a launch whose user agreed to it, and never     *)
(* again once a launch has recorded the decision, whichever it was.        *)
RemovalSanctioned ==
    [][Removal => /\ marker = "none"
                  /\ \E p \in consented : Removing(p)]_allVars

(* "A compatibility reset must never remove data while another local       *)
(* runtime is still writing it": while nobody opens the database between   *)
(* the check and the removal.                                              *)
ResetSparesWriters ==
    [][Removal => contended \/ Writers = {}]_allVars

(* A marker of a completed reset stands beside an initialized database:    *)
(* every launch before that is asked to reset again.                       *)
MarkerMeansReady == marker = "completed" => rows \in {"fresh", "used"}

=============================================================================
