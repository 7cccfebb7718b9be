--------------------------- MODULE AutomaticScans ---------------------------
(***************************************************************************)
(* The scheduler of automatic scans,                                       *)
(* electron/automatic-security-scan-scheduler.ts, with the callers that    *)
(* drive it: start and quit of the application, suspend and resume of the  *)
(* computer, and a schedule saved by the user (setScanSchedule).           *)
(*                                                                         *)
(* A pass is one call of reconcile(), update() or attemptDue() and what it *)
(* continues with; it is parked at the request whose answer it awaits.     *)
(* Requests go to the local server one by one and independently: those of  *)
(* a superseded pass may take effect after those of the pass that          *)
(* superseded it, and each may fail before or after it took effect.        *)
(***************************************************************************)
EXTENDS Naturals

CONSTANTS
    Schedule,           \* schedules, told apart as their fingerprints do
    Enabled,            \* those that are switched on
    Hourly,             \* those with the hourly cycle; the others are daily
    Period,             \* units of time in a cycle
    MaxTime,            \* bound: the clock
    MaxInterruptions,   \* bound: suspensions, ends of the application
    MaxSaves,           \* bound: schedules the user saves
    MaxFaults           \* bound: requests that fail

Never == 0              \* nextRunAt is null: every occurrence is later
None == [none |-> TRUE] \* no timer, save or promise
NoCursor == [s |-> None, due |-> Never, pending |-> FALSE]

ASSUME AutomaticScansAssumption ==
    /\ Enabled \subseteq Schedule /\ Hourly \subseteq Schedule
    /\ Schedule # {} /\ Period \in Nat \ {0} /\ MaxTime \in Nat
    /\ MaxInterruptions \in Nat /\ MaxSaves \in Nat /\ MaxFaults \in Nat

VARIABLES
    now,
    schedule,       \* stored: what the user configured
    cursor,         \* stored: SecurityScanScheduleRuntime
    begun,          \* this process called start()
    asleep,         \* the computer is suspended
    scanning,       \* the scanner is running or cancelling a scan
    stopped,
    generation,
    timer,          \* the armed timer and what its callback closes over
    passes,
    saving,         \* the schedule a setScanSchedule() stores
    promise,        \* observation: the occurrence a timer was last armed for
    broken,         \* observation: a request of the current pass failed
    overtaken,      \* observation: a superseded pass wrote the cursor last
    interruptions, saves, faults

memory == <<stopped, generation, timer, passes>>
world == <<now, asleep, scanning>>
cursorVars == <<cursor, overtaken>>
budgets == <<interruptions, saves, faults>>
vars == <<world, schedule, cursorVars, begun, memory, saving, promise, broken, budgets>>

Time == 0..MaxTime + Period
Pass == [gen : Nat, at : {"reading", "marking", "attempting", "advancing", "disabling"},
         s : Schedule, due : Time, saver : BOOLEAN]

TypeOK ==
    /\ now \in 0..MaxTime /\ schedule \in Schedule
    /\ cursor \in {NoCursor} \cup [s : Schedule, due : Time, pending : BOOLEAN]
    /\ begun \in BOOLEAN /\ asleep \in BOOLEAN /\ scanning \in BOOLEAN
    /\ stopped \in BOOLEAN /\ generation \in Nat
    /\ timer \in {None} \cup [s : Schedule, due : Time, gen : Nat]
    /\ passes \subseteq Pass
    /\ saving \in {None} \cup [s : Schedule, stored : BOOLEAN]
    /\ promise \in {None} \cup [s : Enabled, due : Time]
    /\ broken \in BOOLEAN /\ overtaken \in BOOLEAN
    /\ interruptions \in Nat /\ saves \in Nat /\ faults \in Nat

Init ==
    /\ now = 0 /\ asleep = FALSE /\ scanning = FALSE
    /\ schedule \in Schedule /\ cursor = NoCursor /\ begun = FALSE
    /\ stopped = FALSE /\ generation = 0 /\ timer = None /\ passes = {}
    /\ saving = None /\ promise = None /\ broken = FALSE /\ overtaken = FALSE
    /\ interruptions = 0 /\ saves = 0 /\ faults = 0

-----------------------------------------------------------------------------
(* Helpers *)

(* The next occurrence, strictly after base. *)
NextAt(s, base) ==
    IF s \in Hourly THEN base + Period ELSE Period * ((base \div Period) + 1)

Overdue == promise # None /\ promise.due <= now

Live(p) == ~stopped /\ p.gen = generation

Park(p, at, due) == (passes \ {p}) \cup {[p EXCEPT !.at = at, !.due = due]}

SupersedeInPlace(at, s, due, saver) ==  \* mutant: the generation stays
    /\ stopped' = FALSE /\ timer' = None /\ broken' = FALSE /\ UNCHANGED generation
    /\ passes' = passes \cup {[gen |-> generation, at |-> at, s |-> s,
                               due |-> due, saver |-> saver]}

(* ++generation; stopped = false; clearTimer(); go on with a new pass. *)
Supersede(at, s, due, saver) ==
    /\ generation' = generation + 1 /\ stopped' = FALSE /\ timer' = None
    /\ broken' = FALSE
    /\ passes' = passes \cup {[gen |-> generation + 1, at |-> at, s |-> s,
                               due |-> due, saver |-> saver]}

(* armOccurrence and armRetry: the callback runs once the time is due. *)
Arm(p, due) == timer' = [s |-> p.s, due |-> due, gen |-> p.gen]

Fault == faults < MaxFaults /\ faults' = faults + 1
Interrupt == interruptions < MaxInterruptions /\ interruptions' = interruptions + 1

-----------------------------------------------------------------------------
(* start(), resume(), update() *)

Reconcile == Supersede("reading", schedule, 0, FALSE)

Start ==
    /\ ~begun /\ begun' = TRUE
    /\ Reconcile
    /\ UNCHANGED <<world, schedule, cursorVars, saving, promise, budgets>>

Resume ==
    /\ asleep /\ asleep' = FALSE
    /\ Reconcile
    /\ UNCHANGED <<now, scanning, schedule, cursorVars, begun, saving, promise, budgets>>

(* armFresh stores the next occurrence, or that there is none. *)
FreshAt(s) == IF s \in Enabled THEN "advancing" ELSE "disabling"

(* setScanSchedule holds its lock until the scheduler was updated. *)
Save(s) ==
    /\ ~asleep /\ saving = None /\ ~\E p \in passes : p.saver
    /\ saves < MaxSaves /\ saves' = saves + 1
    /\ saving' = [s |-> s, stored |-> FALSE]
    /\ UNCHANGED <<world, schedule, cursorVars, begun, memory, promise, broken,
                   interruptions, faults>>

Stored ==
    /\ saving # None /\ ~saving.stored
    /\ schedule' = saving.s /\ saving' = [saving EXCEPT !.stored = TRUE]
    /\ UNCHANGED <<world, cursorVars, begun, memory, promise, broken, budgets>>

Update ==
    /\ saving # None /\ saving.stored
    /\ saving' = None /\ promise' = None
    /\ Supersede(FreshAt(saving.s), saving.s, NextAt(saving.s, now), TRUE)
    /\ UNCHANGED <<world, schedule, cursorVars, begun, budgets>>

(* The write of the schedule is answered with a failure: no update(). *)
SaveFails ==
    /\ saving # None /\ Fault
    /\ saving' = None /\ broken' = TRUE
    /\ UNCHANGED <<world, schedule, cursorVars, begun, memory, promise, interruptions, saves>>

-----------------------------------------------------------------------------
(* The continuations of a pass *)

RuntimeDone(p) ==           \* mutant: an attempt is stored as done
    [s |-> p.s, pending |-> FALSE, due |-> IF p.at = "disabling" THEN Never
        ELSE IF p.at = "marking" THEN NextAt(p.s, now) ELSE p.due]

(* The runtime a parked pass stores. *)
Runtime(p) == [s |-> p.s, pending |-> p.at = "marking",
               due |-> IF p.at = "disabling" THEN Never ELSE p.due]

Write(p) == cursor' = Runtime(p) /\ overtaken' = ~Live(p)

Fresh == cursor.s # schedule \/ cursor.due = Never

(* reconcile() has read the schedule and the cursor. *)
ReadDone(p) ==
    /\ p.at = "reading"
    /\ LET Onward(at, due) ==
               /\ passes' = (passes \ {p})
                       \cup {[p EXCEPT !.s = schedule, !.at = at, !.due = due]}
               /\ UNCHANGED timer
       IN  \/ /\ ~Live(p)
              /\ passes' = passes \ {p} /\ UNCHANGED <<timer, promise>>
           \/ /\ Live(p) /\ schedule \notin Enabled
              /\ Onward("disabling", 0) /\ promise' = None
           \/ /\ Live(p) /\ schedule \in Enabled /\ Fresh
              /\ Onward("advancing", NextAt(schedule, now)) /\ promise' = None
           \/ /\ Live(p) /\ schedule \in Enabled /\ ~Fresh
              /\ cursor.pending \/ cursor.due <= now
              /\ Onward("marking", cursor.due)
              /\ promise' = IF promise # None /\ promise.s # schedule THEN None
                            ELSE promise
           \/ /\ Live(p) /\ schedule \in Enabled /\ ~Fresh
              /\ ~cursor.pending /\ cursor.due > now
              /\ Arm([p EXCEPT !.s = schedule], cursor.due)
              /\ passes' = passes \ {p}
              /\ promise' = [s |-> schedule, due |-> cursor.due]
    /\ UNCHANGED <<world, schedule, cursorVars, begun, stopped, generation, saving,
                   broken, budgets>>

TimerFires ==
    /\ timer # None /\ timer.due <= now
    /\ timer' = None
    /\ passes' = IF stopped \/ timer.gen # generation THEN passes
                 ELSE passes \cup {[gen |-> timer.gen, at |-> "marking", s |-> timer.s,
                                    due |-> timer.due, saver |-> FALSE]}
    /\ UNCHANGED <<world, schedule, cursorVars, begun, stopped, generation, saving,
                   promise, broken, budgets>>

(* attemptDue() stored the occurrence as pending. *)
MarkDone(p) ==
    /\ p.at = "marking"
    /\ Write(p)
    /\ passes' = IF Live(p) THEN Park(p, "attempting", p.due) ELSE passes \ {p}
    /\ UNCHANGED <<world, schedule, begun, stopped, generation, timer, saving,
                   promise, broken, budgets>>

NotStartedGivesUp(p) ==     \* mutant: no retry while the scanner is busy
    /\ p.at = "attempting"
    /\ passes' = passes \ {p}
    /\ IF Live(p) /\ ~scanning THEN Arm(p, p.due) ELSE UNCHANGED timer
    /\ UNCHANGED <<world, schedule, cursorVars, begun, stopped, generation, saving,
                   promise, broken, budgets>>

(* The scan did not start: busy, no Skill found, cleared meanwhile. *)
NotStarted(p) ==
    /\ p.at = "attempting"
    /\ passes' = passes \ {p}
    /\ IF Live(p) THEN Arm(p, p.due) ELSE UNCHANGED timer
    /\ UNCHANGED <<world, schedule, cursorVars, begun, stopped, generation, saving,
                   promise, broken, budgets>>

(* The scan started, also when the pass was superseded meanwhile. *)
Started(p) ==
    /\ p.at = "attempting" /\ ~scanning
    /\ scanning' = TRUE
    /\ promise' = IF Live(p) \/ (Overdue /\ promise.s = p.s) THEN None ELSE promise
    /\ passes' = IF Live(p) THEN Park(p, "advancing", NextAt(p.s, now))
                 ELSE passes \ {p}
    /\ UNCHANGED <<now, asleep, schedule, cursorVars, begun, stopped, generation,
                   timer, saving, broken, budgets>>

(* The next occurrence is stored; its timer is armed. *)
AdvanceDone(p) ==
    /\ p.at = "advancing"
    /\ Write(p)
    /\ passes' = passes \ {p}
    /\ IF Live(p) THEN Arm(p, p.due) /\ promise' = [s |-> p.s, due |-> p.due]
       ELSE UNCHANGED <<timer, promise>>
    /\ UNCHANGED <<world, schedule, begun, stopped, generation, saving, broken, budgets>>

DisableDone(p) ==
    /\ p.at = "disabling"
    /\ Write(p)
    /\ passes' = passes \ {p}
    /\ UNCHANGED <<world, schedule, begun, stopped, generation, timer, saving,
                   promise, broken, budgets>>

(* A request rejects, before or after it took effect: nothing catches it and *)
(* the pass is over.                                                         *)
RequestFails(p) ==
    /\ p.at # "attempting" /\ Fault
    /\ \/ UNCHANGED cursorVars
       \/ p.at # "reading" /\ Write(p)
    /\ passes' = passes \ {p}
    /\ broken' = (broken \/ Live(p))
    /\ UNCHANGED <<world, schedule, begun, stopped, generation, timer, saving,
                   promise, interruptions, saves>>

-----------------------------------------------------------------------------
(* suspend(), stop(), the end of the process and the world *)

Suspend ==
    /\ ~asleep /\ Interrupt
    /\ asleep' = TRUE /\ generation' = generation + 1 /\ timer' = None
    /\ UNCHANGED <<now, scanning, schedule, cursorVars, begun, stopped, passes, saving,
                   promise, broken, saves, faults>>

Stop ==
    /\ begun /\ ~stopped /\ Interrupt
    /\ stopped' = TRUE /\ generation' = generation + 1 /\ timer' = None
    /\ UNCHANGED <<world, schedule, cursorVars, begun, passes, saving, promise, broken,
                   saves, faults>>

(* The process is gone, after stop() or without; what was stored stays. *)
Exit ==
    /\ begun /\ IF stopped THEN UNCHANGED interruptions ELSE Interrupt
    /\ begun' = FALSE /\ asleep' = FALSE /\ scanning' = FALSE
    /\ stopped' = FALSE /\ generation' = 0 /\ timer' = None /\ passes' = {}
    /\ saving' = None /\ broken' = FALSE
    /\ UNCHANGED <<now, schedule, cursorVars, promise, saves, faults>>

(* A scan the user starts, and the end of any scan. *)
ManualScan ==
    /\ begun /\ ~scanning /\ Interrupt
    /\ scanning' = TRUE
    /\ UNCHANGED <<now, asleep, schedule, cursorVars, begun, memory, saving, promise,
                   broken, saves, faults>>

ScanEnds ==
    /\ scanning /\ scanning' = FALSE
    /\ UNCHANGED <<now, asleep, schedule, cursorVars, begun, memory, saving, promise,
                   broken, budgets>>

Tick ==
    /\ now < MaxTime /\ now' = now + 1
    /\ UNCHANGED <<asleep, scanning, schedule, cursorVars, begun, memory, saving,
                   promise, broken, budgets>>

Continue(p) == ReadDone(p) \/ MarkDone(p) \/ AdvanceDone(p) \/ DisableDone(p)
Attempted(p) == NotStarted(p) \/ Started(p)

Next ==
    \/ Start \/ Resume \/ Stored \/ Update \/ SaveFails
    \/ TimerFires \/ Suspend \/ Stop \/ Exit
    \/ ManualScan \/ ScanEnds \/ Tick
    \/ \E s \in Schedule : Save(s)
    \/ \E p \in passes : Continue(p) \/ Attempted(p) \/ RequestFails(p)

Spec == Init /\ [][Next]_vars

(* Requests and attempts settle, timers fire, scans end, an attempt that is  *)
(* made again and again succeeds at last; the computer wakes up and the      *)
(* application, once quit, is started again.                                 *)
FairSpec ==
    /\ Spec
    /\ WF_vars(Start) /\ WF_vars(Resume) /\ WF_vars(stopped /\ Exit)
    /\ WF_vars(Stored) /\ WF_vars(Update) /\ WF_vars(TimerFires) /\ WF_vars(ScanEnds)
    /\ WF_vars(\E p \in passes : Continue(p))
    /\ WF_vars(\E p \in passes : Attempted(p))
    /\ SF_vars(\E p \in passes : Started(p))

-----------------------------------------------------------------------------
(* Properties *)

(* "Durable, single-timer scheduler": at most one live pass or armed timer,  *)
(* however start, resume, suspend, stop, a saved schedule and the answers of *)
(* superseded passes interleave, and the timer belongs to the generation in  *)
(* force.                                                                    *)
SingleTimer ==
    /\ \A p, q \in passes : Live(p) /\ Live(q) => p = q
    /\ timer # None => /\ ~stopped /\ timer.gen = generation
                       /\ ~\E p \in passes : Live(p)

(* While the application runs with an enabled schedule something always leads *)
(* to the next scan, an armed timer or a live pass, until a request fails.    *)
Watched ==
    begun /\ ~asleep /\ ~stopped /\ ~broken /\ saving = None /\ schedule \in Enabled
        => timer # None \/ \E p \in passes : Live(p)

(* An occurrence whose time has come is given up only when a scan starts or   *)
(* the user has saved a schedule since; a restart or a resume that finds the  *)
(* cursor of the schedule keeps it.  The one exception is a cursor that a     *)
(* superseded pass wrote last.                                                *)
NothingDropped ==
    [][Overdue /\ promise' # promise =>
         \/ Update \/ \E p \in passes : Started(p)
         \/ schedule # promise.s
         \/ overtaken]_vars

(* A due occurrence is scanned in the end, or replaced by the user, unless a  *)
(* request has failed: busy scanners, suspensions and restarts delay it only. *)
DuePassStarts == Overdue ~> (~Overdue \/ broken)

(* What the comment at lines 86-88 promises: "A due pass that finds the       *)
(* scanner busy stays pending and retries until it starts".                   *)
RetriesUntilStarted == Overdue ~> ~Overdue

=============================================================================
