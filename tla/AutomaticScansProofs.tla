------------------------ MODULE AutomaticScansProofs ------------------------
(***************************************************************************)
(* Proofs about AutomaticScans, for every set of schedules, every period   *)
(* and every bound on time, interruptions, saves and faults.               *)
(***************************************************************************)
EXTENDS AutomaticScans, TLAPS

-----------------------------------------------------------------------------
(* The inductive invariant, in named parts.                                *)

APass == [gen : Nat, at : {"reading", "marking", "attempting", "advancing", "disabling"},
          s : Schedule, due : Nat, saver : BOOLEAN]
ATimer == [s : Enabled, due : Nat, gen : Nat]
ACursor == [s : Schedule, due : Nat, pending : BOOLEAN]
ASave == [s : Schedule, stored : BOOLEAN]
APromise == [s : Enabled, due : Nat]

Types ==
    /\ now \in Nat /\ schedule \in Schedule
    /\ cursor \in {NoCursor} \cup ACursor
    /\ begun \in BOOLEAN /\ asleep \in BOOLEAN /\ stopped \in BOOLEAN
    /\ broken \in BOOLEAN /\ overtaken \in BOOLEAN
    /\ generation \in Nat
    /\ timer \in {None} \cup ATimer
    /\ passes \subseteq APass
    /\ saving \in {None} \cup ASave
    /\ promise \in {None} \cup APromise

(* No pass is ahead of the generation, so a new generation is nobody's.    *)
Past == \A p \in passes : p.gen <= generation

(* Whatever attempts or arms does it for a schedule that is on.            *)
On == {"marking", "attempting", "advancing"}
EnabledOnly == \A p \in passes : p.at \in On => p.s \in Enabled

(* A save that is stored is the schedule in force.                         *)
StoredIsSaved == saving # None /\ saving.stored => schedule = saving.s

(* A live pass that switches the scheduler off does so for a schedule that *)
(* is off.                                                                 *)
OffIsOff ==
    \A p \in passes :
        Live(p) /\ p.at = "disabling" /\ saving = None /\ ~broken
            => schedule \notin Enabled

SInv == Types /\ Past /\ EnabledOnly /\ StoredIsSaved /\ OffIsOff /\ SingleTimer /\ Watched

-----------------------------------------------------------------------------
(* Operators.                                                              *)

LEMMA NextAtType ==
    ASSUME NEW s, NEW base \in Nat
    PROVE  NextAt(s, base) \in Nat /\ NextAt(s, base) # Never
<1>1. \A d \in Nat \ {0} : (base \div d) \in Nat
  OBVIOUS
<1>2. \A k, d \in Nat \ {0} : k * d \in Nat \ {0}
  OBVIOUS
<1>3. (base \div Period) + 1 \in Nat \ {0}
  BY <1>1, AutomaticScansAssumption
<1>4. Period * ((base \div Period) + 1) \in Nat \ {0}
  BY <1>2, <1>3, AutomaticScansAssumption
<1> QED
  BY <1>4, AutomaticScansAssumption DEF NextAt, Never

(* No record the model stores is None.                                     *)
LEMMA NotNone ==
    /\ None \notin ATimer
    /\ None \notin ASave
    /\ None \notin APromise
BY DEF None, ATimer, ASave, APromise

-----------------------------------------------------------------------------
(* One live pass, and something that leads to the next scan.               *)

USE AutomaticScansAssumption

(* A new generation whose one live pass is at the given request.           *)
SupersededAt(at) ==
    \E s \in Schedule, due \in Nat, saver \in BOOLEAN :
        Supersede(at, s, due, saver) /\ (at = "advancing" => s \in Enabled)

OneLive(at) ==
    /\ generation' \in Nat /\ stopped' = FALSE /\ broken' = FALSE /\ timer' = None
    /\ passes' \subseteq APass
    /\ Past' /\ EnabledOnly' /\ SingleTimer'
    /\ \E p \in passes' : Live(p)'
    /\ \A p \in passes' : Live(p)' => p.at = at

LEMMA SupersedeKeeps ==
    ASSUME SInv, NEW at \in {"reading", "advancing", "disabling"}, SupersededAt(at)
    PROVE  OneLive(at)
<1> PICK s \in Schedule, due \in Nat, saver \in BOOLEAN :
        Supersede(at, s, due, saver) /\ (at = "advancing" => s \in Enabled)
  BY DEF SupersededAt
<1> DEFINE new == [gen |-> generation + 1, at |-> at, s |-> s, due |-> due, saver |-> saver]
<1>1. new \in APass /\ new.gen = generation + 1
  BY DEF SInv, Types, APass
<1>2. generation' = generation + 1 /\ passes' = passes \cup {new}
  BY DEF Supersede
<1>3. \A p \in passes : p.gen \in Nat /\ p.gen < generation + 1
  BY DEF SInv, Types, Past, APass
<1>4. \A p \in passes' : Live(p)' <=> p = new
  BY <1>1, <1>2, <1>3 DEF Live, Supersede
<1>5. Past'
  BY <1>1, <1>2, <1>3 DEF Past, SInv, Types
<1>6. EnabledOnly'
  BY <1>2 DEF EnabledOnly, SInv, On
<1> QED
  BY <1>1, <1>2, <1>4, <1>5, <1>6 DEF OneLive, Supersede, SingleTimer, SInv, Types

LEMMA ReconcileKeeps == ASSUME SInv, Start \/ Resume PROVE SInv'
<1>1. schedule \in Schedule /\ 0 \in Nat /\ FALSE \in BOOLEAN
  BY DEF SInv, Types
<1>2. SupersededAt("reading")
  <2>1. "reading" # "advancing"
    OBVIOUS
  <2> QED
    BY <1>1, <2>1, Zenon DEF SupersededAt, Start, Resume, Reconcile
<1>3. OneLive("reading")
  BY <1>2, SupersedeKeeps
<1>4. Types'
  BY <1>3 DEF SInv, Types, OneLive, Start, Resume, cursorVars, world
<1>5. StoredIsSaved'
  BY DEF SInv, StoredIsSaved, Start, Resume
<1>6. OffIsOff' /\ Watched'
  BY <1>3 DEF OneLive, OffIsOff, Watched
<1> QED
  BY <1>3, <1>4, <1>5, <1>6 DEF SInv, OneLive

LEMMA UpdateKeeps == ASSUME SInv, Update PROVE SInv'
<1>1. /\ saving.s \in Schedule /\ saving.s = schedule /\ TRUE \in BOOLEAN
      /\ NextAt(saving.s, now) \in Nat
      /\ FreshAt(saving.s) = "advancing" => saving.s \in Enabled
  BY NextAtType, NotNone DEF Update, SInv, Types, StoredIsSaved, ASave, FreshAt
<1>2. SupersededAt(FreshAt(saving.s))
  BY <1>1, Zenon DEF SupersededAt, Update
<1>3. OneLive(FreshAt(saving.s))
  <2>1. FreshAt(saving.s) \in {"reading", "advancing", "disabling"}
    BY DEF FreshAt
  <2> QED
    BY <1>2, <2>1, SupersedeKeeps
<1>4. /\ UNCHANGED <<now, asleep, schedule, cursor, overtaken, begun>>
      /\ saving' = None /\ promise' = None
  BY DEF Update, world, cursorVars
<1>5. Types' /\ StoredIsSaved'
  BY <1>3, <1>4 DEF SInv, Types, StoredIsSaved, OneLive
<1>6. OffIsOff' /\ Watched'
  BY <1>1, <1>3, <1>4 DEF OneLive, OffIsOff, Watched, FreshAt
<1> QED
  BY <1>3, <1>5, <1>6 DEF SInv, OneLive

LEMMA SavingKeeps ==
    ASSUME SInv, Stored \/ SaveFails \/ \E s \in Schedule : Save(s) PROVE SInv'
<1> USE DEF SInv, Types, Past, EnabledOnly, StoredIsSaved, OffIsOff, SingleTimer, Watched, Live,
            world, cursorVars, memory, budgets
<1>1. CASE Stored
  BY <1>1, NotNone DEF Stored, ASave
<1>2. CASE SaveFails
  BY <1>2 DEF SaveFails
<1>3. ASSUME NEW s \in Schedule, Save(s) PROVE SInv'
  BY <1>3, NotNone DEF Save, ASave
<1> QED
  BY <1>1, <1>2, <1>3

(* The timer's callback goes on as the one live pass.                      *)
LEMMA TimerFiresKeeps == ASSUME SInv, TimerFires PROVE SInv'
<1> DEFINE new == [gen |-> timer.gen, at |-> "marking", s |-> timer.s,
                   due |-> timer.due, saver |-> FALSE]
<1>1. timer \in ATimer /\ ~stopped /\ timer.gen = generation /\ ~\E p \in passes : Live(p)
  BY DEF TimerFires, SInv, Types, SingleTimer
<1>2. new \in APass /\ new.gen = generation /\ new.at = "marking"
  BY <1>1 DEF APass, ATimer
<1>3. passes' = passes \cup {new} /\ timer' = None
  BY <1>1 DEF TimerFires
<1>4. UNCHANGED <<now, asleep, schedule, cursor, overtaken, begun, stopped, generation,
                  saving, promise, broken>>
  BY DEF TimerFires, world, cursorVars
<1>5. \A p \in passes' : Live(p)' <=> p = new
  BY <1>1, <1>2, <1>3, <1>4 DEF Live
<1>6. Types'
  BY <1>2, <1>3, <1>4 DEF SInv, Types
<1>8. Past' /\ EnabledOnly' /\ StoredIsSaved'
  BY <1>1, <1>2, <1>3, <1>4 DEF SInv, Types, Past, EnabledOnly, StoredIsSaved, ATimer
<1>7. OffIsOff' /\ SingleTimer' /\ Watched'
  BY <1>2, <1>3, <1>5 DEF OffIsOff, SingleTimer, Watched
<1> QED
  BY <1>6, <1>7, <1>8 DEF SInv

(* A pass that goes on: nobody else is live when it is.                    *)
Same == UNCHANGED <<now, asleep, schedule, begun, stopped, generation, saving>>

LEMMA OnwardKeeps ==
    ASSUME SInv, NEW p \in passes, NEW q \in APass, Same, q.gen = p.gen,
           broken' = broken, timer' = timer,
           cursor' \in {NoCursor} \cup ACursor, overtaken' \in BOOLEAN,
           promise' \in {None} \cup APromise,
           Live(p), passes' = (passes \ {p}) \cup {q},
           q.at = "disabling" => schedule \notin Enabled,
           q.at \in On => q.s \in Enabled
    PROVE  SInv'
<1>1. \A r \in passes' : Live(r)' <=> r = q
  BY DEF SInv, SingleTimer, Live, Same
<1>2. Types' /\ Past' /\ EnabledOnly' /\ StoredIsSaved'
  BY DEF SInv, Types, Past, EnabledOnly, StoredIsSaved, Same
<1>3. OffIsOff' /\ Watched' /\ SingleTimer'
  BY <1>1 DEF SInv, OffIsOff, Watched, SingleTimer, Same
<1> QED
  BY <1>2, <1>3 DEF SInv

(* A pass that arms a timer and is over.                                   *)
LEMMA ArmKeeps ==
    ASSUME SInv, NEW p \in passes, NEW s \in Enabled, NEW due \in Nat, Same,
           broken' = broken, timer' = [s |-> s, due |-> due, gen |-> p.gen],
           cursor' \in {NoCursor} \cup ACursor, overtaken' \in BOOLEAN,
           promise' \in {None} \cup APromise,
           Live(p), passes' = passes \ {p}
    PROVE  SInv'
<1>1. timer' \in ATimer /\ timer' # None /\ timer'.gen = generation
  BY NotNone DEF ATimer, SInv, Types, APass, Live
<1>2. \A r \in passes' : ~Live(r)'
  BY DEF SInv, SingleTimer, Live, Same
<1>3. Types' /\ Past' /\ EnabledOnly' /\ StoredIsSaved'
  BY <1>1 DEF SInv, Types, Past, EnabledOnly, StoredIsSaved, Same
<1>4. OffIsOff' /\ Watched' /\ SingleTimer'
  BY <1>1, <1>2 DEF OffIsOff, Watched, SingleTimer, Same, Live
<1> QED
  BY <1>3, <1>4 DEF SInv

(* A pass that is over with nothing armed: it was superseded, or the       *)
(* schedule is off, or a request failed.                                   *)
LEMMA OverKeeps ==
    ASSUME SInv, NEW p \in passes, Same, broken' \in BOOLEAN, timer' = timer,
           cursor' \in {NoCursor} \cup ACursor, overtaken' \in BOOLEAN,
           promise' \in {None} \cup APromise,
           passes' = passes \ {p}, broken => broken',
           Live(p) => broken' \/ p.at = "disabling"
    PROVE  SInv'
<1>1. \A r \in passes' : r \in passes /\ (Live(r)' <=> Live(r))
  BY DEF Live, Same
<1>2. Types' /\ Past' /\ EnabledOnly' /\ StoredIsSaved'
  BY <1>1 DEF SInv, Types, Past, EnabledOnly, StoredIsSaved, Same
<1>3. OffIsOff' /\ SingleTimer'
  BY <1>1 DEF SInv, OffIsOff, SingleTimer, Same
<1>4. Watched'
  BY <1>1 DEF SInv, OffIsOff, Watched, Same
<1> QED
  BY <1>2, <1>3, <1>4 DEF SInv

LEMMA ReadDoneKeeps == ASSUME SInv, NEW p \in passes, ReadDone(p) PROVE SInv'
<1>1. /\ Same /\ UNCHANGED <<cursor, overtaken, broken>>
      /\ p \in APass /\ schedule \in Schedule
      /\ cursor.s = schedule /\ cursor.due # Never => cursor.due \in Nat
      /\ cursor \in {NoCursor} \cup ACursor /\ overtaken \in BOOLEAN /\ broken \in BOOLEAN
      /\ promise \in {None} \cup APromise
  BY DEF ReadDone, Same, SInv, Types, cursorVars, world, ACursor, NoCursor, Never
<1>2. CASE ~Live(p)
  <2>1. passes' = passes \ {p} /\ timer' = timer /\ promise' = promise
    BY <1>2 DEF ReadDone
  <2> QED
    BY <1>1, <1>2, <2>1, OverKeeps
<1>3. ASSUME Live(p), NEW at, NEW due,
             \/ at = "disabling" /\ due = 0 /\ schedule \notin Enabled
             \/ /\ at = "advancing" /\ due = NextAt(schedule, now)
                /\ schedule \in Enabled
             \/ /\ at = "marking" /\ due = cursor.due /\ ~Fresh
                /\ schedule \in Enabled,
             passes' = (passes \ {p}) \cup {[p EXCEPT !.s = schedule, !.at = at, !.due = due]},
             timer' = timer, promise' \in {None, promise}
      PROVE  SInv'
  <2> DEFINE q == [p EXCEPT !.s = schedule, !.at = at, !.due = due]
  <2>1. due \in Nat /\ at \in {"disabling", "advancing", "marking"}
    BY <1>1, <1>3, NextAtType DEF SInv, Types, Fresh
  <2>2. q \in APass /\ q.gen = p.gen /\ q.at = at
    BY <1>1, <2>1 DEF APass
  <2>3. /\ q.at = "disabling" => schedule \notin Enabled
        /\ q.at \in On => q.s \in Enabled
    BY <1>1, <1>3, <2>1, <2>2 DEF APass, On
  <2>4. passes' = (passes \ {p}) \cup {q} /\ promise' \in {None} \cup APromise
    BY <1>1, <1>3
  <2> HIDE DEF q
  <2> QED
    BY <1>1, <1>3, <2>2, <2>3, <2>4, OnwardKeeps
<1>4. CASE Live(p) /\ timer' # timer
  <2>1. /\ timer' = [s |-> schedule, due |-> cursor.due, gen |-> p.gen]
        /\ passes' = passes \ {p} /\ ~Fresh /\ schedule \in Enabled
        /\ promise' = [s |-> schedule, due |-> cursor.due]
    BY <1>1, <1>4 DEF ReadDone, Arm, APass
  <2>2. cursor.due \in Nat /\ promise' \in APromise
    BY <1>1, <2>1 DEF Fresh, APromise
  <2> QED
    BY <1>1, <1>4, <2>1, <2>2, ArmKeeps
<1>5. CASE Live(p) /\ timer' = timer
  <2>1. CASE schedule \notin Enabled
    <3>1. passes' = (passes \ {p})
                 \cup {[p EXCEPT !.s = schedule, !.at = "disabling", !.due = 0]}
      BY <1>5, <2>1 DEF ReadDone
    <3>2. promise' = None
      BY <1>5, <2>1 DEF ReadDone
    <3> QED
      BY <1>3, <1>5, <2>1, <3>1, <3>2
  <2>2. CASE schedule \in Enabled /\ Fresh
    <3>1. passes' = (passes \ {p}) \cup {[p EXCEPT !.s = schedule, !.at = "advancing",
                                                !.due = NextAt(schedule, now)]}
      BY <1>5, <2>2 DEF ReadDone
    <3>2. promise' = None
      BY <1>5, <2>2 DEF ReadDone
    <3> QED
      BY <1>3, <1>5, <2>2, <3>1, <3>2
  <2>3. CASE schedule \in Enabled /\ ~Fresh
    <3>1. timer = None \/ ~Live(p)
      BY DEF SInv, SingleTimer
    <3>2. passes' = (passes \ {p}) \cup {[p EXCEPT !.s = schedule, !.at = "marking",
                                                !.due = cursor.due]}
          /\ promise' \in {None, promise}
      BY <1>1, <1>5, <2>3, <3>1, NotNone DEF ReadDone, Arm, APass, ATimer, Fresh
    <3> QED
      BY <1>3, <1>5, <2>3, <3>2
  <2> QED
    BY <2>1, <2>2, <2>3
<1> QED
  BY <1>2, <1>4, <1>5

(* What a pass stores is a cursor.                                         *)
LEMMA WriteType ==
    ASSUME NEW p \in APass, Write(p)
    PROVE  cursor' \in {NoCursor} \cup ACursor /\ overtaken' \in BOOLEAN
BY DEF Write, Runtime, ACursor, APass, Never

LEMMA MarkDoneKeeps == ASSUME SInv, NEW p \in passes, MarkDone(p) PROVE SInv'
<1> DEFINE q == [p EXCEPT !.at = "attempting", !.due = p.due]
<1>1. /\ Same /\ UNCHANGED <<promise, broken, timer>> /\ p \in APass
      /\ cursor' \in {NoCursor} \cup ACursor /\ overtaken' \in BOOLEAN
      /\ broken \in BOOLEAN /\ promise' \in {None} \cup APromise
  BY WriteType DEF MarkDone, Same, SInv, Types, world
<1>2. q \in APass /\ q.gen = p.gen /\ q.at # "disabling" /\ q.s \in Enabled
  BY <1>1 DEF APass, MarkDone, SInv, EnabledOnly, On
<1>3. passes' = IF Live(p) THEN (passes \ {p}) \cup {q} ELSE passes \ {p}
  BY DEF MarkDone, Park
<1> HIDE DEF q
<1> QED
  BY <1>1, <1>2, <1>3, OnwardKeeps, OverKeeps

LEMMA NotStartedKeeps == ASSUME SInv, NEW p \in passes, NotStarted(p) PROVE SInv'
<1>1. /\ Same /\ UNCHANGED <<promise, broken, cursor, overtaken>> /\ p \in APass
      /\ cursor' \in {NoCursor} \cup ACursor /\ overtaken' \in BOOLEAN
      /\ broken \in BOOLEAN /\ promise' \in {None} \cup APromise
  BY DEF NotStarted, Same, SInv, Types, cursorVars, world
<1>2. /\ passes' = passes \ {p} /\ p.s \in Enabled /\ p.due \in Nat
      /\ timer' = IF Live(p) THEN [s |-> p.s, due |-> p.due, gen |-> p.gen] ELSE timer
  BY <1>1 DEF NotStarted, Arm, APass, SInv, EnabledOnly, On
<1> QED
  BY <1>1, <1>2, ArmKeeps, OverKeeps

LEMMA StartedKeeps == ASSUME SInv, NEW p \in passes, Started(p) PROVE SInv'
<1> DEFINE q == [p EXCEPT !.at = "advancing", !.due = NextAt(p.s, now)]
<1>1. /\ Same /\ UNCHANGED <<broken, cursor, overtaken, timer>> /\ p \in APass
      /\ cursor' \in {NoCursor} \cup ACursor /\ overtaken' \in BOOLEAN
      /\ broken \in BOOLEAN /\ promise' \in {None} \cup APromise
  BY DEF Started, Same, SInv, Types, cursorVars, world
<1>2. q \in APass /\ q.gen = p.gen /\ q.at # "disabling" /\ q.s \in Enabled
  BY <1>1, NextAtType DEF APass, SInv, Types, Started, EnabledOnly, On
<1>3. passes' = IF Live(p) THEN (passes \ {p}) \cup {q} ELSE passes \ {p}
  BY DEF Started, Park
<1> HIDE DEF q
<1> QED
  BY <1>1, <1>2, <1>3, OnwardKeeps, OverKeeps

LEMMA AdvanceDoneKeeps == ASSUME SInv, NEW p \in passes, AdvanceDone(p) PROVE SInv'
<1>1. /\ Same /\ UNCHANGED broken /\ p \in APass
      /\ cursor' \in {NoCursor} \cup ACursor /\ overtaken' \in BOOLEAN
      /\ broken \in BOOLEAN
  BY WriteType DEF AdvanceDone, Same, SInv, Types, world
<1>2. /\ passes' = passes \ {p} /\ p.s \in Enabled /\ p.due \in Nat
      /\ timer' = IF Live(p) THEN [s |-> p.s, due |-> p.due, gen |-> p.gen] ELSE timer
  BY <1>1 DEF AdvanceDone, Arm, APass, SInv, EnabledOnly, On
<1>3. promise' \in {None} \cup APromise
  BY <1>1, <1>2 DEF AdvanceDone, SInv, Types, APromise
<1> QED
  BY <1>1, <1>2, <1>3, ArmKeeps, OverKeeps

LEMMA DisableDoneKeeps == ASSUME SInv, NEW p \in passes, DisableDone(p) PROVE SInv'
<1>1. /\ Same /\ UNCHANGED <<promise, broken, timer>> /\ p \in APass
      /\ cursor' \in {NoCursor} \cup ACursor /\ overtaken' \in BOOLEAN
      /\ broken \in BOOLEAN /\ promise' \in {None} \cup APromise
      /\ passes' = passes \ {p} /\ p.at = "disabling"
  BY WriteType DEF DisableDone, Same, SInv, Types, world
<1> QED
  BY <1>1, OverKeeps

LEMMA RequestFailsKeeps == ASSUME SInv, NEW p \in passes, RequestFails(p) PROVE SInv'
<1>1. /\ Same /\ UNCHANGED <<promise, timer>> /\ p \in APass
      /\ cursor' \in {NoCursor} \cup ACursor /\ overtaken' \in BOOLEAN
      /\ promise' \in {None} \cup APromise
      /\ passes' = passes \ {p} /\ broken' = (broken \/ Live(p))
  BY WriteType DEF RequestFails, Same, SInv, Types, world, cursorVars
<1>2. broken' \in BOOLEAN /\ (broken => broken') /\ (Live(p) => broken')
  BY <1>1
<1> QED
  BY <1>1, <1>2, OverKeeps

(* Whatever ends the pass in force takes the timer with it.                *)
LEMMA EndsKeep == ASSUME SInv, Suspend \/ Stop \/ Exit PROVE SInv'
<1> USE DEF world, cursorVars
<1>1. CASE Suspend \/ Stop
  <2>1. /\ UNCHANGED <<now, schedule, cursor, overtaken, begun, passes, saving,
                       promise, broken>>
        /\ generation' = generation + 1 /\ timer' = None
        /\ asleep' \in BOOLEAN /\ stopped' \in BOOLEAN /\ (asleep' \/ stopped')
    BY <1>1 DEF Suspend, Stop, SInv, Types
  <2>2. \A p \in passes : p.gen \in Nat /\ p.gen < generation'
    BY <2>1 DEF SInv, Types, Past, APass
  <2>3. Types' /\ Past' /\ EnabledOnly' /\ StoredIsSaved'
    BY <2>1, <2>2 DEF SInv, Types, Past, EnabledOnly, StoredIsSaved
  <2>4. \A p \in passes' : ~Live(p)'
    BY <2>1, <2>2 DEF Live
  <2>5. OffIsOff' /\ SingleTimer' /\ Watched'
    BY <2>1, <2>4 DEF OffIsOff, SingleTimer, Watched
  <2> QED
    BY <2>3, <2>5 DEF SInv
<1>2. CASE Exit
  BY <1>2 DEF Exit, SInv, Types, Past, EnabledOnly, StoredIsSaved, OffIsOff, SingleTimer,
              Watched
<1> QED
  BY <1>1, <1>2

LEMMA WorldKeeps == ASSUME SInv, ManualScan \/ ScanEnds \/ Tick \/ UNCHANGED vars PROVE SInv'
<1>1. /\ UNCHANGED <<schedule, cursor, overtaken, begun, asleep, stopped, generation,
                     timer, passes, saving, promise, broken>>
      /\ now' \in Nat
  BY DEF ManualScan, ScanEnds, Tick, vars, world, cursorVars, memory, SInv, Types
<1> QED
  BY <1>1 DEF SInv, Types, Past, EnabledOnly, StoredIsSaved, OffIsOff, SingleTimer, Watched,
              Live

LEMMA InitEstablishes == Init => SInv
<1> SUFFICES ASSUME Init PROVE SInv
  OBVIOUS
<1> USE DEF Init
<1>1. Types
  BY DEF Types
<1>2. Past /\ EnabledOnly /\ StoredIsSaved /\ OffIsOff /\ SingleTimer /\ Watched
  BY DEF Past, EnabledOnly, StoredIsSaved, OffIsOff, SingleTimer, Watched
<1> QED
  BY <1>1, <1>2 DEF SInv

LEMMA NextKeeps == SInv /\ [Next]_vars => SInv'
BY ReconcileKeeps, UpdateKeeps, SavingKeeps, TimerFiresKeeps, ReadDoneKeeps, MarkDoneKeeps,
   NotStartedKeeps, StartedKeeps, AdvanceDoneKeeps, DisableDoneKeeps, RequestFailsKeeps,
   EndsKeep, WorldKeeps DEF Next, Continue, Attempted

(* The invariant holds of every behaviour.                                 *)
THEOREM Invariance == Spec => []SInv
BY InitEstablishes, NextKeeps, PTL DEF Spec

(* Never two live passes, nor a live pass beside a timer, nor a timer of   *)
(* another generation.                                                     *)
THEOREM SingleTimerHolds == Spec => []SingleTimer
<1>1. SInv => SingleTimer
  BY DEF SInv
<1> QED
  BY <1>1, Invariance, PTL

(* A scheduler that runs with an enabled schedule is never left without    *)
(* what leads to its next scan, until a request fails.                     *)
THEOREM WatchedHolds == Spec => []Watched
<1>1. SInv => Watched
  BY DEF SInv
<1> QED
  BY <1>1, Invariance, PTL

-----------------------------------------------------------------------------
(* No occurrence is dropped.                                               *)

(* A pass or a timer that has an occurrence has the one that was promised, *)
(* or one of the same schedule that came before.                           *)
PassCarries ==
    \A p \in passes :
        /\ p.at \in On => p.due # Never
        /\ Live(p) /\ promise # None
             => /\ p.at \notin {"advancing", "disabling"}
                /\ p.at # "reading" => p.s = promise.s
TimerCarries ==
    timer # None => timer.due # Never /\ (promise # None => timer.s = promise.s)

(* Until a superseded pass writes it, the cursor leads back to it.         *)
CursorHolds ==
    promise # None /\ ~overtaken
        => /\ cursor.s = promise.s /\ cursor.due # Never
           /\ cursor.pending \/ cursor.due <= promise.due

Kept == PassCarries /\ TimerCarries /\ CursorHolds

LEMMA SupersedeCarries ==
    ASSUME SInv, SInv', Kept, NEW at, NEW s, NEW due \in Nat, NEW saver,
           Supersede(at, s, due, saver), UNCHANGED <<cursor, overtaken>>,
           at \in On => due # Never,
           (promise' = promise /\ at = "reading") \/ promise' = None
    PROVE  Kept'
<1>1. \A p \in passes : p.gen \in Nat /\ p.gen < generation + 1
  BY DEF SInv, Types, Past, APass
<1>2. PassCarries'
  BY <1>1 DEF Supersede, Kept, PassCarries, Live
<1>3. TimerCarries' /\ CursorHolds'
  BY DEF Supersede, Kept, TimerCarries, CursorHolds
<1> QED
  BY <1>2, <1>3 DEF Kept

LEMMA CallsCarry ==
    ASSUME SInv, SInv', Kept, Start \/ Resume \/ Update PROVE Kept'
<1> USE DEF cursorVars, world
<1>1. CASE Start \/ Resume
  <2>1. Supersede("reading", schedule, 0, FALSE) /\ UNCHANGED <<cursor, overtaken, promise>>
    BY <1>1 DEF Start, Resume, Reconcile
  <2> QED
    BY <2>1, SupersedeCarries DEF On
<1>2. CASE Update
  <2>1. /\ Supersede(FreshAt(saving.s), saving.s, NextAt(saving.s, now), TRUE)
        /\ UNCHANGED <<cursor, overtaken>> /\ promise' = None
    BY <1>2 DEF Update
  <2>2. NextAt(saving.s, now) \in Nat /\ NextAt(saving.s, now) # Never
    BY NextAtType DEF SInv, Types
  <2> QED
    BY <2>1, <2>2, SupersedeCarries
<1> QED
  BY <1>1, <1>2

LEMMA TimerFiresCarries == ASSUME SInv, Kept, TimerFires PROVE Kept'
<1>1. /\ timer \in ATimer /\ ~stopped /\ timer.gen = generation
      /\ UNCHANGED <<cursor, overtaken, promise, stopped, generation>> /\ timer' = None
      /\ passes' = passes \cup {[gen |-> timer.gen, at |-> "marking", s |-> timer.s,
                                 due |-> timer.due, saver |-> FALSE]}
  BY DEF TimerFires, SInv, Types, SingleTimer, cursorVars
<1> QED
  BY <1>1, NotNone DEF Kept, PassCarries, TimerCarries, CursorHolds, Live, On

LEMMA ReadDoneCarries == ASSUME SInv, Kept, NEW p \in passes, ReadDone(p) PROVE Kept'
<1>1. /\ UNCHANGED <<cursor, overtaken, stopped, generation>> /\ p \in APass
      /\ NextAt(schedule, now) # Never
  BY NextAtType DEF ReadDone, SInv, Types, cursorVars
<1>2. CASE ~Live(p)
  BY <1>1, <1>2 DEF ReadDone, Kept, PassCarries, TimerCarries, CursorHolds, Live
<1>3. CASE Live(p) /\ (schedule \notin Enabled \/ Fresh)
  <2>1. promise' = None /\ timer' = timer
    BY <1>3 DEF ReadDone
  <2>2. \E at \in {"disabling", "advancing"}, due \in {0, NextAt(schedule, now)} :
            /\ at = "disabling" \/ due # Never
            /\ passes' = (passes \ {p})
                            \cup {[p EXCEPT !.s = schedule, !.at = at, !.due = due]}
    BY <1>1, <1>3 DEF ReadDone
  <2>3. PassCarries'
    BY <1>1, <2>1, <2>2 DEF Kept, PassCarries, On, APass
  <2> QED
    BY <2>1, <2>3 DEF Kept, TimerCarries, CursorHolds
<1>4. CASE Live(p) /\ schedule \in Enabled /\ ~Fresh
  <2>1. cursor.s = schedule /\ cursor.due # Never /\ cursor \in ACursor
    BY <1>4 DEF Fresh, SInv, Types, NoCursor, Never
  <2>2. timer = None /\ \A r \in passes \ {p} : ~Live(r)
    BY <1>4 DEF SInv, SingleTimer
  <2>3. CASE cursor.pending \/ cursor.due <= now
    <3>1. /\ passes' = (passes \ {p}) \cup {[p EXCEPT !.s = schedule, !.at = "marking",
                                                 !.due = cursor.due]}
          /\ promise' = IF promise # None /\ promise.s # schedule THEN None ELSE promise
          /\ timer' = timer
      BY <1>4, <2>1, <2>3 DEF ReadDone, ACursor, SInv, Types
    <3>2. PassCarries'
      BY <1>1, <2>1, <2>2, <3>1 DEF Kept, PassCarries, Live, APass
    <3> QED
      BY <1>1, <2>1, <2>2, <3>1, <3>2 DEF Kept, TimerCarries, CursorHolds
  <2>4. CASE ~cursor.pending /\ ~(cursor.due <= now)
    <3>1. /\ passes' = passes \ {p} /\ promise' = [s |-> schedule, due |-> cursor.due]
          /\ timer' = [s |-> schedule, due |-> cursor.due, gen |-> p.gen]
      BY <1>1, <1>4, <2>4 DEF ReadDone, Arm, APass
    <3>2. PassCarries'
      BY <1>1, <2>2, <3>1 DEF Kept, PassCarries, Live
    <3> QED
      BY <1>1, <2>1, <3>1, <3>2 DEF Kept, TimerCarries, CursorHolds, ACursor
  <2> QED
    BY <2>3, <2>4
<1> QED
  BY <1>2, <1>3, <1>4

(* A pass that stores leaves a cursor that leads back to the promise.      *)
LEMMA WriteHolds ==
    ASSUME SInv, Kept, NEW p \in passes,
           p.at \in {"marking", "advancing", "disabling"}, Write(p),
           promise' = promise
    PROVE  CursorHolds'
<1>1. CASE ~Live(p)
  BY <1>1 DEF Write, CursorHolds
<1>2. CASE Live(p) /\ promise # None
  <2>1. p.at = "marking" /\ p.s = promise.s /\ p.due # Never
    BY <1>2 DEF Kept, PassCarries, SInv, Types, APass, On
  <2> QED
    BY <2>1 DEF Write, Runtime, CursorHolds
<1>3. CASE promise = None
  BY <1>3 DEF CursorHolds
<1> QED
  BY <1>1, <1>2, <1>3

LEMMA MarkDoneCarries == ASSUME SInv, Kept, NEW p \in passes, MarkDone(p) PROVE Kept'
<1>1. /\ UNCHANGED <<promise, timer, stopped, generation>> /\ p \in APass
      /\ p.at = "marking" /\ Write(p)
      /\ passes' = IF Live(p) THEN Park(p, "attempting", p.due) ELSE passes \ {p}
  BY DEF MarkDone, SInv, Types
<1>2. CursorHolds'
  BY <1>1, WriteHolds
<1>3. PassCarries' /\ TimerCarries'
  BY <1>1 DEF Kept, PassCarries, TimerCarries, Park, APass, On, Live
<1> QED
  BY <1>2, <1>3 DEF Kept

LEMMA NotStartedCarries == ASSUME SInv, Kept, NEW p \in passes, NotStarted(p) PROVE Kept'
<1>1. /\ UNCHANGED <<promise, cursor, overtaken, stopped, generation>> /\ p \in APass
      /\ p.at = "attempting" /\ passes' = passes \ {p}
      /\ timer' = IF Live(p) THEN [s |-> p.s, due |-> p.due, gen |-> p.gen] ELSE timer
  BY DEF NotStarted, Arm, SInv, Types, cursorVars
<1> QED
  BY <1>1 DEF Kept, PassCarries, TimerCarries, CursorHolds, Live, On

LEMMA StartedCarries == ASSUME SInv, Kept, NEW p \in passes, Started(p) PROVE Kept'
<1>1. /\ UNCHANGED <<cursor, overtaken, timer, stopped, generation>> /\ p \in APass
      /\ promise' \in {None, promise} /\ (Live(p) => promise' = None)
      /\ passes' = IF Live(p) THEN Park(p, "advancing", NextAt(p.s, now)) ELSE passes \ {p}
  BY DEF Started, SInv, Types, cursorVars
<1>2. NextAt(p.s, now) # Never
  BY NextAtType DEF SInv, Types
<1>3. PassCarries'
  BY <1>1, <1>2 DEF Kept, PassCarries, Park, APass, On, Live
<1> QED
  BY <1>1, <1>3 DEF Kept, TimerCarries, CursorHolds

LEMMA AdvanceDoneCarries == ASSUME SInv, Kept, NEW p \in passes, AdvanceDone(p) PROVE Kept'
<1>1. /\ UNCHANGED <<stopped, generation>> /\ p \in APass
      /\ p.at = "advancing" /\ Write(p) /\ passes' = passes \ {p}
  BY DEF AdvanceDone, SInv, Types
<1>2. CASE ~Live(p)
  BY <1>1, <1>2, WriteHolds DEF AdvanceDone, Kept, PassCarries, TimerCarries, Live
<1>3. CASE Live(p)
  <2>1. /\ timer' = [s |-> p.s, due |-> p.due, gen |-> p.gen] /\ p.due # Never
        /\ promise' = [s |-> p.s, due |-> p.due] /\ p.due \in Nat
    BY <1>1, <1>3 DEF AdvanceDone, Arm, Kept, PassCarries, On, APass
  <2>2. \A r \in passes' : ~Live(r)'
    BY <1>1, <1>3 DEF SInv, SingleTimer, Live
  <2>3. PassCarries' /\ TimerCarries'
    BY <1>1, <2>1, <2>2 DEF Kept, PassCarries, TimerCarries
  <2>4. CursorHolds'
    BY <1>1, <2>1 DEF CursorHolds, Write, Runtime
  <2> QED
    BY <2>3, <2>4 DEF Kept
<1> QED
  BY <1>2, <1>3

LEMMA OtherDoneCarries ==
    ASSUME SInv, Kept, NEW p \in passes, DisableDone(p) \/ RequestFails(p) PROVE Kept'
<1>1. /\ UNCHANGED <<promise, timer, stopped, generation>> /\ p \in APass
      /\ passes' = passes \ {p}
      /\ \/ UNCHANGED <<cursor, overtaken>>
         \/ p.at \in {"marking", "advancing", "disabling"} /\ Write(p)
  BY DEF DisableDone, RequestFails, SInv, Types, APass, cursorVars
<1>2. CursorHolds'
  <2>1. CASE UNCHANGED <<cursor, overtaken>>
    BY <1>1, <2>1 DEF Kept, CursorHolds
  <2>2. CASE p.at \in {"marking", "advancing", "disabling"} /\ Write(p)
    BY <1>1, <2>2, WriteHolds
  <2> QED
    BY <1>1, <2>1, <2>2
<1> QED
  BY <1>1, <1>2 DEF Kept, PassCarries, TimerCarries, Live

LEMMA RestCarries ==
    ASSUME SInv, SInv', Kept,
           \/ Stored \/ SaveFails \/ \E s \in Schedule : Save(s)
           \/ Suspend \/ Stop \/ Exit \/ ManualScan \/ ScanEnds \/ Tick \/ UNCHANGED vars
    PROVE  Kept'
<1>1. UNCHANGED <<cursor, overtaken, promise>> /\ timer' \in {timer, None}
  BY DEF Stored, SaveFails, Save, Suspend, Stop, Exit, ManualScan, ScanEnds, Tick, vars,
         world, memory, cursorVars
<1>2. \/ passes' = {}
      \/ UNCHANGED <<passes, stopped, generation>>
      \/ UNCHANGED passes /\ generation' = generation + 1
  <2>1. CASE Exit
    BY <2>1 DEF Exit
  <2>2. CASE Suspend \/ Stop
    BY <2>2 DEF Suspend, Stop
  <2>3. CASE \/ Stored \/ SaveFails \/ \E s \in Schedule : Save(s)
             \/ ManualScan \/ ScanEnds \/ Tick \/ UNCHANGED vars
    BY <2>3 DEF Stored, SaveFails, Save, ManualScan, ScanEnds, Tick, vars, memory
  <2> QED
    BY <2>1, <2>2, <2>3
<1>3. \A p \in passes : p.gen \in Nat /\ p.gen < generation + 1
  BY DEF SInv, Types, Past, APass
<1>4. PassCarries'
  BY <1>1, <1>2, <1>3 DEF Kept, PassCarries, Live
<1> QED
  BY <1>1, <1>4 DEF Kept, TimerCarries, CursorHolds

LEMMA KeptStep == SInv /\ Kept /\ [Next]_vars => SInv' /\ Kept'
BY NextKeeps, CallsCarry, TimerFiresCarries, ReadDoneCarries, MarkDoneCarries,
   NotStartedCarries, StartedCarries, AdvanceDoneCarries, OtherDoneCarries, RestCarries
   DEF Next, Continue, Attempted

(* The steps on which an occurrence is given up.                           *)
LEMMA DropStep ==
    SInv /\ Kept /\ [Next]_vars
      => [Overdue /\ promise' # promise =>
            \/ Update \/ \E p \in passes : Started(p)
            \/ schedule # promise.s
            \/ overtaken]_vars
<1> SUFFICES ASSUME SInv, Kept, [Next]_vars, Overdue, promise' # promise,
                    ~Update, ~\E p \in passes : Started(p),
                    schedule = promise.s, ~overtaken
             PROVE  FALSE
  OBVIOUS
<1>1. PICK p \in passes : ReadDone(p) \/ AdvanceDone(p)
  BY DEF Next, Continue, Attempted, Start, Resume, Stored, SaveFails, Save, TimerFires,
         Suspend, Stop, Exit, ManualScan, ScanEnds, Tick, MarkDone, DisableDone, NotStarted,
         RequestFails, vars
<1>2. promise \in APromise /\ schedule \in Enabled /\ promise # None /\ promise.due <= now
  BY DEF Overdue, SInv, Types, APromise
<1>3. CASE AdvanceDone(p)
  BY <1>2, <1>3 DEF AdvanceDone, Kept, PassCarries
<1>4. CASE ReadDone(p)
  <2>1. /\ cursor.s = schedule /\ cursor.due # Never
        /\ cursor.pending \/ cursor.due <= promise.due
    BY <1>2 DEF Kept, CursorHolds
  <2>2. cursor \in ACursor /\ now \in Nat /\ promise.due \in Nat
    BY <1>2, <2>1 DEF SInv, Types, NoCursor, Never, APromise
  <2>3. cursor.pending \/ cursor.due <= now
    BY <1>2, <2>1, <2>2 DEF ACursor
  <2> QED
    BY <1>2, <1>4, <2>1, <2>2, <2>3 DEF ReadDone, Fresh, ACursor
<1> QED
  BY <1>1, <1>3, <1>4

(* An occurrence whose time has come is given up only when a scan starts or *)
(* the user has saved a schedule since, unless a superseded pass wrote the *)
(* cursor last.                                                            *)
THEOREM NothingIsDropped == Spec => NothingDropped
<1>1. Init => Kept
  BY DEF Init, Kept, PassCarries, TimerCarries, CursorHolds
<1>2. Spec => [](SInv /\ Kept)
  BY <1>1, InitEstablishes, KeptStep, PTL DEF Spec
<1> QED
  BY <1>2, DropStep, PTL DEF Spec, NothingDropped

=============================================================================
