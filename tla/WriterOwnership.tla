--------------------------- MODULE WriterOwnership ---------------------------
(***************************************************************************)
(* Cross-process ownership of a database file:                             *)
(* src/platform/database/writer-ownership.server.ts as DatabaseHost.open   *)
(* and close use it.  The code is synchronous, so within one process it    *)
(* runs undisturbed; between processes every system call (link, read,      *)
(* kill, rename, unlink) is a step of its own.                             *)
(*                                                                         *)
(* A member of Proc is one process from its start to its end, with a pid   *)
(* nobody else gets; a restarted application is another member.            *)
(***************************************************************************)
EXTENDS Naturals, FiniteSets

CONSTANTS
    Proc,
    MaxAttempts,    \* attempts of one acquireWriterOwnership() call, 8
    MaxOpens,       \* bound: DatabaseHost.open() calls of one process
    MaxFaults       \* bound: file system and driver calls that fail

ASSUME OwnershipAssumption ==
    /\ "none" \notin Proc
    /\ MaxAttempts \in Nat \ {0} /\ MaxOpens \in Nat \ {0} /\ MaxFaults \in Nat

VARIABLES
    lock,       \* the record under the lock's name, or NoRecord
    pc,
    opens,      \* calls of open() so far: the number is the call's token
    attempt,
    seen,       \* the record the call has read
    held,       \* the token HELD_LOCKS has, 0 for none
    exiting,    \* processes that are ending or have ended
    faults,
    contended   \* history: two processes were acquiring at the same time

vars == <<lock, pc, opens, attempt, seen, held, exiting, faults, contended>>

Record == [pid : Proc, token : 1..MaxOpens]
NoRecord == [pid |-> "none", token |-> 0]
Own(p, token) == [pid |-> p, token |-> token]

Alive(p) == pc[p] # "dead"
(* A reset of the data (DataReset) that has looked at the lock counts as an *)
(* acquisition under way.                                                  *)
Acquiring(p) == pc[p] \in {"publishing", "reading", "probing", "renaming", "resetting"}
Writers == {p \in Proc : pc[p] \in {"open", "stuck"}}

TypeOK ==
    /\ lock \in Record \cup {NoRecord}
    /\ pc \in [Proc -> {"closed", "publishing", "reading", "probing", "renaming",
                        "connecting", "open", "stuck", "releasing", "unlinking",
                        "resetting", "dead"}]
    /\ opens \in [Proc -> 0..MaxOpens]
    /\ attempt \in [Proc -> 0..(MaxAttempts - 1)]
    /\ seen \in [Proc -> Record \cup {NoRecord}]
    /\ held \in [Proc -> 0..MaxOpens]
    /\ exiting \subseteq Proc
    /\ faults \in 0..MaxFaults
    /\ contended \in BOOLEAN

Init ==
    /\ lock = NoRecord
    /\ pc = [p \in Proc |-> "closed"]
    /\ opens = [p \in Proc |-> 0]
    /\ attempt = [p \in Proc |-> 0]
    /\ seen = [p \in Proc |-> NoRecord]
    /\ held = [p \in Proc |-> 0]
    /\ exiting = {}
    /\ faults = 0
    /\ contended = FALSE

Goto(p, where) == pc' = [pc EXCEPT ![p] = where]
Fault == faults < MaxFaults /\ faults' = faults + 1

-----------------------------------------------------------------------------
(* acquireWriterOwnership().                                               *)

Open(p) ==
    /\ pc[p] = "closed" /\ opens[p] < MaxOpens
    /\ opens' = [opens EXCEPT ![p] = @ + 1]
    /\ attempt' = [attempt EXCEPT ![p] = 0]
    /\ contended' = (contended \/ \E q \in Proc : Acquiring(q))
    /\ Goto(p, "publishing")
    /\ UNCHANGED <<lock, seen, held, exiting, faults>>

(* publishCompleteLock: a complete record is linked under the lock's name, *)
(* which fails if the name exists.                                         *)
PublishOver(p) ==       \* mutant of Publish: overwrites instead of linking
    /\ pc[p] = "publishing"
    /\ lock' = Own(p, opens[p])
    /\ held' = [held EXCEPT ![p] = opens[p]]
    /\ Goto(p, "connecting")
    /\ UNCHANGED <<opens, attempt, seen, exiting, faults, contended>>

Publish(p) ==
    /\ pc[p] = "publishing"
    /\ IF lock = NoRecord
       THEN /\ lock' = Own(p, opens[p])
            /\ held' = [held EXCEPT ![p] = opens[p]]
            /\ Goto(p, "connecting")
       ELSE Goto(p, "reading") /\ UNCHANGED <<lock, held>>
    /\ UNCHANGED <<opens, attempt, seen, exiting, faults, contended>>

(* The link is made and the call fails after it, when it narrows the       *)
(* permissions of the lock: the record stays and HELD_LOCKS does not know. *)
PublishFails(p) ==
    /\ pc[p] = "publishing" /\ lock = NoRecord
    /\ Fault
    /\ lock' = Own(p, opens[p])
    /\ Goto(p, "closed")
    /\ UNCHANGED <<opens, attempt, seen, held, exiting, contended>>

(* readLockRecord: a lock that cannot be read is refused as already open.  *)
Read(p) ==
    /\ pc[p] = "reading"
    /\ \/ /\ lock # NoRecord
          /\ seen' = [seen EXCEPT ![p] = lock]
          /\ Goto(p, "probing") /\ UNCHANGED faults
       \/ /\ lock = NoRecord
          /\ Goto(p, "closed") /\ UNCHANGED <<seen, faults>>
       \/ Fault /\ Goto(p, "closed") /\ UNCHANGED seen
    /\ UNCHANGED <<lock, opens, attempt, held, exiting, contended>>

(* isProcessAlive.                                                         *)
ProbeNobody(p) ==       \* mutant of Probe: takes any lock for a stale one
    /\ pc[p] = "probing"
    /\ Goto(p, "renaming")
    /\ seen' = [seen EXCEPT ![p] = NoRecord]
    /\ UNCHANGED <<lock, opens, attempt, held, exiting, faults, contended>>

Probe(p) ==
    /\ pc[p] = "probing"
    /\ Goto(p, IF Alive(seen[p].pid) THEN "closed" ELSE "renaming")
    /\ seen' = [seen EXCEPT ![p] = NoRecord]
    /\ UNCHANGED <<lock, opens, attempt, held, exiting, faults, contended>>

(* The next round of the loop, or "already-open" after the last one.       *)
RetryOnce(p) ==         \* mutant of Retry: gives up instead of looping
    Goto(p, "closed") /\ UNCHANGED attempt

Retry(p) ==
    IF attempt[p] + 1 < MaxAttempts
    THEN attempt' = [attempt EXCEPT ![p] = @ + 1] /\ Goto(p, "publishing")
    ELSE Goto(p, "closed") /\ UNCHANGED attempt

(* Renames whatever record has the lock's name now; ENOENT means another   *)
(* contender was faster.                                                   *)
Rename(p) ==
    /\ pc[p] = "renaming"
    /\ lock' = NoRecord
    /\ Retry(p)
    /\ UNCHANGED <<opens, seen, held, exiting, faults, contended>>

AcquireFails(p) ==      \* "io-failure" up to the link, or of the rename
    /\ pc[p] \in {"publishing", "renaming"}
    /\ Fault
    /\ Goto(p, "closed")
    /\ UNCHANGED <<lock, opens, attempt, seen, held, exiting, contended>>

-----------------------------------------------------------------------------
(* DatabaseHost.open() after the acquisition, and close().                 *)

Connect(p) ==
    /\ pc[p] = "connecting"
    /\ Goto(p, "open")
    /\ attempt' = [attempt EXCEPT ![p] = 0]
    /\ UNCHANGED <<lock, opens, seen, held, exiting, faults, contended>>

(* The adapter or a PRAGMA fails.  The ownership is released, unless the   *)
(* connection could not be closed either.                                  *)
ConnectFails(p) ==
    /\ pc[p] = "connecting"
    /\ Fault
    /\ \E where \in {"releasing", "stuck"} : Goto(p, where)
    /\ UNCHANGED <<lock, opens, attempt, seen, held, exiting, contended>>

(* A second close() tries again to release what the first could not.       *)
Close(p) ==
    /\ pc[p] = "open" \/ (pc[p] = "closed" /\ held[p] # 0)
    /\ Goto(p, "releasing")
    /\ UNCHANGED <<lock, opens, attempt, seen, held, exiting, faults, contended>>

-----------------------------------------------------------------------------
(* releaseOwnedLock(), by release() or by the exit hook.                   *)

Released(p) == Goto(p, IF p \in exiting THEN "dead" ELSE "closed")

ReadOwn(p) ==
    /\ pc[p] = "releasing"
    /\ \/ lock = Own(p, held[p]) /\ Goto(p, "unlinking") /\ UNCHANGED faults
       \/ lock # Own(p, held[p]) /\ Released(p) /\ UNCHANGED faults
       \/ Fault /\ Released(p)
    /\ UNCHANGED <<lock, opens, attempt, seen, held, exiting, contended>>

UnlinkOwn(p) ==
    /\ pc[p] = "unlinking"
    /\ lock' = NoRecord
    /\ held' = [held EXCEPT ![p] = IF lock = NoRecord THEN @ ELSE 0]
    /\ Released(p)
    /\ UNCHANGED <<opens, attempt, seen, exiting, faults, contended>>

UnlinkFails(p) ==
    /\ pc[p] = "unlinking"
    /\ Fault
    /\ Released(p)
    /\ UNCHANGED <<lock, opens, attempt, seen, held, exiting, contended>>

(* A process that exits runs the hook from its event loop.                 *)
Exit(p) ==
    /\ pc[p] \in {"closed", "open", "stuck"}
    /\ exiting' = exiting \cup {p}
    /\ Goto(p, IF held[p] = 0 THEN "dead" ELSE "releasing")
    /\ UNCHANGED <<lock, opens, attempt, seen, held, faults, contended>>

Crash(p) ==      \* its memory is gone, its record stays
    /\ Alive(p)
    /\ Goto(p, "dead")
    /\ attempt' = [attempt EXCEPT ![p] = 0]
    /\ seen' = [seen EXCEPT ![p] = NoRecord]
    /\ held' = [held EXCEPT ![p] = 0]
    /\ exiting' = exiting \cup {p}
    /\ UNCHANGED <<lock, opens, faults, contended>>

-----------------------------------------------------------------------------
Step(p) ==      \* what a process does once it has called open() or close()
    \/ Publish(p) \/ PublishFails(p) \/ Read(p) \/ Probe(p) \/ Rename(p)
    \/ AcquireFails(p) \/ Connect(p) \/ ConnectFails(p)
    \/ ReadOwn(p) \/ UnlinkOwn(p) \/ UnlinkFails(p)

Next == \E p \in Proc : Open(p) \/ Step(p) \/ Close(p) \/ Exit(p) \/ Crash(p)

Spec == Init /\ [][Next]_vars

(* A process that is in one of the synchronous functions gets to its end   *)
(* unless the process dies, which leaves no step.                          *)
FairSpec == Spec /\ \A p \in Proc : WF_vars(Step(p))

-----------------------------------------------------------------------------
(* Properties.                                                             *)

(* Never two processes with a writable connection to one database file,    *)
(* the single-writer contract of DatabaseHost.                             *)
OneWriter == Cardinality(Writers) <= 1

(* While only one process at a time has been in acquireWriterOwnership(),  *)
(* a process with a connection has the lock's name to itself, whatever     *)
(* crashed, exited or failed before: its record is the one in place.       *)
WriterHasLock ==
    ~contended => \A p \in Writers : lock = Own(p, held[p])

(* The record of a live process is removed only by that process, while     *)
(* nobody contended.                                                       *)
LiveLockKept ==
    [][\A p \in Proc :
          /\ lock.pid = p /\ Alive(p)
          /\ lock' # lock /\ ~contended
          => pc[p] = "unlinking" /\ pc'[p] # "unlinking"]_vars

(* A process that opens the database when every other process is gone, and *)
(* no call of its own fails, gets the ownership: the lock a crash left     *)
(* behind is not in its way.                                               *)
Alone(p) == \A q \in Proc \ {p} : ~Alive(q)
StaleReclaimed ==
    \A p \in Proc :
        pc[p] = "publishing" /\ attempt[p] = 0 /\ Alone(p) /\ faults = MaxFaults
            /\ lock.pid # p
        ~> pc[p] \in {"connecting", "dead"}

=============================================================================
