-------------------------- MODULE DataResetProofs --------------------------
(***************************************************************************)
(* Proofs about WriterOwnership and DataReset, for every set of processes  *)
(* and launches and every bound on attempts, calls and faults.             *)
(***************************************************************************)
EXTENDS DataReset, FiniteSetTheorems, TLAPS

-----------------------------------------------------------------------------
(* The inductive invariant, in named parts.                                *)

Holding == {"connecting", "open", "stuck", "unlinking"}

(* A call that acquires has a token, and what releases has one to release. *)
Tokens ==
    \A p \in Proc :
        /\ pc[p] \in {"publishing", "reading", "probing", "renaming"} => opens[p] # 0
        /\ pc[p] \in Holding \cup {"releasing"} => held[p] # 0

(* Nobody else acquires.                                                   *)
Sole == \A p, q \in Proc : Acquiring(p) /\ Acquiring(q) => p = q

(* Whoever counts on the lock has it.                                      *)
HoldsLock == \A p \in Proc : pc[p] \in Holding => lock = Own(p, held[p])

(* The record a call has read is still there, or none is.                  *)
SeenIsThere == \A p \in Proc : pc[p] = "probing" => lock \in {seen[p], NoRecord}

Unowned == lock = NoRecord \/ ~Alive(lock.pid)

(* Whoever is about to take a record away takes none of a live process.    *)
TakesDead == \A p \in Proc : pc[p] \in {"renaming", "resetting"} => Unowned

OInv ==
    /\ TypeOK
    /\ Tokens
    /\ ~contended => Sole /\ HoldsLock /\ SeenIsThere /\ TakesDead

(* Only one launch at a time, and only a launch gets past "off".           *)
SoleLaunch ==
    /\ \A p \in Proc : stage[p] # "off" => p \in Desktop
    /\ \A p, q \in Proc : /\ stage[p] # "off" /\ stage[q] # "off"
                          /\ Alive(p) /\ Alive(q)
                          => p = q

(* While a live launch asks or checks, no decision is recorded; a removal  *)
(* is part of a check.                                                     *)
Undecided ==
    \A p \in Proc :
        /\ Alive(p) /\ stage[p] \in {"asking", "checking"} => marker = "none"
        /\ Removing(p) => stage[p] = "checking"

(* Where the user is asked, a launch on its way to the removal was told    *)
(* to go on.                                                               *)
Agreed ==
    Prompts => \A p \in Proc :
        Alive(p) /\ stage[p] \in {"preparing", "checking"} /\ marker = "none"
            => p \in consented

(* Removed data does not come back.                                        *)
Gone == \A p \in Proc : stage[p] = "pending" => rows # "old"

ResetInv ==
    /\ ResetTypeOK
    /\ SoleLaunch /\ Undecided /\ Agreed
    /\ Gone /\ MarkerMeansReady

IInv == OInv /\ ResetInv

-----------------------------------------------------------------------------
(* The ownership: one step per system call.                                *)

USE OwnershipAssumption, ResetAssumption

LEMMA OpenKeeps == ASSUME NEW p \in Proc, OInv, Open(p) PROVE OInv'
<1>1. TypeOK' /\ Tokens'
  BY DEF OInv, TypeOK, Tokens, Holding, Open, Goto
<1>2. ~contended' => ~contended /\ \A q \in Proc : ~Acquiring(q)
  BY DEF Open
<1>3. ASSUME ~contended, \A q \in Proc : ~Acquiring(q)
      PROVE  Sole' /\ HoldsLock' /\ SeenIsThere' /\ TakesDead'
  BY <1>3 DEF OInv, TypeOK, Sole, HoldsLock, SeenIsThere, TakesDead, Unowned, Holding,
              Acquiring, Alive, Own, Record, NoRecord, Open, Goto
<1> QED
  BY <1>1, <1>2, <1>3 DEF OInv

USE DEF OInv, TypeOK, Tokens, Sole, HoldsLock, SeenIsThere, TakesDead, Unowned,
        Holding, Acquiring, Alive, Own, Record, NoRecord

LEMMA PublishKeeps == ASSUME NEW p \in Proc, OInv, Publish(p) PROVE OInv'
BY DEF Publish, Goto

LEMMA ReadKeeps == ASSUME NEW p \in Proc, OInv, Read(p) PROVE OInv'
BY DEF Read, Goto, Fault

LEMMA ProbeKeeps == ASSUME NEW p \in Proc, OInv, Probe(p) PROVE OInv'
BY DEF Probe, Goto

LEMMA RenameKeeps == ASSUME NEW p \in Proc, OInv, Rename(p) PROVE OInv'
BY DEF Rename, Retry, Goto

LEMMA AcquireFailsKeeps == ASSUME NEW p \in Proc, OInv, AcquireFails(p) PROVE OInv'
BY DEF AcquireFails, Goto, Fault

LEMMA PublishFailsKeeps == ASSUME NEW p \in Proc, OInv, PublishFails(p) PROVE OInv'
BY DEF PublishFails, Goto, Fault

LEMMA ConnectKeeps == ASSUME NEW p \in Proc, OInv, Connect(p) \/ ConnectFails(p) PROVE OInv'
BY DEF Connect, ConnectFails, Goto, Fault

LEMMA CloseKeeps == ASSUME NEW p \in Proc, OInv, Close(p) \/ Exit(p) PROVE OInv'
BY DEF Close, Exit, Goto

LEMMA ReleaseKeeps == ASSUME NEW p \in Proc, OInv, ReadOwn(p) \/ UnlinkFails(p) PROVE OInv'
BY DEF ReadOwn, UnlinkFails, Released, Goto, Fault

LEMMA UnlinkKeeps == ASSUME NEW p \in Proc, OInv, UnlinkOwn(p) PROVE OInv'
BY DEF UnlinkOwn, Released, Goto

LEMMA CrashKeeps == ASSUME NEW p \in Proc, OInv, Crash(p) PROVE OInv'
BY DEF Crash, Goto

HIDE DEF OInv, TypeOK, Tokens, Sole, HoldsLock, SeenIsThere, TakesDead, Unowned,
         Holding, Acquiring, Alive, Own, Record, NoRecord

(* What no process but the reset does: nobody comes back to life, and only *)
(* the reset is ever resetting.                                            *)
Settled ==
    \A q \in Proc : /\ Alive(q)' => Alive(q)
                    /\ Removing(q)' => Removing(q)

LEMMA OwnershipSettled ==
    ASSUME NEW p \in Proc, TypeOK,
           Open(p) \/ Step(p) \/ Close(p) \/ Exit(p) \/ Crash(p)
    PROVE  Settled
<1> USE DEF TypeOK, Settled, Alive, Removing, Goto
<1>1. CASE Open(p)
  BY <1>1 DEF Open
<1>2. CASE \/ Publish(p) \/ PublishFails(p) \/ Read(p) \/ Probe(p) \/ Rename(p)
           \/ AcquireFails(p)
  BY <1>2 DEF Publish, PublishFails, Read, Probe, Rename, Retry, AcquireFails
<1>3. CASE Connect(p) \/ ConnectFails(p)
  BY <1>3 DEF Connect, ConnectFails
<1>4. CASE ReadOwn(p) \/ UnlinkOwn(p) \/ UnlinkFails(p)
  BY <1>4 DEF ReadOwn, UnlinkOwn, UnlinkFails, Released
<1>5. CASE Close(p) \/ Exit(p) \/ Crash(p)
  BY <1>5 DEF Close, Exit, Crash
<1> QED
  BY <1>1, <1>2, <1>3, <1>4, <1>5 DEF Step

LEMMA OwnershipKeeps ==
    ASSUME NEW p \in Proc, OInv,
           Open(p) \/ Step(p) \/ Close(p) \/ Exit(p) \/ Crash(p)
    PROVE  OInv'
BY OpenKeeps, PublishKeeps, PublishFailsKeeps, ReadKeeps, ProbeKeeps, RenameKeeps, AcquireFailsKeeps,
   ConnectKeeps, CloseKeeps, ReleaseKeeps, UnlinkKeeps, CrashKeeps DEF Step

-----------------------------------------------------------------------------
(* The reset.                                                              *)

(* While ownership steps are taken, the reset's own state is as it was.    *)
LEMMA OwnershipKeepsReset ==
    ASSUME NEW p \in Proc, OInv, OInv', ResetInv, UNCHANGED resetVars, Settled
    PROVE  ResetInv'
<1>1. ResetTypeOK'
  BY DEF ResetInv, ResetTypeOK, OInv, resetVars
<1>2. SoleLaunch' /\ Undecided'
  BY DEF ResetInv, SoleLaunch, Undecided, Settled, resetVars
<1>3. Agreed'
  BY DEF ResetInv, Agreed, Settled, resetVars
<1>4. Gone' /\ MarkerMeansReady'
  BY DEF ResetInv, Gone, MarkerMeansReady, resetVars
<1> QED
  BY <1>1, <1>2, <1>3, <1>4 DEF ResetInv

LEMMA CheckWriterKeepsOwnership ==
    ASSUME NEW p \in Proc, OInv, CheckWriter(p) PROVE OInv'
<1> USE DEF CheckWriter, At, Goto, StartupFails, TypeOK
<1>1. TypeOK' /\ Tokens'
  BY DEF OInv, Tokens, Holding
<1>2. ~contended' => ~contended /\ \A q \in Proc : ~Acquiring(q)
  OBVIOUS
<1>3. ASSUME ~contended, \A q \in Proc : ~Acquiring(q)
      PROVE  Sole' /\ HoldsLock' /\ SeenIsThere' /\ TakesDead'
  BY <1>3 DEF OInv, Sole, HoldsLock, SeenIsThere, TakesDead, Unowned, Holding,
              Acquiring, Alive, Own, Record, NoRecord
<1> QED
  BY <1>1, <1>2, <1>3 DEF OInv

LEMMA RemoveKeepsOwnership ==
    ASSUME NEW p \in Proc, OInv, RemoveNext(p) \/ Removed(p) \/ RemoveFails(p)
    PROVE  OInv'
BY DEF OInv, TypeOK, Tokens, Sole, HoldsLock, SeenIsThere, TakesDead, Unowned, Holding,
       Acquiring, Alive, Own, Record, NoRecord, RemoveNext, Removed, RemoveFails,
       Removing, StartupFails, Goto, Fault

LEMMA ResetKeepsOwnership ==
    ASSUME NEW p \in Proc, OInv, ResetStep(p) PROVE OInv'
<1>1. CASE UNCHANGED vars
  BY <1>1 DEF OInv, TypeOK, Tokens, Sole, HoldsLock, SeenIsThere, TakesDead, Unowned,
              Acquiring, Alive, vars
<1>2. CASE Decline(p)
  BY <1>2 DEF Decline, Fault, OInv, TypeOK, Tokens, Sole, HoldsLock, SeenIsThere,
              TakesDead, Unowned, Acquiring, Alive
<1>3. CASE ~(CheckWriter(p) \/ RemoveNext(p) \/ Removed(p) \/ RemoveFails(p) \/ Decline(p))
  <2>1. UNCHANGED vars
    BY <1>3 DEF ResetStep, Launch, Confirm, Prepare, Initialize, Use, Mark
  <2> QED
    BY <1>1, <2>1
<1> QED
  BY <1>2, <1>3, CheckWriterKeepsOwnership, RemoveKeepsOwnership

LEMMA ResetStepKeeps ==
    ASSUME NEW p \in Proc, OInv, OInv', ResetInv, ResetStep(p)
    PROVE  ResetInv'
<1> USE DEF ResetInv, ResetTypeOK, SoleLaunch, Undecided, Agreed, Gone,
            MarkerMeansReady, OInv, TypeOK, Alive, Removing, At, Proceed, Goto
<1>1. CASE Launch(p)
  BY <1>1 DEF Launch, vars
<1>2. CASE Confirm(p)
  BY <1>2 DEF Confirm, vars
<1>3. CASE Decline(p)
  BY <1>3 DEF Decline
<1>4. CASE Prepare(p)
  BY <1>4 DEF Prepare, vars
<1>5. CASE CheckWriter(p)
  BY <1>5 DEF CheckWriter, StartupFails, resetVars
<1>6. CASE RemoveNext(p) \/ Removed(p)
  BY <1>6 DEF RemoveNext, Removed
<1>7. CASE RemoveFails(p)
  BY <1>7 DEF RemoveFails, StartupFails, resetVars
<1>8. CASE Initialize(p) \/ Use(p)
  BY <1>8 DEF Initialize, Use, vars
<1>9. CASE Mark(p)
  BY <1>9 DEF Mark, vars
<1> QED
  BY <1>1, <1>2, <1>3, <1>4, <1>5, <1>6, <1>7, <1>8, <1>9 DEF ResetStep

-----------------------------------------------------------------------------
(* The theorems.                                                           *)

LEMMA InitEstablishes == ResetInit => IInv
<1> SUFFICES ASSUME ResetInit PROVE IInv
  OBVIOUS
<1> USE DEF ResetInit, Init
<1>1. OInv
  <2>1. 0 \in 0..MaxOpens /\ 0 \in 0..(MaxAttempts - 1) /\ 0 \in 0..MaxFaults
    OBVIOUS
  <2>2. TypeOK
    BY <2>1 DEF TypeOK
  <2>3. Tokens /\ Sole /\ HoldsLock /\ SeenIsThere /\ TakesDead
    BY DEF Tokens, Sole, HoldsLock, SeenIsThere, TakesDead, Holding, Acquiring
  <2> QED
    BY <2>2, <2>3 DEF OInv
<1>2. ResetTypeOK
  BY <1>1 DEF OInv, ResetTypeOK
<1>3. SoleLaunch /\ Undecided /\ Agreed /\ Gone /\ MarkerMeansReady
  BY DEF SoleLaunch, Undecided, Agreed, Gone, MarkerMeansReady, Removing
<1> QED
  BY <1>1, <1>2, <1>3 DEF IInv, ResetInv

LEMMA NextKeeps == IInv /\ [ResetNext]_allVars => IInv'
<1> SUFFICES ASSUME IInv, [ResetNext]_allVars PROVE IInv'
  OBVIOUS
<1>1. CASE UNCHANGED allVars
  <2>1. OInv'
    BY <1>1 DEF IInv, allVars, vars, OInv, TypeOK, Tokens, Sole, HoldsLock, SeenIsThere,
                TakesDead, Unowned, Acquiring, Alive
  <2>2. ResetInv'
    BY <1>1 DEF IInv, allVars, vars, resetVars, ResetInv, ResetTypeOK, TypeOK, SoleLaunch,
                Undecided, Agreed, Gone, MarkerMeansReady, Alive, Removing
  <2> QED
    BY <2>1, <2>2 DEF IInv
<1>2. ASSUME NEW p \in Proc, ResetStep(p) PROVE IInv'
  BY <1>2, ResetKeepsOwnership, ResetStepKeeps DEF IInv
<1>3. ASSUME NEW p \in Proc, OpenDatabase(p) \/ Own1(p) PROVE IInv'
  <2>1. /\ Open(p) \/ Step(p) \/ Close(p) \/ Exit(p) \/ Crash(p)
        /\ UNCHANGED resetVars
    BY <1>3 DEF OpenDatabase, Own1
  <2>2. OInv' /\ Settled
    BY <2>1, OwnershipKeeps, OwnershipSettled DEF IInv, OInv
  <2> QED
    BY <2>1, <2>2, OwnershipKeepsReset DEF IInv
<1> QED
  BY <1>1, <1>2, <1>3 DEF ResetNext

(* The invariant holds of every behaviour.                                 *)
THEOREM Invariance == ResetSpec => []IInv
BY InitEstablishes, NextKeeps, PTL DEF ResetSpec

(* Type correctness of the ownership and the reset.                        *)
THEOREM TypeCorrect == ResetSpec => []ResetTypeOK
<1>1. IInv => ResetTypeOK
  BY DEF IInv, ResetInv
<1> QED
  BY <1>1, Invariance, PTL

(* Whoever has the database open owns the lock, while acquisitions and the *)
(* reset do not overlap, whatever crashed, exited or failed before.        *)
THEOREM WritersHaveTheLock == ResetSpec => []WriterHasLock
<1>1. IInv => WriterHasLock
  BY DEF IInv, OInv, HoldsLock, Holding, WriterHasLock, Writers
<1> QED
  BY <1>1, Invariance, PTL

(* So there is one writer at most, as long as no two contenders have met:  *)
(* the contention is all that stands between the code and the single       *)
(* writer of DatabaseHost's contract.                                      *)
THEOREM OneWriterUncontended == ResetSpec => [](~contended => OneWriter)
<1>1. WriterHasLock => (~contended => OneWriter)
  <2> SUFFICES ASSUME \A p \in Writers : lock = Own(p, held[p])
               PROVE  Cardinality(Writers) <= 1
    BY DEF WriterHasLock, OneWriter
  <2>1. CASE Writers = {}
    BY <2>1, FS_EmptySet
  <2>2. CASE Writers # {}
    <3>1. PICK w \in Writers : TRUE
      BY <2>2
    <3>2. \A p \in Writers : p = lock.pid
      BY DEF Own
    <3>3. Writers = {w}
      BY <3>1, <3>2
    <3> QED
      BY <3>3, FS_Singleton
  <2> QED
    BY <2>1, <2>2
<1> QED
  BY <1>1, WritersHaveTheLock, PTL

(* A completed marker stands beside an initialized database.               *)
THEOREM MarkerHolds == ResetSpec => []MarkerMeansReady
<1>1. IInv => MarkerMeansReady
  BY DEF IInv, ResetInv
<1> QED
  BY <1>1, Invariance, PTL

(* The record of a live process is taken away by that process alone.       *)
THEOREM LiveLocksKept == ResetSpec => LiveLockKept
<1>1. IInv /\ [ResetNext]_allVars
        => [\A p \in Proc :
              /\ lock.pid = p /\ Alive(p)
              /\ lock' # lock /\ ~contended
              => pc[p] = "unlinking" /\ pc'[p] # "unlinking"]_vars
  <2> SUFFICES ASSUME IInv, [ResetNext]_allVars, vars' # vars,
                      NEW p \in Proc, lock.pid = p, Alive(p), lock' # lock, ~contended
               PROVE  pc[p] = "unlinking" /\ pc'[p] # "unlinking"
    OBVIOUS
  <2> USE DEF IInv, OInv
  <2>1. PICK q \in Proc : ResetStep(q) \/ OpenDatabase(q) \/ Own1(q)
    BY DEF ResetNext, allVars
  <2>2. PICK r \in Proc : Publish(r) \/ PublishFails(r) \/ Rename(r) \/ UnlinkOwn(r)
                             \/ RemoveNext(r)
    BY <2>1 DEF ResetStep, OpenDatabase, Own1, Open, Step, Close, Exit, Crash, Read, Probe,
                AcquireFails, Connect, ConnectFails, ReadOwn, UnlinkFails,
                Launch, Confirm, Decline, Prepare, CheckWriter, Removed, RemoveFails,
                Initialize, Use, Mark, vars
  <2>3. CASE Publish(r) \/ PublishFails(r)
    BY <2>3 DEF Publish, PublishFails, NoRecord
  <2>4. CASE Rename(r) \/ RemoveNext(r)
    BY <2>4 DEF Rename, RemoveNext, Removing, TakesDead, Unowned, NoRecord
  <2>5. CASE UnlinkOwn(r)
    BY <2>5 DEF UnlinkOwn, Released, Goto, HoldsLock, Holding, Own, TypeOK
  <2> QED
    BY <2>2, <2>3, <2>4, <2>5
<1> QED
  BY <1>1, Invariance, PTL DEF ResetSpec, LiveLockKept

(* The only step that removes data.                                        *)
LEMMA RemovalIsReset ==
    ASSUME [ResetNext]_allVars, Removal
    PROVE  \E p \in Proc : RemoveNext(p)
BY DEF Removal, ResetNext, ResetStep, OpenDatabase, Own1, Launch, Confirm, Decline, Prepare,
       CheckWriter, Removed, RemoveFails, Initialize, Use, Mark, allVars, resetVars

(* No data is removed under a process that has the database open, unless   *)
(* somebody began to open it between the check and the removal.            *)
THEOREM WritersSpared == ResetSpec => ResetSparesWriters
<1>1. IInv /\ [ResetNext]_allVars => [Removal => contended \/ Writers = {}]_allVars
  <2> SUFFICES ASSUME IInv, [ResetNext]_allVars, Removal, ~contended,
                      NEW w \in Writers
               PROVE  FALSE
    OBVIOUS
  <2>1. PICK p \in Proc : Removing(p)
    BY RemovalIsReset DEF RemoveNext
  <2>2. lock = Own(w, held[w]) /\ Alive(w) /\ held[w] # 0
    BY DEF IInv, OInv, HoldsLock, Tokens, Holding, Writers, Alive
  <2>3. Unowned
    BY <2>1 DEF IInv, OInv, TakesDead, Removing
  <2> QED
    BY <2>2, <2>3 DEF Unowned, Own, NoRecord
<1> QED
  BY <1>1, Invariance, PTL DEF ResetSpec, ResetSparesWriters

(* On a platform where the user is asked, only a launch whose user agreed  *)
(* removes data, and none after a decision was recorded.                   *)
THEOREM RemovalsSanctioned ==
    ASSUME Prompts PROVE ResetSpec => RemovalSanctioned
<1>1. IInv /\ [ResetNext]_allVars
        => [Removal => marker = "none" /\ \E p \in consented : Removing(p)]_allVars
  <2> SUFFICES ASSUME IInv, [ResetNext]_allVars, Removal
               PROVE  marker = "none" /\ \E p \in consented : Removing(p)
    OBVIOUS
  <2>1. PICK p \in Proc : Removing(p)
    BY RemovalIsReset DEF RemoveNext
  <2>2. Alive(p) /\ stage[p] = "checking"
    BY <2>1 DEF IInv, ResetInv, Undecided, Removing, Alive
  <2> QED
    BY <2>1, <2>2 DEF IInv, ResetInv, Undecided, Agreed
<1> QED
  BY <1>1, Invariance, PTL DEF ResetSpec, RemovalSanctioned

=============================================================================
