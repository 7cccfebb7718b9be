---------------------------- MODULE SnapshotProofs ----------------------------
(***************************************************************************)
(* Proofs about SnapshotCoordinator, for every period of freshness and     *)
(* every bound on versions, time, faults and restarts, and that it         *)
(* implements LatestSnapshot.                                              *)
(***************************************************************************)
EXTENDS SnapshotCoordinator, TLAPS

-----------------------------------------------------------------------------
(* The inductive invariant, in named parts.                                *)

(* A fresh envelope was read while the refresh that stamped it went on.    *)
Truthful(e) ==
    e.data # Null /\ e.status # "stale" /\ e.from = "scan" =>
        /\ e.data > Blank
        /\ e.taken \in e.began..e.at
AllTruthful ==
    /\ Truthful(store) /\ Truthful(current) /\ Truthful(loaded)
    /\ refresh \in {"saving", "reloading"} => Truthful(next)

(* What has been scanned was read since the refresh began.                 *)
ScanFound ==
    /\ refresh \in {"collecting", "scanned"} => next.began <= clock
    /\ refresh = "scanned" =>
          /\ next.data # Null /\ next.status = "fresh"
          /\ next.from = "scan" => /\ next.data > Blank
                            /\ next.began <= next.taken /\ next.taken <= clock
    /\ refresh = "collecting" => next.from = "scan"

BasicInv == TypeOK /\ ScanFound /\ AllTruthful

(* The erasure goes on while no refresh does; clear() has waited for one   *)
(* that had begun, and only a hydrated coordinator refreshes.              *)
Phases ==
    /\ refresh # "idle" => hydrated /\ clearing \in {"no", "waiting"}
    /\ clearing = "waiting" => hydrated
    /\ clearing = "erasing" => store = Empty

(* A load under way brings nothing, or what is still stored.               *)
LoadIsCurrent ==
    load = "pending" => loaded = Empty \/ (loaded = store /\ ~hydrated)

(* Memory shows nothing or the stored generation, until a save is done.    *)
MemoryAgrees ==
    refresh \notin {"saving", "reloading"} /\ current.data # Null =>
        /\ current.data = store.data
        /\ current.at = store.at

(* What is about to be shown is what was stored.                           *)
Committed ==
    refresh \in {"saving", "reloading"} => next = store /\ store.data # Null

(* What may be committed is no older than what is stored, unless readers   *)
(* see nothing and it is the empty snapshot.                               *)
Forward ==
    /\ store.data <= world
    /\ refresh = "collecting" =>
          IF previous.data # Null THEN previous.data = store.data
          ELSE current.data = Null
    /\ refresh = "scanned" =>
          /\ next.data <= world
          /\ IF next.from = "spare"
             THEN current.data = Null /\ next.data \in {store.data, Blank}
             ELSE store.data <= next.data

(* A demand is met by what is shown as fresh and by what comes next.       *)
Meets(e) ==
    e.data # Null /\ e.status # "stale" /\ e.from = "scan" => e.data >= demanded
Demands ==
    /\ demanded <= world
    /\ ~hydrated => demanded = 0
    /\ ~overlapped =>
          /\ ~invalidated => Meets(current)
          /\ refresh \in {"scanned", "saving", "reloading"} => Meets(next)

SnapInv ==
    /\ BasicInv
    /\ Phases /\ LoadIsCurrent /\ MemoryAgrees /\ Committed /\ Forward /\ Demands

USE SnapshotAssumption

-----------------------------------------------------------------------------
(* Envelopes.                                                              *)

Fields == [data : 0..MaxVersion, at : 0..MaxClock, began : 0..MaxClock,
           taken : 0..MaxClock, from : {"scan", "spare"},
           status : {"empty", "fresh", "stale"}]

LEMMA EnvelopeIs ==
    Envelope = {e \in Fields : /\ e.status = "empty" => e.data = Null
                               /\ e.data = Null => e.status # "fresh"}
BY DEF Fields, Envelope

(* An envelope filled in with data is one.                                 *)
LEMMA Filled ==
    ASSUME NEW m \in Fields, m.data # Null, m.status = "fresh"
    PROVE  m \in Envelope
BY EnvelopeIs, Zenon

LEMMA EmptyEnvelope == Empty \in Envelope /\ Truthful(Empty)
BY DEF Empty, Envelope, Truthful, Null

LEMMA Marked ==
    ASSUME NEW e \in Envelope
    PROVE  LET m == [e EXCEPT !.status = "stale"] IN
           m \in Envelope /\ Truthful(m) /\ m.data = e.data /\ m.at = e.at
                          /\ m.status = "stale"
BY DEF Envelope, Truthful

(* The envelope of a scan, begun, read and committed in this order.        *)
LEMMA Stamped ==
    ASSUME NEW e \in Envelope, NEW now \in 0..MaxClock, e.data # Null,
           e.from = "scan" => e.data > Blank /\ e.began <= e.taken /\ e.taken <= now
    PROVE  LET m == [e EXCEPT !.at = now] IN
           m \in Envelope /\ Truthful(m) /\ m.data = e.data /\ m.status = e.status
                          /\ m.from = e.from
BY DEF Envelope, Truthful

LEMMA HandedBack ==
    ASSUME NEW e \in Envelope, NEW f \in Envelope, NEW g \in Envelope,
           NEW m, m = [e EXCEPT !.at = f.at, !.began = g.began, !.status = "stale"],
           e.data # Null
    PROVE  m \in Envelope /\ Truthful(m) /\ m.data = e.data /\ m.status = "stale"
BY DEF Envelope, Truthful

(* What the collector makes of a scan, and of none.                        *)
LEMMA ScanMakes ==
    ASSUME TypeOK, ScanFound, Scan
    PROVE  /\ next' \in Envelope /\ next'.data = world /\ next'.status = "fresh"
           /\ next'.began = next.began /\ next'.taken = clock
           /\ next'.from = "scan"
<1>1. next \in Fields /\ next.from = "scan"
  BY EnvelopeIs DEF TypeOK, ScanFound, Scan
<1>2. world \in 0..MaxVersion /\ world # Null /\ clock \in 0..MaxClock
  BY DEF TypeOK, Blank, Null
<1>3. next' = [next EXCEPT !.data = world, !.taken = clock, !.status = "fresh"]
  BY DEF Scan
<1>4. next' \in Fields
  BY <1>1, <1>2, <1>3 DEF Fields
<1>5. /\ next'.data = world /\ next'.status = "fresh" /\ next'.began = next.began
      /\ next'.taken = clock /\ next'.from = "scan"
  BY <1>1, <1>3 DEF Fields
<1> QED
  BY <1>2, <1>4, <1>5, Filled

LEMMA SpareMakes ==
    ASSUME TypeOK, Spare
    PROVE  /\ next' \in Envelope /\ next'.status = "fresh" /\ next'.from = "spare"
           /\ next'.data \in {store.data, Blank} /\ next'.data # Null
           /\ next'.began = next.began
           /\ faults' \in 0..MaxFaults
<1> DEFINE With(data, taken) == [next EXCEPT !.data = data, !.taken = taken,
                                 !.from = "spare", !.status = "fresh"]
<1>1. PICK d \in {store.data, Blank}, t \in {store.taken, 0} :
          d # Null /\ next' = With(d, t)
  BY DEF Spare, Call, Blank, Null
<1>2. next \in Fields /\ store \in Fields
  BY EnvelopeIs DEF TypeOK
<1>3. d \in 0..MaxVersion /\ t \in 0..MaxClock
  BY <1>2 DEF Fields, Blank
<1>4. next' \in Fields
  BY <1>1, <1>2, <1>3 DEF Fields
<1>5. /\ next'.data = d /\ next'.status = "fresh" /\ next'.began = next.began
      /\ next'.from = "spare"
  BY <1>1, <1>2 DEF Fields
<1>6. faults' \in 0..MaxFaults
  BY DEF Spare, Call, TypeOK
<1> QED
  BY <1>1, <1>4, <1>5, <1>6, Filled

(* How a refresh ends.                                                     *)
LEMMA Ends ==
    ASSUME RefreshEnds
    PROVE  /\ refresh' = "idle" /\ aborted' = FALSE
           /\ previous' = Empty /\ next' = Empty
BY DEF RefreshEnds

-----------------------------------------------------------------------------
(* Types and truthful envelopes, whatever clear() overlaps with.           *)

LEMMA CommitKeeps ==
    ASSUME BasicInv, refresh \in {"collecting", "scanned"},
           NEW e \in Envelope, Truthful(e), Commit(e)
    PROVE  BasicInv'
BY DEF BasicInv, TypeOK, ScanFound, AllTruthful, Truthful, Commit, Call, history

LEMMA EraseKeeps ==
    ASSUME BasicInv, Erase,
           UNCHANGED <<world, clock, load, loaded, hydrated, refresh, previous,
                       next, aborted, invalidated, history, restarts>>
    PROVE  BasicInv'
BY EmptyEnvelope
   DEF BasicInv, TypeOK, ScanFound, AllTruthful, Truthful, Erase, Call, history

LEMMA ShownKeeps ==
    ASSUME BasicInv, refresh \in {"saving", "reloading"}, Shown,
           faults' \in 0..MaxFaults
    PROVE  BasicInv'
<1>1. /\ refresh' = "idle" /\ aborted' = FALSE /\ previous' = Empty /\ next' = Empty
      /\ current' = next /\ invalidated' = FALSE
      /\ UNCHANGED <<world, clock, store, load, loaded, hydrated, clearing,
                     demanded, overlapped, restarts>>
  BY Ends DEF Shown, history
<1>2. TypeOK'
  BY <1>1, EmptyEnvelope DEF BasicInv, TypeOK
<1>3. ScanFound'
  BY <1>1 DEF ScanFound
<1>4. AllTruthful'
  BY <1>1 DEF BasicInv, AllTruthful, Truthful
<1> QED
  BY <1>2, <1>3, <1>4 DEF BasicInv

LEMMA BasicStep == BasicInv /\ [Next]_vars => BasicInv'
<1> SUFFICES ASSUME BasicInv, [Next]_vars PROVE BasicInv'
  OBVIOUS
<1> USE DEF BasicInv, TypeOK, ScanFound, AllTruthful, Call, history
<1>1. CASE Hydrate
  BY <1>1, EmptyEnvelope DEF Hydrate
<1>2. CASE HydrateDone
  BY <1>2, EmptyEnvelope DEF HydrateDone
<1>3. CASE RefreshBegin
  <2>1. next' \in Envelope /\ next'.from = "scan" /\ next'.began = clock
    <3>1. next' = [Empty EXCEPT !.began = clock]
      BY <1>3 DEF RefreshBegin
    <3> QED
      BY <3>1 DEF Empty, Envelope, Null
  <2>2. refresh' = "collecting" /\ previous' = current /\ aborted' = FALSE
        /\ UNCHANGED <<world, clock, store, current, load, loaded, hydrated,
                       clearing, invalidated, history, faults, restarts>>
    BY <1>3 DEF RefreshBegin
  <2>3. TypeOK'
    BY <2>1, <2>2
  <2>4. ScanFound' /\ AllTruthful'
    BY <2>1, <2>2 DEF Truthful
  <2> QED
    BY <2>3, <2>4
<1>4. CASE Scan
  <2>1. refresh' = "scanned"
        /\ UNCHANGED <<world, clock, store, current, load, loaded, hydrated,
                       previous, aborted, clearing, invalidated, history, faults,
                       restarts>>
    BY <1>4 DEF Scan
  <2>2. next.began <= clock /\ world > Blank /\ world # Null
    BY <1>4 DEF Scan, Blank, Null
  <2>3. clock \in Nat
    OBVIOUS
  <2> QED
    BY <1>4, <2>1, <2>2, <2>3, ScanMakes DEF Truthful
<1>5. CASE Spare
  <2>1. refresh' = "scanned"
        /\ UNCHANGED <<world, clock, store, current, load, loaded, hydrated,
                       previous, aborted, clearing, invalidated, history,
                       restarts>>
    BY <1>5 DEF Spare
  <2>2. next.began <= clock
    BY <1>5 DEF Spare
  <2> QED
    BY <1>5, <2>1, <2>2, SpareMakes DEF Truthful
<1>6. CASE Collected
  BY <1>6, Stamped, CommitKeeps DEF Collected
<1>7. CASE Reused
  BY <1>7, HandedBack, CommitKeeps DEF Reused
<1>8. CASE Failed
  BY <1>8, EmptyEnvelope, Ends DEF Failed, Truthful
<1>9. CASE Saved
  <2>1. CASE Reloads
    <3>1. next' \in {next, store} /\ refresh' = "reloading" /\ faults' \in 0..MaxFaults
      BY <1>9, <2>1 DEF Saved
    <3>2. UNCHANGED <<world, clock, store, current, load, loaded, hydrated, previous,
                      aborted, clearing, invalidated, demanded, overlapped, restarts>>
      BY <1>9, <2>1 DEF Saved
    <3>3. refresh = "saving"
      BY <1>9 DEF Saved
    <3> QED
      BY <3>1, <3>2, <3>3 DEF Truthful
  <2>2. CASE ~Reloads
    BY <1>9, <2>2, ShownKeeps DEF Saved
  <2> QED
    BY <2>1, <2>2
<1>19. CASE Reloaded
  BY <1>19, ShownKeeps DEF Reloaded
<1>10. CASE Invalidate
  BY <1>10, Marked DEF Invalidate, Blank
<1>11. CASE Clear
  <2>1. CASE refresh = "idle"
    BY <1>11, <2>1, EraseKeeps DEF Clear
  <2>2. CASE refresh # "idle"
    BY <1>11, <2>2 DEF Clear
  <2> QED
    BY <2>1, <2>2
<1>12. CASE ClearGoesOn
  BY <1>12, EraseKeeps DEF ClearGoesOn
<1>13. CASE ClearDone
  BY <1>13 DEF ClearDone
<1>14. CASE Abort
  BY <1>14 DEF Abort
<1>15. CASE Mutate
  BY <1>15 DEF Mutate, volatile, Blank
<1>16. CASE Tick
  <2>1. next.began \in Nat /\ next.taken \in Nat /\ clock \in Nat
    BY EnvelopeIs DEF Fields
  <2>2. clock' = clock + 1 /\ clock < MaxClock
        /\ UNCHANGED <<world, store, current, load, loaded, hydrated, refresh,
                       previous, next, aborted, clearing, invalidated, demanded,
                       overlapped, faults, restarts>>
    BY <1>16 DEF Tick, volatile
  <2>3. TypeOK'
    BY <2>2
  <2>4. ScanFound' /\ AllTruthful'
    BY <2>1, <2>2 DEF Truthful
  <2> QED
    BY <2>3, <2>4
<1>17. CASE Restart
  <2>1. TypeOK' /\ ScanFound'
    <3>1. restarts' \in 0..MaxRestarts /\ demanded' \in 0..MaxVersion
      BY <1>17 DEF Restart
    <3>2. UNCHANGED <<world, clock, store, faults>>
      BY <1>17 DEF Restart
    <3>3. /\ current' = Empty /\ load' = "none" /\ loaded' = Empty
          /\ previous' = Empty /\ next' = Empty
          /\ refresh' = "idle" /\ clearing' = "no"
      BY <1>17 DEF Restart
    <3>4. /\ hydrated' \in BOOLEAN /\ aborted' \in BOOLEAN
          /\ invalidated' \in BOOLEAN /\ overlapped' \in BOOLEAN
      BY <1>17 DEF Restart
    <3> QED
      BY <3>1, <3>2, <3>3, <3>4, EmptyEnvelope
  <2>2. AllTruthful'
    BY <1>17, EmptyEnvelope DEF Restart, Truthful
  <2> QED
    BY <2>1, <2>2
<1>18. CASE UNCHANGED vars
  BY <1>18 DEF vars, volatile
<1> QED
  BY <1>1, <1>2, <1>3, <1>4, <1>5, <1>6, <1>7, <1>8, <1>9, <1>10, <1>11,
     <1>12, <1>13, <1>14, <1>15, <1>16, <1>17, <1>18, <1>19 DEF Next

-----------------------------------------------------------------------------
(* What memory, store and the refresh in flight have to do with one        *)
(* another, when no clear() overlaps a load.                               *)

Related ==
    Phases /\ LoadIsCurrent /\ MemoryAgrees /\ Committed /\ Forward /\ Demands

LEMMA Numbers ==
    ASSUME TypeOK
    PROVE  /\ world \in Nat /\ demanded \in Nat /\ store.data \in Nat
           /\ current.data \in Nat /\ next.data \in Nat /\ previous.data \in Nat
<1>1. /\ store \in Fields /\ current \in Fields /\ next \in Fields
      /\ previous \in Fields
  BY EnvelopeIs DEF TypeOK
<1>2. \A e \in Fields : e.data \in Nat
  BY DEF Fields
<1>3. world \in Nat /\ demanded \in Nat
  BY DEF TypeOK, Blank
<1> QED
  BY <1>1, <1>2, <1>3

LEMMA ShownRelates ==
    ASSUME SnapInv, refresh \in {"saving", "reloading"}, Shown
    PROVE  Related'
<1>1. /\ refresh' = "idle" /\ current' = store /\ invalidated' = FALSE
      /\ Meets(store) \/ overlapped
      /\ UNCHANGED <<world, clock, store, load, loaded, hydrated, clearing,
                     demanded, overlapped>>
  BY Ends DEF Shown, SnapInv, Committed, Demands, history
<1>2. Phases' /\ LoadIsCurrent' /\ MemoryAgrees' /\ Committed' /\ Forward'
  BY <1>1 DEF SnapInv, Phases, LoadIsCurrent, MemoryAgrees, Committed, Forward
<1>3. Demands'
  BY <1>1 DEF SnapInv, Demands, Meets
<1> QED
  BY <1>2, <1>3 DEF Related

LEMMA EraseRelates ==
    ASSUME SnapInv, Erase, clearing \in {"no", "waiting"}, refresh = "idle",
           load = "pending" => loaded = Empty,
           UNCHANGED <<world, clock, load, loaded, hydrated, refresh, previous,
                       next, aborted, invalidated, history, restarts>>
    PROVE  Related'
BY EmptyEnvelope, Numbers
   DEF SnapInv, BasicInv, TypeOK, Related, Phases, LoadIsCurrent, MemoryAgrees,
       Committed, Forward, Demands, Meets, Erase, Call, Empty, Null, history

LEMMA RelatedStep == SnapInv /\ ~ClearDuringLoad /\ [Next]_vars => Related'
<1> SUFFICES ASSUME SnapInv, ~ClearDuringLoad, [Next]_vars PROVE Related'
  OBVIOUS
<1>0. TypeOK /\ Related /\ ScanFound
  BY DEF SnapInv, BasicInv, Related
<1>n. /\ world \in Nat /\ demanded \in Nat /\ store.data \in Nat
      /\ current.data \in Nat /\ next.data \in Nat /\ previous.data \in Nat
  BY <1>0, Numbers
<1> USE DEF Related, Phases, LoadIsCurrent, MemoryAgrees, Committed, Forward,
            Demands, Meets, Call, history
<1>1. CASE Hydrate
  BY <1>1, <1>0, <1>n DEF Hydrate, TypeOK
<1>2. CASE HydrateDone
  <2>1. Empty.data = Null
    BY DEF Empty
  <2>2. current'.data = Null \/ (current' = store /\ ~hydrated)
    BY <1>2, <1>0, <2>1 DEF HydrateDone
  <2>3. load' # "pending" /\ hydrated'
        /\ UNCHANGED <<world, store, refresh, previous, next, clearing, invalidated,
                       demanded, overlapped>>
    BY <1>2 DEF HydrateDone
  <2>4. Phases' /\ LoadIsCurrent' /\ Committed' /\ Forward'
    BY <1>0, <2>2, <2>3
  <2>5. MemoryAgrees'
    BY <2>2, <2>3
  <2>6. Demands'
    BY <1>0, <1>n, <2>2, <2>3
  <2> QED
    BY <2>4, <2>5, <2>6
<1>3. CASE RefreshBegin
  <2>1. /\ refresh' = "collecting" /\ previous' = current /\ refresh = "idle"
        /\ hydrated /\ clearing = "no"
        /\ UNCHANGED <<world, clock, store, current, load, loaded, hydrated,
                       clearing, invalidated, demanded, overlapped>>
    BY <1>3 DEF RefreshBegin
  <2> QED
    BY <1>0, <2>1
<1>4. CASE Scan
  <2>1. refresh = "collecting" /\ refresh' = "scanned"
        /\ UNCHANGED <<world, clock, store, current, load, loaded, hydrated,
                       previous, clearing, invalidated, demanded, overlapped>>
    BY <1>4 DEF Scan
  <2>2. next'.data = world /\ next'.from = "scan"
    BY <1>0, <1>4, ScanMakes
  <2> QED
    BY <1>0, <1>n, <2>1, <2>2
<1>5. CASE Spare
  <2>1. refresh = "collecting" /\ refresh' = "scanned" /\ previous.data = Null
        /\ UNCHANGED <<world, clock, store, current, load, loaded, hydrated,
                       previous, clearing, invalidated, demanded, overlapped>>
    BY <1>5 DEF Spare
  <2>2. next'.data \in {store.data, Blank} /\ next'.from = "spare"
    BY <1>0, <1>5, SpareMakes
  <2>3. Blank <= world /\ Blank \in Nat
    BY <1>0 DEF TypeOK, Blank
  <2> QED
    BY <1>0, <1>n, <2>1, <2>2, <2>3
<1>6. CASE Collected
  <2> DEFINE e == [next EXCEPT !.at = clock]
  <2>1. next' = e /\ refresh = "scanned" /\ refresh' \in {"saving", "failing"}
        /\ store' = IF refresh' = "saving" THEN e ELSE store
    BY <1>6 DEF Collected, Commit
  <2>2. UNCHANGED <<world, current, load, loaded, hydrated, previous, clearing,
                    invalidated, demanded, overlapped>>
    BY <1>6 DEF Collected, Commit
  <2>3. e.data = next.data /\ e.status = next.status /\ e.from = next.from
    BY <1>0 DEF TypeOK, Envelope
  <2>4. next.data # Null /\ next.data <= world
    BY <1>0, <2>1 DEF ScanFound
  <2> HIDE DEF e
  <2>5. Phases' /\ LoadIsCurrent'
    BY <1>0, <2>1, <2>2
  <2>6. MemoryAgrees' /\ Committed'
    BY <1>0, <2>1, <2>2, <2>3, <2>4
  <2>7. Forward'
    BY <1>0, <1>n, <2>1, <2>2, <2>3, <2>4
  <2>8. Demands'
    BY <1>0, <1>n, <2>1, <2>2, <2>3
  <2> QED
    BY <2>5, <2>6, <2>7, <2>8
<1>7. CASE Reused
  <2> DEFINE e == [previous EXCEPT !.at = current.at, !.began = next.began,
                                      !.status = "stale"]
  <2>0. refresh = "collecting" /\ previous.data # Null /\ Commit(e)
    BY <1>7 DEF Reused
  <2>0a. e.data = previous.data /\ e.status = "stale"
    <3>1. previous \in Envelope /\ current \in Envelope /\ next \in Envelope
      BY <1>0 DEF TypeOK
    <3> QED
      BY <3>1 DEF Envelope
  <2> HIDE DEF e
  <2>1. next' = e /\ refresh' \in {"saving", "failing"}
        /\ store' = IF refresh' = "saving" THEN e ELSE store
    BY <2>0 DEF Commit
  <2>2. UNCHANGED <<world, current, load, loaded, hydrated, previous, clearing,
                    invalidated, demanded, overlapped>>
    BY <2>0 DEF Commit
  <2>3. e.data = store.data /\ store.data # Null /\ e.status = "stale"
    BY <1>0, <2>0, <2>0a
  <2>4. Phases' /\ LoadIsCurrent'
    BY <1>0, <2>0, <2>1, <2>2
  <2>5. MemoryAgrees' /\ Committed'
    BY <1>0, <2>0, <2>1, <2>2, <2>3
  <2>6. Forward' /\ Demands'
    BY <1>0, <1>n, <2>0, <2>1, <2>2, <2>3
  <2> QED
    BY <2>4, <2>5, <2>6
<1>8. CASE Failed
  <2>1. refresh' = "idle"
        /\ UNCHANGED <<world, store, current, load, loaded, hydrated, clearing,
                       invalidated, demanded, overlapped>>
    BY <1>8, Ends DEF Failed
  <2>2. refresh \in {"failing", "collecting", "scanned"}
    BY <1>8 DEF Failed
  <2> QED
    BY <1>0, <2>1, <2>2
<1>9. CASE Saved
  <2>1. CASE Reloads
    <3>1. next' = store /\ refresh' = "reloading" /\ refresh = "saving"
      BY <1>0, <1>9, <2>1 DEF Saved
    <3>2. UNCHANGED <<world, store, current, load, loaded, hydrated, clearing,
                      invalidated, demanded, overlapped>>
      BY <1>9, <2>1 DEF Saved
    <3> QED
      BY <1>0, <3>1, <3>2
  <2>2. CASE ~Reloads
    BY <1>9, <2>2, ShownRelates DEF Saved
  <2> QED
    BY <2>1, <2>2
<1>19. CASE Reloaded
  BY <1>19, ShownRelates DEF Reloaded
<1>10. CASE Invalidate
  <2>1. current'.data = current.data /\ current'.at = current.at
        /\ current'.status = "stale"
    BY <1>10, <1>0, Marked DEF Invalidate, TypeOK
  <2>2. invalidated' /\ demanded' = world /\ hydrated /\ overlapped' = (refresh # "idle")
        /\ UNCHANGED <<world, store, load, loaded, hydrated, refresh, previous, next,
                       clearing>>
    BY <1>10 DEF Invalidate
  <2>3. Phases' /\ LoadIsCurrent' /\ MemoryAgrees' /\ Committed' /\ Forward'
    BY <1>0, <2>1, <2>2
  <2>4. demanded' <= world' /\ (~hydrated' => demanded' = 0)
    BY <1>n, <2>2
  <2>5. ~overlapped' => refresh' = "idle"
    BY <2>2
  <2>6. Demands'
    BY <2>2, <2>4, <2>5
  <2> QED
    BY <2>3, <2>6
<1>11. CASE Clear
  <2>1. CASE refresh = "idle"
    BY <1>11, <2>1, EraseRelates DEF Clear
  <2>2. CASE refresh # "idle"
    BY <1>11, <1>0, <1>n, <2>2 DEF Clear
  <2> QED
    BY <2>1, <2>2
<1>12. CASE ClearGoesOn
  BY <1>12, <1>0, EraseRelates DEF ClearGoesOn, TypeOK
<1>13. CASE ClearDone
  BY <1>13, <1>0, <1>n DEF ClearDone, TypeOK
<1>14. CASE Abort
  BY <1>14, <1>0, <1>n DEF Abort, TypeOK
<1>15. CASE Mutate
  BY <1>15, <1>0, <1>n DEF Mutate, volatile, TypeOK
<1>16. CASE Tick
  BY <1>16, <1>0, <1>n DEF Tick, volatile, TypeOK
<1>17. CASE Restart
  BY <1>17, <1>0, <1>n DEF Restart, Empty, TypeOK
<1>18. CASE UNCHANGED vars
  BY <1>18, <1>0 DEF vars, volatile
<1> QED
  BY <1>1, <1>2, <1>3, <1>4, <1>5, <1>6, <1>7, <1>8, <1>9, <1>10, <1>11,
     <1>12, <1>13, <1>14, <1>15, <1>16, <1>17, <1>18, <1>19 DEF Next

-----------------------------------------------------------------------------
(* The theorems.                                                           *)

LEMMA InitKeeps == Init => SnapInv
<1> SUFFICES ASSUME Init PROVE SnapInv
  OBVIOUS
<1>1. TypeOK
  <2>1. /\ Blank + 1 \in Blank + 1..MaxVersion /\ 0 \in 0..MaxVersion /\ 0 \in 0..MaxClock
        /\ 0 \in 0..MaxFaults /\ 0 \in 0..MaxRestarts
    BY DEF Blank
  <2>2. /\ world \in Blank + 1..MaxVersion /\ clock \in 0..MaxClock
        /\ demanded \in 0..MaxVersion
        /\ faults \in 0..MaxFaults /\ restarts \in 0..MaxRestarts
    BY <2>1 DEF Init
  <2>3. /\ store \in Envelope /\ current \in Envelope /\ loaded \in Envelope
        /\ previous \in Envelope /\ next \in Envelope
    BY EmptyEnvelope DEF Init, InitVolatile
  <2> QED
    BY <2>2, <2>3 DEF Init, InitVolatile, TypeOK
<1>2. ScanFound /\ AllTruthful
  BY EmptyEnvelope DEF Init, InitVolatile, ScanFound, AllTruthful
<1>3. Related
  BY DEF Init, InitVolatile, Related, Phases, LoadIsCurrent, MemoryAgrees,
         Committed, Forward, Demands, Meets, Empty, Null, Blank
<1> QED
  BY <1>1, <1>2, <1>3 DEF SnapInv, BasicInv, Related

LEMMA BasicHolds == Spec => []BasicInv
<1>1. Init => BasicInv
  BY InitKeeps DEF SnapInv
<1> QED
  BY <1>1, BasicStep, PTL DEF Spec

LEMMA SnapHolds == ASSUME ~ClearDuringLoad PROVE Spec => []SnapInv
<1>1. SnapInv /\ [Next]_vars => SnapInv'
  BY BasicStep, RelatedStep DEF SnapInv, Related
<1> QED
  BY <1>1, InitKeeps, PTL DEF Spec

(* Every variable keeps its type, clear() overlapping whatever it may.     *)
THEOREM TypeCorrect == Spec => []TypeOK
<1>1. BasicInv => TypeOK
  BY DEF BasicInv
<1> QED
  BY <1>1, BasicHolds, PTL

(* What is shown as fresh was read while the refresh that stamped it went  *)
(* on, unless that refresh had neither a scan nor anything to hand back:   *)
(* whatever else carries a generatedAt that is not that of its collection  *)
(* is marked stale, in memory, in the store and after a restart.           *)
THEOREM FreshIsWhatWasCollected == Spec => []FreshWasCollected
<1>1. BasicInv => FreshWasCollected
  BY DEF BasicInv, AllTruthful, Truthful, FreshWasCollected, Status, ByAge
<1> QED
  BY <1>1, BasicHolds, PTL

(* With nothing in flight memory shows the persisted envelope or nothing:  *)
(* failed saves, failed reloads, aborts and clear() leave no other.        *)
THEOREM MemoryIsTheStores ==
    ASSUME ~ClearDuringLoad PROVE Spec => []MemoryFollowsStore
<1>1. SnapInv => MemoryFollowsStore
  BY DEF SnapInv, MemoryAgrees, MemoryFollowsStore
<1> QED
  BY <1>1, SnapHolds, PTL

(* An invalidate() with no refresh in flight outlives everything but a     *)
(* commit of what was collected after it, or of the spare of a refresh     *)
(* with nothing to hand back.                                              *)
THEOREM InvalidationIsKept ==
    ASSUME ~ClearDuringLoad PROVE Spec => []InvalidationHolds
<1>1. SnapInv => InvalidationHolds
  BY DEF SnapInv, Demands, Meets, InvalidationHolds, Status, ByAge
<1> QED
  BY <1>1, SnapHolds, PTL

-----------------------------------------------------------------------------
(* The refinement.                                                         *)

(* A committed envelope is a generation that is not older, or an empty     *)
(* snapshot nobody sees the place of.                                      *)
LEMMA CommitCommits ==
    ASSUME TypeOK, NEW e \in Envelope, Commit(e), e.data # Null,
           e.data >= store.data \/ (e.data = Blank /\ current.data = Null)
    PROVE  [Latest!Next]_<<current.data, store.data>>
<1>1. e.data \in 1..MaxVersion
  BY DEF Envelope, Null
<1>2. CASE store' = e
  BY <1>1, <1>2 DEF Commit, Latest!Next, Latest!Commit, Latest!Blanked, Blank, Null
<1>3. CASE UNCHANGED store
  BY <1>3 DEF Commit
<1> QED
  BY <1>2, <1>3 DEF Commit, Call

(* What is put into memory is what is stored, or nothing.                  *)
LEMMA ShowingShows ==
    ASSUME UNCHANGED store, current' \in {current, store} \/ current'.data = Null
    PROVE  [Latest!Next]_<<current.data, store.data>>
BY DEF Latest!Next, Latest!Show, Latest!Hide, Null

LEMMA ErasingErases ==
    ASSUME Erase PROVE [Latest!Next]_<<current.data, store.data>>
BY DEF Erase, Call, Empty, Latest!Next, Latest!Erase, Latest!Hide, Null

LEMMA StepsShow ==
    SnapInv /\ [Next]_vars => [Latest!Next]_<<current.data, store.data>>
<1> SUFFICES ASSUME SnapInv, [Next]_vars
             PROVE  [Latest!Next]_<<current.data, store.data>>
  OBVIOUS
<1>0. TypeOK /\ ScanFound /\ LoadIsCurrent /\ Committed /\ Forward
  BY DEF SnapInv, BasicInv
<1>1. ASSUME Hydrate \/ RefreshBegin \/ Scan \/ Spare \/ Failed \/ ClearDone
             \/ Abort \/ Mutate \/ Tick \/ UNCHANGED vars
      PROVE  UNCHANGED <<current, store>>
  BY <1>1 DEF Hydrate, RefreshBegin, Scan, Spare, Failed, ClearDone, Abort, Mutate,
              Tick, vars, volatile
<1>2. CASE HydrateDone
  BY <1>0, <1>2, ShowingShows DEF HydrateDone, LoadIsCurrent, Empty
<1>3. CASE Collected
  <2> DEFINE e == [next EXCEPT !.at = clock]
  <2>1. refresh = "scanned" /\ Commit(e)
    BY <1>3 DEF Collected
  <2>2. e \in Envelope /\ e.data = next.data
    BY <1>0, <2>1, Stamped DEF TypeOK, ScanFound
  <2>3. e.data # Null
    BY <1>0, <2>1, <2>2 DEF ScanFound
  <2>4. e.data >= store.data \/ (e.data = Blank /\ current.data = Null)
    BY <1>0, <2>1, <2>2, Numbers DEF Forward
  <2> HIDE DEF e
  <2> QED
    BY <1>0, <2>1, <2>2, <2>3, <2>4, CommitCommits
<1>4. CASE Reused
  <2> DEFINE e == [previous EXCEPT !.at = current.at, !.began = next.began,
                                   !.status = "stale"]
  <2>1. refresh = "collecting" /\ previous.data # Null /\ Commit(e)
    BY <1>4 DEF Reused
  <2>2. e \in Envelope /\ e.data = previous.data
    <3>1. previous \in Envelope /\ current \in Envelope /\ next \in Envelope
      BY <1>0 DEF TypeOK
    <3>2. e \in Envelope
      BY <2>1, <3>1, HandedBack
    <3>3. e.data = previous.data
      BY <3>1 DEF Envelope
    <3> QED
      BY <3>2, <3>3
  <2>3. e.data # Null /\ e.data >= store.data
    BY <1>0, <2>1, <2>2, Numbers DEF Forward
  <2> HIDE DEF e
  <2> QED
    BY <1>0, <2>1, <2>2, <2>3, CommitCommits
<1>5. CASE Saved
  BY <1>0, <1>5, ShowingShows DEF Saved, Shown, Committed
<1>6. CASE Reloaded
  BY <1>0, <1>6, ShowingShows DEF Reloaded, Shown, Committed
<1>7. CASE Invalidate
  BY <1>0, <1>7, Marked DEF Invalidate, TypeOK
<1>8. CASE Clear
  BY <1>8, ErasingErases DEF Clear
<1>9. CASE ClearGoesOn
  BY <1>9, ErasingErases DEF ClearGoesOn
<1>10. CASE Restart
  BY <1>10, ShowingShows DEF Restart, Empty
<1> QED
  BY <1>1, <1>2, <1>3, <1>4, <1>5, <1>6, <1>7, <1>8, <1>9, <1>10 DEF Next

(* The coordinator implements its promise: every step commits a newer      *)
(* generation, shows the durable one, hides it, erases it, or shows        *)
(* nothing new.                                                            *)
THEOREM Refinement == ASSUME ~ClearDuringLoad PROVE Spec => ShowsLatest
<1>1. Init => Latest!Init
  BY DEF Init, InitVolatile, Empty, Null, Latest!Init
<1> QED
  BY <1>1, StepsShow, SnapHolds, PTL DEF Spec, ShowsLatest, Latest!Spec

=============================================================================
