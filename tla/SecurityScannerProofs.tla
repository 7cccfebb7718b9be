------------------------ MODULE SecurityScannerProofs ------------------------
(***************************************************************************)
(* Proofs about SecurityScanner, for every set of scans and every bound on *)
(* targets, workers, clears and faults.                                    *)
(***************************************************************************)
EXTENDS SecurityScanner, TLAPS

-----------------------------------------------------------------------------
(* The inductive invariant, in named parts.                                *)

NotBegun == {"unused", "manual", "automatic", "listing", "resolving"}
Running == {"reading", "scanning", "locking", "merging", "writing", "finishing",
            "failing"}

Point == Starting \cup Running \cup {"unused", "done", "refused"}

SessionTypes ==
    /\ epoch \in Nat /\ scanId \in Scan \cup {NoScan}
    /\ status \in {"idle", "running", "cancelling", "complete", "partial",
                   "failed", "cancelled"}
    /\ scanId = NoScan <=> status = "idle"
    /\ cancelRequested \in BOOLEAN /\ activeRun \in Scan \cup {NoScan}
CallTypes ==
    /\ pc \in [Scan -> Point]
    /\ mine \in [Scan -> Nat]
    /\ left \in [Scan -> 0..Targets] /\ busy \in [Scan -> 0..Workers]
    /\ seen \in [Scan -> SUBSET Outcome]
Judgement == {"none", "running", "complete", "partial", "failed", "cancelled"}
RecordTypes ==
    /\ verdict \in [Scan -> Judgement] /\ row \in [Scan -> Judgement]
    /\ history \subseteq Scan
    /\ saves \in Seq(Scan) /\ turns \in Seq(Scan \cup {Clearing})
ClearTypes ==
    /\ clearPc \in {"no", "draining", "erasing"}
    /\ clearWait \in Scan \cup {NoScan} /\ clearEpoch \in Nat
    /\ doomed \subseteq Scan
    /\ clears \in 0..MaxClears /\ faults \in 0..MaxFaults

(* The run in force has begun, and activeRun is one whose record is open.  *)
RunsBegun ==
    /\ scanId # NoScan => pc[scanId] \notin NotBegun
    /\ activeRun # NoScan => pc[activeRun] \in Running

Types == SessionTypes /\ CallTypes /\ RecordTypes /\ ClearTypes /\ RunsBegun

(* Epochs are handed out in order; with an epoch of clear() nobody scans.  *)
Epochs ==
    /\ \A s \in Scan : mine[s] <= epoch
    /\ clearPc = "erasing" => clearEpoch <= epoch
    /\ clearPc = "erasing" /\ epoch = clearEpoch => scanId = NoScan

(* A run is judged when it has begun, and for good when it has scanned.    *)
Judged ==
    \A s \in Scan :
        /\ verdict[s] # "none" => pc[s] \notin NotBegun
        /\ verdict[s] \in {"complete", "partial"} => pc[s] \in {"finishing", "failing", "done"}

(* Whose record is to be written awaits it, and once.                      *)
Queued(q, where) ==
    /\ \A i \in 1..Len(q) : where[q[i]] \in {"saving", "finishing", "failing"}
    /\ \A i, j \in 1..Len(q) : q[i] = q[j] => i = j
SavesOnce == Queued(saves, pc)

(* The line for the history is of begun runs, and who reads or writes it   *)
(* is first.                                                               *)
InLine ==
    /\ \A i \in 1..Len(turns) : turns[i] # Clearing => pc[turns[i]] \notin NotBegun
    /\ \A s \in Scan : pc[s] \in {"merging", "writing"} => HasTurn(s)

(* Nobody in force is before an erasure in the line, nor has written.      *)
Fence ==
    clearPc = "erasing" =>
        \E k \in 1..Len(turns) :
            /\ turns[k] = Clearing
            /\ \A i \in 1..(k-1) : turns[i] # Clearing => ~Active(turns[i])
Unjudged ==
    clearPc = "erasing" =>
        \A s \in Scan : verdict[s] \in {"complete", "partial"} => ~Active(s)

(* A run that is doomed is not in force and will not write.                *)
DoomedRest ==
    \A s \in doomed : /\ mine[s] < epoch /\ verdict[s] # "none"
                      /\ pc[s] \notin {"merging", "writing"}

(* The pool of a run in force leaves no target out without a request to    *)
(* cancel, and ends with an entry.                                         *)
Pooled ==
    \A s \in Scan :
        /\ pc[s] \in {"locking", "merging", "writing"} => busy[s] = 0
        /\ Active(s) /\ pc[s] \in {"locking", "merging", "writing"} =>
              left[s] = 0 \/ cancelRequested
        /\ Active(s) /\ pc[s] \in {"saving", "reading", "scanning"} /\ seen[s] = {} =>
              left[s] > 0 \/ busy[s] > 0

(* What the record of a run in force is going to say is true.              *)
Backed ==
    \A s \in Scan :
        verdict[s] \in {"complete", "partial"} /\ Active(s) =>
            s \in history /\ left[s] = 0 /\ busy[s] = 0

ScanInv ==
    /\ Types /\ Epochs /\ Judged /\ SavesOnce /\ InLine /\ Fence /\ Unjudged
    /\ DoomedRest /\ ClearedStaysGone
    /\ CancelSticks /\ Pooled /\ Backed

USE ScannerAssumption

LEMMA NotScans == \A s \in Scan : s # NoScan /\ s # Clearing
OBVIOUS

-----------------------------------------------------------------------------
(* Queues.                                                                 *)

LEMMA Appending ==
    ASSUME NEW S, NEW q \in Seq(S), NEW x \in S
    PROVE  /\ Append(q, x) \in Seq(S) /\ Append(q, x) # <<>>
           /\ Len(Append(q, x)) = Len(q) + 1 /\ Len(q) \in Nat
           /\ \A i \in 1..Len(q) : Append(q, x)[i] = q[i]
           /\ Append(q, x)[Len(q) + 1] = x
           /\ q # <<>> => Head(Append(q, x)) = Head(q)
<1>1. /\ Append(q, x) \in Seq(S) /\ Append(q, x) # <<>>
      /\ Len(Append(q, x)) = Len(q) + 1 /\ Len(q) \in Nat
      /\ \A i \in 1..Len(q) : Append(q, x)[i] = q[i]
      /\ Append(q, x)[Len(q) + 1] = x
  OBVIOUS
<1>2. ASSUME q # <<>> PROVE Head(Append(q, x)) = Head(q)
  <2>1. 1 \in 1..Len(q)
    BY <1>2
  <2>2. Head(q) = q[1] /\ Head(Append(q, x)) = Append(q, x)[1]
    BY <1>1, <1>2
  <2> QED
    BY <1>1, <2>1, <2>2
<1> QED
  BY <1>1, <1>2

LEMMA Tailing ==
    ASSUME NEW S, NEW q \in Seq(S), q # <<>>
    PROVE  /\ Tail(q) \in Seq(S)
           /\ Len(Tail(q)) = Len(q) - 1 /\ Len(q) \in Nat \ {0}
           /\ \A i \in 1..(Len(q) - 1) : Tail(q)[i] = q[i + 1]
           /\ Head(q) = q[1] /\ q[1] \in S
OBVIOUS

LEMMA QueuedGrows ==
    ASSUME NEW q \in Seq(Scan), NEW p, NEW w, NEW s \in Scan, Queued(q, p),
           \A i \in 1..Len(q) : q[i] # s,
           \A r \in Scan : r # s => w[r] = p[r],
           w[s] \in {"saving", "finishing", "failing"}
    PROVE  Queued(Append(q, s), w)
<1> DEFINE a == Append(q, s)
<1>1. /\ Len(a) = Len(q) + 1 /\ Len(q) \in Nat
      /\ \A i \in 1..Len(q) : a[i] = q[i] /\ q[i] \in Scan
      /\ a[Len(q) + 1] = s
  BY Appending
<1> HIDE DEF a
<1>2. \A i \in 1..Len(a) : i = Len(q) + 1 \/ i \in 1..Len(q)
  BY <1>1
<1> QED
  BY <1>1, <1>2 DEF Queued, a

LEMMA QueuedShrinks ==
    ASSUME NEW q \in Seq(Scan), q # <<>>, NEW p, NEW w, Queued(q, p),
           \A r \in Scan : r # Head(q) => w[r] = p[r]
    PROVE  Queued(Tail(q), w) /\ \A i \in 1..Len(Tail(q)) : Tail(q)[i] # Head(q)
<1> DEFINE t == Tail(q)
<1>1. /\ Len(t) = Len(q) - 1 /\ Len(q) \in Nat \ {0} /\ Head(q) = q[1]
      /\ \A i \in 1..(Len(q) - 1) : t[i] = q[i + 1] /\ q[i + 1] \in Scan
  BY Tailing
<1> HIDE DEF t
<1>2. \A i \in 1..Len(t) : i + 1 \in 1..Len(q) /\ i + 1 # 1 /\ 1 \in 1..Len(q)
  BY <1>1
<1>3. \A i \in 1..Len(t) : t[i] # Head(q)
  BY <1>1, <1>2 DEF Queued
<1>4. \A i \in 1..Len(t) : w[t[i]] \in {"saving", "finishing", "failing"}
  BY <1>1, <1>2, <1>3 DEF Queued
<1>5. \A i, j \in 1..Len(t) : t[i] = t[j] => i = j
  <2> SUFFICES ASSUME NEW i \in 1..Len(t), NEW j \in 1..Len(t), t[i] = t[j]
               PROVE  i = j
    OBVIOUS
  <2>1. q[i + 1] = q[j + 1]
    BY <1>1
  <2>2. i + 1 = j + 1
    BY <1>2, <2>1 DEF Queued
  <2> QED
    BY <2>2
<1> QED
  BY <1>3, <1>4, <1>5 DEF Queued, t

(* Whose record is written awaits it, and it alone is taken from the queue.*)
LEMMA WriterWaits ==
    ASSUME Types, SavesOnce, NEW s \in Scan, Writing(s)
    PROVE  pc[s] \in {"saving", "finishing", "failing"}
<1>1. 1 \in 1..Len(saves) /\ Head(saves) = saves[1]
  BY Tailing DEF Types, RecordTypes, Writing
<1> QED
  BY <1>1 DEF SavesOnce, Queued, Writing

(* The line, when a run that is first leaves it, and when it gets longer.  *)
LEMMA LineShrinks ==
    ASSUME Types, InLine, Fence, NEW s \in Scan, HasTurn(s), turns' = Tail(turns),
           \A r \in Scan : r # s => pc'[r] = pc[r],
           pc'[s] \notin NotBegun \cup {"merging", "writing"},
           \A r \in Scan : Active(r)' => Active(r), UNCHANGED clearPc
    PROVE  InLine' /\ Fence'
<1>1. /\ turns # <<>> /\ Head(turns) = turns[1] /\ turns[1] = s
      /\ Len(turns') = Len(turns) - 1 /\ Len(turns) \in Nat \ {0}
      /\ \A i \in 1..(Len(turns) - 1) : turns'[i] = turns[i + 1]
      /\ \A i \in 1..Len(turns) : turns[i] \in Scan \cup {Clearing}
  BY Tailing DEF Types, RecordTypes, HasTurn
<1>2. \A i \in 1..Len(turns') :
         turns'[i] # Clearing => turns'[i] \in Scan /\ pc'[turns'[i]] \notin NotBegun
  BY <1>1 DEF InLine
<1>3. ASSUME NEW r \in Scan PROVE pc'[r] \notin {"merging", "writing"}
  <2>1. CASE r = s
    BY <2>1
  <2>2. CASE r # s
    BY <1>1, <2>2 DEF InLine, HasTurn
  <2> QED
    BY <2>1, <2>2
<1>4. Fence'
  <2> SUFFICES ASSUME clearPc = "erasing"
               PROVE  \E k \in 1..Len(turns') :
                         /\ turns'[k] = Clearing
                         /\ \A i \in 1..(k-1) : turns'[i] # Clearing => ~Active(turns[i])'
    BY DEF Fence
  <2>1. PICK k \in 1..Len(turns) :
               /\ turns[k] = Clearing
               /\ \A i \in 1..(k-1) : turns[i] # Clearing => ~Active(turns[i])
    BY DEF Fence
  <2>2. k # 1
    BY <1>1, <2>1
  <2>3. k - 1 \in 1..Len(turns') /\ turns'[k - 1] = Clearing
    BY <1>1, <2>1, <2>2
  <2>4. ASSUME NEW i \in 1..((k - 1) - 1), turns'[i] # Clearing
        PROVE  ~Active(turns[i])'
    <3>1. /\ i \in 1..(Len(turns) - 1) /\ i + 1 \in 1..Len(turns)
          /\ i + 1 \in 1..(k - 1)
      BY <1>1
    <3>2. turns'[i] = turns[i + 1] /\ turns[i + 1] \in Scan
      BY <1>1, <2>4, <3>1
    <3>3. ~Active(turns[i + 1])
      BY <2>1, <2>4, <3>1, <3>2
    <3> QED
      BY <3>2, <3>3 DEF Active
  <2> QED
    BY <2>3, <2>4
<1> QED
  BY <1>2, <1>3, <1>4 DEF InLine

LEMMA LineStays ==
    ASSUME Types, InLine, Fence,
           turns' = turns \/ \E x \in Scan \cup {Clearing} :
                                turns' = Append(turns, x) /\ (x # Clearing => pc'[x] \notin NotBegun),
           \A r \in Scan : /\ pc[r] \notin NotBegun => pc'[r] \notin NotBegun
                           /\ pc'[r] \in {"merging", "writing"} => HasTurn(r)
                           /\ pc[r] \notin NotBegun /\ Active(r)' => Active(r),
           clearPc' = "erasing" => clearPc = "erasing"
    PROVE  InLine' /\ Fence'
<1>1. /\ Len(turns) \in Nat /\ Len(turns') \in Nat /\ Len(turns) <= Len(turns')
      /\ \A i \in 1..Len(turns) : turns'[i] = turns[i] /\ turns[i] \in Scan \cup {Clearing}
      /\ turns # <<>> => turns' # <<>> /\ Head(turns') = Head(turns)
  <2>1. turns \in Seq(Scan \cup {Clearing})
    BY DEF Types, RecordTypes
  <2>2. CASE turns' = turns
    BY <2>1, <2>2
  <2>3. ASSUME NEW x \in Scan \cup {Clearing}, turns' = Append(turns, x)
        PROVE  /\ Len(turns) \in Nat /\ Len(turns') \in Nat /\ Len(turns) <= Len(turns')
               /\ \A i \in 1..Len(turns) :
                     turns'[i] = turns[i] /\ turns[i] \in Scan \cup {Clearing}
               /\ turns # <<>> => turns' # <<>> /\ Head(turns') = Head(turns)
    <3>1. Len(turns') = Len(turns) + 1 /\ Len(turns) \in Nat
          /\ \A i \in 1..Len(turns) : turns'[i] = turns[i]
          /\ turns' # <<>> /\ (turns # <<>> => Head(turns') = Head(turns))
      BY <2>1, <2>3, Appending
    <3>2. \A i \in 1..Len(turns) : turns[i] \in Scan \cup {Clearing}
      BY <2>1
    <3> QED
      BY <3>1, <3>2
  <2> QED
    BY <2>2, <2>3
<1>2. \A i \in 1..Len(turns') :
         turns'[i] # Clearing => pc'[turns'[i]] \notin NotBegun
  <2>1. CASE turns' = turns
    BY <1>1, <2>1 DEF InLine
  <2>2. ASSUME NEW x \in Scan \cup {Clearing}, turns' = Append(turns, x),
               x # Clearing => pc'[x] \notin NotBegun
        PROVE  \A i \in 1..Len(turns') :
                  turns'[i] # Clearing => pc'[turns'[i]] \notin NotBegun
    <3>1. Len(turns') = Len(turns) + 1 /\ turns'[Len(turns) + 1] = x
      BY <2>2, Appending DEF Types, RecordTypes
    <3>2. \A i \in 1..Len(turns') : i \in 1..Len(turns) \/ i = Len(turns) + 1
      BY <1>1, <3>1
    <3> QED
      BY <1>1, <2>2, <3>1, <3>2 DEF InLine
  <2> QED
    BY <2>1, <2>2
<1>3. ASSUME NEW r \in Scan, pc'[r] \in {"merging", "writing"} PROVE HasTurn(r)'
  BY <1>1, <1>3 DEF HasTurn
<1>4. Fence'
  <2> SUFFICES ASSUME clearPc' = "erasing"
               PROVE  \E k \in 1..Len(turns') :
                         /\ turns'[k] = Clearing
                         /\ \A i \in 1..(k-1) : turns'[i] # Clearing => ~Active(turns[i])'
    BY DEF Fence
  <2>1. PICK k \in 1..Len(turns) :
               /\ turns[k] = Clearing
               /\ \A i \in 1..(k-1) : turns[i] # Clearing => ~Active(turns[i])
    BY DEF Fence
  <2>2. k \in 1..Len(turns') /\ turns'[k] = Clearing
    BY <1>1, <2>1
  <2>3. ASSUME NEW i \in 1..(k - 1), turns'[i] # Clearing PROVE ~Active(turns[i])'
    <3>1. i \in 1..Len(turns) /\ turns'[i] = turns[i] /\ turns[i] \in Scan
      BY <1>1, <2>3
    <3>2. pc[turns[i]] \notin NotBegun /\ ~Active(turns[i])
      BY <2>1, <2>3, <3>1 DEF InLine
    <3> QED
      BY <3>1, <3>2 DEF Active
  <2> QED
    BY <2>2, <2>3
<1> QED
  BY <1>2, <1>3, <1>4 DEF InLine

-----------------------------------------------------------------------------
(* What the segments of a scan do, by where it is.                         *)

Elsewhere(s) == \A r \in Scan : r # s => pc'[r] = pc[r]

(* Only the scans in the queue of records have to stay where they are.     *)
LEMMA SavesStay ==
    ASSUME Types, SavesOnce, NEW s \in Scan, Elsewhere(s),
           pc[s] \notin {"saving", "finishing", "failing"}
    PROVE  /\ saves \in Seq(Scan) /\ Queued(saves, pc')
           /\ \A i \in 1..Len(saves) : saves[i] # s
<1>1. \A i \in 1..Len(saves) : saves[i] \in Scan
  BY DEF Types, RecordTypes
<1> QED
  BY <1>1 DEF Types, RecordTypes, SavesOnce, Queued, Elsewhere

LEMMA Points ==
    /\ NotBegun \subseteq Point /\ Running \subseteq Point
    /\ {"saving", "done", "refused"} \subseteq Point
BY DEF Point, NotBegun, Running, Starting

LEMMA Goes ==
    ASSUME CallTypes, NEW s \in Scan, NEW w \in Point, Goto(s, w)
    PROVE  pc' \in [Scan -> Point] /\ pc'[s] = w /\ Elsewhere(s)
BY DEF CallTypes, Goto, Elsewhere

(* Before it has begun, a scan is nobody's business.                       *)
LEMMA EarlyKeeps ==
    ASSUME ScanInv, NEW s \in Scan,
           pc[s] \in NotBegun, pc'[s] \in NotBegun \cup {"refused"}, Elsewhere(s),
           pc' \in [Scan -> Point], mine' \in [Scan -> Nat], mine'[s] <= epoch,
           \A r \in Scan : r # s => mine'[r] = mine[r],
           faults' \in 0..MaxFaults,
           UNCHANGED <<session, locals, busy, verdict, saves, turns, clearVars, stored>>
    PROVE  ScanInv'
<1> USE DEF Elsewhere
<1>0. /\ Types /\ Epochs /\ Judged /\ SavesOnce /\ InLine /\ Fence /\ Unjudged
      /\ DoomedRest /\ ClearedStaysGone /\ CancelSticks /\ Pooled /\ Backed
  BY DEF ScanInv
<1>1. /\ UNCHANGED <<epoch, scanId, status, cancelRequested, activeRun>>
      /\ UNCHANGED <<left, seen, busy, verdict, saves, turns>>
      /\ UNCHANGED <<clearPc, clearWait, clearEpoch, doomed, clears, row, history>>
  BY DEF session, locals, clearVars, stored
<1>2. scanId # s
  BY <1>0 DEF Types, RunsBegun, SessionTypes
<1>3. \A r \in Scan : Active(r)' <=> Active(r)
  BY <1>1, <1>2 DEF Active
<1>4. Types'
  <2>1. RunsBegun'
    BY <1>0, <1>1, <1>2 DEF Types, RunsBegun, SessionTypes, NotBegun, Running
  <2> QED
    BY <1>0, <1>1, <2>1
       DEF Types, SessionTypes, CallTypes, RecordTypes, ClearTypes
<1>5. Epochs'
  BY <1>0, <1>1 DEF Epochs
<1>6. Judged' /\ DoomedRest' /\ ClearedStaysGone' /\ CancelSticks'
  BY <1>0, <1>1 DEF Judged, DoomedRest, ClearedStaysGone, CancelSticks, NotBegun,
                    Types, ClearTypes
<1>7. SavesOnce'
  <2>1. Queued(saves, pc')
    BY <1>0, SavesStay DEF NotBegun
  <2> QED
    BY <1>1, <2>1 DEF SavesOnce
<1>8. InLine' /\ Fence'
  BY <1>0, <1>1, <1>3, LineStays DEF InLine, NotBegun
<1>9. Unjudged' /\ Pooled' /\ Backed'
  BY <1>0, <1>1, <1>3 DEF Unjudged, Pooled, Backed, NotBegun
<1> QED
  BY <1>4, <1>5, <1>6, <1>7, <1>8, <1>9 DEF ScanInv

(* A run ends.                                                             *)
LEMMA EndKeeps ==
    ASSUME ScanInv, NEW s \in Scan, pc[s] \in Running, End(s),
           SavesOnce', InLine', Fence', saves' \in Seq(Scan),
           turns' \in Seq(Scan \cup {Clearing}), row' \in [Scan -> Judgement],
           faults' \in 0..MaxFaults,
           history' = history \/ (history' = history \cup {s} /\ pc[s] = "writing"),
           UNCHANGED <<epoch, scanId, status, cancelRequested, mine, busy, verdict, clearVars>>
    PROVE  ScanInv'
<1>0. /\ Types /\ Epochs /\ Judged /\ SavesOnce /\ InLine /\ Fence /\ Unjudged
      /\ DoomedRest /\ ClearedStaysGone /\ CancelSticks /\ Pooled /\ Backed
  BY DEF ScanInv
<1>1. UNCHANGED <<clearPc, clearWait, clearEpoch, doomed, clears>>
  BY DEF clearVars
<1>2. /\ pc'[s] = "done" /\ Elsewhere(s) /\ pc' \in [Scan -> Point]
      /\ left' \in [Scan -> 0..Targets] /\ seen' \in [Scan -> SUBSET Outcome]
      /\ \A r \in Scan : r # s => left'[r] = left[r] /\ seen'[r] = seen[r]
      /\ left'[s] = 0
      /\ activeRun' = IF activeRun = s THEN NoScan ELSE activeRun
  <2>1. "done" \in Point /\ 0 \in 0..Targets
    BY Points
  <2> QED
    BY <1>0, <2>1, Goes DEF End, Types, CallTypes
<1> USE DEF Elsewhere
<1>3. \A r \in Scan : Active(r)' <=> Active(r)
  BY DEF Active
<1>4. Types'
  <2>1. RunsBegun'
    BY <1>0, <1>2 DEF Types, RunsBegun, SessionTypes, NotBegun
  <2>2. SessionTypes' /\ CallTypes'
    BY <1>0, <1>2 DEF Types, SessionTypes, CallTypes
  <2>3. RecordTypes' /\ ClearTypes'
    BY <1>0, <1>1 DEF Types, RecordTypes, ClearTypes
  <2> QED
    BY <2>1, <2>2, <2>3 DEF Types
<1>5. Epochs' /\ Judged' /\ CancelSticks'
  BY <1>0, <1>1, <1>2 DEF Epochs, Judged, CancelSticks, NotBegun
<1>6. DoomedRest' /\ ClearedStaysGone'
  BY <1>0, <1>1, <1>2 DEF DoomedRest, ClearedStaysGone, Types, ClearTypes
<1>7. Unjudged' /\ Pooled' /\ Backed'
  BY <1>0, <1>1, <1>2, <1>3 DEF Unjudged, Pooled, Backed
<1> QED
  BY <1>4, <1>5, <1>6, <1>7 DEF ScanInv

(* A run in force is judged.  When it is to be recorded as a success, its  *)
(* entries are in the history and no target is left.                       *)
LEMMA JudgeKeeps ==
    ASSUME ScanInv, NEW s \in Scan, pc[s] \in Running, Active(s),
           NEW v \in {"complete", "partial", "failed", "cancelled"},
           status' = v, cancelRequested' = FALSE, verdict' = [verdict EXCEPT ![s] = v],
           NEW w \in {"finishing", "failing"}, Goto(s, w),
           v \in {"complete", "partial"} =>
               /\ clearPc # "erasing" /\ w = "finishing"
               /\ s \in history' /\ left[s] = 0 /\ busy[s] = 0,
           SavesOnce', InLine', Fence', saves' \in Seq(Scan),
           turns' \in Seq(Scan \cup {Clearing}), row' \in [Scan -> Judgement],
           faults' \in 0..MaxFaults,
           history' = history \/ (history' = history \cup {s} /\ pc[s] = "writing"),
           UNCHANGED <<epoch, scanId, activeRun, mine, busy, locals, clearVars>>
    PROVE  ScanInv'
<1>0. /\ Types /\ Epochs /\ Judged /\ SavesOnce /\ InLine /\ Fence /\ Unjudged
      /\ DoomedRest /\ ClearedStaysGone /\ CancelSticks /\ Pooled /\ Backed
  BY DEF ScanInv
<1>1. UNCHANGED <<clearPc, clearWait, clearEpoch, doomed, clears, left, seen>>
  BY DEF clearVars, locals
<1>2. /\ pc'[s] = w /\ Elsewhere(s) /\ pc' \in [Scan -> Point]
      /\ verdict' \in [Scan -> Judgement] /\ verdict'[s] = v
      /\ \A r \in Scan : r # s => verdict'[r] = verdict[r]
  <2>1. w \in Point /\ v \in Judgement
    BY DEF Point, Running, Judgement
  <2> QED
    BY <1>0, <2>1, Goes DEF Types, CallTypes, RecordTypes
<1> USE DEF Elsewhere
<1>3. \A r \in Scan : Active(r)' <=> Active(r)
  BY DEF Active
<1>4. Types'
  <2>1. RunsBegun'
    BY <1>0, <1>2 DEF Types, RunsBegun, SessionTypes, NotBegun, Running
  <2>2. SessionTypes'
    <3>1. scanId = s /\ scanId # NoScan
      BY DEF Active
    <3> QED
      BY <1>0, <3>1 DEF Types, SessionTypes
  <2>3. CallTypes'
    BY <1>0, <1>1, <1>2 DEF Types, CallTypes
  <2>4. RecordTypes' /\ ClearTypes'
    BY <1>0, <1>1, <1>2 DEF Types, RecordTypes, ClearTypes
  <2> QED
    BY <2>1, <2>2, <2>3, <2>4 DEF Types
<1>5. Epochs' /\ Judged' /\ CancelSticks'
  BY <1>0, <1>1, <1>2 DEF Epochs, Judged, CancelSticks, NotBegun
<1>6. DoomedRest' /\ ClearedStaysGone'
  BY <1>0, <1>1, <1>2 DEF DoomedRest, ClearedStaysGone, Types, ClearTypes
<1>7. \A r \in Scan : r # s => ~Active(r)
  BY DEF Active
<1>8. Unjudged' /\ Backed'
  BY <1>0, <1>1, <1>2, <1>3, <1>7 DEF Unjudged, Backed
<1>9. Pooled'
  BY <1>0, <1>1, <1>2, <1>3, <1>7 DEF Pooled
<1> QED
  BY <1>4, <1>5, <1>6, <1>8, <1>9 DEF ScanInv

(* A run goes on to its next await, with its pool as it should be there.   *)
LEMMA MoveKeeps ==
    ASSUME ScanInv, NEW s \in Scan, pc[s] \in Running \cup {"saving"},
           NEW w \in Running \cup {"done", "refused"}, Goto(s, w),
           activeRun' \in {activeRun, NoScan} \/ (activeRun' = s /\ w \in Running),
           activeRun' = s => w \in Running,
           verdict[s] \in {"complete", "partial"} => w \in {"finishing", "failing", "done"},
           w \in {"merging", "writing"} => Active(s),
           w \in {"locking", "merging", "writing"} =>
               busy[s] = 0 /\ (Active(s) => left[s] = 0 \/ cancelRequested),
           w \in {"reading", "scanning"} /\ Active(s) /\ seen[s] = {} =>
               left[s] > 0 \/ busy[s] > 0,
           SavesOnce', InLine', Fence', saves' \in Seq(Scan),
           turns' \in Seq(Scan \cup {Clearing}), row' \in [Scan -> Judgement],
           faults' \in 0..MaxFaults,
           UNCHANGED <<epoch, scanId, status, cancelRequested, mine, busy, verdict,
                       locals, clearVars, history>>
    PROVE  ScanInv'
<1>0. /\ Types /\ Epochs /\ Judged /\ SavesOnce /\ InLine /\ Fence /\ Unjudged
      /\ DoomedRest /\ ClearedStaysGone /\ CancelSticks /\ Pooled /\ Backed
  BY DEF ScanInv
<1>1. UNCHANGED <<clearPc, clearWait, clearEpoch, doomed, clears, left, seen>>
  BY DEF clearVars, locals
<1>2. pc'[s] = w /\ Elsewhere(s) /\ pc' \in [Scan -> Point]
  BY <1>0, Points, Goes DEF Types
<1> USE DEF Elsewhere
<1>3. \A r \in Scan : Active(r)' <=> Active(r)
  BY DEF Active
<1>4. Types'
  <2>1. RunsBegun'
    BY <1>0, <1>2 DEF Types, RunsBegun, SessionTypes, NotBegun, Running
  <2>2. SessionTypes' /\ CallTypes'
    BY <1>0, <1>1, <1>2 DEF Types, SessionTypes, CallTypes
  <2>3. RecordTypes' /\ ClearTypes'
    BY <1>0, <1>1 DEF Types, RecordTypes, ClearTypes
  <2> QED
    BY <2>1, <2>2, <2>3 DEF Types
<1>5. Epochs' /\ Judged' /\ CancelSticks'
  BY <1>0, <1>1, <1>2 DEF Epochs, Judged, CancelSticks, NotBegun, Running
<1>6. DoomedRest' /\ ClearedStaysGone'
  BY <1>0, <1>1, <1>2
     DEF DoomedRest, ClearedStaysGone, Types, ClearTypes, CallTypes, Active
<1>7. Unjudged' /\ Backed'
  BY <1>0, <1>1, <1>2, <1>3 DEF Unjudged, Backed
<1>8. Pooled'
  BY <1>0, <1>1, <1>2, <1>3 DEF Pooled, Running
<1> QED
  BY <1>4, <1>5, <1>6, <1>7, <1>8 DEF ScanInv

(* #run rejects, and the records still to be written are these.            *)
LEMMA RejectKeeps ==
    ASSUME ScanInv, NEW s \in Scan, pc[s] \in Running, NEW pending \in Seq(Scan),
           Rejects(s, pending), Queued(pending, pc'), \A i \in 1..Len(pending) : pending[i] # s,
           InLine', Fence',
           turns' \in Seq(Scan \cup {Clearing}), row' \in [Scan -> Judgement],
           faults' \in 0..MaxFaults,
           history' = history \/ (history' = history \cup {s} /\ pc[s] = "writing"),
           UNCHANGED <<mine, busy, clearVars>>
    PROVE  ScanInv'
<1>1. CASE Active(s)
  <2>1. Goto(s, "failing") /\ saves' = Append(pending, s)
        /\ status' = "failed" /\ cancelRequested' = FALSE
        /\ verdict' = [verdict EXCEPT ![s] = "failed"]
        /\ UNCHANGED <<epoch, scanId, activeRun, locals>>
    BY <1>1 DEF Rejects
  <2>2. pc'[s] = "failing"
    BY <2>1, Goes DEF ScanInv, Types, Point, Running
  <2>3. saves' \in Seq(Scan) /\ SavesOnce'
    BY <2>1, <2>2, Appending, QueuedGrows DEF SavesOnce
  <2> QED
    BY <1>1, <2>1, <2>3, JudgeKeeps
<1>2. CASE ~Active(s)
  <2>1. /\ End(s) /\ saves' = pending
        /\ UNCHANGED <<epoch, scanId, status, cancelRequested, verdict>>
    BY <1>2 DEF Rejects
  <2>2. SavesOnce' /\ saves' \in Seq(Scan)
    BY <2>1 DEF SavesOnce
  <2> QED
    BY <2>1, <2>2, EndKeeps
<1> QED
  BY <1>1, <1>2

(* Where Rejects(s, pending) leaves the scan.                              *)
LEMMA RejectMoves ==
    ASSUME CallTypes, NEW s \in Scan, NEW pending, Rejects(s, pending)
    PROVE  /\ pc'[s] \in {"failing", "done"} /\ Elsewhere(s)
           /\ UNCHANGED <<epoch, scanId>>
BY Points, Goes DEF Rejects, End, Running

(* The line is as before, and nobody gets to the history out of turn.      *)
LEMMA LineSame ==
    ASSUME Types, InLine, Fence, NEW s \in Scan, Elsewhere(s), pc[s] \notin NotBegun,
           pc'[s] \notin NotBegun,
           pc'[s] \in {"merging", "writing"} => HasTurn(s),
           UNCHANGED <<turns, epoch, scanId, mine, clearPc>>
    PROVE  InLine' /\ Fence'
BY LineStays DEF InLine, Elsewhere, Active

-----------------------------------------------------------------------------
(* The actions.                                                            *)

LEMMA StartsKeep ==
    ASSUME ScanInv, NEW s \in Scan,
           \/ \E automatic \in BOOLEAN : Start(s, automatic)
           \/ Modelled(s) \/ Listed(s) \/ StartFails(s) \/ NoTarget(s)
    PROVE  ScanInv'
<1>0. CallTypes /\ ClearTypes /\ epoch \in Nat /\ mine[s] \in Nat /\ mine[s] <= epoch
  BY DEF ScanInv, Types, Epochs, SessionTypes, CallTypes
<1>1. /\ pc[s] \in NotBegun
      /\ UNCHANGED <<session, locals, busy, verdict, saves, turns, clearVars, stored>>
      /\ faults' \in 0..MaxFaults
  BY <1>0 DEF Start, Modelled, Listed, StartFails, NoTarget, NotBegun, runVars, Fault,
              ClearTypes
<1>2. \E w \in NotBegun \cup {"refused"} : Goto(s, w)
  BY DEF Start, Modelled, Listed, StartFails, NoTarget, NotBegun
<1>3. pc' \in [Scan -> Point] /\ pc'[s] \in NotBegun \cup {"refused"} /\ Elsewhere(s)
  BY <1>0, <1>2, Goes, Points
<1>4. \E m \in {mine[s], epoch} : mine' = [mine EXCEPT ![s] = m]
  <2>1. mine = [mine EXCEPT ![s] = mine[s]]
    BY <1>0 DEF CallTypes
  <2> QED
    BY <2>1 DEF Start, Modelled, Listed, StartFails, NoTarget, runVars
<1>5. /\ mine' \in [Scan -> Nat] /\ mine'[s] <= epoch
      /\ \A r \in Scan : r # s => mine'[r] = mine[r]
  BY <1>0, <1>4 DEF CallTypes
<1> QED
  BY <1>1, <1>3, <1>5, EarlyKeeps

LEMMA ExecuteKeeps == ASSUME ScanInv, NEW s \in Scan, Execute(s) PROVE ScanInv'
<1> USE DEF Elsewhere
<1>0. /\ Types /\ Epochs /\ Judged /\ SavesOnce /\ InLine /\ Fence /\ Unjudged
      /\ DoomedRest /\ ClearedStaysGone /\ CancelSticks /\ Pooled /\ Backed
  BY DEF ScanInv
<1>1. /\ pc[s] = "resolving" /\ epoch' = epoch + 1 /\ scanId' = s
      /\ status' = "running" /\ cancelRequested' = FALSE
      /\ saves' = Append(saves, s)
      /\ UNCHANGED <<activeRun, busy, seen, turns, clearPc, clearWait, clearEpoch,
                     doomed, clears, row, history, faults>>
  BY DEF Execute, clearVars, stored
<1>2. pc'[s] = "saving" /\ Elsewhere(s) /\ pc' \in [Scan -> Point]
  BY <1>0, Points, Goes DEF Execute, Types
<1>3. /\ mine' \in [Scan -> Nat] /\ mine'[s] = epoch + 1
      /\ \A r \in Scan : r # s => mine'[r] = mine[r]
  BY <1>0 DEF Execute, Types, SessionTypes, CallTypes
<1>4. /\ left' \in [Scan -> 0..Targets] /\ left'[s] > 0
      /\ \A r \in Scan : r # s => left'[r] = left[r]
  BY <1>0 DEF Execute, Types, CallTypes
<1>5. /\ verdict' \in [Scan -> Judgement] /\ verdict'[s] = "running"
      /\ \A r \in Scan : r # s => verdict'[r] = verdict[r]
  <2>1. "running" \in Judgement
    BY DEF Judgement
  <2> QED
    BY <1>0, <2>1 DEF Execute, Types, RecordTypes
<1>6. \A r \in Scan : r # s => ~Active(r)'
  BY <1>1 DEF Active
<1>7. Types'
  <2>1. RunsBegun'
    BY <1>0, <1>1, <1>2 DEF Types, RunsBegun, SessionTypes, NotBegun, Running
  <2>2. SessionTypes'
    <3>1. s # NoScan /\ epoch + 1 \in Nat
      BY <1>0, NotScans DEF Types, SessionTypes
    <3>2. activeRun \in Scan \cup {NoScan}
      BY <1>0 DEF Types, SessionTypes
    <3> QED
      BY <1>1, <3>1, <3>2 DEF SessionTypes
  <2>3. CallTypes'
    BY <1>0, <1>1, <1>2, <1>3, <1>4 DEF Types, CallTypes
  <2>4. saves' \in Seq(Scan)
    BY <1>0, <1>1, Appending DEF Types, RecordTypes
  <2>5. RecordTypes' /\ ClearTypes'
    BY <1>0, <1>1, <1>5, <2>4 DEF Types, RecordTypes, ClearTypes
  <2> QED
    BY <2>1, <2>2, <2>3, <2>5 DEF Types
<1>8. Epochs'
  <2>1. /\ epoch \in Nat /\ \A r \in Scan : mine[r] \in Nat /\ mine[r] <= epoch
        /\ clearEpoch \in Nat /\ (clearPc = "erasing" => clearEpoch <= epoch)
    BY <1>0 DEF Epochs, Types, SessionTypes, ClearTypes, CallTypes
  <2>2. \A r \in Scan : mine'[r] <= epoch'
    BY <1>1, <1>3, <2>1
  <2>3. clearPc' = "erasing" => clearEpoch' <= epoch' /\ epoch' # clearEpoch'
    BY <1>1, <2>1
  <2> QED
    BY <2>2, <2>3 DEF Epochs
<1>9. Judged' /\ CancelSticks'
  BY <1>0, <1>1, <1>2, <1>5 DEF Judged, CancelSticks, NotBegun
<1>10. SavesOnce'
  <2>1. saves \in Seq(Scan) /\ Queued(saves, pc)
    BY <1>0 DEF SavesOnce, Types, RecordTypes
  <2>2. \A i \in 1..Len(saves) : saves[i] # s
    BY <1>1, <2>1 DEF Queued
  <2>3. Queued(saves', pc')
    BY <1>1, <1>2, <2>1, <2>2, QueuedGrows
  <2> QED
    BY <2>3 DEF SavesOnce
<1>11. InLine' /\ Fence'
  <2>1. \A r \in Scan : pc[r] \notin NotBegun => r # s
    BY <1>1 DEF NotBegun
  <2> QED
    BY <1>0, <1>1, <1>2, <1>6, <2>1, LineStays DEF InLine, NotBegun
<1>12. DoomedRest' /\ ClearedStaysGone'
  <2>1. s \notin doomed
    BY <1>0, <1>1 DEF DoomedRest, Judged, NotBegun, Types, ClearTypes
  <2>2. \A r \in doomed : r \in Scan /\ mine[r] \in Nat /\ epoch \in Nat
    BY <1>0 DEF Types, ClearTypes, CallTypes, SessionTypes
  <2> QED
    <3>1. ClearedStaysGone'
      BY <1>0, <1>1 DEF ClearedStaysGone
    <3>2. ASSUME NEW r \in doomed
          PROVE  mine'[r] < epoch' /\ verdict'[r] # "none"
                 /\ pc'[r] \notin {"merging", "writing"}
      <4>1. r \in Scan /\ r # s /\ mine[r] < epoch /\ verdict[r] # "none"
            /\ pc[r] \notin {"merging", "writing"}
        BY <1>0, <2>1, <2>2 DEF DoomedRest
      <4> QED
        BY <1>1, <1>2, <1>3, <1>5, <2>2, <4>1
    <3> QED
      BY <1>1, <3>1, <3>2 DEF DoomedRest
<1>13. Unjudged' /\ Pooled' /\ Backed'
  BY <1>0, <1>1, <1>2, <1>4, <1>5, <1>6 DEF Unjudged, Pooled, Backed
<1> QED
  BY <1>7, <1>8, <1>9, <1>10, <1>11, <1>12, <1>13 DEF ScanInv

(* A record is written, or its write is answered with a failure.           *)
LEMMA RecordIsTyped ==
    ASSUME Types, NEW s \in Scan
    PROVE  Recorded(s) \in [Scan -> Judgement]
BY DEF Types, RecordTypes, Recorded

LEMMA SavesShrink ==
    ASSUME Types, SavesOnce, NEW s \in Scan, Writing(s), Elsewhere(s)
    PROVE  /\ Tail(saves) \in Seq(Scan) /\ Queued(Tail(saves), pc')
           /\ \A i \in 1..Len(Tail(saves)) : Tail(saves)[i] # s
BY Tailing, QueuedShrinks DEF Types, RecordTypes, SavesOnce, Writing, Elsewhere

LEMMA SavedKeeps == ASSUME ScanInv, NEW s \in Scan, Saved(s) PROVE ScanInv'
<1>0. Types /\ SavesOnce /\ InLine /\ Fence /\ Pooled /\ Judged
  BY DEF ScanInv
<1>1. /\ Writing(s) /\ row' = Recorded(s) /\ saves' = Tail(saves)
      /\ UNCHANGED <<epoch, scanId, status, cancelRequested, mine, busy, verdict, turns,
                     clearVars, history, faults>>
  BY DEF Saved
<1>2. pc[s] \in {"saving", "finishing", "failing"} /\ UNCHANGED clearPc
  BY <1>0, <1>1, WriterWaits DEF clearVars
<1>3. row' \in [Scan -> Judgement] /\ turns' \in Seq(Scan \cup {Clearing})
      /\ faults' \in 0..MaxFaults
  BY <1>0, <1>1, RecordIsTyped DEF Types, RecordTypes, ClearTypes
<1>4. ASSUME NEW w \in {"done", "reading"}, Goto(s, w)
      PROVE  SavesOnce' /\ saves' \in Seq(Scan) /\ InLine' /\ Fence'
  <2>1. pc'[s] = w /\ Elsewhere(s)
    BY <1>0, <1>4, Points, Goes DEF Types, Running
  <2>2. SavesOnce' /\ saves' \in Seq(Scan)
    BY <1>0, <1>1, <2>1, SavesShrink DEF SavesOnce
  <2>3. InLine' /\ Fence'
    BY <1>0, <1>1, <1>2, <2>1, LineSame DEF NotBegun
  <2> QED
    BY <2>2, <2>3
<1>5. CASE pc[s] # "saving"
  <2>1. End(s)
    BY <1>5 DEF Saved
  <2>2. SavesOnce' /\ saves' \in Seq(Scan) /\ InLine' /\ Fence'
    BY <1>4, <2>1 DEF End
  <2> QED
    BY <1>1, <1>2, <1>3, <1>5, <2>1, <2>2, EndKeeps DEF Running
<1>6. CASE pc[s] = "saving" /\ Active(s)
  <2>1. activeRun' = s /\ Goto(s, "reading") /\ UNCHANGED locals
    BY <1>6 DEF Saved
  <2>2. SavesOnce' /\ saves' \in Seq(Scan) /\ InLine' /\ Fence'
    BY <1>4, <2>1
  <2>3. verdict[s] \notin {"complete", "partial"} /\ (seen[s] = {} => left[s] > 0 \/ busy[s] > 0)
    BY <1>0, <1>6 DEF Judged, Pooled
  <2>4. "reading" \in Running
    BY DEF Running
  <2> QED
    BY <1>1, <1>3, <1>6, <2>1, <2>2, <2>3, <2>4, MoveKeeps
<1>7. CASE pc[s] = "saving" /\ ~Active(s)
  <2>1. activeRun' = NoScan /\ Goto(s, "done") /\ UNCHANGED locals
    BY <1>7 DEF Saved
  <2>2. SavesOnce' /\ saves' \in Seq(Scan) /\ InLine' /\ Fence'
    BY <1>4, <2>1
  <2>3. verdict[s] \notin {"complete", "partial"} /\ activeRun' # s
    BY <1>0, <1>7, <2>1 DEF Judged
  <2> QED
    BY <1>1, <1>3, <1>7, <2>1, <2>2, <2>3, MoveKeeps
<1> QED
  BY <1>5, <1>6, <1>7

LEMMA SaveFailsKeeps == ASSUME ScanInv, NEW s \in Scan, SaveFails(s) PROVE ScanInv'
<1>0. Types /\ SavesOnce /\ InLine /\ Fence /\ Judged
  BY DEF ScanInv
<1>1. Writing(s) /\ row' \in {row, Recorded(s)}
      /\ UNCHANGED <<mine, busy, turns, clearVars, history>>
  BY DEF SaveFails
<1>2. pc[s] \in {"saving", "finishing", "failing"} /\ UNCHANGED clearPc
  BY <1>0, <1>1, WriterWaits DEF clearVars
<1>3. row' \in [Scan -> Judgement] /\ turns' \in Seq(Scan \cup {Clearing})
      /\ faults' \in 0..MaxFaults
  <2>1. faults' \in 0..MaxFaults
    BY <1>0 DEF SaveFails, Fault, Types, ClearTypes
  <2> QED
    BY <1>0, <1>1, <2>1, RecordIsTyped DEF Types, RecordTypes
<1>4. ASSUME pc'[s] \in {"done", "failing", "refused"}, Elsewhere(s), UNCHANGED <<epoch, scanId>>
      PROVE  /\ InLine' /\ Fence'
             /\ Tail(saves) \in Seq(Scan) /\ Queued(Tail(saves), pc')
             /\ \A i \in 1..Len(Tail(saves)) : Tail(saves)[i] # s
  <2>1. InLine' /\ Fence'
    BY <1>0, <1>1, <1>2, <1>4, LineSame DEF NotBegun
  <2> QED
    BY <1>0, <1>1, <1>4, <2>1, SavesShrink
<1>5. CASE pc[s] = "saving"
  <2>1. Goto(s, "refused") /\ saves' = Tail(saves) /\ UNCHANGED <<session, locals, verdict>>
    BY <1>5 DEF SaveFails
  <2>2. pc'[s] = "refused" /\ Elsewhere(s)
        /\ UNCHANGED <<epoch, scanId, status, cancelRequested, activeRun>>
    BY <1>0, <2>1, Points, Goes DEF Types, session
  <2>3. activeRun # s /\ verdict[s] \notin {"complete", "partial"}
    BY <1>0, <1>5 DEF Types, RunsBegun, Judged, Running
  <2>4. SavesOnce' /\ saves' \in Seq(Scan) /\ InLine' /\ Fence'
    BY <1>4, <2>1, <2>2 DEF SavesOnce
  <2> QED
    BY <1>1, <1>3, <1>5, <2>1, <2>2, <2>3, <2>4, MoveKeeps
<1>6. CASE pc[s] = "finishing"
  <2>1. Rejects(s, Tail(saves))
    BY <1>6 DEF SaveFails
  <2>2. pc'[s] \in {"failing", "done"} /\ Elsewhere(s) /\ UNCHANGED <<epoch, scanId>>
    BY <1>0, <2>1, RejectMoves DEF Types
  <2>3. pc[s] \in Running
    BY <1>6 DEF Running
  <2> QED
    BY <1>1, <1>3, <1>4, <2>1, <2>2, <2>3, RejectKeeps
<1>7. CASE pc[s] = "failing"
  <2>1. End(s) /\ saves' = Tail(saves)
        /\ UNCHANGED <<epoch, scanId, status, cancelRequested, verdict>>
    BY <1>7 DEF SaveFails
  <2>2. pc'[s] = "done" /\ Elsewhere(s)
    BY <1>0, <2>1, Points, Goes DEF Types, End
  <2>3. SavesOnce' /\ saves' \in Seq(Scan) /\ InLine' /\ Fence'
    BY <1>4, <2>1, <2>2 DEF SavesOnce
  <2>4. pc[s] \in Running
    BY <1>7 DEF Running
  <2> QED
    BY <1>1, <1>3, <2>1, <2>3, <2>4, EndKeeps
<1> QED
  BY <1>2, <1>5, <1>6, <1>7

-----------------------------------------------------------------------------
(* #run.                                                                   *)

LEMMA WorkerKeeps ==
    ASSUME ScanInv, NEW s \in Scan, Pick(s) \/ \E o \in Outcome : Scanned(s, o)
    PROVE  ScanInv'
<1>0. /\ Types /\ Epochs /\ Judged /\ SavesOnce /\ InLine /\ Fence /\ Unjudged
      /\ DoomedRest /\ ClearedStaysGone /\ CancelSticks /\ Pooled /\ Backed
  BY DEF ScanInv
<1>1. /\ pc[s] = "scanning"
      /\ UNCHANGED <<epoch, scanId, status, cancelRequested, activeRun, pc, mine,
                     verdict, saves, turns, row, history, faults>>
      /\ UNCHANGED <<clearPc, clearWait, clearEpoch, doomed, clears>>
  BY DEF Pick, Scanned, session, stored, clearVars
<1>2. \A r \in Scan : Active(r)' <=> Active(r)
  BY <1>1 DEF Active
<1>3. /\ left' \in [Scan -> 0..Targets] /\ busy' \in [Scan -> 0..Workers]
      /\ seen' \in [Scan -> SUBSET Outcome]
      /\ \A r \in Scan : r # s => /\ left'[r] = left[r] /\ busy'[r] = busy[r]
                                 /\ seen'[r] = seen[r]
  <2>1. CASE Pick(s)
    BY <1>0, <2>1 DEF Pick, Types, CallTypes
  <2>2. ASSUME NEW o \in Outcome, Scanned(s, o)
        PROVE  /\ left' \in [Scan -> 0..Targets] /\ busy' \in [Scan -> 0..Workers]
               /\ seen' \in [Scan -> SUBSET Outcome]
               /\ \A r \in Scan : r # s => /\ left'[r] = left[r] /\ busy'[r] = busy[r]
                                          /\ seen'[r] = seen[r]
    BY <1>0, <2>2 DEF Scanned, Types, CallTypes
  <2> QED
    BY <2>1, <2>2
<1>4. Active(s) => busy'[s] > 0 \/ seen'[s] # {}
  <2>1. CASE Pick(s)
    BY <1>0, <2>1 DEF Pick, Types, CallTypes
  <2>2. ASSUME NEW o \in Outcome, Scanned(s, o), Active(s) PROVE seen'[s] # {}
    BY <1>0, <2>2 DEF Scanned, Types, CallTypes
  <2> QED
    BY <2>1, <2>2
<1>5. Types'
  BY <1>0, <1>1, <1>3
     DEF Types, SessionTypes, CallTypes, RecordTypes, ClearTypes, RunsBegun
<1>6. Epochs' /\ Judged' /\ SavesOnce' /\ DoomedRest' /\ ClearedStaysGone' /\ CancelSticks'
  BY <1>0, <1>1
     DEF Epochs, Judged, SavesOnce, DoomedRest, ClearedStaysGone, CancelSticks
<1>7. InLine' /\ Fence'
  BY <1>0, <1>1, LineSame DEF NotBegun, Elsewhere
<1>8. Unjudged' /\ Backed'
  BY <1>0, <1>1, <1>2, <1>3 DEF Unjudged, Backed, Judged
<1>9. Pooled'
  BY <1>0, <1>1, <1>2, <1>3, <1>4 DEF Pooled
<1> QED
  BY <1>5, <1>6, <1>7, <1>8, <1>9 DEF ScanInv

(* A run that only moves its scan, or one that ends or is judged, leaves   *)
(* the queue of records and the line as they should be.                    *)
LEMMA ReadKeeps ==
    ASSUME ScanInv, NEW s \in Scan, Read(s) \/ ReadFails(s) PROVE ScanInv'
<1>0. Types /\ SavesOnce /\ InLine /\ Fence /\ Judged /\ Pooled
  BY DEF ScanInv
<1>1. /\ pc[s] = "reading" /\ pc[s] \in Running /\ pc[s] \notin NotBegun
      /\ UNCHANGED <<mine, busy, turns, clearVars, stored>>
      /\ UNCHANGED <<clearPc, row, history>>
      /\ faults' \in 0..MaxFaults
  BY <1>0 DEF Read, ReadFails, runVars, stored, clearVars, Running, NotBegun, Fault,
              Types, ClearTypes
<1>2. saves \in Seq(Scan) /\ Queued(saves, pc) /\ row' \in [Scan -> Judgement]
      /\ turns' \in Seq(Scan \cup {Clearing})
  BY <1>0, <1>1 DEF Types, RecordTypes, SavesOnce
<1>3. CASE Read(s)
  <2>1. Goto(s, "scanning") /\ UNCHANGED <<session, runVars, saves>>
    BY <1>3 DEF Read
  <2>2. /\ UNCHANGED <<epoch, scanId, status, cancelRequested, activeRun>>
        /\ UNCHANGED <<mine, busy, verdict, locals>>
    BY <2>1 DEF session, runVars
  <2>3. "scanning" \in Running
    BY DEF Running
  <2>4. pc'[s] = "scanning" /\ Elsewhere(s)
    BY <1>0, <2>1, <2>3, Points, Goes DEF Types
  <2>5. SavesOnce' /\ saves' \in Seq(Scan)
    BY <1>0, <1>1, <2>1, <2>4, SavesStay DEF SavesOnce
  <2>6. InLine' /\ Fence'
    BY <1>0, <1>1, <2>2, <2>4, LineSame DEF NotBegun
  <2>7. verdict[s] \notin {"complete", "partial"}
        /\ (Active(s) /\ seen[s] = {} => left[s] > 0 \/ busy[s] > 0)
    BY <1>0, <1>1 DEF Judged, Pooled
  <2> QED
    BY <1>1, <1>2, <2>1, <2>2, <2>3, <2>5, <2>6, <2>7, MoveKeeps
<1>4. CASE ReadFails(s)
  <2>1. Rejects(s, saves)
    BY <1>4 DEF ReadFails
  <2>2. pc'[s] \in {"failing", "done"} /\ Elsewhere(s) /\ UNCHANGED <<epoch, scanId>>
    BY <1>0, <2>1, RejectMoves DEF Types
  <2>3. Queued(saves, pc') /\ \A i \in 1..Len(saves) : saves[i] # s
    BY <1>0, <1>1, <2>2, SavesStay
  <2>4. InLine' /\ Fence'
    BY <1>0, <1>1, <2>2, LineSame DEF NotBegun
  <2> QED
    BY <1>1, <1>2, <2>1, <2>3, <2>4, RejectKeeps
<1> QED
  BY <1>3, <1>4

(* The run is judged by its entries; its record is appended to the queue.  *)
LEMMA ConcludeKeeps ==
    ASSUME ScanInv, NEW s \in Scan, pc[s] \in {"scanning", "writing"}, Active(s),
           Conclude(s),
           ~cancelRequested /\ Verdict(s) \in {"complete", "partial"} =>
               clearPc # "erasing" /\ s \in history' /\ left[s] = 0 /\ busy[s] = 0,
           InLine', Fence', turns' \in Seq(Scan \cup {Clearing}),
           history' = history \/ (history' = history \cup {s} /\ pc[s] = "writing"),
           UNCHANGED <<mine, busy, clearVars, row, faults>>
    PROVE  ScanInv'
<1>0. Types /\ SavesOnce
  BY DEF ScanInv
<1> DEFINE v == Verdict(s)
<1>1. v \in {"complete", "partial", "failed", "cancelled"}
      /\ (v \in {"complete", "partial"} => ~cancelRequested)
  BY DEF Verdict
<1>2. /\ status' = v /\ cancelRequested' = FALSE /\ verdict' = [verdict EXCEPT ![s] = v]
      /\ saves' = Append(saves, s) /\ Goto(s, "finishing")
      /\ UNCHANGED <<epoch, scanId, activeRun, locals>>
  BY DEF Conclude
<1> HIDE DEF v
<1>3. pc'[s] = "finishing" /\ Elsewhere(s)
  BY <1>0, <1>2, Goes DEF Types, Point, Running
<1>4. saves \in Seq(Scan) /\ Queued(saves, pc') /\ \A i \in 1..Len(saves) : saves[i] # s
  BY <1>0, <1>3, SavesStay
<1>5. SavesOnce' /\ saves' \in Seq(Scan)
  BY <1>2, <1>3, <1>4, Appending, QueuedGrows DEF SavesOnce
<1>6. row' \in [Scan -> Judgement] /\ faults' \in 0..MaxFaults /\ pc[s] \in Running
  BY <1>0 DEF Types, RecordTypes, ClearTypes, Running
<1>7. v \in {"complete", "partial"} =>
          clearPc # "erasing" /\ s \in history' /\ left[s] = 0 /\ busy[s] = 0
  BY <1>1 DEF v
<1> QED
  BY <1>1, <1>2, <1>5, <1>6, <1>7, JudgeKeeps

LEMMA ConcludeMoves ==
    ASSUME CallTypes, NEW s \in Scan, Conclude(s)
    PROVE  pc'[s] = "finishing" /\ Elsewhere(s) /\ UNCHANGED <<epoch, scanId>>
BY Goes DEF Conclude, Point, Running

LEMMA EndMoves ==
    ASSUME CallTypes, NEW s \in Scan, End(s)
    PROVE  pc'[s] = "done" /\ Elsewhere(s)
BY Points, Goes DEF End

LEMMA CommitKeeps == ASSUME ScanInv, NEW s \in Scan, Commit(s) PROVE ScanInv'
<1>0. Types /\ SavesOnce /\ InLine /\ Fence /\ Judged /\ Pooled
  BY DEF ScanInv
<1>1. /\ pc[s] = "scanning" /\ pc[s] \in Running /\ pc[s] \notin NotBegun
      /\ busy[s] = 0 /\ (left[s] = 0 \/ cancelRequested \/ ~Active(s))
      /\ UNCHANGED <<mine, busy, clearVars, row, history, faults>> /\ UNCHANGED clearPc
  BY DEF Commit, stored, clearVars, Running, NotBegun
<1>2. /\ saves \in Seq(Scan) /\ turns \in Seq(Scan \cup {Clearing})
      /\ row' \in [Scan -> Judgement] /\ faults' \in 0..MaxFaults
  BY <1>0, <1>1 DEF Types, RecordTypes, ClearTypes
<1>3. CASE ~Active(s)
  <2>1. /\ End(s) /\ UNCHANGED turns
        /\ UNCHANGED <<epoch, scanId, status, cancelRequested, verdict, saves>>
    BY <1>3 DEF Commit, Ended
  <2>2. pc'[s] = "done" /\ Elsewhere(s)
    BY <1>0, <2>1, EndMoves DEF Types
  <2>3. SavesOnce' /\ saves' \in Seq(Scan)
    BY <1>0, <1>1, <2>1, <2>2, SavesStay DEF SavesOnce
  <2>4. InLine' /\ Fence'
    BY <1>0, <1>1, <2>1, <2>2, LineSame DEF NotBegun
  <2> QED
    BY <1>1, <1>2, <2>1, <2>3, <2>4, EndKeeps
<1>4. CASE Active(s) /\ seen[s] = {}
  <2>1. Conclude(s) /\ UNCHANGED turns
    BY <1>4 DEF Commit
  <2>2. cancelRequested
    BY <1>0, <1>1, <1>4 DEF Pooled, Types, CallTypes
  <2>3. pc'[s] = "finishing" /\ Elsewhere(s) /\ UNCHANGED <<epoch, scanId>>
    BY <1>0, <2>1, ConcludeMoves DEF Types
  <2>4. InLine' /\ Fence'
    BY <1>0, <1>1, <2>1, <2>3, LineSame DEF NotBegun
  <2> QED
    BY <1>1, <1>2, <1>4, <2>1, <2>2, <2>4, ConcludeKeeps
<1>5. CASE Active(s) /\ seen[s] # {}
  <2>1. /\ turns' = Append(turns, s) /\ Goto(s, "locking")
        /\ UNCHANGED <<session, locals, verdict, saves>>
    BY <1>5 DEF Commit
  <2>2. UNCHANGED <<epoch, scanId, status, cancelRequested, activeRun>>
    BY <2>1 DEF session
  <2>3. "locking" \in Running
    BY DEF Running
  <2>4. pc'[s] = "locking" /\ Elsewhere(s)
    BY <1>0, <2>1, <2>3, Points, Goes DEF Types
  <2>5. SavesOnce' /\ saves' \in Seq(Scan)
    BY <1>0, <1>1, <2>1, <2>4, SavesStay DEF SavesOnce
  <2>6. InLine' /\ Fence'
    <3>1. \A r \in Scan : Active(r)' <=> Active(r)
      BY <1>1, <2>2 DEF Active
    <3>2. \A r \in Scan : /\ pc[r] \notin NotBegun => pc'[r] \notin NotBegun
                          /\ pc'[r] \in {"merging", "writing"} => HasTurn(r)
      BY <1>0, <2>4 DEF InLine, NotBegun, Elsewhere
    <3>3. pc'[s] \notin NotBegun
      BY <2>4 DEF NotBegun
    <3> QED
      BY <1>0, <1>1, <2>1, <3>1, <3>2, <3>3, LineStays
  <2>7. turns' \in Seq(Scan \cup {Clearing})
    BY <1>2, <2>1, Appending
  <2>8. verdict[s] \notin {"complete", "partial"}
    BY <1>0, <1>1 DEF Judged
  <2> QED
    BY <1>1, <1>2, <1>5, <2>1, <2>2, <2>3, <2>5, <2>6, <2>7, <2>8, MoveKeeps
<1> QED
  BY <1>3, <1>4, <1>5

(* The lock is given back.                                                 *)
LEMMA LockKeeps ==
    ASSUME ScanInv, NEW s \in Scan, HasTurn(s), turns' = Tail(turns), Elsewhere(s),
           pc'[s] \in {"done", "finishing", "failing"},
           UNCHANGED <<epoch, scanId, mine, clearVars>>
    PROVE  InLine' /\ Fence' /\ turns' \in Seq(Scan \cup {Clearing})
<1>1. Types /\ InLine /\ Fence
  BY DEF ScanInv
<1>2. turns' \in Seq(Scan \cup {Clearing})
  BY <1>1, Tailing DEF Types, RecordTypes, HasTurn
<1>3. \A r \in Scan : Active(r)' => Active(r)
  BY DEF Active
<1>4. UNCHANGED clearPc /\ pc'[s] \notin NotBegun \cup {"merging", "writing"}
  BY DEF clearVars, NotBegun
<1> QED
  BY <1>1, <1>2, <1>3, <1>4, LineShrinks DEF Elsewhere

LEMMA AppendStepKeeps ==
    ASSUME ScanInv, NEW s \in Scan, NEW from \in {"locking", "merging"},
           NEW to \in {"merging", "writing"}, AppendStep(s, from, to)
    PROVE  ScanInv'
<1>0. Types /\ SavesOnce /\ InLine /\ Fence /\ Judged /\ Pooled
  BY DEF ScanInv
<1>1. /\ pc[s] \in {"locking", "merging"} /\ pc[s] \in Running /\ pc[s] \notin NotBegun
      /\ HasTurn(s)
      /\ UNCHANGED <<mine, busy, clearVars, row, history, faults>> /\ UNCHANGED clearPc
  BY DEF AppendStep, stored, clearVars, Running, NotBegun
<1>2. /\ saves \in Seq(Scan) /\ turns \in Seq(Scan \cup {Clearing})
      /\ row' \in [Scan -> Judgement] /\ faults' \in 0..MaxFaults
  BY <1>0, <1>1 DEF Types, RecordTypes, ClearTypes
<1>3. CASE Active(s)
  <2>1. Goto(s, to) /\ UNCHANGED <<session, locals, verdict, saves, turns>>
    BY <1>3 DEF AppendStep
  <2>2. UNCHANGED <<epoch, scanId, status, cancelRequested, activeRun>>
    BY <2>1 DEF session
  <2>3. to \in Running
    BY DEF Running
  <2>4. pc'[s] = to /\ Elsewhere(s)
    BY <1>0, <2>1, <2>3, Points, Goes DEF Types
  <2>5. SavesOnce' /\ saves' \in Seq(Scan)
    BY <1>0, <1>1, <2>1, <2>4, SavesStay DEF SavesOnce
  <2>6. InLine' /\ Fence'
    BY <1>0, <1>1, <2>1, <2>2, <2>4, LineSame DEF NotBegun
  <2>7. verdict[s] \notin {"complete", "partial"} /\ busy[s] = 0
        /\ (left[s] = 0 \/ cancelRequested)
    BY <1>0, <1>1, <1>3 DEF Judged, Pooled
  <2> QED
    BY <1>1, <1>2, <1>3, <2>1, <2>2, <2>3, <2>5, <2>6, <2>7, MoveKeeps
<1>4. CASE ~Active(s)
  <2>1. /\ End(s) /\ turns' = Tail(turns)
        /\ UNCHANGED <<epoch, scanId, status, cancelRequested, verdict, saves>>
    BY <1>4 DEF AppendStep, Ended
  <2>2. pc'[s] = "done" /\ Elsewhere(s)
    BY <1>0, <2>1, EndMoves DEF Types
  <2>3. SavesOnce' /\ saves' \in Seq(Scan)
    BY <1>0, <1>1, <2>1, <2>2, SavesStay DEF SavesOnce
  <2>4. InLine' /\ Fence' /\ turns' \in Seq(Scan \cup {Clearing})
    BY <1>1, <2>1, <2>2, LockKeeps
  <2> QED
    BY <1>1, <1>2, <2>1, <2>3, <2>4, EndKeeps
<1> QED
  BY <1>3, <1>4

LEMMA AppendedKeeps == ASSUME ScanInv, NEW s \in Scan, Appended(s) PROVE ScanInv'
<1>0. Types /\ SavesOnce /\ InLine /\ Fence /\ Pooled
  BY DEF ScanInv
<1>1. /\ pc[s] = "writing" /\ pc[s] \in Running
      /\ history' = history \cup {s} /\ turns' = Tail(turns)
      /\ UNCHANGED <<mine, busy, clearVars, row, faults>>
  BY DEF Appended, Running
<1>2. /\ saves \in Seq(Scan) /\ HasTurn(s)
      /\ row' \in [Scan -> Judgement] /\ faults' \in 0..MaxFaults
  BY <1>0, <1>1 DEF Types, RecordTypes, ClearTypes, InLine
<1>3. CASE Active(s)
  <2>1. Conclude(s)
    BY <1>3 DEF Appended
  <2>2. pc'[s] = "finishing" /\ Elsewhere(s) /\ UNCHANGED <<epoch, scanId>>
    BY <1>0, <2>1, ConcludeMoves DEF Types
  <2>3. InLine' /\ Fence' /\ turns' \in Seq(Scan \cup {Clearing})
    BY <1>1, <1>2, <2>2, LockKeeps
  <2>4. clearPc # "erasing"
    <3> SUFFICES ASSUME clearPc = "erasing" PROVE FALSE
      OBVIOUS
    <3>1. PICK k \in 1..Len(turns) :
                 /\ turns[k] = Clearing
                 /\ \A i \in 1..(k-1) : turns[i] # Clearing => ~Active(turns[i])
      BY <1>0 DEF Fence
    <3>2. turns # <<>> /\ turns[1] = s /\ Len(turns) \in Nat
      BY <1>0, <1>2, Tailing DEF HasTurn, Types, RecordTypes
    <3>3. k # 1
      BY <3>1, <3>2, NotScans
    <3>4. 1 \in 1..(k-1)
      BY <3>2, <3>3
    <3> QED
      BY <1>3, <3>1, <3>2, <3>4, NotScans
  <2>5. ~cancelRequested => left[s] = 0 /\ busy[s] = 0
    BY <1>0, <1>1, <1>3 DEF Pooled
  <2> QED
    BY <1>1, <1>3, <2>1, <2>3, <2>4, <2>5, ConcludeKeeps
<1>4. CASE ~Active(s)
  <2>1. /\ End(s)
        /\ UNCHANGED <<epoch, scanId, status, cancelRequested, verdict, saves>>
    BY <1>4 DEF Appended, Ended
  <2>2. pc'[s] = "done" /\ Elsewhere(s)
    BY <1>0, <2>1, EndMoves DEF Types
  <2>3. SavesOnce' /\ saves' \in Seq(Scan)
    BY <1>0, <1>1, <2>1, <2>2, SavesStay DEF SavesOnce
  <2>4. InLine' /\ Fence' /\ turns' \in Seq(Scan \cup {Clearing})
    BY <1>1, <1>2, <2>1, <2>2, LockKeeps
  <2> QED
    BY <1>1, <1>2, <2>1, <2>3, <2>4, EndKeeps
<1> QED
  BY <1>3, <1>4

LEMMA AppendFailsKeeps == ASSUME ScanInv, NEW s \in Scan, AppendFails(s) PROVE ScanInv'
<1>0. Types /\ SavesOnce /\ InLine /\ Fence
  BY DEF ScanInv
<1>1. /\ pc[s] \in {"merging", "writing"} /\ pc[s] \in Running
      /\ history' = history \/ (history' = history \cup {s} /\ pc[s] = "writing")
      /\ turns' = Tail(turns) /\ Rejects(s, saves)
      /\ UNCHANGED <<mine, busy, clearVars, row>>
      /\ faults' \in 0..MaxFaults
  BY <1>0 DEF AppendFails, Running, Fault, Types, ClearTypes
<1>2. saves \in Seq(Scan) /\ HasTurn(s) /\ row' \in [Scan -> Judgement]
  BY <1>0, <1>1 DEF Types, RecordTypes, InLine
<1>3. pc'[s] \in {"failing", "done"} /\ Elsewhere(s) /\ UNCHANGED <<epoch, scanId>>
  BY <1>0, <1>1, RejectMoves DEF Types
<1>4. Queued(saves, pc') /\ \A i \in 1..Len(saves) : saves[i] # s
  BY <1>0, <1>1, <1>3, SavesStay
<1>5. InLine' /\ Fence' /\ turns' \in Seq(Scan \cup {Clearing})
  BY <1>1, <1>2, <1>3, LockKeeps
<1> QED
  BY <1>1, <1>2, <1>4, <1>5, RejectKeeps

-----------------------------------------------------------------------------
(* cancel(), clear() and a restart.                                        *)

LEMMA CancelKeeps == ASSUME ScanInv, Cancel PROVE ScanInv'
<1>0. /\ Types /\ Epochs /\ Judged /\ SavesOnce /\ InLine /\ Fence /\ Unjudged
      /\ DoomedRest /\ ClearedStaysGone /\ Pooled /\ Backed
  BY DEF ScanInv
<1>1. /\ status \in {"running", "cancelling"}
      /\ cancelRequested' = TRUE /\ status' = "cancelling"
      /\ UNCHANGED <<epoch, scanId, activeRun, pc, mine, left, seen, busy, verdict>>
      /\ UNCHANGED <<saves, turns, clearPc, clearWait, clearEpoch, doomed, clears>>
      /\ UNCHANGED <<row, history, faults>>
  BY DEF Cancel, Busy, runVars, locals, clearVars, stored
<1>2. \A r \in Scan : Active(r)' <=> Active(r)
  BY <1>1 DEF Active
<1>3. Types'
  BY <1>0, <1>1
     DEF Types, SessionTypes, CallTypes, RecordTypes, ClearTypes, RunsBegun
<1>4. Epochs' /\ Judged' /\ SavesOnce' /\ DoomedRest' /\ ClearedStaysGone' /\ CancelSticks'
  BY <1>0, <1>1
     DEF Epochs, Judged, SavesOnce, DoomedRest, ClearedStaysGone, CancelSticks
<1>5. InLine' /\ Fence'
  BY <1>0, <1>1, <1>2, LineStays DEF InLine
<1>6. Unjudged' /\ Backed' /\ Pooled'
  BY <1>0, <1>1, <1>2 DEF Unjudged, Backed, Pooled
<1> QED
  BY <1>3, <1>4, <1>5, <1>6 DEF ScanInv

(* clear() resets the state: nobody is in force any more.                  *)
LEMMA ResetKeeps ==
    ASSUME ScanInv, Reset, clearPc # "erasing",
           cancelRequested' \in BOOLEAN, clearWait' \in Scan \cup {NoScan},
           clears' \in 0..MaxClears,
           UNCHANGED <<activeRun, pc, runVars, saves, doomed, stored, faults>>
    PROVE  ScanInv'
<1>0. /\ Types /\ Epochs /\ Judged /\ SavesOnce /\ InLine
      /\ DoomedRest /\ ClearedStaysGone /\ Pooled
  BY DEF ScanInv
<1>1. /\ epoch' = epoch + 1 /\ clearEpoch' = epoch + 1
      /\ scanId' = NoScan /\ status' = "idle"
      /\ turns' = Append(turns, Clearing) /\ clearPc' = "erasing"
  BY DEF Reset
<1>2. /\ UNCHANGED <<activeRun, pc, mine, left, seen, busy, verdict, saves>>
      /\ UNCHANGED <<doomed, row, history, faults>>
  BY DEF runVars, locals, stored
<1>3. \A r \in Scan : ~Active(r)'
  BY <1>1, NotScans DEF Active
<1>4. Types'
  <2>1. epoch + 1 \in Nat
    BY <1>0 DEF Types, SessionTypes
  <2>2. turns' \in Seq(Scan \cup {Clearing})
    BY <1>0, <1>1, Appending DEF Types, RecordTypes
  <2>3. SessionTypes' /\ RunsBegun'
    BY <1>0, <1>1, <1>2, <2>1 DEF Types, SessionTypes, RunsBegun
  <2>4. CallTypes' /\ RecordTypes'
    BY <1>0, <1>2, <2>2 DEF Types, CallTypes, RecordTypes
  <2>5. ClearTypes'
    BY <1>0, <1>1, <1>2, <2>1 DEF Types, ClearTypes
  <2> QED
    BY <2>3, <2>4, <2>5 DEF Types
<1>5. Epochs'
  BY <1>0, <1>1, <1>2 DEF Epochs, Types, SessionTypes, CallTypes
<1>6. Judged' /\ SavesOnce' /\ ClearedStaysGone' /\ CancelSticks'
  BY <1>0, <1>1, <1>2 DEF Judged, SavesOnce, ClearedStaysGone, CancelSticks
<1>7. DoomedRest'
  BY <1>0, <1>1, <1>2
     DEF DoomedRest, Types, SessionTypes, CallTypes, ClearTypes
<1>8. InLine' /\ Fence'
  <2>1. /\ Len(turns') = Len(turns) + 1 /\ Len(turns) \in Nat
        /\ \A i \in 1..Len(turns) : turns'[i] = turns[i] /\ turns[i] \in Scan \cup {Clearing}
        /\ turns'[Len(turns) + 1] = Clearing
        /\ turns # <<>> => turns' # <<>> /\ Head(turns') = Head(turns)
    BY <1>0, <1>1, Appending DEF Types, RecordTypes
  <2>2. \A i \in 1..Len(turns') : i \in 1..Len(turns) \/ i = Len(turns) + 1
    BY <2>1
  <2>3. InLine'
    BY <1>0, <1>2, <2>1, <2>2 DEF InLine, HasTurn
  <2>4. Len(turns) + 1 \in 1..Len(turns') /\ turns'[Len(turns) + 1] = Clearing
    BY <2>1
  <2>5. ASSUME NEW i \in 1..((Len(turns) + 1) - 1), turns'[i] # Clearing
        PROVE  ~Active(turns[i])'
    <3>1. turns'[i] \in Scan
      BY <2>1, <2>5
    <3> QED
      BY <1>3, <3>1 DEF Active
  <2>6. Fence'
    BY <2>4, <2>5 DEF Fence
  <2> QED
    BY <2>3, <2>6
<1>9. Unjudged' /\ Backed' /\ Pooled'
  BY <1>0, <1>2, <1>3 DEF Unjudged, Backed, Pooled
<1> QED
  BY <1>4, <1>5, <1>6, <1>7, <1>8, <1>9 DEF ScanInv

LEMMA ClearKeeps == ASSUME ScanInv, Clear PROVE ScanInv'
<1>0. /\ Types /\ Epochs /\ Judged /\ SavesOnce /\ InLine /\ Fence /\ Unjudged
      /\ DoomedRest /\ ClearedStaysGone /\ Pooled /\ Backed
  BY DEF ScanInv
<1>1. /\ clearPc = "no" /\ cancelRequested' = TRUE
      /\ clearWait' \in Scan \cup {NoScan} /\ clears' \in 0..MaxClears
      /\ UNCHANGED <<activeRun, pc, runVars, saves, doomed, stored, faults>>
  BY <1>0 DEF Clear, Types, SessionTypes, ClearTypes
<1>2. CASE activeRun = NoScan
  <2>1. Reset
    BY <1>2 DEF Clear
  <2> QED
    BY <1>1, <2>1, ResetKeeps
<1>3. CASE activeRun # NoScan
  <2>1. /\ clearPc' = "draining"
        /\ UNCHANGED <<epoch, scanId, status, turns, clearEpoch>>
    BY <1>3 DEF Clear
  <2>2. /\ UNCHANGED <<activeRun, pc, mine, left, seen, busy, verdict, saves>>
        /\ UNCHANGED <<doomed, row, history, faults>>
    BY <1>1 DEF runVars, locals, stored
  <2>3. \A r \in Scan : Active(r)' <=> Active(r)
    BY <2>1, <2>2 DEF Active
  <2>4. Types'
    BY <1>0, <1>1, <2>1, <2>2
       DEF Types, SessionTypes, CallTypes, RecordTypes, ClearTypes, RunsBegun
  <2>5. Epochs' /\ Judged' /\ SavesOnce' /\ DoomedRest' /\ ClearedStaysGone' /\ CancelSticks'
    BY <1>0, <1>1, <2>1, <2>2
       DEF Epochs, Judged, SavesOnce, DoomedRest, ClearedStaysGone, CancelSticks
  <2>6. InLine' /\ Fence'
    BY <1>0, <2>1, <2>2, <2>3, LineStays DEF InLine
  <2>7. Unjudged' /\ Backed' /\ Pooled'
    BY <1>0, <1>1, <2>1, <2>2, <2>3 DEF Unjudged, Backed, Pooled
  <2> QED
    BY <2>4, <2>5, <2>6, <2>7 DEF ScanInv
<1> QED
  BY <1>2, <1>3

LEMMA DrainedKeeps == ASSUME ScanInv, Drained PROVE ScanInv'
<1>1. Types
  BY DEF ScanInv
<1>2. /\ Reset /\ clearPc # "erasing"
      /\ cancelRequested' \in BOOLEAN /\ clearWait' \in Scan \cup {NoScan}
      /\ clears' \in 0..MaxClears
      /\ UNCHANGED <<activeRun, pc, runVars, saves, doomed, stored, faults>>
  BY <1>1 DEF Drained, Types, SessionTypes, ClearTypes
<1> QED
  BY <1>2, ResetKeeps

(* clear() is over, whatever has become of the history.                    *)
LEMMA ClearEndKeeps ==
    ASSUME ScanInv, clearPc = "erasing", HasTurn(Clearing),
           turns' = Tail(turns), clearPc' = "no", clearWait' = NoScan,
           history' \in {history, {}}, faults' \in 0..MaxFaults,
           cancelRequested' \in BOOLEAN,
           cancelRequested' # cancelRequested => epoch = clearEpoch,
           doomed' = doomed
              \/ /\ doomed' = {s \in Scan : mine[s] < clearEpoch /\ verdict[s] # "none"}
                 /\ history' = {},
           UNCHANGED <<epoch, scanId, status, activeRun, pc, runVars, saves, clearEpoch,
                       clears, row>>
    PROVE  ScanInv'
<1>0. /\ Types /\ Epochs /\ Judged /\ SavesOnce /\ InLine /\ Fence /\ Unjudged
      /\ DoomedRest /\ ClearedStaysGone /\ CancelSticks /\ Pooled /\ Backed
  BY DEF ScanInv
<1>1. UNCHANGED <<mine, left, seen, busy, verdict>>
  BY DEF runVars, locals
<1>2. \A r \in Scan : Active(r)' <=> Active(r)
  BY <1>1 DEF Active
<1>3. \A r \in Scan : pc[r] \notin {"merging", "writing"}
  BY <1>0, NotScans DEF InLine, HasTurn
<1>4. cancelRequested' # cancelRequested => scanId = NoScan
  BY <1>0 DEF Epochs
<1>5. Types'
  <2>1. turns' \in Seq(Scan \cup {Clearing})
    BY <1>0, Tailing DEF Types, RecordTypes, HasTurn
  <2>2. SessionTypes' /\ RunsBegun' /\ CallTypes'
    BY <1>0, <1>1 DEF Types, SessionTypes, RunsBegun, CallTypes
  <2>3. RecordTypes' /\ ClearTypes'
    BY <1>0, <1>1, <2>1 DEF Types, RecordTypes, ClearTypes
  <2> QED
    BY <2>2, <2>3 DEF Types
<1>6. Epochs' /\ Judged' /\ SavesOnce'
  BY <1>0, <1>1 DEF Epochs, Judged, SavesOnce
<1>7. DoomedRest' /\ ClearedStaysGone'
  <2>1. CASE doomed' = doomed
    BY <1>0, <1>1, <2>1 DEF DoomedRest, ClearedStaysGone
  <2>2. CASE /\ doomed' = {s \in Scan : mine[s] < clearEpoch /\ verdict[s] # "none"}
             /\ history' = {}
    BY <1>0, <1>1, <1>3, <2>2
       DEF DoomedRest, ClearedStaysGone, Epochs, Types, SessionTypes, CallTypes,
           ClearTypes
  <2> QED
    BY <2>1, <2>2
<1>8. CancelSticks'
  BY <1>0, <1>4 DEF CancelSticks, Types, SessionTypes
<1>9. InLine' /\ Fence'
  <2>1. /\ Len(turns') = Len(turns) - 1 /\ Len(turns) \in Nat \ {0}
        /\ \A i \in 1..(Len(turns) - 1) : turns'[i] = turns[i + 1]
    BY <1>0, Tailing DEF Types, RecordTypes, HasTurn
  <2>2. \A i \in 1..Len(turns') : i + 1 \in 1..Len(turns) /\ turns'[i] = turns[i + 1]
    BY <2>1
  <2> QED
    BY <1>0, <1>3, <2>2 DEF InLine, Fence
<1>10. Unjudged'
  BY DEF Unjudged
<1>11. Backed'
  BY <1>0, <1>1, <1>2 DEF Backed, Unjudged
<1>12. Pooled'
  BY <1>0, <1>1, <1>2, <1>3, <1>4, NotScans DEF Pooled, Active
<1> QED
  BY <1>5, <1>6, <1>7, <1>8, <1>9, <1>10, <1>11, <1>12 DEF ScanInv

LEMMA ClearEnds == ASSUME ScanInv, Cleared \/ ClearFails PROVE ScanInv'
<1>1. Types
  BY DEF ScanInv
<1>2. CASE Cleared
  <2>1. faults' \in 0..MaxFaults /\ cancelRequested' \in BOOLEAN
        /\ (cancelRequested' # cancelRequested => epoch = clearEpoch)
    BY <1>1, <1>2 DEF Cleared, Types, SessionTypes, ClearTypes
  <2> QED
    BY <1>2, <2>1, ClearEndKeeps DEF Cleared
<1>3. CASE ClearFails
  <2>1. faults' \in 0..MaxFaults /\ cancelRequested' \in BOOLEAN
        /\ UNCHANGED <<epoch, scanId, status, cancelRequested, activeRun>>
    BY <1>1, <1>3 DEF ClearFails, Fault, session, Types, SessionTypes, ClearTypes
  <2> QED
    BY <1>3, <2>1, ClearEndKeeps DEF ClearFails
<1> QED
  BY <1>2, <1>3

LEMMA RestartKeeps == ASSUME ScanInv, ScannerRestart PROVE ScanInv'
<1>0. Types
  BY DEF ScanInv
<1>1. /\ epoch' = 0 /\ scanId' = NoScan /\ status' = "idle"
      /\ cancelRequested' = FALSE /\ activeRun' = NoScan
      /\ saves' = <<>> /\ turns' = <<>>
      /\ clearPc' = "no" /\ clearWait' = NoScan /\ clearEpoch' = 0
      /\ doomed' = {} /\ UNCHANGED clears
      /\ mine' = [s \in Scan |-> 0] /\ left' = [s \in Scan |-> 0]
      /\ busy' = [s \in Scan |-> 0] /\ seen' = [s \in Scan |-> {}]
      /\ verdict' = [s \in Scan |-> "none"]
  BY DEF ScannerRestart
<1>2. pc' = [s \in Scan |-> IF pc[s] \in {"unused", "refused"} THEN pc[s] ELSE "done"]
  BY DEF ScannerRestart
<1>3. \A r \in Scan : ~Active(r)'
  BY <1>1, NotScans DEF Active
<1>4. Types'
  <2>1. faults' \in 0..MaxFaults
    BY <1>0 DEF ScannerRestart, Fault, Types, ClearTypes
  <2>2. row' \in [Scan -> Judgement]
    <3>1. PICK landed \in {row} \cup {Recorded(s) : s \in {r \in Scan : Writing(r)}} :
             row' = [s \in Scan |-> IF landed[s] = "running" THEN "cancelled"
                                    ELSE landed[s]]
      BY DEF ScannerRestart
    <3>2. landed \in [Scan -> Judgement]
      BY <1>0, <3>1, RecordIsTyped DEF Types, RecordTypes
    <3> QED
      BY <3>1, <3>2 DEF Judgement
  <2>3. history' \subseteq Scan
    <3>1. PICK added \in SUBSET {s \in Scan : pc[s] = "writing"} :
             history' = history \cup added \/ history' = {}
      BY DEF ScannerRestart
    <3> QED
      BY <1>0, <3>1 DEF Types, RecordTypes
  <2>4. pc' \in [Scan -> Point]
    BY <1>0, <1>2, Points DEF Types, CallTypes
  <2>5. CallTypes'
    BY <1>1, <2>4 DEF CallTypes
  <2>6. RecordTypes'
    BY <1>1, <2>2, <2>3 DEF RecordTypes, Judgement
  <2>7. SessionTypes' /\ ClearTypes' /\ RunsBegun'
    BY <1>0, <1>1, <2>1 DEF Types, SessionTypes, ClearTypes, RunsBegun
  <2> QED
    BY <2>5, <2>6, <2>7 DEF Types
<1>5. Epochs' /\ Judged' /\ DoomedRest' /\ ClearedStaysGone' /\ CancelSticks'
  BY <1>1 DEF Epochs, Judged, DoomedRest, ClearedStaysGone, CancelSticks
<1>6. SavesOnce' /\ InLine' /\ Fence' /\ Unjudged'
  BY <1>1, <1>2 DEF SavesOnce, Queued, InLine, Fence, Unjudged
<1>7. Pooled' /\ Backed'
  BY <1>1, <1>2, <1>3 DEF Pooled, Backed
<1> QED
  BY <1>4, <1>5, <1>6, <1>7 DEF ScanInv

-----------------------------------------------------------------------------
(* The theorems.                                                           *)

LEMMA StepKeeps == ScanInv /\ [ScannerNext]_scannerVars => ScanInv'
<1> SUFFICES ASSUME ScanInv, [ScannerNext]_scannerVars PROVE ScanInv'
  OBVIOUS
<1>1. ASSUME NEW s \in Scan, Start(s, FALSE) \/ Start(s, TRUE) PROVE ScanInv'
  BY <1>1, StartsKeep
<1>2. ASSUME NEW s \in Scan, Answer(s) PROVE ScanInv'
  BY <1>2, StartsKeep, ExecuteKeeps, SavedKeeps, ReadKeeps, CommitKeeps,
     AppendStepKeeps, AppendedKeeps DEF Answer
<1>3. ASSUME NEW s \in Scan, Worker(s) \/ Failure(s) PROVE ScanInv'
  BY <1>3, WorkerKeeps, StartsKeep, SaveFailsKeeps, ReadKeeps, AppendFailsKeeps
     DEF Worker, Failure
<1>4. CASE Cancel \/ Clear \/ ClearStep \/ ClearFails \/ ScannerRestart
  BY <1>4, CancelKeeps, ClearKeeps, DrainedKeeps, ClearEnds, RestartKeeps
     DEF ClearStep
<1>5. CASE UNCHANGED scannerVars
  BY <1>5 DEF scannerVars, session, runVars, locals, clearVars, stored,
       ScanInv, Types, SessionTypes, CallTypes, RecordTypes, ClearTypes, RunsBegun,
       Epochs, Judged, SavesOnce, InLine, HasTurn, Fence, Unjudged, DoomedRest,
       ClearedStaysGone, CancelSticks, Pooled, Backed, Active
<1> QED
  BY <1>1, <1>2, <1>3, <1>4, <1>5 DEF ScannerNext, ScannerStep

LEMMA InitKeeps == ScannerInit => ScanInv
<1> SUFFICES ASSUME ScannerInit PROVE ScanInv
  OBVIOUS
<1>1. Types
  <2>1. SessionTypes /\ RunsBegun
    BY DEF ScannerInit, InitSession, SessionTypes, RunsBegun
  <2>2. CallTypes
    BY DEF ScannerInit, CallTypes, Point
  <2>3. RecordTypes /\ ClearTypes
    BY DEF ScannerInit, RecordTypes, ClearTypes, Judgement
  <2> QED
    BY <2>1, <2>2, <2>3 DEF Types
<1>2. Epochs /\ Judged /\ DoomedRest /\ ClearedStaysGone /\ CancelSticks
  BY DEF ScannerInit, InitSession, Epochs, Judged, DoomedRest, ClearedStaysGone,
         CancelSticks
<1>3. SavesOnce /\ InLine /\ Fence /\ Unjudged
  BY DEF ScannerInit, SavesOnce, Queued, InLine, Fence, Unjudged
<1>4. Pooled /\ Backed
  BY DEF ScannerInit, Pooled, Backed
<1> QED
  BY <1>1, <1>2, <1>3, <1>4 DEF ScanInv

LEMMA ScanHolds == ScannerSpec => []ScanInv
BY InitKeeps, StepKeeps, PTL DEF ScannerSpec

(* Every variable keeps its type, and activeRun names a run whose record   *)
(* is written and which has not ended.                                     *)
THEOREM TypeCorrect == ScannerSpec => []TypeOK
<1>1. ScanInv => TypeOK
  BY DEF ScanInv, Types, SessionTypes, CallTypes, RecordTypes, ClearTypes, RunsBegun,
         TypeOK, Point, Running, Starting, Judgement
<1> QED
  BY <1>1, ScanHolds, PTL

(* No run that had begun before a clear() that has resolved brings entries *)
(* back: the line for the history and the epochs keep it out.              *)
THEOREM ClearedIsGone == ScannerSpec => []ClearedStaysGone
<1>1. ScanInv => ClearedStaysGone
  BY DEF ScanInv
<1> QED
  BY <1>1, ScanHolds, PTL

(* An accepted cancel() stays in force: whoever takes the request back     *)
(* ends the "cancelling" too.                                              *)
THEOREM CancelIsKept == ScannerSpec => []CancelSticks
<1>1. ScanInv => CancelSticks
  BY DEF ScanInv
<1> QED
  BY <1>1, ScanHolds, PTL

(* The record of a run in force says complete or partial only with the     *)
(* entries in the history and no target left.                              *)
THEOREM SuccessIsBacked == ScannerSpec => RecordsAreBacked
<1>1. ASSUME ScanInv, [ScannerNext]_scannerVars, NEW s \in Scan,
             row'[s] # row[s], row'[s] \in {"complete", "partial"}, Active(s)
      PROVE  s \in history /\ left[s] = 0 /\ busy[s] = 0
  <2>0. Types /\ Backed
    BY <1>1 DEF ScanInv
  <2>1. ASSUME NEW r \in Scan, row' \in {row, Recorded(r)}
        PROVE  row'[s] = verdict[s]
    BY <1>1, <2>0, <2>1 DEF Recorded, Types, RecordTypes
  <2>2. ASSUME ScannerRestart PROVE row'[s] = verdict[s]
    <3>1. PICK landed \in {row} \cup {Recorded(r) : r \in {t \in Scan : Writing(t)}} :
             row' = [r \in Scan |-> IF landed[r] = "running" THEN "cancelled"
                                    ELSE landed[r]]
      BY <2>2 DEF ScannerRestart
    <3>2. landed[s] = row'[s]
      BY <1>1, <3>1
    <3>3. PICK r \in Scan : landed = Recorded(r)
      BY <1>1, <3>1, <3>2
    <3> QED
      BY <1>1, <2>0, <3>2, <3>3 DEF Recorded, Types, RecordTypes
  <2>3. row'[s] = verdict[s]
    <3>1. CASE \E r \in Scan : Saved(r) \/ SaveFails(r)
      BY <2>1, <3>1 DEF Saved, SaveFails
    <3>2. CASE ~\E r \in Scan : Saved(r) \/ SaveFails(r)
      BY <1>1, <2>2, <3>2
         DEF ScannerNext, ScannerStep, Answer, Worker, Failure, ClearStep, Start,
             Modelled, Listed, StartFails, Execute, NoTarget, Read, ReadFails, Pick,
             Scanned, Commit, AppendStep, Appended, AppendFails, Cancel, Clear,
             Drained, Cleared, ClearFails, scannerVars, stored
    <3> QED
      BY <3>1, <3>2
  <2> QED
    BY <1>1, <2>0, <2>3 DEF Backed
<1>2. ScanInv /\ [ScannerNext]_scannerVars
        => [\A s \in Scan :
              row'[s] # row[s] /\ row'[s] \in {"complete", "partial"} /\ Active(s)
                  => s \in history /\ left[s] = 0 /\ busy[s] = 0]_scannerVars
  BY <1>1
<1> QED
  BY <1>2, ScanHolds, PTL DEF ScannerSpec, RecordsAreBacked

=============================================================================
