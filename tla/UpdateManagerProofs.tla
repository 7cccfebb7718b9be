------------------------- MODULE UpdateManagerProofs -------------------------
(***************************************************************************)
(* Proofs about UpdateManager, for every set of calls and every bound on   *)
(* releases and restarts.                                                  *)
(***************************************************************************)
EXTENDS UpdateManager, TLAPS

-----------------------------------------------------------------------------
(* The inductive invariant, in named parts.                                *)

(* Who resolves an artifact has one.                                       *)
ResolvesOne == \A c \in Call : pc[c] = "resolving" => art[c] # 0

TypeInv == TypeOK /\ ResolvesOne

Active(c) == pc[c] \in Checking \cup Downloading

(* One call at a time is in a check or a download.                         *)
Sole == \A c, d \in Call : Active(c) /\ Active(d) => c = d

(* What the active call has to itself: the status and the version, the     *)
(* file it streams to, and that no installer is offered but the one it     *)
(* compares.                                                               *)
Own(c) ==
    /\ pc[c] \in {"comparing", "discarding"} => status = "downloaded"
    /\ pc[c] = "comparing" => art[c] = version
    /\ pc[c] \in {"fetching", "resolving"} => status = "checking"
    /\ pc[c] \in Downloading => status = "downloading" /\ art[c] = version
    /\ pc[c] = "streaming" => file.by = c /\ file.of = art[c]
    /\ Active(c) /\ pc[c] # "comparing" => ~path

(* An installer that is offered is whole and the one of what is shown.     *)
Offered == path => status = "downloaded" /\ file.whole /\ file.of = version

Undisturbed == Sole /\ (\A c \in Call : Own(c)) /\ Offered

UpdateInv == TypeInv /\ (~overlapped => Undisturbed)

USE UpdateAssumption, CallAssumption

-----------------------------------------------------------------------------
(* Types.                                                                  *)

Point == {"idle", "chaining"} \cup Checking \cup Downloading
File == [of : 0..MaxVersion, whole : BOOLEAN, by : Call \cup {NoCall}]

(* The calls' part and the updater's part.                                 *)
CallTypes ==
    /\ pc \in [Call -> Point]
    /\ auto \in [Call -> BOOLEAN]
    /\ art \in [Call -> 0..MaxVersion]
    /\ discarded \in [Call -> BOOLEAN]
ArtSet == \A c \in Call : pc[c] \in Downloading \cup {"resolving"} => art[c] # 0
StateTypes ==
    /\ remote \in 0..MaxVersion
    /\ status \in Status
    /\ version \in 0..MaxVersion
    /\ expected \in 0..MaxVersion
    /\ path \in BOOLEAN
    /\ overlapped \in BOOLEAN
    /\ restarts \in 0..MaxRestarts
    /\ status = "available" => version # 0

LEMMA TypeParts == TypeInv <=> CallTypes /\ ArtSet /\ StateTypes /\ file \in File
BY DEF TypeInv, TypeOK, ResolvesOne, CallTypes, ArtSet, StateTypes, Point, File,
       Checking, Downloading

LEMMA TypePartsNext ==
    CallTypes' /\ ArtSet' /\ StateTypes' /\ file' \in File => TypeInv'
BY DEF TypeInv, TypeOK, ResolvesOne, CallTypes, ArtSet, StateTypes, Point, File,
       Checking, Downloading

LEMMA Points ==
    /\ "idle" \in Point /\ "chaining" \in Point /\ "comparing" \in Point
    /\ "discarding" \in Point /\ "fetching" \in Point /\ "resolving" \in Point
    /\ "verifying" \in Point /\ "connecting" \in Point /\ "preparing" \in Point
    /\ "unlinking" \in Point /\ "creating" \in Point
    /\ "streaming" \in Point /\ "cleaning" \in Point
    /\ \A x : x \in Downloading <=> x \in {"verifying", "connecting", "preparing",
                                          "unlinking", "creating", "streaming",
                                          "cleaning"}
BY DEF Point, Checking, Downloading

LEMMA FileEnds ==
    ASSUME NEW f \in File
    PROVE  /\ [f EXCEPT !.by = NoCall] \in File
           /\ [f EXCEPT !.whole = TRUE, !.by = NoCall] \in File
BY DEF File

LEMMA FileBegins ==
    /\ NoFile \in File
    /\ \A c \in Call, v \in 0..MaxVersion :
          [of |-> v, whole |-> FALSE, by |-> c] \in File
BY DEF File, NoFile

(* A step of a call moves it and leaves the others where they are.         *)
LEMMA Goes ==
    ASSUME CallTypes, NEW c \in Call, NEW w \in Point, Goto(c, w)
    PROVE  /\ pc' \in [Call -> Point] /\ pc'[c] = w
           /\ \A d \in Call : d # c => pc'[d] = pc[d]
BY DEF CallTypes, Goto

LEMMA TypeStep == TypeInv /\ [Next]_vars => TypeInv'
<1> SUFFICES ASSUME TypeInv, [Next]_vars PROVE TypeInv'
  OBVIOUS
<1>0. CallTypes /\ ArtSet /\ StateTypes /\ file \in File
  BY TypeParts
<1> SUFFICES CallTypes' /\ ArtSet' /\ StateTypes' /\ file' \in File
  BY TypePartsNext
<1>1. ASSUME NEW c \in Call, NEW timer \in BOOLEAN, Check(c, timer)
      PROVE  CallTypes' /\ ArtSet' /\ StateTypes' /\ file' \in File
  <2> USE <1>0 DEF CallTypes
  <2>0. 0 \in 0..MaxVersion
    OBVIOUS
  <2>1a. pc' \in [Call -> Point]
    BY <1>1, Goes, Points DEF Check, Forget
  <2>1b. art' \in [Call -> 0..MaxVersion]
    BY <1>1, <2>0 DEF Check, Forget, StateTypes
  <2>1c. auto' \in [Call -> BOOLEAN] /\ discarded' \in [Call -> BOOLEAN]
    BY <1>1 DEF Check, Forget
  <2>1. CallTypes'
    BY <2>1a, <2>1b, <2>1c
  <2>2. ArtSet'
    BY <1>1, Points DEF Check, Forget, ArtSet, Goto, StateTypes
  <2>3a. path' \in BOOLEAN /\ overlapped' \in BOOLEAN
    BY <1>1 DEF Check, Forget, StateTypes
  <2>3b. /\ remote' \in 0..MaxVersion /\ restarts' \in 0..MaxRestarts
         /\ expected' \in 0..MaxVersion
    BY <1>1, <2>0 DEF Check, Forget, StateTypes
  <2>3c. /\ status' \in Status /\ version' \in 0..MaxVersion
         /\ status' = "available" => version' # 0
    BY <1>1, <2>0 DEF Check, Forget, StateTypes, SetState, state, Status
  <2>3. StateTypes'
    BY <2>3a, <2>3b, <2>3c DEF StateTypes
  <2>4. file' \in File
    BY <1>1 DEF Check, Forget
  <2> QED
    BY <2>1, <2>2, <2>3, <2>4
<1>2. ASSUME NEW c \in Call, Compared(c)
      PROVE  CallTypes' /\ ArtSet' /\ StateTypes' /\ file' \in File
  <2> USE <1>0 DEF CallTypes
  <2>0. 0 \in 0..MaxVersion
    OBVIOUS
  <2>1a. pc' \in [Call -> Point]
    BY <1>2, Goes, Points DEF Compared
  <2>1b. art' \in [Call -> 0..MaxVersion]
    BY <1>2, <2>0 DEF Compared, StateTypes
  <2>1c. auto' \in [Call -> BOOLEAN] /\ discarded' \in [Call -> BOOLEAN]
    BY <1>2 DEF Compared
  <2>1. CallTypes'
    BY <2>1a, <2>1b, <2>1c
  <2>2. ArtSet'
    BY <1>2, Points DEF Compared, ArtSet, Goto, StateTypes
  <2>3a. path' \in BOOLEAN /\ overlapped' \in BOOLEAN
    BY <1>2 DEF Compared, StateTypes
  <2>3b. /\ remote' \in 0..MaxVersion /\ restarts' \in 0..MaxRestarts
         /\ expected' \in 0..MaxVersion
    BY <1>2, <2>0 DEF Compared, StateTypes
  <2>3c. /\ status' \in Status /\ version' \in 0..MaxVersion
         /\ status' = "available" => version' # 0
    BY <1>2, <2>0 DEF Compared, StateTypes, SetState, state, Status
  <2>3. StateTypes'
    BY <2>3a, <2>3b, <2>3c DEF StateTypes
  <2>4. file' \in File
    BY <1>2 DEF Compared
  <2> QED
    BY <2>1, <2>2, <2>3, <2>4
<1>3. ASSUME NEW c \in Call, Discarded(c)
      PROVE  CallTypes' /\ ArtSet' /\ StateTypes' /\ file' \in File
  <2>1. CallTypes'
    BY <1>0, <1>3, Goes, Points DEF Discarded, Unlink, CallTypes
  <2>2. ArtSet'
    BY <1>0, <1>3, Points DEF Discarded, Unlink, ArtSet, CallTypes, Goto
  <2>3. StateTypes'
    BY <1>0, <1>3, Points DEF Discarded, Unlink, StateTypes, SetState, state, Status
  <2>4. file' \in File
    BY <1>0, <1>3, FileEnds, FileBegins DEF Discarded, Unlink
  <2> QED
    BY <2>1, <2>2, <2>3, <2>4
<1>4. ASSUME NEW c \in Call, Fetched(c)
      PROVE  CallTypes' /\ ArtSet' /\ StateTypes' /\ file' \in File
  <2> USE <1>0 DEF CallTypes
  <2>0. 0 \in 0..MaxVersion
    OBVIOUS
  <2>1a. pc' \in [Call -> Point]
    BY <1>4, Goes, Points DEF Fetched
  <2>1b. art' \in [Call -> 0..MaxVersion]
    BY <1>4, <2>0 DEF Fetched, StateTypes
  <2>1c. auto' \in [Call -> BOOLEAN] /\ discarded' \in [Call -> BOOLEAN]
    BY <1>4 DEF Fetched
  <2>1. CallTypes'
    BY <2>1a, <2>1b, <2>1c
  <2>2. ArtSet'
    BY <1>4, Points DEF Fetched, ArtSet, Goto, StateTypes
  <2>3a. path' \in BOOLEAN /\ overlapped' \in BOOLEAN
    BY <1>4 DEF Fetched, StateTypes
  <2>3b. /\ remote' \in 0..MaxVersion /\ restarts' \in 0..MaxRestarts
         /\ expected' \in 0..MaxVersion
    BY <1>4, <2>0 DEF Fetched, StateTypes
  <2>3c. /\ status' \in Status /\ version' \in 0..MaxVersion
         /\ status' = "available" => version' # 0
    BY <1>4, <2>0 DEF Fetched, StateTypes, SetState, state, Status
  <2>3. StateTypes'
    BY <2>3a, <2>3b, <2>3c DEF StateTypes
  <2>4. file' \in File
    BY <1>4 DEF Fetched
  <2> QED
    BY <2>1, <2>2, <2>3, <2>4
<1>5. ASSUME NEW c \in Call, Resolved(c)
      PROVE  CallTypes' /\ ArtSet' /\ StateTypes' /\ file' \in File
  <2>1. CallTypes'
    BY <1>0, <1>5, Goes, Points DEF Resolved, CallTypes
  <2>2. ArtSet'
    BY <1>0, <1>5, Points DEF Resolved, ArtSet, CallTypes, Goto
  <2>3. StateTypes'
    BY <1>0, <1>5, Points DEF Resolved, StateTypes, SetState, state, Status, ArtSet, CallTypes
  <2>4. file' \in File
    BY <1>0, <1>5, FileEnds, FileBegins DEF Resolved
  <2> QED
    BY <2>1, <2>2, <2>3, <2>4
<1>6. ASSUME NEW c \in Call, Download(c)
      PROVE  CallTypes' /\ ArtSet' /\ StateTypes' /\ file' \in File
  <2> USE <1>0 DEF CallTypes
  <2>0. 0 \in 0..MaxVersion
    OBVIOUS
  <2>1a. pc' \in [Call -> Point]
    BY <1>6, Goes, Points DEF Download, CanDownload
  <2>1b. art' \in [Call -> 0..MaxVersion]
    BY <1>6, <2>0 DEF Download, CanDownload, StateTypes
  <2>1c. auto' \in [Call -> BOOLEAN] /\ discarded' \in [Call -> BOOLEAN]
    BY <1>6 DEF Download, CanDownload
  <2>1. CallTypes'
    BY <2>1a, <2>1b, <2>1c
  <2>2. ArtSet'
    BY <1>6, Points DEF Download, CanDownload, ArtSet, Goto, StateTypes
  <2>3a. path' \in BOOLEAN /\ overlapped' \in BOOLEAN
    BY <1>6 DEF Download, CanDownload, StateTypes
  <2>3b. /\ remote' \in 0..MaxVersion /\ restarts' \in 0..MaxRestarts
         /\ expected' \in 0..MaxVersion
    BY <1>6, <2>0 DEF Download, CanDownload, StateTypes
  <2>3c. /\ status' \in Status /\ version' \in 0..MaxVersion
         /\ status' = "available" => version' # 0
    BY <1>6, <2>0 DEF Download, CanDownload, StateTypes, SetState, state, Status
  <2>3. StateTypes'
    BY <2>3a, <2>3b, <2>3c DEF StateTypes
  <2>4. file' \in File
    BY <1>6 DEF Download, CanDownload
  <2> QED
    BY <2>1, <2>2, <2>3, <2>4
<1>7. ASSUME NEW c \in Call, ChainEnds(c)
      PROVE  CallTypes' /\ ArtSet' /\ StateTypes' /\ file' \in File
  <2>1. CallTypes'
    BY <1>0, <1>7, Goes, Points DEF ChainEnds, CallTypes
  <2>2. ArtSet'
    BY <1>0, <1>7, Points DEF ChainEnds, ArtSet, CallTypes, Goto
  <2>3. StateTypes'
    BY <1>0, <1>7, Points DEF ChainEnds, StateTypes, SetState, state, Status
  <2>4. file' \in File
    BY <1>0, <1>7, FileEnds, FileBegins DEF ChainEnds
  <2> QED
    BY <2>1, <2>2, <2>3, <2>4
<1>8. ASSUME NEW c \in Call, Verify(c)
      PROVE  CallTypes' /\ ArtSet' /\ StateTypes' /\ file' \in File
  <2>1. CallTypes'
    BY <1>0, <1>8, Goes, Points DEF Verify, Finish, CallTypes
  <2>2. ArtSet'
    BY <1>0, <1>8, Points DEF Verify, Finish, ArtSet, CallTypes, Goto
  <2>3. StateTypes'
    BY <1>0, <1>8, Points DEF Verify, Finish, StateTypes, SetState, state, Status
  <2>4. file' \in File
    BY <1>0, <1>8, FileEnds, FileBegins DEF Verify, Finish
  <2> QED
    BY <2>1, <2>2, <2>3, <2>4
<1>9. ASSUME NEW c \in Call, Connected(c)
      PROVE  CallTypes' /\ ArtSet' /\ StateTypes' /\ file' \in File
  <2>1. CallTypes'
    BY <1>0, <1>9, Goes, Points DEF Connected, Finish, CallTypes
  <2>2. ArtSet'
    BY <1>0, <1>9, Points DEF Connected, Finish, ArtSet, CallTypes, Goto
  <2>3. StateTypes'
    BY <1>0, <1>9, Points DEF Connected, Finish, StateTypes, SetState, state, Status
  <2>4. file' \in File
    BY <1>0, <1>9, FileEnds, FileBegins DEF Connected, Finish
  <2> QED
    BY <2>1, <2>2, <2>3, <2>4
<1>9a. ASSUME NEW c \in Call, Prepared(c)
      PROVE  CallTypes' /\ ArtSet' /\ StateTypes' /\ file' \in File
  <2>1. CallTypes'
    BY <1>0, <1>9a, Goes, Points DEF Prepared, Finish, CallTypes
  <2>2. ArtSet'
    BY <1>0, <1>9a, Points DEF Prepared, Finish, ArtSet, CallTypes, Goto
  <2>3. StateTypes'
    BY <1>0, <1>9a, Points DEF Prepared, Finish, StateTypes, SetState, state, Status
  <2>4. file' \in File
    BY <1>0, <1>9a DEF Prepared, Finish
  <2> QED
    BY <2>1, <2>2, <2>3, <2>4
<1>9b. ASSUME NEW c \in Call, Unlinked(c)
      PROVE  CallTypes' /\ ArtSet' /\ StateTypes' /\ file' \in File
  <2>1. CallTypes'
    BY <1>0, <1>9b, Goes, Points DEF Unlinked, CallTypes
  <2>2. ArtSet'
    BY <1>0, <1>9b, Points DEF Unlinked, ArtSet, CallTypes, Goto
  <2>3. StateTypes'
    BY <1>0, <1>9b, Points DEF Unlinked, StateTypes, SetState, state, Status
  <2>4. file' \in File
    BY <1>0, <1>9b, FileBegins DEF Unlinked, Unlink
  <2> QED
    BY <2>1, <2>2, <2>3, <2>4
<1>10. ASSUME NEW c \in Call, Created(c)
      PROVE  CallTypes' /\ ArtSet' /\ StateTypes' /\ file' \in File
  <2>1. CallTypes'
    BY <1>0, <1>10, Goes, Points DEF Created, CallTypes
  <2>2. ArtSet'
    BY <1>0, <1>10, Points DEF Created, ArtSet, CallTypes, Goto
  <2>3. StateTypes'
    BY <1>0, <1>10, Points DEF Created, StateTypes, SetState, state, Status
  <2>4. file' \in File
    <3>1. art[c] \in 0..MaxVersion
      BY <1>0 DEF CallTypes
    <3> QED
      BY <1>0, <1>10, <3>1, FileBegins DEF Created
  <2> QED
    BY <2>1, <2>2, <2>3, <2>4
<1>11. ASSUME NEW c \in Call, Streamed(c)
      PROVE  CallTypes' /\ ArtSet' /\ StateTypes' /\ file' \in File
  <2>1. CallTypes'
    BY <1>0, <1>11, Goes, Points DEF Streamed, Finish, CallTypes
  <2>2. ArtSet'
    BY <1>0, <1>11, Points DEF Streamed, Finish, ArtSet, CallTypes, Goto
  <2>3. StateTypes'
    BY <1>0, <1>11, Points DEF Streamed, Finish, StateTypes, SetState, state, Status
  <2>4. file' \in File
    BY <1>0, <1>11, FileEnds, FileBegins DEF Streamed, Finish
  <2> QED
    BY <2>1, <2>2, <2>3, <2>4
<1>12. ASSUME NEW c \in Call, StreamFails(c)
      PROVE  CallTypes' /\ ArtSet' /\ StateTypes' /\ file' \in File
  <2>1. CallTypes'
    BY <1>0, <1>12, Goes, Points DEF StreamFails, CallTypes
  <2>2. ArtSet'
    BY <1>0, <1>12, Points DEF StreamFails, ArtSet, CallTypes, Goto
  <2>3. StateTypes'
    BY <1>0, <1>12, Points DEF StreamFails, StateTypes, SetState, state, Status
  <2>4. file' \in File
    BY <1>0, <1>12, FileEnds, FileBegins DEF StreamFails
  <2> QED
    BY <2>1, <2>2, <2>3, <2>4
<1>13. ASSUME NEW c \in Call, Cleaned(c)
      PROVE  CallTypes' /\ ArtSet' /\ StateTypes' /\ file' \in File
  <2>1. CallTypes'
    BY <1>0, <1>13, Goes, Points DEF Cleaned, Finish, Unlink, CallTypes
  <2>2. ArtSet'
    BY <1>0, <1>13, Points DEF Cleaned, Finish, Unlink, ArtSet, CallTypes, Goto
  <2>3. StateTypes'
    BY <1>0, <1>13, Points DEF Cleaned, Finish, Unlink, StateTypes, SetState, state, Status
  <2>4. file' \in File
    BY <1>0, <1>13, FileEnds, FileBegins DEF Cleaned, Finish, Unlink
  <2> QED
    BY <2>1, <2>2, <2>3, <2>4
<1>14. ASSUME NEW c \in Call, Progress(c)
      PROVE  CallTypes' /\ ArtSet' /\ StateTypes' /\ file' \in File
  <2>1. CallTypes'
    BY <1>0, <1>14, Goes, Points DEF Progress, calls, CallTypes
  <2>2. ArtSet'
    BY <1>0, <1>14, Points DEF Progress, calls, ArtSet, CallTypes, Goto
  <2>3. StateTypes'
    BY <1>0, <1>14, Points DEF Progress, calls, StateTypes, SetState, state, Status
  <2>4. file' \in File
    BY <1>0, <1>14, FileEnds, FileBegins DEF Progress, calls
  <2> QED
    BY <2>1, <2>2, <2>3, <2>4
<1>15. CASE Publish
  BY <1>0, <1>15 DEF Publish, state, calls, CallTypes, ArtSet, StateTypes
<1>16. CASE Restart
  <2>0. 0 \in 0..MaxVersion /\ restarts' \in 0..MaxRestarts
    BY <1>0, <1>16 DEF Restart, StateTypes
  <2>1. CallTypes' /\ ArtSet'
    BY <1>16, <2>0, Points DEF Restart, CallTypes, ArtSet
  <2>2. StateTypes'
    BY <1>0, <1>16, <2>0 DEF Restart, SetState, StateTypes, Status
  <2>3. file' \in File
    BY <1>0, <1>16, FileEnds DEF Restart
  <2> QED
    BY <2>1, <2>2, <2>3
<1>17. CASE UNCHANGED vars
  BY <1>0, <1>17 DEF vars, state, calls, CallTypes, ArtSet, StateTypes
<1> QED
  BY <1>1, <1>2, <1>3, <1>4, <1>5, <1>6, <1>7, <1>8, <1>9, <1>9a, <1>9b, <1>10, <1>11,
     <1>12, <1>13, <1>14, <1>15, <1>16, <1>17 DEF Next, CallStep

-----------------------------------------------------------------------------
(* One call at a time.                                                     *)

(* While the others rest, it is enough to look at the call that moves.     *)
LEMMA Alone ==
    ASSUME NEW c \in Call, \A d \in Call : d # c => ~Active(d) /\ pc'[d] = pc[d],
           Own(c)', Offered'
    PROVE  Undisturbed'
<1>1. \A d \in Call : d # c => ~Active(d)'
  BY DEF Active
<1>2. Sole'
  BY <1>1 DEF Sole
<1>3. ASSUME NEW d \in Call, d # c PROVE Own(d)'
  BY <1>1, <1>3 DEF Own, Active, Checking, Downloading
<1> QED
  BY <1>2, <1>3 DEF Undisturbed

(* Who is active has the status to itself; who begins finds nobody active. *)
LEMMA OthersRest ==
    ASSUME TypeInv, Undisturbed, NEW c \in Call,
           \/ Active(c)
           \/ status = "available"
           \/ /\ status \notin {"checking", "downloading"}
              /\ \A d \in Call : pc[d] \notin {"comparing", "discarding"}
    PROVE  \A d \in Call : d # c => ~Active(d)
BY DEF Undisturbed, Sole, Own, Active, Checking, Downloading

LEMMA CallKeeps ==
    ASSUME TypeInv, Undisturbed, NEW c \in Call,
           \/ \E timer \in BOOLEAN : Check(c, timer)
           \/ Download(c) \/ CallStep(c) \/ Progress(c),
           ~overlapped'
    PROVE  Undisturbed'
<1>0. CallTypes /\ Own(c) /\ Offered /\ file \in File
  BY TypeParts DEF Undisturbed
<1> USE <1>0 DEF CallTypes
<1>a. ASSUME NEW w \in Point, Goto(c, w)
      PROVE  pc'[c] = w /\ \A d \in Call : d # c => pc'[d] = pc[d]
  BY <1>a, Goes
<1>1. ASSUME NEW timer \in BOOLEAN, Check(c, timer) PROVE Undisturbed'
  <2>1. \A d \in Call : d # c => ~Active(d)
    BY <1>1, OthersRest DEF Check
  <2>2. CASE status = "downloaded" /\ path
    <3>1. pc'[c] = "comparing" /\ \A d \in Call : d # c => pc'[d] = pc[d]
      BY <1>1, <1>a, <2>2, Points DEF Check
    <3>2. art'[c] = version /\ UNCHANGED <<status, version, path, file>>
      BY <1>1, <2>2 DEF Check, state
    <3> QED
      BY <2>1, <2>2, <3>1, <3>2, Alone DEF Own, Offered, Downloading
  <2>3. CASE ~(status = "downloaded" /\ path)
    <3>1. ~path
      BY <2>3 DEF Offered
    <3>2. pc'[c] = "fetching" /\ \A d \in Call : d # c => pc'[d] = pc[d]
      BY <1>1, <1>a, <2>3, <3>1, Points DEF Check, Forget
    <3>3. status' = "checking" /\ ~path'
      BY <1>1, <2>3, <3>1 DEF Check, Forget, SetState
    <3> QED
      BY <2>1, <3>2, <3>3, Alone DEF Own, Offered, Downloading
  <2> QED
    BY <2>2, <2>3
<1>2. CASE Download(c)
  <2>1. \A d \in Call : d # c => ~Active(d)
    BY <1>2, OthersRest DEF Download, CanDownload
  <2>2. ~path /\ ~path' /\ UNCHANGED file
    BY <1>2 DEF Download, CanDownload, Offered
  <2>3. CASE version = expected
    <3>1. pc'[c] = "verifying" /\ \A d \in Call : d # c => pc'[d] = pc[d]
      BY <1>2, <1>a, <2>3, Points DEF Download
    <3>2. status' = "downloading" /\ art'[c] = version'
      BY <1>2, <2>3 DEF Download, SetState
    <3> QED
      BY <2>1, <2>2, <3>1, <3>2, Alone DEF Own, Offered
  <2>4. CASE version # expected
    <3>1. pc'[c] = "idle" /\ \A d \in Call : d # c => pc'[d] = pc[d]
      BY <1>2, <1>a, <2>4, Points DEF Download
    <3> QED
      BY <2>1, <2>2, <3>1, Alone DEF Own, Offered, Active, Downloading
  <2> QED
    BY <2>3, <2>4
<1>3. CASE ChainEnds(c)
  <2>1. /\ pc[c] = "chaining" /\ pc'[c] = "idle"
        /\ \A d \in Call : d # c => pc'[d] = pc[d]
        /\ UNCHANGED <<status, version, path, file, art>>
    BY <1>3, <1>a, Points DEF ChainEnds, state
  <2>2. \A d \in Call : Active(d)' => Active(d) /\ d # c
    BY <2>1 DEF Active, Checking, Downloading
  <2> QED
    BY <2>1, <2>2 DEF Undisturbed, Sole, Own, Offered, Downloading
<1>4. ASSUME Active(c), Offered', NEW w \in Point, Goto(c, w), Own(c)'
      PROVE  Undisturbed'
  BY <1>4, <1>a, OthersRest, Alone
<1>5. CASE Compared(c)
  <2>1. CASE Goto(c, "idle") /\ UNCHANGED <<expected, path, discarded>>
    BY <1>4, <1>5, <1>a, <2>1, Points
       DEF Compared, Own, Offered, Active, Checking, Downloading, state
  <2>2. CASE Goto(c, "discarding") /\ path' = FALSE
    BY <1>4, <1>5, <1>a, <2>2, Points
       DEF Compared, Own, Offered, Active, Checking, Downloading, state
  <2> QED
    BY <1>5, <2>1, <2>2 DEF Compared
<1>6. CASE Discarded(c)
  BY <1>4, <1>6, <1>a, Points
     DEF Discarded, Own, Offered, Active, Checking, Downloading, SetState
<1>7. CASE Fetched(c)
  <2>1. /\ pc[c] = "fetching" /\ ~path /\ UNCHANGED path
        /\ \/ Goto(c, "idle")
           \/ Goto(c, "resolving") /\ UNCHANGED status /\ status = "checking"
    BY <1>7 DEF Fetched, Own, Active, Checking, Downloading, state
  <2> QED
    BY <1>4, <1>a, <2>1, Points DEF Own, Offered, Active, Checking, Downloading
<1>8. CASE Resolved(c)
  <2>1. /\ pc[c] = "resolving" /\ ~path /\ UNCHANGED path
        /\ Goto(c, "idle") \/ Goto(c, "chaining")
    BY <1>8 DEF Resolved, Own, Active, Checking, Downloading
  <2> QED
    BY <1>4, <1>a, <2>1, Points DEF Own, Offered, Active, Checking, Downloading
<1>9. CASE Verify(c)
  <2>1. pc[c] = "verifying" /\ art[c] = version /\ status = "downloading" /\ ~path
    BY <1>9 DEF Verify, Own, Active, Downloading
  <2>2. CASE file.whole /\ file.of = art[c]
    BY <1>4, <1>9, <1>a, <2>1, <2>2, Points
       DEF Verify, Finish, SetState, Own, Offered, Active, Downloading, Checking
  <2>3. CASE ~(file.whole /\ file.of = art[c])
    BY <1>4, <1>9, <1>a, <2>1, <2>3, Points
       DEF Verify, state, Own, Offered, Active, Downloading, Checking
  <2> QED
    BY <2>2, <2>3
<1>10. CASE Connected(c)
  <2>1. pc[c] = "connecting" /\ art[c] = version /\ ~path /\ UNCHANGED <<path, version>>
    BY <1>10 DEF Connected, Finish, SetState, Own, Active, Downloading
  <2>2. \/ status' = "downloading" /\ Goto(c, "preparing") /\ UNCHANGED art
        \/ Goto(c, "idle")
    BY <1>10 DEF Connected, Finish, SetState
  <2> QED
    BY <1>4, <1>a, <2>1, <2>2, Points DEF Own, Offered, Active, Downloading, Checking
<1>10a. CASE Prepared(c) \/ Unlinked(c)
  <2>1. /\ pc[c] \in {"preparing", "unlinking"} /\ art[c] = version
        /\ status = "downloading" /\ ~path /\ UNCHANGED <<path, version>>
    BY <1>10a DEF Prepared, Unlinked, Finish, SetState, Own, Active, Downloading, state
  <2>2. \/ /\ Goto(c, "unlinking") \/ Goto(c, "creating")
           /\ UNCHANGED <<status, art>>
        \/ Goto(c, "idle")
    BY <1>10a DEF Prepared, Unlinked, Finish, state
  <2> QED
    BY <1>4, <1>a, <2>1, <2>2, Points DEF Own, Offered, Active, Downloading, Checking
<1>11. CASE Created(c)
  <2>1. pc[c] = "creating" /\ art[c] = version /\ status = "downloading" /\ ~path
        /\ UNCHANGED <<status, version, path, art>>
    BY <1>11 DEF Created, Own, Active, Downloading, state
  <2>2. \/ file'.of = art[c] /\ file'.by = c /\ Goto(c, "streaming")
        \/ Goto(c, "cleaning")
    BY <1>11 DEF Created
  <2> QED
    BY <1>4, <1>a, <2>1, <2>2, Points DEF Own, Offered, Active, Downloading, Checking
<1>12. CASE Streamed(c)
  <2>1. /\ pc[c] = "streaming" /\ file.by = c /\ file.of = version
        /\ UNCHANGED version
    BY <1>12 DEF Streamed, Finish, SetState, Own, Active, Downloading
  <2>2. file'.whole /\ file'.of = version
    BY <1>12, <2>1 DEF Streamed, File
  <2>3. status' = "downloaded" /\ Goto(c, "idle")
    BY <1>12 DEF Streamed, Finish, SetState
  <2> QED
    BY <1>4, <1>a, <2>1, <2>2, <2>3, Points
       DEF Own, Offered, Active, Downloading, Checking
<1>13. CASE StreamFails(c)
  <2>1. pc[c] = "streaming" /\ art[c] = version /\ status = "downloading" /\ ~path
        /\ UNCHANGED <<status, version, path, art>> /\ Goto(c, "cleaning")
    BY <1>13 DEF StreamFails, Own, Active, Downloading, state
  <2> QED
    BY <1>4, <1>a, <2>1, Points DEF Own, Offered, Active, Downloading, Checking
<1>14. CASE Cleaned(c)
  <2>1. pc[c] = "cleaning" /\ ~path /\ UNCHANGED path /\ Goto(c, "idle")
    BY <1>14 DEF Cleaned, Finish, Own, Active, Downloading
  <2> QED
    BY <1>4, <1>a, <2>1, Points DEF Own, Offered, Active, Downloading, Checking
<1>15. CASE Progress(c)
  BY <1>15 DEF Progress, Own, Downloading
<1> QED
  BY <1>1, <1>2, <1>3, <1>5, <1>6, <1>7, <1>8, <1>9, <1>10, <1>10a, <1>11, <1>12,
     <1>13, <1>14, <1>15 DEF CallStep

LEMMA StepKeeps == UpdateInv /\ [Next]_vars => UpdateInv'
<1> SUFFICES ASSUME UpdateInv, [Next]_vars, ~overlapped' PROVE Undisturbed'
  BY TypeStep DEF UpdateInv
<1>1. ASSUME ~overlapped, UNCHANGED <<state, path, file, calls>> PROVE Undisturbed'
  BY <1>1 DEF UpdateInv, Undisturbed, Sole, Own, Offered, Active, state, calls
<1>2. ASSUME NEW c \in Call,
             \/ \E timer \in BOOLEAN : Check(c, timer)
             \/ Download(c) \/ CallStep(c) \/ Progress(c)
      PROVE  Undisturbed'
  <2>1. ~overlapped
    BY <1>2 DEF Check, Download, CallStep, Progress, Compared, Discarded, Fetched,
                Resolved, ChainEnds, Verify, Connected, Prepared, Unlinked, Created, Streamed,
                StreamFails, Cleaned
  <2> QED
    BY <1>2, <2>1, CallKeeps DEF UpdateInv
<1>3. CASE Publish
  BY <1>1, <1>3 DEF Publish
<1>4. CASE Restart
  BY <1>4 DEF Restart, Undisturbed, Sole, Own, Offered, Active, Checking, Downloading
<1>5. CASE UNCHANGED vars
  BY <1>1, <1>5 DEF vars
<1> QED
  BY <1>2, <1>3, <1>4, <1>5 DEF Next

LEMMA InitKeeps == Init => UpdateInv
<1> SUFFICES ASSUME Init PROVE UpdateInv
  OBVIOUS
<1>1. 0 \in 0..MaxVersion /\ 0 \in 0..MaxRestarts /\ 1..MaxVersion \subseteq 0..MaxVersion
  OBVIOUS
<1>2. CallTypes /\ ArtSet /\ StateTypes
  <2>1. CallTypes /\ ArtSet
    BY <1>1, Points DEF Init, CallTypes, ArtSet
  <2>2. StateTypes
    BY <1>1 DEF Init, StateTypes, Status
  <2> QED
    BY <2>1, <2>2
<1>3. file \in File
  BY <1>1, FileBegins DEF Init, Left, File
<1>4. Undisturbed
  BY DEF Init, Undisturbed, Sole, Own, Offered, Active, Checking, Downloading
<1> QED
  BY <1>2, <1>3, <1>4, TypeParts DEF UpdateInv

LEMMA UpdateHolds == Spec => []UpdateInv
BY InitKeeps, StepKeeps, PTL DEF Spec

-----------------------------------------------------------------------------
(* The theorems.                                                           *)

(* Every variable keeps its type.                                          *)
THEOREM TypeCorrect == Spec => []TypeOK
<1>1. UpdateInv => TypeOK
  BY DEF UpdateInv, TypeInv
<1> QED
  BY <1>1, UpdateHolds, PTL

(* What restartToInstallNow() hands over is the whole, verified installer  *)
(* of the version that is shown, unless two checks have looked at a        *)
(* waiting installer at once.                                              *)
THEOREM VerifiedIsHandedOver == Spec => []InstallerVerified
<1>1. UpdateInv => InstallerVerified
  BY DEF UpdateInv, Undisturbed, Offered, InstallerVerified
<1> QED
  BY <1>1, UpdateHolds, PTL

(* A waiting installer is given up for a newer release only: no failing    *)
(* check, no timer and no second call throws it away.                      *)
THEOREM WaitingIsKept == Spec => InstallerKept
<1>1. ASSUME UpdateInv, [Next]_vars, status = "downloaded", path, ~path',
             ~overlapped', restarts' = restarts
      PROVE  remote > version
  <2>1. ASSUME NEW c \in Call, NEW timer \in BOOLEAN, Check(c, timer) PROVE FALSE
    BY <1>1, <2>1 DEF Check
  <2>2. ASSUME NEW c \in Call, Compared(c) PROVE remote > version
    <3>1. ~overlapped /\ pc[c] = "comparing" /\ remote > art[c]
      BY <1>1, <2>2 DEF Compared
    <3> QED
      BY <1>1, <3>1 DEF UpdateInv, Undisturbed, Own
  <2>3. CASE Restart
    BY <1>1, <2>3 DEF Restart, UpdateInv, TypeInv, TypeOK
  <2> QED
    BY <1>1, <2>1, <2>2, <2>3
       DEF Next, CallStep, Download, Progress, Discarded, Fetched, Resolved,
           ChainEnds, Verify, Connected, Prepared, Unlinked, Created, Streamed, StreamFails, Cleaned,
           Publish, vars
<1>2. UpdateInv /\ [Next]_vars
        => [status = "downloaded" /\ path /\ ~path' =>
              remote > version \/ overlapped' \/ restarts' # restarts]_vars
  BY <1>1
<1> QED
  BY <1>2, UpdateHolds, PTL DEF Spec, InstallerKept

=============================================================================
