---------------------------- MODULE UpdateManager ----------------------------
(***************************************************************************)
(* The application updater of a packaged build:                            *)
(* electron/update-manager.ts.  checkForUpdates() and downloadUpdate() are *)
(* called by the renderer, by the six-hourly timer and at start, and their *)
(* segments between awaits interleave on one state, one downloadedPath and *)
(* one file: the installer's name does not depend on the version.          *)
(*                                                                         *)
(* Versions are numbers, 0 is the running one and, in a field, none.  The  *)
(* network may fail at every request; the unlink of unlinkBestEffort may   *)
(* fail without being noticed.                                             *)
(***************************************************************************)
EXTENDS Naturals

CONSTANTS
    Call,           \* calls in flight at one time
    MaxVersion,     \* bound: releases published
    MaxRestarts     \* bound: restarts of the application

ASSUME UpdateAssumption == MaxVersion \in Nat /\ MaxRestarts \in Nat

NoCall == "none"
ASSUME CallAssumption == NoCall \notin Call

VARIABLES
    remote,     \* the newest release of the channel
    status,     \* #state.status
    version,    \* #state.latestVersion; the url and the name go with it
    expected,   \* the version #expectedArtifact is for
    path,       \* #downloadedPath is set
    file,       \* what has the installer's name on disk
    pc,         \* per call: the await it is parked at
    auto,       \* per call: startAutomaticCheck goes on to download
    art,        \* per call: the version it compares with, found or downloads
    discarded,  \* history, per call: the check has discarded an installer
    overlapped, \* history: a check began while one looked at an installer
    restarts

state == <<status, version>>
calls == <<pc, auto, art, discarded>>
vars == <<remote, state, expected, path, file, calls, overlapped, restarts>>

Status == {"idle", "checking", "current", "available", "downloading",
           "downloaded", "unknown", "error"}
Checking == {"comparing", "discarding", "fetching", "resolving"}
Downloading == {"verifying", "connecting", "preparing", "unlinking", "creating",
                "streaming", "cleaning"}

(* A file is whole when it has the bytes of its version; by is the call    *)
(* whose stream is attached to it.                                         *)
NoFile == [of |-> 0, whole |-> FALSE, by |-> NoCall]
Left == [of : 1..MaxVersion, whole : BOOLEAN, by : {NoCall}]

TypeOK ==
    /\ remote \in 0..MaxVersion
    /\ status \in Status
    /\ version \in 0..MaxVersion
    /\ expected \in 0..MaxVersion
    /\ path \in BOOLEAN
    /\ file \in [of : 0..MaxVersion, whole : BOOLEAN, by : Call \cup {NoCall}]
    /\ pc \in [Call -> {"idle", "chaining"} \cup Checking \cup Downloading]
    /\ auto \in [Call -> BOOLEAN]
    /\ art \in [Call -> 0..MaxVersion]
    /\ discarded \in [Call -> BOOLEAN]
    /\ overlapped \in BOOLEAN
    /\ restarts \in 0..MaxRestarts
    /\ \A c \in Call : pc[c] \in Downloading => art[c] # 0
    /\ status = "available" => version # 0

(* An earlier run of the application may have left a file behind.          *)
Init ==
    /\ remote \in 0..MaxVersion
    /\ status = "idle" /\ version = 0
    /\ expected = 0 /\ path = FALSE
    /\ file \in {NoFile} \cup Left
    /\ pc = [c \in Call |-> "idle"]
    /\ auto = [c \in Call |-> FALSE]
    /\ art = [c \in Call |-> 0]
    /\ discarded = [c \in Call |-> FALSE]
    /\ overlapped = FALSE
    /\ restarts = 0

Goto(c, where) == pc' = [pc EXCEPT ![c] = where]
SetState(s, v) == status' = s /\ version' = v

(* unlinkBestEffort of the installer's name.                               *)
Unlink == file' \in {NoFile, file}

-----------------------------------------------------------------------------
(* checkForUpdates().                                                      *)

(* Forgets the installer; a path that was set is unlinked first.           *)
Forget(c) ==
    /\ path' = FALSE /\ expected' = 0
    /\ IF path THEN Goto(c, "discarding") /\ UNCHANGED state
               ELSE Goto(c, "fetching") /\ SetState("checking", 0)

CheckDiscards(c, timer) ==      \* mutant of Check: keeps no installer
    /\ pc[c] = "idle"
    /\ status \notin {"checking", "downloading"}
    /\ auto' = [auto EXCEPT ![c] = timer]
    /\ discarded' = [discarded EXCEPT ![c] = FALSE]
    /\ Forget(c)
    /\ overlapped' = (overlapped \/ \E d \in Call : pc[d] \in {"comparing", "discarding"})
    /\ UNCHANGED <<remote, file, art, restarts>>

(* Refused while checking or downloading.  A waiting installer is kept by  *)
(* the timer, and by the renderer's check until a newer release is seen.   *)
Check(c, timer) ==
    /\ pc[c] = "idle"
    /\ status \notin {"checking", "downloading"}
    /\ timer => status # "downloaded"
    /\ auto' = [auto EXCEPT ![c] = timer]
    /\ discarded' = [discarded EXCEPT ![c] = FALSE]
    /\ IF status = "downloaded" /\ path
       THEN /\ Goto(c, "comparing")
            /\ art' = [art EXCEPT ![c] = version]
            /\ UNCHANGED <<state, expected, path>>
       ELSE Forget(c) /\ UNCHANGED art
    /\ overlapped' = (overlapped \/ \E d \in Call : pc[d] \in {"comparing", "discarding"})
    /\ UNCHANGED <<remote, file, restarts>>

(* hasNewerRemoteRelease() resolved; every problem reads as "no".          *)
Compared(c) ==
    /\ pc[c] = "comparing"
    /\ \/ Goto(c, "idle") /\ UNCHANGED <<expected, path, discarded>>
       \/ /\ remote > art[c]
          /\ path' = FALSE /\ expected' = 0
          /\ discarded' = [discarded EXCEPT ![c] = TRUE]
          /\ Goto(c, "discarding")
    /\ art' = [art EXCEPT ![c] = 0]
    /\ UNCHANGED <<remote, state, file, auto, overlapped, restarts>>

Discarded(c) ==
    /\ pc[c] = "discarding"
    /\ Unlink
    /\ SetState("checking", 0)
    /\ Goto(c, "fetching")
    /\ UNCHANGED <<remote, expected, path, auto, art, discarded, overlapped, restarts>>

(* The feed: unusable, nothing newer, no asset, or an artifact to resolve. *)
Fetched(c) ==
    /\ pc[c] = "fetching"
    /\ \/ SetState("unknown", 0) /\ Goto(c, "idle") /\ UNCHANGED art
       \/ remote = 0 /\ SetState("current", 0) /\ Goto(c, "idle") /\ UNCHANGED art
       \/ remote > 0 /\ SetState("error", remote) /\ Goto(c, "idle") /\ UNCHANGED art
       \/ /\ remote > 0
          /\ art' = [art EXCEPT ![c] = remote]
          /\ Goto(c, "resolving") /\ UNCHANGED state
    /\ UNCHANGED <<remote, expected, path, file, auto, discarded, overlapped, restarts>>

(* resolveExpectedArtifact(): the release metadata name what to verify.    *)
Resolved(c) ==
    /\ pc[c] = "resolving"
    /\ \/ /\ expected' = art[c]
          /\ SetState("available", art[c])
          /\ Goto(c, IF auto[c] THEN "chaining" ELSE "idle")
       \/ SetState("error", art[c]) /\ Goto(c, "idle") /\ UNCHANGED expected
    /\ art' = [art EXCEPT ![c] = 0]
    /\ UNCHANGED <<remote, path, file, auto, discarded, overlapped, restarts>>

-----------------------------------------------------------------------------
(* downloadUpdate(), by the renderer or chained to an automatic check.     *)

CanDownload == status = "available" /\ expected # 0

(* The address shown and the one to load are set together, so they agree,  *)
(* aliases included; what the code does otherwise is never done.           *)
Download(c) ==
    /\ pc[c] \in {"idle", "chaining"}
    /\ CanDownload
    /\ IF version = expected
       THEN /\ SetState("downloading", version)
            /\ art' = [art EXCEPT ![c] = expected]
            /\ Goto(c, "verifying")
       ELSE SetState("error", version) /\ Goto(c, "idle") /\ UNCHANGED art
    /\ UNCHANGED <<remote, expected, path, file, auto, discarded, overlapped, restarts>>

ChainEnds(c) ==
    /\ pc[c] = "chaining" /\ ~CanDownload
    /\ Goto(c, "idle")
    /\ UNCHANGED <<remote, state, expected, path, file, auto, art, discarded,
                   overlapped, restarts>>

Finish(c, s) ==
    /\ SetState(s, version)
    /\ Goto(c, "idle")
    /\ art' = [art EXCEPT ![c] = 0]

(* verifyInstallerOnDisk(): the size and the digest of a file left behind. *)
VerifySize(c) ==        \* mutant of Verify: any whole file will do
    /\ pc[c] = "verifying"
    /\ IF file.whole
       THEN Finish(c, "downloaded") /\ path' = TRUE
       ELSE Goto(c, "connecting") /\ UNCHANGED <<state, path, art>>
    /\ UNCHANGED <<remote, expected, file, auto, discarded, overlapped, restarts>>

Verify(c) ==
    /\ pc[c] = "verifying"
    /\ IF file.whole /\ file.of = art[c]
       THEN Finish(c, "downloaded") /\ path' = TRUE
       ELSE Goto(c, "connecting") /\ UNCHANGED <<state, path, art>>
    /\ UNCHANGED <<remote, expected, file, auto, discarded, overlapped, restarts>>

(* The response arrived, reportProgress(0), or the request failed before   *)
(* there is a path to clean up.                                            *)
Connected(c) ==
    /\ pc[c] = "connecting"
    /\ \/ SetState("downloading", version) /\ Goto(c, "preparing") /\ UNCHANGED art
       \/ Finish(c, "error")
    /\ UNCHANGED <<remote, expected, path, file, auto, discarded, overlapped, restarts>>

(* The directory is there, or cannot be made: there is no path yet.        *)
Prepared(c) ==
    /\ pc[c] = "preparing"
    /\ \/ Goto(c, "unlinking") /\ UNCHANGED <<state, art>>
       \/ Finish(c, "error")
    /\ UNCHANGED <<remote, expected, path, file, auto, discarded, overlapped, restarts>>

(* The stale file of an interrupted run.                                   *)
Unlinked(c) ==
    /\ pc[c] = "unlinking"
    /\ Unlink
    /\ Goto(c, "creating")
    /\ UNCHANGED <<remote, state, expected, path, auto, art, discarded, overlapped, restarts>>

(* The stream is created exclusively: it fails when the name is taken.     *)
Created(c) ==
    /\ pc[c] = "creating"
    /\ \/ /\ file = NoFile
          /\ file' = [of |-> art[c], whole |-> FALSE, by |-> c]
          /\ Goto(c, "streaming")
       \/ Goto(c, "cleaning") /\ UNCHANGED file
    /\ UNCHANGED <<remote, state, expected, path, auto, art, discarded, overlapped, restarts>>

(* reportProgress() of a chunk.                                            *)
Progress(c) ==
    /\ pc[c] = "streaming" /\ status # "downloading"
    /\ SetState("downloading", version)
    /\ UNCHANGED <<remote, expected, path, file, calls, overlapped, restarts>>

(* The stream has ended and the size and the digest of its bytes match.    *)
Streamed(c) ==
    /\ pc[c] = "streaming"
    /\ file' = IF file.by = c THEN [file EXCEPT !.whole = TRUE, !.by = NoCall]
               ELSE file
    /\ path' = TRUE
    /\ Finish(c, "downloaded")
    /\ UNCHANGED <<remote, expected, auto, discarded, overlapped, restarts>>

(* A stalled stream, a wrong size or digest, a full disk.                  *)
StreamRetries(c) ==     \* mutant of StreamFails: asks again, without a limit
    /\ pc[c] = "streaming"
    /\ Goto(c, "connecting")
    /\ file' = IF file.by = c THEN [file EXCEPT !.by = NoCall] ELSE file
    /\ UNCHANGED <<remote, state, expected, path, auto, art, discarded, overlapped, restarts>>

StreamFails(c) ==
    /\ pc[c] = "streaming"
    /\ Goto(c, "cleaning")
    /\ file' = IF file.by = c THEN [file EXCEPT !.by = NoCall] ELSE file
    /\ UNCHANGED <<remote, state, expected, path, auto, art, discarded, overlapped, restarts>>

Cleaned(c) ==
    /\ pc[c] = "cleaning"
    /\ Unlink
    /\ Finish(c, "error")
    /\ UNCHANGED <<remote, expected, path, auto, discarded, overlapped, restarts>>

-----------------------------------------------------------------------------
(* The environment.                                                        *)

(* A release is published, or withdrawn.                                   *)
Publish ==
    /\ remote' \in 0..MaxVersion /\ remote' # remote
    /\ UNCHANGED <<state, expected, path, file, calls, overlapped, restarts>>

(* The application ends at any point and starts again; the file stays.     *)
Restart ==
    /\ restarts < MaxRestarts
    /\ restarts' = restarts + 1
    /\ SetState("idle", 0)
    /\ expected' = 0 /\ path' = FALSE
    /\ file' = [file EXCEPT !.by = NoCall]
    /\ pc' = [c \in Call |-> "idle"]
    /\ auto' = [c \in Call |-> FALSE]
    /\ art' = [c \in Call |-> 0]
    /\ discarded' = [c \in Call |-> FALSE]
    /\ overlapped' = FALSE
    /\ UNCHANGED remote

-----------------------------------------------------------------------------
CallStep(c) ==
    \/ Compared(c) \/ Discarded(c) \/ Fetched(c) \/ Resolved(c)
    \/ (pc[c] = "chaining" /\ Download(c)) \/ ChainEnds(c)
    \/ Verify(c) \/ Connected(c) \/ Prepared(c) \/ Unlinked(c) \/ Created(c)
    \/ Streamed(c) \/ StreamFails(c) \/ Cleaned(c)

Next ==
    \/ \E c \in Call :
          \/ \E timer \in BOOLEAN : Check(c, timer)
          \/ Download(c) \/ CallStep(c) \/ Progress(c)
    \/ Publish \/ Restart

Spec == Init /\ [][Next]_vars

(* Every request has a timeout, a download an idle one, and the disk       *)
(* answers: a call does not stay parked.                                   *)
FairSpec == Spec /\ \A c \in Call : WF_vars(CallStep(c))

-----------------------------------------------------------------------------
(* Properties.                                                             *)

(* What restartToInstallNow() hands to the system is the whole, verified   *)
(* installer of the version that is shown, whatever files, failures and    *)
(* restarts came before; unless two checks have looked at a waiting        *)
(* installer at once.                                                      *)
InstallerVerified ==
    status = "downloaded" /\ path /\ ~overlapped =>
        file.whole /\ file.of = version

(* A waiting installer is given up for a newer release only.               *)
InstallerKept ==
    [][status = "downloaded" /\ path /\ ~path' =>
          remote > version \/ overlapped' \/ restarts' # restarts]_vars

(* The updater never stays "checking" or "downloading".                    *)
StatusSettles ==
    status \in {"checking", "downloading"}
        ~> status \notin {"checking", "downloading"}

(* A network or feed problem never ends a check that has thrown away the   *)
(* installer that was waiting.                                             *)
NeverLostToErrors ==
    [][\A c \in Call :
          discarded[c] /\ pc[c] = "fetching" /\ pc'[c] = "idle"
              /\ restarts' = restarts
          => status' # "unknown"]_vars

=============================================================================
