-------------------------- MODULE RecordingSession --------------------------
(***************************************************************************)
(* Recording sessions of ofxVlc4: the captures of ofxVlc4Recorder, the     *)
(* asynchronous stop of the player that encodes the video, and the mux of  *)
(* the two files on a worker thread once both are finished.                *)
(*                                                                         *)
(* The application's calls and update() run on the main thread, one step   *)
(* per group of accesses that the other threads cannot split.  The audio   *)
(* thread may close a failing audio file under audioRecordingMutex at any  *)
(* moment; the mux worker shares only its task with the main thread;       *)
(* libVLC's player stops when it has stopped.                              *)
(*                                                                         *)
(* A file is named by the number of the capture that wrote it: the code    *)
(* puts a time stamp in every path.  A capture's video and audio share a   *)
(* number, an audio attached later has its own.                            *)
(***************************************************************************)
EXTENDS Naturals

CONSTANT Plans   \* what the application does and what fails in a behaviour:
                 \* a subset of PlanType, each behaviour follows one

Calls == {"attach", "audio", "stop", "stopAndMux", "playerStop", "close"}

PlanType ==
    [calls : SUBSET Calls,     \* the application's calls besides starting a session
     sessions : SUBSET [audio : BOOLEAN, muxOnStop : BOOLEAN],
     captures : Nat,           \* bound on the number of captures started
     startFaults : Nat,        \* bound on captures that fail to start
     audioFaults : Nat,        \* bound on audio files that fail while they record
     eager : BOOLEAN,          \* a capture may be started before the last one is muxed
     deletes : BOOLEAN]        \* deleteSourceFilesOnSuccess

ASSUME PlansAssumption == Plans # {} /\ Plans \subseteq PlanType

VARIABLES
    recorder,      \* ofxVlc4Recorder: what is captured and what was finished last
    config,        \* recordingSessionRuntime: none, plain or with muxOnStop
    mux,           \* RecordingMuxRuntimeState
    task,          \* its activeTask
    worker,        \* the mux thread: none when not joinable
    sessionState,  \* ofxVlc4RecordingSessionState
    player,        \* libVLC's player as far as it encodes a recording
    main,          \* where the main thread is, and in which call
    disk,          \* which files were muxed, deleted, or await their deletion
    budget         \* the plan and what has been used of it; what was asked last

vars == << recorder, config, mux, task, worker, sessionState, player, main, disk, budget >>

NoFile == 0
Path == Nat

SessionStates == {"Idle", "Capturing", "Stopping", "Finalizing", "Muxing", "Done", "Failed"}

RecorderType ==
    [video : BOOLEAN,   \* videoRecordingActive
     videoPath : Path,  \* videoOutputPath
     audioPath : Path,  \* outputPath, set exactly while audioRecordingActive
     lastVideo : Path,  \* lastFinishedVideoPath
     lastAudio : Path]  \* lastFinishedAudioPath

MuxType ==
    [pending : BOOLEAN, inProgress : BOOLEAN,
     finalized : BOOLEAN,  \* videoFileFinalized and audioFileFinalized
     previousVideo : Path, previousAudio : Path,
     expectedVideo : Path, expectedAudio : Path]

\* The task's inProgress is: the worker is working.
TaskType == [video : Path, audio : Path, cancel : BOOLEAN, muxed : BOOLEAN]
WorkerStates == {"none", "working", "leaving", "done"}
PlayerStates == {"none", "recording", "ended", "stopping", "stopped"}
MainType ==
    [at : {"idle", "finalize", "cleanup", "mux", "playback", "arm", "expect",
           "stopping", "stop", "clearVideo", "clearAudio", "cancel", "join"},
     for : {"none", "update", "stop", "stopAndMux", "playerStop", "start", "close"},
     hadActive : BOOLEAN]

Video(n) == << "video", n >>
Audio(n) == << "audio", n >>
Files == {"video", "audio"} \X Path
Sources(v, a) == {Video(v), Audio(a)}

DiskType ==
    [muxed : SUBSET (Path \X Path),   \* pairs of files a mux has put together
     deleted : SUBSET Files,
     cleanup : SUBSET Files]          \* deferredSourceCleanup
BudgetType ==
    [plan : Plans, captures : Nat, startFaults : Nat, audioFaults : Nat,
     asked : BOOLEAN,                 \* stopRecordingSession() came after the last start
     wantsMux : BOOLEAN]              \* the capture was started with muxOnStop

TypeOK ==
    /\ recorder \in RecorderType
    /\ config \in {"none", "plain", "mux"}
    /\ mux \in MuxType
    /\ task \in TaskType
    /\ worker \in WorkerStates
    /\ sessionState \in SessionStates
    /\ player \in PlayerStates
    /\ main \in MainType
    /\ disk \in DiskType
    /\ budget \in BudgetType

NoTask == [video |-> NoFile, audio |-> NoFile, cancel |-> FALSE, muxed |-> FALSE]
Idle == [at |-> "idle", for |-> "none", hadActive |-> FALSE]

Init ==
    /\ recorder = [video |-> FALSE, videoPath |-> NoFile, audioPath |-> NoFile,
                   lastVideo |-> NoFile, lastAudio |-> NoFile]
    /\ config = "none"
    /\ mux = [pending |-> FALSE, inProgress |-> FALSE, finalized |-> FALSE,
              previousVideo |-> NoFile, previousAudio |-> NoFile,
              expectedVideo |-> NoFile, expectedAudio |-> NoFile]
    /\ task = NoTask
    /\ worker = "none"
    /\ sessionState = "Idle"
    /\ player = "none"
    /\ main = Idle
    /\ disk = [muxed |-> {}, deleted |-> {}, cleanup |-> {}]
    /\ budget \in [plan : Plans, captures : {0}, startFaults : {0}, audioFaults : {0},
                   asked : {FALSE}, wantsMux : {FALSE}]

-----------------------------------------------------------------------------
(* The recorder *)

AudioActive == recorder.audioPath # NoFile
CaptureActive == recorder.video \/ AudioActive

\* closeAudioCapture(): the file, if there is one, is finished.
AudioClosed(r) ==
    IF r.audioPath = NoFile THEN r
    ELSE [r EXCEPT !.lastAudio = r.audioPath, !.audioPath = NoFile]

\* clearVideoRecording(), which gives the player up to five seconds to stop reading
VideoCleared(r) ==
    [r EXCEPT !.video = FALSE, !.videoPath = NoFile,
              !.lastVideo = IF r.videoPath = NoFile THEN @ ELSE r.videoPath]

\* The audio file fails: the format changes (prepareAudioCaptureBuffer(), on the
\* audio thread), the disk is full or the size limit of WAV is reached (when the
\* buffer is drained).  The session learns nothing of it.
AudioFails ==
    /\ AudioActive
    /\ budget.audioFaults < budget.plan.audioFaults
    /\ budget' = [budget EXCEPT !.audioFaults = @ + 1]
    /\ recorder' = AudioClosed(recorder)
    /\ UNCHANGED << config, mux, task, worker, sessionState, player, main, disk >>

-----------------------------------------------------------------------------
(* Starting a capture *)

\* The application asks only when nothing is captured or muxed, unless it is eager.
MayStart ==
    \/ budget.plan.eager
    \/ ~CaptureActive /\ ~mux.pending /\ ~mux.inProgress

NewFile == budget.captures + 1
CanFail == budget.startFaults < budget.plan.startFaults

\* One more capture; failed says that a part of it could not be started.
Begun(failed, muxOnStop, asked) ==
    budget' = [budget EXCEPT !.captures = NewFile, !.asked = asked, !.wantsMux = muxOnStop,
                             !.startFaults = @ + (IF failed THEN 1 ELSE 0)]

CallBegins(call) == main = Idle /\ call \in budget.plan.calls
StartBegins == main = Idle /\ budget.captures < budget.plan.captures /\ MayStart

\* startRecordingSession() while a capture is active: refused, but the stored
\* configuration, which is the running session's, is cleared.
StartRefused ==
    /\ StartBegins /\ CaptureActive /\ budget.plan.sessions # {}
    /\ config' = "none"
    /\ UNCHANGED << recorder, mux, task, worker, sessionState, player, main, disk, budget >>

\* The video starts; an audio that was asked for starts too, or else stop() is
\* called and the session has not started.
StartSession(session, audioFails) ==
    /\ StartBegins /\ ~CaptureActive /\ session \in budget.plan.sessions
    /\ audioFails => session.audio /\ CanFail
    /\ Begun(audioFails, session.muxOnStop /\ ~audioFails, FALSE)
    /\ recorder' = [recorder EXCEPT !.video = TRUE, !.videoPath = NewFile,
                        !.audioPath = IF session.audio /\ ~audioFails THEN NewFile ELSE @,
                        !.lastAudio = IF audioFails THEN NewFile ELSE @]
    /\ player' = "recording"
    /\ sessionState' = IF audioFails THEN "Failed" ELSE "Capturing"
    /\ config' = CASE audioFails -> "none"
                   [] ~audioFails /\ session.muxOnStop -> "mux"
                   [] OTHER -> "plain"
    /\ main' = IF audioFails THEN [main EXCEPT !.at = "stop", !.for = "start"] ELSE main
    /\ UNCHANGED << mux, task, worker, disk >>

\* The capture of the video or its playback fails: the recording is cleared,
\* which remembers its path if it had got that far.
StartFails(pathSet) ==
    /\ StartBegins /\ ~CaptureActive /\ CanFail /\ budget.plan.sessions # {}
    /\ Begun(TRUE, FALSE, FALSE)
    /\ recorder' = [recorder EXCEPT !.lastVideo = IF pathSet THEN NewFile ELSE @]
    /\ sessionState' = "Failed"
    /\ config' = "none"
    /\ player' \in {player, "none"}
    /\ UNCHANGED << mux, task, worker, main, disk >>

\* startNamedAudioCaptureSession()
AudioStarts(failed) ==
    /\ failed => CanFail
    /\ recorder' = IF failed THEN [recorder EXCEPT !.lastAudio = NewFile]
                             ELSE [recorder EXCEPT !.audioPath = NewFile]
    /\ sessionState' = IF failed THEN "Failed" ELSE "Capturing"

\* A plausible bug: the attached audio clears the configuration, as recordAudio() does.
AttachAudio_ClearsConfig(failed) ==
    /\ CallBegins("attach") /\ budget.captures < budget.plan.captures
    /\ recorder.video /\ ~AudioActive
    /\ AudioStarts(failed)
    /\ Begun(failed, budget.wantsMux, budget.asked)
    /\ config' = "none"
    /\ UNCHANGED << mux, task, worker, player, main, disk >>

\* startAudioRecordingForActiveVideo()
AttachAudio(failed) ==
    /\ CallBegins("attach") /\ budget.captures < budget.plan.captures
    /\ recorder.video /\ ~AudioActive
    /\ AudioStarts(failed)
    /\ Begun(failed, budget.wantsMux, budget.asked)
    /\ UNCHANGED << config, mux, task, worker, player, main, disk >>

\* recordAudio() starts a capture of audio alone, and its next call ends it.
RecordAudioStarts(failed) ==
    /\ CallBegins("audio") /\ StartBegins /\ ~CaptureActive
    /\ AudioStarts(failed)
    /\ Begun(failed, FALSE, FALSE)
    /\ config' = "none"
    /\ UNCHANGED << mux, task, worker, player, main, disk >>

RecordAudioEnds ==
    /\ CallBegins("audio") /\ AudioActive /\ ~recorder.video
    /\ recorder' = AudioClosed(recorder)
    /\ config' = "none"
    /\ UNCHANGED << mux, task, worker, sessionState, player, main, disk, budget >>

-----------------------------------------------------------------------------
(* Stopping it *)

\* stopRecordingSessionInternal(true), of stopRecordingSession() and endWindowRecording()
StopVideo ==
    /\ CallBegins("stop") /\ recorder.video
    /\ main' = [main EXCEPT !.at = IF config = "mux" THEN "finalize" ELSE "stopping",
                            !.for = "stop"]
    /\ budget' = [budget EXCEPT !.asked = TRUE]
    /\ UNCHANGED << recorder, config, mux, task, worker, sessionState, player, disk >>

\* A plausible bug: the audio is tested before the video.
StopAudio_First ==
    /\ CallBegins("stop") /\ AudioActive
    /\ recorder' = AudioClosed(recorder)
    /\ config' = "none"
    /\ sessionState' = "Done"
    /\ UNCHANGED << mux, task, worker, player, main, disk, budget >>

StopAudio ==
    /\ CallBegins("stop") /\ ~recorder.video /\ AudioActive
    /\ recorder' = AudioClosed(recorder)
    /\ config' = "none"
    /\ sessionState' = "Done"
    /\ UNCHANGED << mux, task, worker, player, main, disk, budget >>

StopNothing ==
    /\ CallBegins("stop") /\ ~CaptureActive
    /\ config' = "none"
    /\ sessionState' = "Idle"
    /\ UNCHANGED << recorder, mux, task, worker, player, main, disk, budget >>

\* stopRecordingSessionAndMux()
StopAndMux ==
    /\ CallBegins("stopAndMux")
    /\ main' = [main EXCEPT !.at = "finalize", !.for = "stopAndMux"]
    /\ UNCHANGED << recorder, config, mux, task, worker, sessionState, player, disk, budget >>

\* armPendingRecordingMux(), after it has finalized a finished worker: it is refused
\* while another mux is pending or in progress, and without a video.
ArmRefused ==
    /\ main.at = "arm"
    /\ \/ (mux.pending \/ mux.inProgress) /\ UNCHANGED sessionState
       \/ ~mux.pending /\ ~mux.inProgress /\ ~recorder.video /\ sessionState' = "Failed"
    /\ main' = Idle
    /\ UNCHANGED << recorder, config, mux, task, worker, player, disk, budget >>

\* A plausible bug: a mux is armed while another is pending or in progress.
Arm_Unguarded ==
    /\ main.at = "arm" /\ recorder.video
    /\ mux' = [mux EXCEPT !.finalized = FALSE,
                          !.previousVideo = recorder.lastVideo,
                          !.previousAudio = recorder.lastAudio]
    /\ main' = [main EXCEPT !.at = "expect"]
    /\ UNCHANGED << recorder, config, task, worker, sessionState, player, disk, budget >>

\* A plausible bug: the path of the running video is taken for the previous one.
Arm_PreviousIsCurrent ==
    /\ main.at = "arm" /\ ~mux.pending /\ ~mux.inProgress /\ recorder.video
    /\ mux' = [mux EXCEPT !.finalized = FALSE,
                          !.previousVideo = recorder.videoPath,
                          !.previousAudio = recorder.lastAudio]
    /\ main' = [main EXCEPT !.at = "expect"]
    /\ UNCHANGED << recorder, config, task, worker, sessionState, player, disk, budget >>

Arm ==
    /\ main.at = "arm" /\ ~mux.pending /\ ~mux.inProgress /\ recorder.video
    /\ mux' = [mux EXCEPT !.finalized = FALSE,
                          !.previousVideo = recorder.lastVideo,
                          !.previousAudio = recorder.lastAudio]
    /\ main' = [main EXCEPT !.at = "expect"]
    /\ UNCHANGED << recorder, config, task, worker, sessionState, player, disk, budget >>

\* The files being written are expected, or the last ones: the audio thread may
\* have closed its file since.
ExpectedAudio == IF AudioActive THEN recorder.audioPath ELSE recorder.lastAudio

ArmExpect ==
    /\ main.at = "expect" /\ ExpectedAudio # NoFile
    /\ mux' = [mux EXCEPT !.pending = TRUE, !.expectedVideo = recorder.videoPath,
                          !.expectedAudio = ExpectedAudio]
    /\ sessionState' = "Finalizing"
    /\ main' = [main EXCEPT !.at = "stopping"]
    /\ UNCHANGED << recorder, config, task, worker, player, disk, budget >>

ArmWithoutAudio ==
    /\ main.at = "expect" /\ ExpectedAudio = NoFile
    /\ sessionState' = "Failed"
    /\ main' = Idle
    /\ UNCHANGED << recorder, config, mux, task, worker, player, disk, budget >>

StopCapture ==
    /\ main.at = "stopping"
    /\ sessionState' = "Stopping"
    /\ main' = [main EXCEPT !.at = "stop"]
    /\ UNCHANGED << recorder, config, mux, task, worker, player, disk, budget >>

\* PlaybackController::stop(): a running player is asked to stop, the recorder
\* follows when it has; otherwise the recorder is stopped at once.
PlayerStop ==
    /\ CallBegins("playerStop")
    /\ main' = [main EXCEPT !.at = "stop", !.for = "playerStop"]
    /\ UNCHANGED << recorder, config, mux, task, worker, sessionState, player, disk, budget >>

StopPlayer ==
    /\ main.at = "stop"
    /\ \/ player \in {"recording", "stopping"} /\ player' = "stopping" /\ main' = Idle
       \/ /\ player \in {"none", "ended", "stopped"}
          /\ player' = "none"
          /\ main' = [main EXCEPT !.at = "clearVideo"]
    /\ UNCHANGED << recorder, config, mux, task, worker, sessionState, disk, budget >>

\* stopActiveRecorderSessions()
ClearVideo ==
    /\ main.at = "clearVideo"
    /\ recorder' = VideoCleared(recorder)
    /\ main' = [main EXCEPT !.at = "clearAudio", !.hadActive = CaptureActive]
    /\ UNCHANGED << config, mux, task, worker, sessionState, player, disk, budget >>

\* A plausible bug: the mux is not told that the files are finished.
ClearAudio_Silent ==
    /\ main.at = "clearAudio"
    /\ recorder' = AudioClosed(recorder)
    /\ config' = "none"
    /\ sessionState' = IF main.hadActive /\ ~mux.pending /\ ~mux.inProgress
                       THEN "Done" ELSE sessionState
    /\ main' = Idle
    /\ UNCHANGED << mux, task, worker, player, disk, budget >>

ClearAudio ==
    /\ main.at = "clearAudio"
    /\ recorder' = AudioClosed(recorder)
    /\ config' = "none"
    /\ mux' = [mux EXCEPT !.finalized = @ \/ main.hadActive]
    /\ sessionState' = IF main.hadActive /\ ~mux.pending /\ ~mux.inProgress
                       THEN "Done" ELSE sessionState
    /\ main' = Idle
    /\ UNCHANGED << task, worker, player, disk, budget >>

-----------------------------------------------------------------------------
(* libVLC's player, as the code uses it, and the mux worker *)

PlayerEnds ==
    /\ player = "recording"
    /\ player' = "ended"
    /\ UNCHANGED << recorder, config, mux, task, worker, sessionState, main, disk, budget >>

PlayerStopped ==
    /\ player = "stopping"
    /\ player' = "stopped"
    /\ UNCHANGED << recorder, config, mux, task, worker, sessionState, main, disk, budget >>

\* muxRecordingFilesInternal(): it waits for the files, then plays them into the
\* output.  Every wait has a timeout and looks at the cancellation.
WorkerMuxes(success) ==
    /\ worker = "working"
    /\ success => mux.finalized /\ ~task.cancel
    /\ task' = [task EXCEPT !.muxed = success]
    /\ disk' = IF success THEN [disk EXCEPT !.muxed = @ \cup {<< task.video, task.audio >>}] ELSE disk
    /\ worker' = "leaving"
    /\ UNCHANGED << recorder, config, mux, sessionState, player, main, budget >>

WorkerReturns ==
    /\ worker = "leaving"
    /\ worker' = "done"
    /\ UNCHANGED << recorder, config, mux, task, sessionState, player, main, disk, budget >>

-----------------------------------------------------------------------------
(* update(), and what it shares with the calls *)

Update ==
    /\ main = Idle
    /\ main' = [main EXCEPT !.at = "finalize", !.for = "update"]
    /\ UNCHANGED << recorder, config, mux, task, worker, sessionState, player, disk, budget >>

\* What follows finalizeRecordingMuxThread() in its callers
AfterFinalize ==
    main' = [main EXCEPT !.at = CASE main.for = "update" -> "cleanup"
                                  [] main.for = "close" -> "cancel"
                                  [] OTHER -> "arm"]

\* finalizeRecordingMuxThread(): nothing is there to finalize, ...
NothingToFinalize ==
    /\ main.at = "finalize" /\ worker \in {"none", "working"}
    /\ AfterFinalize
    /\ UNCHANGED << recorder, config, mux, task, worker, sessionState, player, disk, budget >>

\* A plausible bug: the sources are deleted after a mux that failed, too.
FinalizeMux_DeletesAlways(removed) ==
    /\ main.at = "finalize" /\ worker = "done"
    /\ removed \subseteq Sources(task.video, task.audio)
    /\ disk' = [disk EXCEPT !.deleted = @ \cup removed]
    /\ worker' = "none"
    /\ task' = NoTask
    /\ mux' = [mux EXCEPT !.inProgress = FALSE]
    /\ sessionState' = IF task.muxed THEN "Done" ELSE "Failed"
    /\ AfterFinalize
    /\ UNCHANGED << recorder, config, player, budget >>

\* ... or the worker is joined, and what it muxed is deleted, now or later.
FinalizeMux(removed) ==
    /\ main.at = "finalize" /\ worker = "done"
    /\ LET sources == Sources(task.video, task.audio) IN
        /\ removed \subseteq (IF task.muxed /\ budget.plan.deletes THEN sources ELSE {})
        /\ disk' = IF task.muxed /\ budget.plan.deletes
                   THEN [disk EXCEPT !.deleted = @ \cup removed,
                                     !.cleanup = @ \cup (sources \ removed)]
                   ELSE disk
    /\ worker' = "none"
    /\ task' = NoTask
    /\ mux' = [mux EXCEPT !.inProgress = FALSE]
    /\ sessionState' = IF task.muxed THEN "Done" ELSE "Failed"
    /\ AfterFinalize
    /\ UNCHANGED << recorder, config, player, budget >>

\* processDeferredRecordingMuxCleanup(): a file is deleted, kept for the next
\* time, or given up after its deadline.
Cleanup(removed, kept) ==
    /\ main.at = "cleanup"
    /\ removed \subseteq disk.cleanup /\ kept \cap removed = {}
    /\ disk' = [disk EXCEPT !.deleted = @ \cup removed, !.cleanup = kept]
    /\ main' = [main EXCEPT !.at = "mux"]
    /\ UNCHANGED << recorder, config, mux, task, worker, sessionState, player, budget >>

\* updatePendingRecordingMux(): the mux waits for the end of every capture, and for
\* a video and an audio other than those finished before it was armed.
Resolved(finished, expected) == IF finished # NoFile THEN finished ELSE expected
ResolvedVideo == Resolved(recorder.lastVideo, mux.expectedVideo)
ResolvedAudio == Resolved(recorder.lastAudio, mux.expectedAudio)
\* A plausible bug: only the video is compared with the previous one.
FilesArrived_VideoOnly == ResolvedVideo \notin {NoFile, mux.previousVideo}

FilesArrived ==
    /\ ResolvedVideo \notin {NoFile, mux.previousVideo}
    /\ ResolvedAudio \notin {NoFile, mux.previousAudio}
MuxWaits == mux.pending /\ worker # "working"

MuxDelayed ==
    /\ main.at = "mux"
    /\ \/ MuxWaits /\ CaptureActive /\ sessionState' = "Finalizing"
       \/ MuxWaits /\ ~CaptureActive /\ ~FilesArrived /\ UNCHANGED sessionState
       \/ ~MuxWaits /\ UNCHANGED sessionState
    /\ main' = [main EXCEPT !.at = "playback"]
    /\ UNCHANGED << recorder, config, mux, task, worker, player, disk, budget >>

LaunchMux ==
    /\ main.at = "mux" /\ MuxWaits /\ ~CaptureActive /\ FilesArrived
    /\ mux' = [mux EXCEPT !.pending = FALSE, !.inProgress = TRUE]
    /\ task' = [NoTask EXCEPT !.video = ResolvedVideo, !.audio = ResolvedAudio]
    /\ worker' = "working"
    /\ sessionState' = "Muxing"
    /\ main' = [main EXCEPT !.at = "playback"]
    /\ UNCHANGED << recorder, config, player, disk, budget >>

\* A plausible bug: the end of the stop does not stop the recorder.
FinalizeStop_PlayerOnly ==
    /\ main.at = "playback"
    /\ player' = IF player = "stopped" THEN "none" ELSE player
    /\ main' = Idle
    /\ UNCHANGED << recorder, config, mux, task, worker, sessionState, disk, budget >>

\* processDeferredPlaybackActions(): the stop of the player is finalized.
FinalizeStop ==
    /\ main.at = "playback"
    /\ \/ player = "stopped" /\ player' = "none" /\ main' = [main EXCEPT !.at = "clearVideo"]
       \/ player # "stopped" /\ UNCHANGED player /\ main' = Idle
    /\ UNCHANGED << recorder, config, mux, task, worker, sessionState, disk, budget >>

-----------------------------------------------------------------------------
(* releaseVlcResources() *)

Close ==
    /\ CallBegins("close")
    /\ main' = [main EXCEPT !.at = "finalize", !.for = "close"]
    /\ UNCHANGED << recorder, config, mux, task, worker, sessionState, player, disk, budget >>

\* cancelPendingRecordingMux(): the worker is told, and joined however long it takes.
CancelMux ==
    /\ main.at = "cancel"
    /\ mux' = [mux EXCEPT !.pending = FALSE]
    /\ task' = [task EXCEPT !.cancel = (worker # "none")]
    /\ main' = [main EXCEPT !.at = "join"]
    /\ UNCHANGED << recorder, config, worker, sessionState, player, disk, budget >>

\* The captures end without a notice to the mux; the clean-up has its last pass.
CloseSession(removed) ==
    /\ main.at = "join" /\ worker \in {"none", "done"}
    /\ removed \subseteq disk.cleanup
    /\ mux' = [mux EXCEPT !.inProgress = FALSE,
                          !.previousVideo = NoFile, !.previousAudio = NoFile,
                          !.expectedVideo = NoFile, !.expectedAudio = NoFile]
    /\ task' = NoTask
    /\ worker' = "none"
    /\ sessionState' = "Idle"
    /\ config' = "none"
    /\ recorder' = AudioClosed(VideoCleared(recorder))
    /\ disk' = [disk EXCEPT !.deleted = @ \cup removed, !.cleanup = {}]
    /\ player' = "none"
    /\ main' = Idle
    /\ UNCHANGED budget

-----------------------------------------------------------------------------

\* The calls of the application
Start ==
    \/ StartRefused
    \/ \E session \in budget.plan.sessions, failed \in BOOLEAN : StartSession(session, failed)
    \/ \E pathSet \in BOOLEAN : StartFails(pathSet)
    \/ \E failed \in BOOLEAN : AttachAudio(failed) \/ RecordAudioStarts(failed)
Stop ==
    \/ RecordAudioEnds \/ StopVideo \/ StopAudio \/ StopNothing
    \/ StopAndMux \/ PlayerStop \/ Close

\* A call or update() goes on.
MainStep ==
    \/ NothingToFinalize
    \/ \E removed \in SUBSET Sources(task.video, task.audio) : FinalizeMux(removed)
    \/ ArmRefused \/ Arm \/ ArmExpect \/ ArmWithoutAudio
    \/ StopCapture \/ StopPlayer \/ ClearVideo \/ ClearAudio
    \/ \E removed \in SUBSET disk.cleanup : \E kept \in SUBSET disk.cleanup : Cleanup(removed, kept)
    \/ MuxDelayed \/ LaunchMux \/ FinalizeStop
    \/ CancelMux
    \/ \E removed \in SUBSET disk.cleanup : CloseSession(removed)

WorkerStep == WorkerReturns \/ \E success \in BOOLEAN : WorkerMuxes(success)

Next ==
    \/ Start \/ Stop \/ Update \/ MainStep
    \/ WorkerStep
    \/ AudioFails \/ PlayerEnds \/ PlayerStopped

Spec == Init /\ [][Next]_vars

\* update() runs again and again, whatever is called in between; a call, the
\* worker, whose waits have timeouts, and a stop of the player come to an end.
FairSpec ==
    /\ Spec
    /\ SF_vars(Update)
    /\ WF_vars(MainStep)
    /\ WF_vars(WorkerStep)
    /\ WF_vars(PlayerStopped)
-----------------------------------------------------------------------------
(* Properties *)

\* A std::thread that is still joinable is never assigned: a mux is launched only
\* when the last worker has been joined.  Were a second mux armed while one is in
\* progress, it would be launched over a worker that ended after this update()'s
\* finalizeRecordingMuxThread().
WorkerJoined == [][LaunchMux => worker = "none"]_vars

\* The worker never sits out its timeout for a signal: when a mux is launched
\* the recorder has finished the files and said so, whatever ended the capture.
FilesFinalized == mux.inProgress => mux.finalized

\* The files a worker reads exist and are not being written: none has been deleted
\* after an earlier mux, awaits deletion, or belongs to the running capture.
SourcesIntact ==
    worker = "working" =>
        /\ Sources(task.video, task.audio) \cap (disk.deleted \cup disk.cleanup) = {}
        /\ recorder.videoPath # task.video
        /\ recorder.audioPath # task.audio

\* Only files that are part of a finished mux are deleted.
DeletedAreMuxed ==
    disk.deleted \cup disk.cleanup
        \subseteq UNION {Sources(pair[1], pair[2]) : pair \in disk.muxed}

\* What is muxed is the session that was stopped, if the application starts no
\* other one before the mux: the video that was recorded when the mux was armed,
\* and an audio that was not finished by then.
MuxOwnSession ==
    ~budget.plan.eager /\ worker # "none" =>
        task.video = mux.expectedVideo /\ task.audio # mux.previousAudio

\* The session state does not call a video that is recorded idle or done, if the
\* application starts no session before the last one is muxed.
StateShowsCapture ==
    ~budget.plan.eager /\ recorder.video => sessionState \notin {"Idle", "Done"}

\* A session started with muxOnStop is not stopped without its mux, whatever was
\* attached to it or failed in it, if no other session was started meanwhile.
StopArmsMux ==
    ~budget.plan.eager /\ budget.wantsMux /\ main.at = "stopping" => mux.pending

\* Plans in which every session has an audio file, and finishes it before the mux.
Undisturbed ==
    /\ ~budget.plan.eager
    /\ budget.plan.startFaults = 0 /\ budget.plan.audioFaults = 0
    /\ \A session \in budget.plan.sessions : session.audio

\* stopRecordingSession() ends the capture, in undisturbed plans.
StopEndsCapture == budget.asked /\ Undisturbed ~> ~recorder.video

\* A mux that is armed is carried out or cancelled, in undisturbed plans.
MuxEnds == mux.pending /\ Undisturbed ~> ~mux.pending /\ ~mux.inProgress
=============================================================================
