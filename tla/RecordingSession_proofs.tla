----------------------- MODULE RecordingSession_proofs -----------------------
(***************************************************************************)
(* Proofs about RecordingSession, for any plans: any number of captures,   *)
(* any calls, any failures.                                                *)
(***************************************************************************)
EXTENDS RecordingSession, TLAPS

\* A mux in progress has a worker, joined only with the mux, and no other mux is
\* pending.
OneMux ==
    /\ mux.inProgress <=> worker # "none"
    /\ ~(mux.pending /\ mux.inProgress)

\* Between its test and its arming armPendingRecordingMux() is alone, and a
\* cancelled mux stays so until the join.
ArmAlone ==
    /\ main.at = "expect" => ~mux.pending /\ ~mux.inProgress /\ recorder.video
    /\ main.at = "join" => ~mux.pending

\* When no video is captured any more, the files of a pending mux are finished,
\* or the call that ends the capture is about to say so.
PendingFinalized ==
    mux.pending /\ ~recorder.video =>
        mux.finalized \/ (main.at = "clearAudio" /\ main.hadActive)

\* A task that has succeeded has written down its files.
ResultKnown ==
    task.muxed => << task.video, task.audio >> \in disk.muxed

-----------------------------------------------------------------------------
(* What the operators on the recorder and on the disk return *)

\* closeAudioCapture() and clearVideoRecording() keep the types of the recorder,
\* and the first leaves the video alone.
LEMMA ClosedTyped ==
    ASSUME NEW r \in RecorderType
    PROVE  /\ AudioClosed(r) \in RecorderType
           /\ VideoCleared(r) \in RecorderType
           /\ AudioClosed(r).video = r.video
BY DEF AudioClosed, VideoCleared, RecorderType, Path, NoFile

\* More muxed files allow more files to be deleted.
LEMMA MuxedGrows ==
    ASSUME NEW files, NEW m, NEW n, m \subseteq n,
           files \subseteq UNION {Sources(pair[1], pair[2]) : pair \in m}
    PROVE  files \subseteq UNION {Sources(pair[1], pair[2]) : pair \in n}
OBVIOUS

-----------------------------------------------------------------------------
(* The types *)

LEMMA InitTyped == Init => TypeOK
<1> SUFFICES ASSUME Init
             PROVE  TypeOK
  OBVIOUS
<1>1. recorder \in RecorderType /\ mux \in MuxType /\ task \in TaskType
  BY DEF Init, RecorderType, MuxType, TaskType, NoTask, Path, NoFile
<1>2. main \in MainType /\ disk \in DiskType
  BY DEF Init, MainType, Idle, DiskType
<1>3. budget \in BudgetType
  <2>1. budget \in [plan : Plans, captures : {0}, startFaults : {0}, audioFaults : {0},
                    asked : {FALSE}, wantsMux : {FALSE}]
    BY DEF Init
  <2>2. PICK plan \in Plans :
          budget = [plan |-> plan, captures |-> 0, startFaults |-> 0, audioFaults |-> 0,
                    asked |-> FALSE, wantsMux |-> FALSE]
    BY <2>1
  <2>. QED
    BY <2>2 DEF BudgetType
<1>4. /\ config \in {"none", "plain", "mux"} /\ worker \in WorkerStates
      /\ sessionState \in SessionStates /\ player \in PlayerStates
  BY DEF Init, WorkerStates, SessionStates, PlayerStates
<1>. QED
  BY <1>1, <1>2, <1>3, <1>4 DEF TypeOK

\* One more capture keeps the types of the budget, and has a number for its files.
LEMMA BegunTyped ==
    ASSUME TypeOK, NEW failed \in BOOLEAN, NEW muxOnStop \in BOOLEAN, NEW asked \in BOOLEAN,
           Begun(failed, muxOnStop, asked)
    PROVE  budget' \in BudgetType /\ NewFile \in Path
<1>1. (IF failed THEN 1 ELSE 0) \in Nat
  OBVIOUS
<1>2. NewFile \in Nat
  BY DEF TypeOK, BudgetType, NewFile
<1>3. budget.startFaults + (IF failed THEN 1 ELSE 0) \in Nat
  BY <1>1 DEF TypeOK, BudgetType
<1>4. budget \in BudgetType
  BY DEF TypeOK
<1> DEFINE faults == budget.startFaults + (IF failed THEN 1 ELSE 0)
<1> HIDE DEF faults
<1>5. budget' = [budget EXCEPT !.captures = NewFile, !.asked = asked, !.wantsMux = muxOnStop,
                               !.startFaults = faults]
  BY DEF Begun, faults
<1>6. faults \in Nat
  BY <1>3 DEF faults
<1>. QED
  BY <1>2, <1>4, <1>5, <1>6 DEF BudgetType, Path

LEMMA NextTyped == TypeOK /\ [Next]_vars => TypeOK'
<1> SUFFICES ASSUME TypeOK, [Next]_vars
             PROVE  TypeOK'
  OBVIOUS
<1> USE DEF TypeOK
<1>1. ASSUME Start
      PROVE  TypeOK'
  <2>1. \A session \in budget.plan.sessions : session.audio \in BOOLEAN /\ session.muxOnStop \in BOOLEAN
    BY PlansAssumption DEF BudgetType, PlanType
  <2>2. ASSUME StartRefused
        PROVE  TypeOK'
    BY <2>2 DEF StartRefused
  <2>3. ASSUME NEW session \in budget.plan.sessions, NEW failed \in BOOLEAN,
               StartSession(session, failed)
        PROVE  TypeOK'
    <3>1. budget' \in BudgetType /\ NewFile \in Path
      BY <2>1, <2>3, BegunTyped DEF StartSession
    <3>2. recorder' \in RecorderType
      BY <2>3, <3>1 DEF StartSession, RecorderType
    <3>3. main' \in MainType
      BY <2>3 DEF StartSession, MainType
    <3>4. config' \in {"none", "plain", "mux"}
      BY <2>3 DEF StartSession
    <3>. QED
      BY <2>3, <3>1, <3>2, <3>3, <3>4 DEF StartSession, PlayerStates, SessionStates
  <2>4. ASSUME NEW pathSet \in BOOLEAN, StartFails(pathSet)
        PROVE  TypeOK'
    <3>1. budget' \in BudgetType /\ NewFile \in Path
      BY <2>4, BegunTyped DEF StartFails
    <3>. QED
      BY <2>4, <3>1 DEF StartFails, RecorderType, PlayerStates, SessionStates
  <2>5. ASSUME NEW failed \in BOOLEAN, AttachAudio(failed)
        PROVE  TypeOK'
    <3>1. budget.wantsMux \in BOOLEAN /\ budget.asked \in BOOLEAN
      BY DEF BudgetType
    <3>2. budget' \in BudgetType /\ NewFile \in Path
      BY <2>5, <3>1, BegunTyped DEF AttachAudio
    <3>. QED
      BY <2>5, <3>2 DEF AttachAudio, AudioStarts, RecorderType, SessionStates
  <2>6. ASSUME NEW failed \in BOOLEAN, RecordAudioStarts(failed)
        PROVE  TypeOK'
    <3>1. budget' \in BudgetType /\ NewFile \in Path
      BY <2>6, BegunTyped DEF RecordAudioStarts
    <3>. QED
      BY <2>6, <3>1 DEF RecordAudioStarts, AudioStarts, RecorderType, SessionStates
  <2>. QED
    BY <1>1, <2>2, <2>3, <2>4, <2>5, <2>6 DEF Start
<1>2. ASSUME Stop
      PROVE  TypeOK'
  BY <1>2, ClosedTyped DEF Stop, RecordAudioEnds, StopVideo, StopAudio, StopNothing, StopAndMux,
     PlayerStop, Close, MainType, SessionStates, BudgetType
<1>3. ASSUME Update
      PROVE  TypeOK'
  BY <1>3 DEF Update, MainType
<1>4. ASSUME MainStep
      PROVE  TypeOK'
  <2>1. Idle \in MainType /\ NoTask \in TaskType
    BY DEF Idle, MainType, NoTask, TaskType, NoFile, Path
  <2>2. ASSUME NothingToFinalize
        PROVE  TypeOK'
    BY <2>2 DEF NothingToFinalize, AfterFinalize, MainType
  <2>3. ASSUME NEW removed \in SUBSET Sources(task.video, task.audio), FinalizeMux(removed)
        PROVE  TypeOK'
    <3>1. Sources(task.video, task.audio) \subseteq Files
      BY DEF Sources, Files, Video, Audio, TaskType
    <3>2. disk' \in DiskType
      BY <2>3, <3>1 DEF FinalizeMux, DiskType
    <3>3. main' \in MainType
      BY <2>3 DEF FinalizeMux, AfterFinalize, MainType
    <3>. QED
      BY <2>1, <2>3, <3>2, <3>3 DEF FinalizeMux, MuxType, WorkerStates, SessionStates
  <2>4. ASSUME ArmRefused \/ Arm \/ ArmExpect \/ ArmWithoutAudio
        PROVE  TypeOK'
    BY <2>1, <2>4 DEF ArmRefused, Arm, ArmExpect, ArmWithoutAudio, ExpectedAudio, MainType,
       MuxType, RecorderType, SessionStates
  <2>5. ASSUME StopCapture \/ StopPlayer \/ ClearVideo \/ ClearAudio
        PROVE  TypeOK'
    <3>1. CaptureActive \in BOOLEAN
      BY DEF CaptureActive, AudioActive, RecorderType
    <3>. QED
      BY <2>1, <2>5, <3>1, ClosedTyped DEF StopCapture, StopPlayer, ClearVideo, ClearAudio,
         MainType, MuxType, PlayerStates, SessionStates
  <2>6. ASSUME NEW removed \in SUBSET disk.cleanup, NEW kept \in SUBSET disk.cleanup,
               Cleanup(removed, kept)
        PROVE  TypeOK'
    BY <2>6 DEF Cleanup, DiskType, MainType
  <2>7. ASSUME MuxDelayed \/ LaunchMux
        PROVE  TypeOK'
    <3>1. ResolvedVideo \in Path /\ ResolvedAudio \in Path
      BY DEF ResolvedVideo, ResolvedAudio, Resolved, RecorderType, MuxType
    <3>. QED
      BY <2>1, <2>7, <3>1 DEF MuxDelayed, LaunchMux, MainType, MuxType, TaskType, WorkerStates,
         SessionStates
  <2>8. ASSUME FinalizeStop \/ CancelMux
        PROVE  TypeOK'
    BY <2>1, <2>8 DEF FinalizeStop, CancelMux, MainType, MuxType, TaskType, PlayerStates
  <2>9. ASSUME NEW removed \in SUBSET disk.cleanup, CloseSession(removed)
        PROVE  TypeOK'
    <3>1. AudioClosed(VideoCleared(recorder)) \in RecorderType
      BY ClosedTyped
    <3>2. disk' \in DiskType
      BY <2>9 DEF CloseSession, DiskType
    <3>. QED
      BY <2>1, <2>9, <3>1, <3>2 DEF CloseSession, MuxType, WorkerStates, SessionStates,
         PlayerStates, Path, NoFile
  <2>. QED
    BY <1>4, <2>2, <2>3, <2>4, <2>5, <2>6, <2>7, <2>8, <2>9 DEF MainStep
<1>5. ASSUME WorkerStep
      PROVE  TypeOK'
  <2>1. ASSUME NEW success \in BOOLEAN, WorkerMuxes(success)
        PROVE  TypeOK'
    BY <2>1 DEF WorkerMuxes, TaskType, DiskType, WorkerStates
  <2>. QED
    BY <1>5, <2>1 DEF WorkerStep, WorkerReturns, WorkerStates
<1>6. ASSUME AudioFails
      PROVE  TypeOK'
  BY <1>6, ClosedTyped DEF AudioFails, BudgetType
<1>7. ASSUME PlayerEnds \/ PlayerStopped
      PROVE  TypeOK'
  BY <1>7 DEF PlayerEnds, PlayerStopped, PlayerStates
<1>8. CASE UNCHANGED vars
  BY <1>8 DEF vars
<1>. QED
  BY <1>1, <1>2, <1>3, <1>4, <1>5, <1>6, <1>7, <1>8 DEF Next

\* The state of a session keeps its types.
THEOREM TypeInvariant == Spec => []TypeOK
BY InitTyped, NextTyped, PTL DEF Spec

-----------------------------------------------------------------------------
(* The mux: its flags, its worker and the signal of the recorder *)

MuxInv == OneMux /\ ArmAlone /\ PendingFinalized /\ FilesFinalized

\* Nothing that MuxInv speaks of is disturbed by a step that leaves the mux, the
\* worker and the main thread alone and does not end a video.
LEMMA MuxUndisturbed ==
    ASSUME TypeOK, MuxInv, UNCHANGED << mux, worker >>,
           recorder'.video = recorder.video \/ recorder'.video = TRUE,
           \/ UNCHANGED main
           \/ main.at # "clearAudio" /\ main'.at \notin {"expect", "join"}
    PROVE  MuxInv'
BY DEF MuxInv, OneMux, ArmAlone, PendingFinalized, FilesFinalized, TypeOK, RecorderType

LEMMA MuxNext ==
    ASSUME TypeOK, MuxInv, [Next]_vars
    PROVE  MuxInv'
<1>1. CASE Start
  <2>1. /\ UNCHANGED << mux, worker >>
        /\ recorder'.video = recorder.video \/ recorder'.video = TRUE
        /\ main.at = "idle" /\ main'.at \in {"idle", "stop"}
    <3>1. ASSUME NEW session \in budget.plan.sessions, NEW failed \in BOOLEAN,
                 StartSession(session, failed)
          PROVE  <2>1!1 /\ <2>1!2 /\ <2>1!3
      <4>1. recorder'.video = TRUE
        BY <3>1 DEF StartSession, TypeOK, RecorderType
      <4>2. main.at = "idle" /\ main'.at \in {"idle", "stop"}
        BY <3>1 DEF StartSession, StartBegins, Idle
      <4>. QED
        BY <3>1, <4>1, <4>2 DEF StartSession
    <3>2. ASSUME NEW pathSet \in BOOLEAN, StartFails(pathSet)
          PROVE  <2>1!1 /\ <2>1!2 /\ <2>1!3
      BY <3>2 DEF StartFails, StartBegins, Idle, TypeOK, RecorderType
    <3>3. ASSUME NEW failed \in BOOLEAN, AudioStarts(failed)
          PROVE  recorder'.video = recorder.video
      BY <3>3 DEF AudioStarts, TypeOK, RecorderType
    <3>4. ASSUME NEW failed \in BOOLEAN, AttachAudio(failed)
          PROVE  <2>1!1 /\ <2>1!2 /\ <2>1!3
      BY <3>3, <3>4 DEF AttachAudio, CallBegins, Idle
    <3>5. ASSUME NEW failed \in BOOLEAN, RecordAudioStarts(failed)
          PROVE  <2>1!1 /\ <2>1!2 /\ <2>1!3
      BY <3>3, <3>5 DEF RecordAudioStarts, CallBegins, Idle
    <3>6. ASSUME StartRefused
          PROVE  <2>1!1 /\ <2>1!2 /\ <2>1!3
      BY <3>6 DEF StartRefused, StartBegins, Idle
    <3>. QED
      BY <1>1, <3>1, <3>2, <3>4, <3>5, <3>6 DEF Start
  <2>. QED
    BY <2>1, MuxUndisturbed
<1>2. CASE Stop
  <2>1. AudioClosed(recorder).video = recorder.video
    BY ClosedTyped DEF TypeOK
  <2>2. UNCHANGED << mux, worker >> /\ recorder'.video = recorder.video
    BY <1>2, <2>1 DEF Stop, RecordAudioEnds, StopVideo, StopAudio, StopNothing, StopAndMux,
       PlayerStop, Close
  <2>3. CASE RecordAudioEnds \/ StopAudio \/ StopNothing
    BY <2>2, <2>3, MuxUndisturbed DEF RecordAudioEnds, StopAudio, StopNothing
  <2>4. CASE StopVideo \/ StopAndMux \/ PlayerStop \/ Close
    <3>1. main.at = "idle"
      BY <2>4 DEF StopVideo, StopAndMux, PlayerStop, Close, CallBegins, Idle
    <3>2. main'.at \in {"finalize", "stopping", "stop"}
      BY <2>4 DEF StopVideo, StopAndMux, PlayerStop, Close, TypeOK, MainType
    <3>. QED
      BY <2>2, <3>1, <3>2, MuxUndisturbed
  <2>. QED
    BY <1>2, <2>3, <2>4 DEF Stop
<1>3. CASE Update \/ PlayerEnds \/ PlayerStopped \/ AudioFails
  <2>1. AudioClosed(recorder).video = recorder.video
    BY ClosedTyped DEF TypeOK
  <2>2. UNCHANGED << mux, worker >> /\ recorder'.video = recorder.video
    BY <1>3, <2>1 DEF Update, PlayerEnds, PlayerStopped, AudioFails
  <2>3. CASE Update
    <3>1. main.at = "idle"
      BY <2>3 DEF Update, Idle
    <3>2. main'.at = "finalize"
      BY <2>3 DEF Update, TypeOK, MainType
    <3>. QED
      BY <2>2, <3>1, <3>2, MuxUndisturbed
  <2>4. CASE PlayerEnds \/ PlayerStopped \/ AudioFails
    BY <2>2, <2>4, MuxUndisturbed DEF PlayerEnds, PlayerStopped, AudioFails
  <2>. QED
    BY <1>3, <2>3, <2>4
<1>4. CASE MainStep
  <2>1. CASE NothingToFinalize
    <3>1. main.at # "clearAudio" /\ main'.at \notin {"expect", "join"}
      BY <2>1 DEF NothingToFinalize, AfterFinalize, TypeOK, MainType
    <3>. QED
      BY <2>1, <3>1, MuxUndisturbed DEF NothingToFinalize
  <2>2. ASSUME NEW removed \in SUBSET Sources(task.video, task.audio), FinalizeMux(removed)
        PROVE  MuxInv'
    <3>1. main.at # "clearAudio" /\ main'.at \notin {"expect", "join"}
      BY <2>2 DEF FinalizeMux, AfterFinalize, TypeOK, MainType
    <3>2. worker' = "none" /\ mux' = [mux EXCEPT !.inProgress = FALSE] /\ UNCHANGED recorder
      BY <2>2 DEF FinalizeMux
    <3>. QED
      BY <3>1, <3>2 DEF MuxInv, OneMux, ArmAlone, PendingFinalized, FilesFinalized, TypeOK,
         MuxType
  <2>3. CASE ArmRefused \/ ArmWithoutAudio \/ StopCapture \/ StopPlayer \/ MuxDelayed \/ FinalizeStop
    <3>1. /\ UNCHANGED << mux, worker, recorder >>
          /\ main.at # "clearAudio" /\ main'.at \notin {"expect", "join"}
      BY <2>3 DEF ArmRefused, ArmWithoutAudio, StopCapture, StopPlayer, MuxDelayed,
         FinalizeStop, Idle, TypeOK, MainType
    <3>. QED
      BY <3>1, MuxUndisturbed
  <2>4. CASE Arm
    BY <2>4 DEF Arm, MuxInv, OneMux, ArmAlone, PendingFinalized, FilesFinalized, TypeOK,
       MuxType, MainType
  <2>5. CASE ArmExpect
    BY <2>5 DEF ArmExpect, MuxInv, OneMux, ArmAlone, PendingFinalized, FilesFinalized, TypeOK,
       MuxType, MainType
  <2>6. CASE ClearVideo
    <3>1. /\ UNCHANGED << mux, worker >>
          /\ main.at = "clearVideo" /\ main'.at = "clearAudio"
          /\ main'.hadActive = CaptureActive
      BY <2>6 DEF ClearVideo, TypeOK, MainType
    <3>. QED
      BY <3>1 DEF CaptureActive, MuxInv, OneMux, ArmAlone, PendingFinalized, FilesFinalized,
         TypeOK, MuxType
  <2>7. CASE ClearAudio
    <3>1. /\ UNCHANGED worker /\ main.at = "clearAudio" /\ main'.at = "idle"
          /\ recorder'.video = recorder.video
      BY <2>7, ClosedTyped DEF ClearAudio, Idle, TypeOK
    <3>2. /\ mux'.pending = mux.pending /\ mux'.inProgress = mux.inProgress
          /\ mux'.finalized = (mux.finalized \/ main.hadActive)
      BY <2>7 DEF ClearAudio, TypeOK, MuxType
    <3>. QED
      BY <3>1, <3>2 DEF MuxInv, OneMux, ArmAlone, PendingFinalized, FilesFinalized
  <2>8. ASSUME NEW removed \in SUBSET disk.cleanup, NEW kept \in SUBSET disk.cleanup,
               Cleanup(removed, kept)
        PROVE  MuxInv'
    <3>1. /\ UNCHANGED << mux, worker, recorder >>
          /\ main.at # "clearAudio" /\ main'.at \notin {"expect", "join"}
      BY <2>8 DEF Cleanup, TypeOK, MainType
    <3>. QED
      BY <3>1, MuxUndisturbed
  <2>9. CASE LaunchMux
    <3>1. /\ mux.pending /\ ~recorder.video /\ main.at = "mux" /\ main'.at = "playback"
          /\ ~mux'.pending /\ mux'.inProgress = TRUE /\ mux'.finalized = mux.finalized
          /\ worker' = "working"
      BY <2>9 DEF LaunchMux, MuxWaits, CaptureActive, TypeOK, MainType, MuxType
    <3>2. mux.finalized
      BY <3>1 DEF MuxInv, PendingFinalized
    <3>. QED
      BY <3>1, <3>2 DEF MuxInv, OneMux, ArmAlone, PendingFinalized, FilesFinalized
  <2>10. CASE CancelMux
    <3>1. /\ UNCHANGED << worker, recorder >>
          /\ main.at = "cancel" /\ main'.at = "join"
          /\ ~mux'.pending /\ mux'.inProgress = mux.inProgress
          /\ mux'.finalized = mux.finalized
      BY <2>10 DEF CancelMux, TypeOK, MainType, MuxType
    <3>. QED
      BY <3>1 DEF MuxInv, OneMux, ArmAlone, PendingFinalized, FilesFinalized
  <2>11. ASSUME NEW removed \in SUBSET disk.cleanup, CloseSession(removed)
         PROVE  MuxInv'
    <3>1. /\ ~mux.pending /\ worker' = "none" /\ main'.at = "idle"
          /\ mux'.pending = mux.pending /\ mux'.inProgress = FALSE
      BY <2>11 DEF CloseSession, MuxInv, ArmAlone, Idle, TypeOK, MuxType
    <3>. QED
      BY <3>1 DEF MuxInv, OneMux, ArmAlone, PendingFinalized, FilesFinalized
  <2>. QED
    BY <1>4, <2>1, <2>2, <2>3, <2>4, <2>5, <2>6, <2>7, <2>8, <2>9, <2>10, <2>11 DEF MainStep
<1>5. CASE WorkerStep
  <2>1. /\ UNCHANGED << mux, recorder, main >>
        /\ worker # "none" /\ worker' # "none"
    BY <1>5 DEF WorkerStep, WorkerMuxes, WorkerReturns
  <2>. QED
    BY <2>1 DEF MuxInv, OneMux, ArmAlone, PendingFinalized, FilesFinalized
<1>6. CASE UNCHANGED vars
  BY <1>6, MuxUndisturbed DEF vars
<1>. QED
  BY <1>1, <1>2, <1>3, <1>4, <1>5, <1>6 DEF Next

LEMMA MuxInvariant == Spec => [](TypeOK /\ MuxInv)
<1>1. Init => TypeOK /\ MuxInv
  <2>1. Init => MuxInv
    BY DEF Init, Idle, MuxInv, OneMux, ArmAlone, PendingFinalized, FilesFinalized
  <2>. QED
    BY <2>1, InitTyped
<1>2. TypeOK /\ MuxInv /\ [Next]_vars => (TypeOK /\ MuxInv)'
  BY NextTyped, MuxNext
<1>. QED
  BY <1>1, <1>2, PTL DEF Spec

\* The files a worker is given are finished and signalled before it starts, for any
\* plan: it never waits for the recorder until its timeout.
THEOREM FilesFinalizedAlways == Spec => []FilesFinalized
BY MuxInvariant, PTL DEF MuxInv

\* No mux is launched over a worker that has not been joined, for any plan: what
\* armPendingRecordingMux() tests is enough, however a session that records while
\* the last one is muxed is stopped.
THEOREM WorkerJoinedAlways == Spec => WorkerJoined
<1>1. TypeOK /\ MuxInv => (LaunchMux => worker = "none")
  BY DEF LaunchMux, MuxWaits, MuxInv, OneMux
<1>. QED
  BY <1>1, MuxInvariant, PTL DEF WorkerJoined

-----------------------------------------------------------------------------
(* The files: what is deleted has been muxed *)

DiskInv == ResultKnown /\ DeletedAreMuxed

LEMMA DiskUndisturbed ==
    ASSUME DiskInv, UNCHANGED << task, disk >>
    PROVE  DiskInv'
BY DEF DiskInv, ResultKnown, DeletedAreMuxed

\* Files that leave the clean-up may be deleted: they were muxed when they came there.
LEMMA CleanedUp ==
    ASSUME DiskInv, NEW removed, NEW kept, removed \cup kept \subseteq disk.cleanup,
           disk'.deleted = disk.deleted \cup removed, disk'.cleanup = kept,
           disk'.muxed = disk.muxed
    PROVE  DeletedAreMuxed'
BY DEF DiskInv, DeletedAreMuxed

LEMMA DiskNext ==
    ASSUME TypeOK, DiskInv, [Next]_vars
    PROVE  DiskInv'
<1>1. CASE UNCHANGED << task, disk >>
  BY <1>1, DiskUndisturbed
<1>2. ASSUME NEW removed \in SUBSET Sources(task.video, task.audio), FinalizeMux(removed)
      PROVE  DiskInv'
  <2>1. ~task'.muxed
    BY <1>2 DEF FinalizeMux, NoTask
  <2>2. CASE task.muxed /\ budget.plan.deletes
    <3> DEFINE sources == Sources(task.video, task.audio)
    <3>1. << task.video, task.audio >> \in disk.muxed
      BY <2>2 DEF DiskInv, ResultKnown
    <3>2. sources \subseteq UNION {Sources(pair[1], pair[2]) : pair \in disk.muxed}
      BY <3>1
    <3> HIDE DEF sources
    <3>3. /\ disk'.deleted = disk.deleted \cup removed
          /\ disk'.cleanup = disk.cleanup \cup (sources \ removed)
          /\ disk'.muxed = disk.muxed
      BY <1>2, <2>2 DEF FinalizeMux, sources, TypeOK, DiskType
    <3>4. removed \subseteq sources
      BY DEF sources
    <3>5. DeletedAreMuxed'
      BY <3>2, <3>3, <3>4 DEF DiskInv, DeletedAreMuxed
    <3>. QED
      BY <2>1, <3>5 DEF DiskInv, ResultKnown
  <2>3. CASE ~(task.muxed /\ budget.plan.deletes)
    BY <1>2, <2>1, <2>3 DEF FinalizeMux, DiskInv, ResultKnown, DeletedAreMuxed
  <2>. QED
    BY <2>2, <2>3
<1>3. ASSUME NEW removed \in SUBSET disk.cleanup, NEW kept \in SUBSET disk.cleanup,
             Cleanup(removed, kept)
      PROVE  DiskInv'
  <2>1. /\ removed \cup kept \subseteq disk.cleanup /\ UNCHANGED task
        /\ disk'.deleted = disk.deleted \cup removed /\ disk'.cleanup = kept
        /\ disk'.muxed = disk.muxed
    BY <1>3 DEF Cleanup, TypeOK, DiskType
  <2>. QED
    BY <2>1, CleanedUp DEF DiskInv, ResultKnown
<1>4. ASSUME NEW removed \in SUBSET disk.cleanup, CloseSession(removed)
      PROVE  DiskInv'
  <2>1. /\ removed \cup {} \subseteq disk.cleanup
        /\ disk'.deleted = disk.deleted \cup removed /\ disk'.cleanup = {}
        /\ disk'.muxed = disk.muxed
    BY <1>4 DEF CloseSession, TypeOK, DiskType
  <2>2. ~task'.muxed
    BY <1>4 DEF CloseSession, NoTask
  <2>. QED
    BY <2>1, <2>2, CleanedUp DEF DiskInv, ResultKnown
<1>5. CASE LaunchMux
  BY <1>5 DEF LaunchMux, NoTask, DiskInv, ResultKnown, DeletedAreMuxed
<1>6. CASE CancelMux
  BY <1>6 DEF CancelMux, DiskInv, ResultKnown, DeletedAreMuxed, TypeOK, TaskType
<1>7. ASSUME NEW success \in BOOLEAN, WorkerMuxes(success)
      PROVE  DiskInv'
  <2>1. /\ task'.video = task.video /\ task'.audio = task.audio /\ task'.muxed = success
        /\ disk'.deleted = disk.deleted /\ disk'.cleanup = disk.cleanup
        /\ disk.muxed \subseteq disk'.muxed
        /\ success => << task.video, task.audio >> \in disk'.muxed
    BY <1>7 DEF WorkerMuxes, TypeOK, TaskType, DiskType
  <2>2. DeletedAreMuxed'
    BY <2>1, MuxedGrows DEF DiskInv, DeletedAreMuxed
  <2>. QED
    BY <2>1, <2>2 DEF DiskInv, ResultKnown
<1>8. CASE Start
  <2>1. UNCHANGED << task, disk >>
    BY <1>8 DEF Start, StartRefused, StartSession, StartFails, AttachAudio, RecordAudioStarts
  <2>. QED
    BY <2>1, DiskUndisturbed
<1>9. CASE Stop \/ Update \/ AudioFails \/ PlayerEnds \/ PlayerStopped \/ WorkerReturns
  <2>1. UNCHANGED << task, disk >>
    BY <1>9 DEF Stop, RecordAudioEnds, StopVideo, StopAudio, StopNothing, StopAndMux,
       PlayerStop, Close, Update, AudioFails, PlayerEnds, PlayerStopped, WorkerReturns
  <2>. QED
    BY <2>1, DiskUndisturbed
<1>10. CASE \/ NothingToFinalize \/ ArmRefused \/ Arm \/ ArmExpect \/ ArmWithoutAudio
            \/ StopCapture \/ StopPlayer \/ ClearVideo \/ ClearAudio
            \/ MuxDelayed \/ FinalizeStop
  <2>1. UNCHANGED << task, disk >>
    BY <1>10 DEF NothingToFinalize, ArmRefused, Arm, ArmExpect, ArmWithoutAudio, StopCapture,
       StopPlayer, ClearVideo, ClearAudio, MuxDelayed, FinalizeStop
  <2>. QED
    BY <2>1, DiskUndisturbed
<1>. QED
  BY <1>1, <1>2, <1>3, <1>4, <1>5, <1>6, <1>7, <1>8, <1>9, <1>10
  DEF Next, MainStep, WorkerStep, vars

\* A source file is deleted only after a mux of it has succeeded, for any plan and
\* whatever the clean-up finds in use.
THEOREM OnlyMuxedIsDeleted == Spec => []DeletedAreMuxed
<1>1. Init => TypeOK /\ DiskInv
  <2>1. Init => DiskInv
    BY DEF Init, NoTask, DiskInv, ResultKnown, DeletedAreMuxed
  <2>. QED
    BY <2>1, InitTyped
<1>2. TypeOK /\ DiskInv /\ [Next]_vars => (TypeOK /\ DiskInv)'
  BY NextTyped, DiskNext
<1>3. TypeOK /\ DiskInv => DeletedAreMuxed
  BY DEF DiskInv
<1>. QED
  BY <1>1, <1>2, <1>3, PTL DEF Spec

-----------------------------------------------------------------------------
(* The captures: their files are numbered as they start *)

\* A video is captured into a file and so is an audio, newer than those finished.
FilesOrdered ==
    /\ recorder.video <=> recorder.videoPath # NoFile
    /\ recorder.videoPath # NoFile => recorder.lastVideo < recorder.videoPath
    /\ recorder.audioPath # NoFile => recorder.lastAudio < recorder.audioPath
    /\ recorder.videoPath <= budget.captures /\ recorder.lastVideo <= budget.captures
    /\ recorder.audioPath <= budget.captures /\ recorder.lastAudio <= budget.captures

\* The last finished file never gives way to an older one, and a file that is being
\* written stays so or is finished.
Grows(path, last, path1, last1) == last <= last1 /\ (path1 = path \/ path <= last1)
RecorderGrows(r, s) ==
    /\ Grows(r.videoPath, r.lastVideo, s.videoPath, s.lastVideo)
    /\ Grows(r.audioPath, r.lastAudio, s.audioPath, s.lastAudio)

LEMMA RecorderNumbers ==
    ASSUME TypeOK
    PROVE  /\ recorder.video \in BOOLEAN
           /\ recorder.videoPath \in Nat /\ recorder.audioPath \in Nat
           /\ recorder.lastVideo \in Nat /\ recorder.lastAudio \in Nat
           /\ budget.captures \in Nat
BY DEF TypeOK, RecorderType, BudgetType, Path

\* What stays when the recorder and the number of captures do.
LEMMA FilesRest ==
    ASSUME TypeOK, FilesOrdered, UNCHANGED recorder, budget'.captures = budget.captures
    PROVE  FilesOrdered' /\ RecorderGrows(recorder, recorder')
BY RecorderNumbers DEF FilesOrdered, RecorderGrows, Grows

\* A capture ends, of audio or of both.
LEMMA FilesClose ==
    ASSUME TypeOK, FilesOrdered, budget'.captures = budget.captures,
           \/ recorder' = AudioClosed(recorder)
           \/ recorder' = VideoCleared(recorder)
           \/ recorder' = AudioClosed(VideoCleared(recorder))
    PROVE  FilesOrdered' /\ RecorderGrows(recorder, recorder')
<1>1. recorder \in RecorderType
  BY DEF TypeOK
<1>2. ASSUME NEW r \in RecorderType
      PROVE  /\ AudioClosed(r) \in RecorderType
             /\ AudioClosed(r).video <=> r.video
             /\ AudioClosed(r).videoPath = r.videoPath /\ AudioClosed(r).lastVideo = r.lastVideo
             /\ AudioClosed(r).audioPath = NoFile
             /\ AudioClosed(r).lastAudio = IF r.audioPath = NoFile THEN r.lastAudio ELSE r.audioPath
  BY DEF AudioClosed, RecorderType, Path, NoFile
<1>3. ASSUME NEW r \in RecorderType
      PROVE  /\ VideoCleared(r) \in RecorderType
             /\ ~VideoCleared(r).video /\ VideoCleared(r).videoPath = NoFile
             /\ VideoCleared(r).lastVideo = IF r.videoPath = NoFile THEN r.lastVideo ELSE r.videoPath
             /\ VideoCleared(r).audioPath = r.audioPath /\ VideoCleared(r).lastAudio = r.lastAudio
  BY DEF VideoCleared, RecorderType, Path, NoFile
<1>4. CASE recorder' = AudioClosed(recorder)
  BY <1>1, <1>2, <1>4, RecorderNumbers DEF FilesOrdered, RecorderGrows, Grows, NoFile
<1>5. CASE recorder' = VideoCleared(recorder)
  BY <1>1, <1>3, <1>5, RecorderNumbers DEF FilesOrdered, RecorderGrows, Grows, NoFile
<1>6. CASE recorder' = AudioClosed(VideoCleared(recorder))
  BY <1>1, <1>2, <1>3, <1>6, RecorderNumbers DEF FilesOrdered, RecorderGrows, Grows, NoFile
<1> QED
  BY <1>4, <1>5, <1>6

\* A capture starts, or fails to.
LEMMA FilesStart ==
    ASSUME TypeOK, FilesOrdered, Start
    PROVE  FilesOrdered' /\ RecorderGrows(recorder, recorder')
<1>1. recorder \in RecorderType /\ budget \in BudgetType
  BY DEF TypeOK
<1>2. ASSUME NEW failed, NEW muxOnStop, NEW asked, Begun(failed, muxOnStop, asked)
      PROVE  budget'.captures = budget.captures + 1
  BY <1>1, <1>2 DEF Begun, BudgetType, NewFile
<1>3. CASE StartRefused
  BY <1>3, FilesRest DEF StartRefused
<1>4. ASSUME NEW session \in budget.plan.sessions, NEW failed \in BOOLEAN,
             StartSession(session, failed)
      PROVE  FilesOrdered' /\ RecorderGrows(recorder, recorder')
  <2>1. /\ recorder.videoPath = NoFile /\ recorder.audioPath = NoFile
        /\ budget'.captures = budget.captures + 1
    BY <1>2, <1>4 DEF StartSession, CaptureActive, AudioActive, FilesOrdered
  <2>2. /\ recorder'.video = TRUE /\ recorder'.videoPath = budget.captures + 1
        /\ recorder'.lastVideo = recorder.lastVideo
        /\ \/ recorder'.audioPath = budget.captures + 1 /\ recorder'.lastAudio = recorder.lastAudio
           \/ recorder'.audioPath = NoFile /\ recorder'.lastAudio = recorder.lastAudio
           \/ recorder'.audioPath = NoFile /\ recorder'.lastAudio = budget.captures + 1
    BY <1>1, <1>4, <2>1 DEF StartSession, RecorderType, NewFile
  <2> QED BY <2>1, <2>2, RecorderNumbers DEF FilesOrdered, RecorderGrows, Grows, NoFile
<1>5. ASSUME NEW pathSet \in BOOLEAN, StartFails(pathSet)
      PROVE  FilesOrdered' /\ RecorderGrows(recorder, recorder')
  <2>1. /\ recorder.videoPath = NoFile /\ recorder.audioPath = NoFile
        /\ budget'.captures = budget.captures + 1
    BY <1>2, <1>5 DEF StartFails, CaptureActive, AudioActive, FilesOrdered
  <2>2. /\ recorder'.video = recorder.video /\ recorder'.videoPath = recorder.videoPath
        /\ recorder'.lastVideo \in {recorder.lastVideo, budget.captures + 1}
        /\ recorder'.audioPath = recorder.audioPath /\ recorder'.lastAudio = recorder.lastAudio
    BY <1>1, <1>5 DEF StartFails, RecorderType, NewFile
  <2> QED BY <2>1, <2>2, RecorderNumbers DEF FilesOrdered, RecorderGrows, Grows, NoFile
<1>6. ASSUME NEW failed \in BOOLEAN, AttachAudio(failed) \/ RecordAudioStarts(failed)
      PROVE  FilesOrdered' /\ RecorderGrows(recorder, recorder')
  <2>1. recorder.audioPath = NoFile /\ budget'.captures = budget.captures + 1 /\ AudioStarts(failed)
    BY <1>2, <1>6 DEF AttachAudio, RecordAudioStarts, CaptureActive, AudioActive
  <2>2. /\ recorder'.video = recorder.video /\ recorder'.videoPath = recorder.videoPath
        /\ recorder'.lastVideo = recorder.lastVideo
        /\ \/ recorder'.audioPath = budget.captures + 1 /\ recorder'.lastAudio = recorder.lastAudio
           \/ recorder'.audioPath = NoFile /\ recorder'.lastAudio = budget.captures + 1
    BY <1>1, <2>1 DEF AudioStarts, RecorderType, NewFile
  <2> QED BY <2>1, <2>2, RecorderNumbers DEF FilesOrdered, RecorderGrows, Grows, NoFile
<1> QED BY <1>3, <1>4, <1>5, <1>6 DEF Start

\* Every step keeps the order of the files.
LEMMA FilesNext ==
    ASSUME TypeOK, FilesOrdered, [Next]_vars
    PROVE  FilesOrdered' /\ RecorderGrows(recorder, recorder')
<1>1. CASE Start
  BY <1>1, FilesStart
<1>2. CASE RecordAudioEnds \/ StopAudio \/ ClearVideo \/ ClearAudio
  BY <1>2, FilesClose DEF RecordAudioEnds, StopAudio, ClearVideo, ClearAudio
<1>3. CASE AudioFails
  <2>1. budget'.captures = budget.captures /\ recorder' = AudioClosed(recorder)
    BY <1>3 DEF AudioFails, TypeOK, BudgetType
  <2> QED BY <2>1, FilesClose
<1>4. ASSUME NEW removed, CloseSession(removed)
      PROVE  FilesOrdered' /\ RecorderGrows(recorder, recorder')
  BY <1>4, FilesClose DEF CloseSession
<1>5. CASE StopVideo
  <2>1. budget'.captures = budget.captures /\ UNCHANGED recorder
    BY <1>5 DEF StopVideo, TypeOK, BudgetType
  <2> QED BY <2>1, FilesRest
<1>6. CASE UNCHANGED << recorder, budget >>
  BY <1>6, FilesRest
<1>7. CASE StopNothing \/ StopAndMux \/ PlayerStop \/ Close \/ Update \/ PlayerEnds \/ PlayerStopped
           \/ NothingToFinalize \/ ArmRefused \/ Arm \/ ArmExpect \/ ArmWithoutAudio
           \/ StopCapture \/ StopPlayer \/ MuxDelayed \/ LaunchMux \/ FinalizeStop \/ CancelMux
           \/ WorkerReturns
  <2>1. UNCHANGED << recorder, budget >>
    BY <1>7 DEF StopNothing, StopAndMux, PlayerStop, Close, Update, PlayerEnds, PlayerStopped,
       NothingToFinalize, ArmRefused, Arm, ArmExpect, ArmWithoutAudio, StopCapture, StopPlayer,
       MuxDelayed, LaunchMux, FinalizeStop, CancelMux, WorkerReturns
  <2> QED BY <1>6, <2>1
<1>8. ASSUME NEW removed, NEW kept, NEW success,
             FinalizeMux(removed) \/ Cleanup(removed, kept) \/ WorkerMuxes(success)
      PROVE  UNCHANGED << recorder, budget >>
  BY <1>8 DEF FinalizeMux, Cleanup, WorkerMuxes
<1> QED
  BY <1>1, <1>2, <1>3, <1>4, <1>5, <1>6, <1>7, <1>8
  DEF Next, Stop, MainStep, WorkerStep, vars

-----------------------------------------------------------------------------
(* The sources: what has been muxed before is older *)

MuxedUpTo(v, a) == \A pair \in disk.muxed : pair[1] <= v /\ pair[2] <= a

\* The files muxed so far are finished, and when a mux is armed they were so before: its
\* files are those being captured then or finished since.
MuxedBefore ==
    /\ MuxedUpTo(recorder.lastVideo, recorder.lastAudio)
    /\ main.at = "expect" \/ mux.pending =>
          /\ MuxedUpTo(mux.previousVideo, mux.previousAudio)
          /\ mux.previousVideo <= recorder.lastVideo /\ mux.previousAudio <= recorder.lastAudio
    /\ mux.pending =>
          /\ mux.expectedVideo = recorder.videoPath \/ mux.expectedVideo <= recorder.lastVideo
          /\ mux.expectedAudio = recorder.audioPath \/ mux.expectedAudio <= recorder.lastAudio

\* The worker's files are finished, and newer than all that was muxed.
WorkerAhead ==
    /\ worker # "none" => task.video <= recorder.lastVideo /\ task.audio <= recorder.lastAudio
    /\ worker = "working" =>
          /\ task.video # NoFile /\ task.audio # NoFile
          /\ \A pair \in disk.muxed : pair[1] < task.video /\ pair[2] < task.audio

LEMMA FileNumbers ==
    ASSUME TypeOK
    PROVE  /\ mux.previousVideo \in Nat /\ mux.previousAudio \in Nat
           /\ mux.expectedVideo \in Nat /\ mux.expectedAudio \in Nat
           /\ task.video \in Nat /\ task.audio \in Nat
           /\ \A pair \in disk.muxed :
                 pair = << pair[1], pair[2] >> /\ pair[1] \in Nat /\ pair[2] \in Nat
BY DEF TypeOK, MuxType, TaskType, DiskType, Path

\* Time passes: the last files grow, no mux is armed, launched or carried out.
LEMMA MuxedKept ==
    ASSUME TypeOK, TypeOK', MuxedBefore, WorkerAhead, RecorderGrows(recorder, recorder'),
           disk'.muxed = disk.muxed,
           main'.at = "expect" \/ mux'.pending =>
              /\ main.at = "expect" \/ mux.pending
              /\ mux'.previousVideo = mux.previousVideo
              /\ mux'.previousAudio = mux.previousAudio,
           mux'.pending =>
              /\ mux.pending
              /\ mux'.expectedVideo = mux.expectedVideo
              /\ mux'.expectedAudio = mux.expectedAudio,
           worker' # "none" =>
              /\ worker # "none"
              /\ task'.video = task.video /\ task'.audio = task.audio,
           worker' = "working" => worker = "working"
    PROVE  MuxedBefore' /\ WorkerAhead'
<1>1. /\ recorder.lastVideo <= recorder'.lastVideo /\ recorder.lastAudio <= recorder'.lastAudio
      /\ recorder'.videoPath = recorder.videoPath \/ recorder.videoPath <= recorder'.lastVideo
      /\ recorder'.audioPath = recorder.audioPath \/ recorder.audioPath <= recorder'.lastAudio
  BY DEF RecorderGrows, Grows
<1>2. /\ recorder'.lastVideo \in Nat /\ recorder'.lastAudio \in Nat
      /\ recorder'.videoPath \in Nat /\ recorder'.audioPath \in Nat
  BY DEF TypeOK, RecorderType, Path
<1>3. \A x, y \in Nat : x <= recorder.lastVideo /\ y <= recorder.lastAudio =>
          x <= recorder'.lastVideo /\ y <= recorder'.lastAudio
  BY <1>1, <1>2, RecorderNumbers
<1>4. MuxedUpTo(recorder.lastVideo, recorder.lastAudio)'
  BY <1>3, FileNumbers DEF MuxedBefore, MuxedUpTo
<1>5. ASSUME main'.at = "expect" \/ mux'.pending
      PROVE  /\ MuxedUpTo(mux.previousVideo, mux.previousAudio)'
             /\ mux'.previousVideo <= recorder'.lastVideo
             /\ mux'.previousAudio <= recorder'.lastAudio
  BY <1>3, <1>5, FileNumbers DEF MuxedBefore, MuxedUpTo
<1>6. ASSUME mux'.pending
      PROVE  /\ mux'.expectedVideo = recorder'.videoPath \/ mux'.expectedVideo <= recorder'.lastVideo
             /\ mux'.expectedAudio = recorder'.audioPath \/ mux'.expectedAudio <= recorder'.lastAudio
  BY <1>1, <1>2, <1>6, FileNumbers, RecorderNumbers DEF MuxedBefore
<1>7. WorkerAhead'
  BY <1>3, FileNumbers DEF WorkerAhead
<1> QED BY <1>4, <1>5, <1>6, <1>7 DEF MuxedBefore

\* Arming remembers the files finished last.
LEMMA ArmMuxed ==
    ASSUME TypeOK, MuxInv, MuxedBefore, WorkerAhead, Arm
    PROVE  MuxedBefore' /\ WorkerAhead'
<1>1. /\ mux'.previousVideo = recorder.lastVideo /\ mux'.previousAudio = recorder.lastAudio
      /\ ~mux'.pending /\ UNCHANGED << recorder, disk, worker, task >>
  BY DEF Arm, TypeOK, MuxType
<1> QED BY <1>1, RecorderNumbers DEF MuxedBefore, WorkerAhead, MuxedUpTo

LEMMA ExpectMuxed ==
    ASSUME TypeOK, MuxInv, MuxedBefore, WorkerAhead, ArmExpect
    PROVE  MuxedBefore' /\ WorkerAhead'
<1>1. /\ mux'.previousVideo = mux.previousVideo /\ mux'.previousAudio = mux.previousAudio
      /\ mux'.expectedVideo = recorder.videoPath
      /\ mux'.expectedAudio \in {recorder.audioPath, recorder.lastAudio}
      /\ main.at = "expect" /\ UNCHANGED << recorder, disk, worker, task >>
  BY DEF ArmExpect, ExpectedAudio, TypeOK, MuxType
<1> QED BY <1>1, RecorderNumbers DEF MuxedBefore, WorkerAhead, MuxedUpTo

\* A mux is launched with the files finished since it was armed.
LEMMA LaunchMuxed ==
    ASSUME TypeOK, MuxInv, FilesOrdered, MuxedBefore, WorkerAhead, LaunchMux
    PROVE  MuxedBefore' /\ WorkerAhead'
<1>1. /\ main'.at = "playback" /\ ~mux'.pending /\ worker' = "working"
      /\ task'.video = ResolvedVideo /\ task'.audio = ResolvedAudio
      /\ UNCHANGED << recorder, disk >>
  BY DEF LaunchMux, NoTask, TypeOK, MuxType, MainType
<1>2. /\ mux.pending /\ recorder.videoPath = NoFile /\ recorder.audioPath = NoFile
      /\ ResolvedVideo # NoFile /\ ResolvedVideo # mux.previousVideo
      /\ ResolvedAudio # NoFile /\ ResolvedAudio # mux.previousAudio
  BY DEF LaunchMux, MuxWaits, FilesArrived, CaptureActive, AudioActive, FilesOrdered
<1>3. ResolvedVideo = recorder.lastVideo /\ ResolvedAudio = recorder.lastAudio
  BY <1>2, RecorderNumbers, FileNumbers
  DEF ResolvedVideo, ResolvedAudio, Resolved, MuxedBefore, NoFile
<1>4. \A pair \in disk.muxed : pair[1] < recorder.lastVideo /\ pair[2] < recorder.lastAudio
  <2>1. /\ mux.previousVideo < recorder.lastVideo /\ mux.previousAudio < recorder.lastAudio
    BY <1>2, <1>3, RecorderNumbers, FileNumbers DEF MuxedBefore
  <2> QED BY <1>2, <2>1, RecorderNumbers, FileNumbers DEF MuxedBefore, MuxedUpTo
<1> QED
  BY <1>1, <1>2, <1>3, <1>4, RecorderNumbers DEF MuxedBefore, WorkerAhead, MuxedUpTo

\* A worker writes down its files, which are newer than the others.
LEMMA WorkerMuxed ==
    ASSUME TypeOK, MuxInv, MuxedBefore, WorkerAhead, NEW success \in BOOLEAN, WorkerMuxes(success)
    PROVE  MuxedBefore' /\ WorkerAhead'
<1>1. /\ worker = "working" /\ worker' = "leaving"
      /\ task'.video = task.video /\ task'.audio = task.audio
      /\ disk'.muxed \subseteq disk.muxed \cup {<< task.video, task.audio >>}
      /\ UNCHANGED << recorder, mux, main >>
  BY DEF WorkerMuxes, TypeOK, TaskType, DiskType
<1>2. main.at # "expect" /\ ~mux.pending
  BY <1>1 DEF MuxInv, OneMux, ArmAlone
<1> QED
  BY <1>1, <1>2, RecorderNumbers, FileNumbers DEF MuxedBefore, WorkerAhead, MuxedUpTo

LEMMA MuxedNext ==
    ASSUME TypeOK, TypeOK', MuxInv, FilesOrdered, RecorderGrows(recorder, recorder'),
           MuxedBefore, WorkerAhead, [Next]_vars
    PROVE  MuxedBefore' /\ WorkerAhead'
<1>1. CASE Start
  <2>1. /\ UNCHANGED << mux, task, worker, disk >> /\ main'.at # "expect"
    <3>1. UNCHANGED << mux, task, worker, disk >>
      BY <1>1 DEF Start, StartRefused, StartSession, StartFails, AttachAudio, RecordAudioStarts
    <3>2. ASSUME NEW session \in budget.plan.sessions, NEW failed \in BOOLEAN,
                 StartSession(session, failed)
          PROVE  main'.at # "expect"
      BY <3>2 DEF StartSession, StartBegins, Idle
    <3>3. ASSUME NEW pathSet \in BOOLEAN, StartFails(pathSet)
          PROVE  main'.at # "expect"
      BY <3>3 DEF StartFails, StartBegins, Idle
    <3>4. ASSUME NEW failed \in BOOLEAN, AttachAudio(failed)
          PROVE  main'.at # "expect"
      BY <3>4 DEF AttachAudio, CallBegins, Idle
    <3>5. ASSUME NEW failed \in BOOLEAN, RecordAudioStarts(failed)
          PROVE  main'.at # "expect"
      BY <3>5 DEF RecordAudioStarts, CallBegins, Idle
    <3>6. CASE StartRefused
      BY <3>6 DEF StartRefused, StartBegins, Idle
    <3> QED BY <1>1, <3>1, <3>2, <3>3, <3>4, <3>5, <3>6 DEF Start
  <2> QED BY <2>1, MuxedKept
<1>2. CASE Stop \/ Update
  <2>1. UNCHANGED << mux, task, worker, disk >>
    BY <1>2 DEF Stop, RecordAudioEnds, StopVideo, StopAudio, StopNothing, StopAndMux, PlayerStop,
       Close, Update
  <2>2. CASE RecordAudioEnds \/ StopAudio \/ StopNothing
    <3>1. main'.at = "idle"
      BY <2>2 DEF RecordAudioEnds, StopAudio, StopNothing, CallBegins, Idle
    <3> QED BY <2>1, <3>1, MuxedKept
  <2>3. CASE StopVideo \/ StopAndMux \/ PlayerStop \/ Close \/ Update
    <3>1. main'.at \in {"finalize", "stopping", "stop"}
      BY <2>3 DEF StopVideo, StopAndMux, PlayerStop, Close, Update, TypeOK, MainType
    <3> QED BY <2>1, <3>1, MuxedKept
  <2> QED BY <1>2, <2>2, <2>3 DEF Stop
<1>3. CASE AudioFails \/ PlayerEnds \/ PlayerStopped \/ WorkerReturns \/ UNCHANGED vars
  <2>1. /\ UNCHANGED << mux, task, disk, main >>
        /\ worker' # "none" => worker # "none"
        /\ worker' = "working" => worker = "working"
    BY <1>3 DEF AudioFails, PlayerEnds, PlayerStopped, WorkerReturns, vars
  <2> QED BY <2>1, MuxedKept
<1>4. CASE NothingToFinalize \/ ArmRefused \/ ArmWithoutAudio \/ StopCapture \/ StopPlayer
           \/ ClearVideo \/ MuxDelayed \/ FinalizeStop
  <2>1. UNCHANGED << mux, task, worker, disk >>
    BY <1>4 DEF NothingToFinalize, ArmRefused, ArmWithoutAudio, StopCapture, StopPlayer,
       ClearVideo, MuxDelayed, FinalizeStop
  <2>2. CASE NothingToFinalize
    <3>1. main'.at \in {"cleanup", "cancel", "arm"}
      BY <2>2 DEF NothingToFinalize, AfterFinalize, TypeOK, MainType
    <3> QED BY <2>1, <3>1, MuxedKept
  <2>3. CASE ArmRefused \/ ArmWithoutAudio
    <3>1. main'.at = "idle"
      BY <2>3 DEF ArmRefused, ArmWithoutAudio, Idle
    <3> QED BY <2>1, <3>1, MuxedKept
  <2>4. CASE StopCapture \/ StopPlayer \/ MuxDelayed \/ FinalizeStop
    <3>1. main'.at # "expect"
      BY <2>4 DEF StopCapture, StopPlayer, MuxDelayed, FinalizeStop, Idle, TypeOK, MainType
    <3> QED BY <2>1, <3>1, MuxedKept
  <2>5. CASE ClearVideo
    <3>1. main'.at = "clearAudio"
      BY <2>5 DEF ClearVideo, TypeOK, MainType
    <3> QED BY <2>1, <3>1, MuxedKept
  <2> QED BY <1>4, <2>2, <2>3, <2>4, <2>5
<1>5. ASSUME NEW removed, FinalizeMux(removed)
      PROVE  MuxedBefore' /\ WorkerAhead'
  <2>1. /\ disk'.muxed = disk.muxed /\ worker' = "none"
        /\ mux' = [mux EXCEPT !.inProgress = FALSE]
    BY <1>5 DEF FinalizeMux, TypeOK, DiskType
  <2>2. main'.at # "expect"
    BY <1>5 DEF FinalizeMux, AfterFinalize, TypeOK, MainType
  <2>3. /\ mux'.pending = mux.pending
        /\ mux'.previousVideo = mux.previousVideo /\ mux'.previousAudio = mux.previousAudio
        /\ mux'.expectedVideo = mux.expectedVideo /\ mux'.expectedAudio = mux.expectedAudio
    BY <2>1 DEF TypeOK, MuxType
  <2> QED BY <2>1, <2>2, <2>3, MuxedKept
<1>6. ASSUME NEW removed, NEW kept, Cleanup(removed, kept)
      PROVE  MuxedBefore' /\ WorkerAhead'
  <2>1. disk'.muxed = disk.muxed /\ main'.at = "mux" /\ UNCHANGED << mux, task, worker >>
    BY <1>6 DEF Cleanup, TypeOK, DiskType, MainType
  <2> QED BY <2>1, MuxedKept
<1>7. CASE ClearAudio
  <2>1. /\ UNCHANGED << task, worker, disk >> /\ main'.at = "idle"
        /\ mux'.pending = mux.pending
        /\ mux'.previousVideo = mux.previousVideo /\ mux'.previousAudio = mux.previousAudio
        /\ mux'.expectedVideo = mux.expectedVideo /\ mux'.expectedAudio = mux.expectedAudio
    BY <1>7 DEF ClearAudio, Idle, TypeOK, MuxType
  <2> QED BY <2>1, MuxedKept
<1>8. CASE CancelMux
  <2>1. /\ UNCHANGED << worker, disk >> /\ main'.at = "join" /\ ~mux'.pending
        /\ task'.video = task.video /\ task'.audio = task.audio
    BY <1>8 DEF CancelMux, TypeOK, MuxType, TaskType, MainType
  <2> QED BY <2>1, MuxedKept
<1>9. ASSUME NEW removed, CloseSession(removed)
      PROVE  MuxedBefore' /\ WorkerAhead'
  <2>1. /\ worker' = "none" /\ disk'.muxed = disk.muxed /\ main'.at = "idle"
        /\ mux'.pending = mux.pending /\ main.at = "join"
    BY <1>9 DEF CloseSession, Idle, TypeOK, MuxType, DiskType
  <2>2. ~mux'.pending
    BY <2>1 DEF MuxInv, ArmAlone
  <2> QED BY <2>1, <2>2, MuxedKept
<1> QED
  BY <1>1, <1>2, <1>3, <1>4, <1>5, <1>6, <1>7, <1>8, <1>9,
     ArmMuxed, ExpectMuxed, LaunchMuxed, WorkerMuxed
  DEF Next, MainStep, WorkerStep

FilesInv == TypeOK /\ MuxInv /\ DiskInv /\ FilesOrdered /\ MuxedBefore /\ WorkerAhead

LEMMA FilesInvariant == Spec => []FilesInv
<1>1. Init => FilesInv
  <2> SUFFICES ASSUME Init
               PROVE  FilesInv
    OBVIOUS
  <2>1. MuxInv /\ DiskInv
    BY DEF Init, Idle, NoTask, MuxInv, OneMux, ArmAlone, PendingFinalized, FilesFinalized,
       DiskInv, ResultKnown, DeletedAreMuxed
  <2>2. FilesOrdered /\ MuxedBefore /\ WorkerAhead
    BY DEF Init, Idle, FilesOrdered, MuxedBefore, MuxedUpTo, WorkerAhead, NoFile
  <2> QED BY <2>1, <2>2, InitTyped DEF FilesInv
<1>2. FilesInv /\ [Next]_vars => FilesInv'
  <2> SUFFICES ASSUME FilesInv, [Next]_vars
               PROVE  FilesInv'
    OBVIOUS
  <2>1. TypeOK' /\ MuxInv' /\ DiskInv'
    BY NextTyped, MuxNext, DiskNext DEF FilesInv
  <2>2. FilesOrdered' /\ RecorderGrows(recorder, recorder')
    BY FilesNext DEF FilesInv
  <2>3. MuxedBefore' /\ WorkerAhead'
    BY <2>1, <2>2, MuxedNext DEF FilesInv
  <2> QED BY <2>1, <2>2, <2>3 DEF FilesInv
<1> QED
  BY <1>1, <1>2, PTL DEF Spec

\* The files a worker reads are there and are not being written, for any plan: sessions
\* started while one is muxed, audio files that fail or are attached late, and deletions
\* put off until later included.
THEOREM SourcesIntactAlways == Spec => []SourcesIntact
<1>1. FilesInv => SourcesIntact
  <2> SUFFICES ASSUME FilesInv, worker = "working"
               PROVE  /\ Sources(task.video, task.audio) \cap (disk.deleted \cup disk.cleanup) = {}
                      /\ recorder.videoPath # task.video
                      /\ recorder.audioPath # task.audio
    BY DEF SourcesIntact
  <2>1. /\ task.video # NoFile /\ task.audio # NoFile
        /\ task.video <= recorder.lastVideo /\ task.audio <= recorder.lastAudio
        /\ \A pair \in disk.muxed : pair[1] < task.video /\ pair[2] < task.audio
    BY DEF FilesInv, WorkerAhead
  <2>2. recorder.videoPath # task.video /\ recorder.audioPath # task.audio
    BY <2>1, RecorderNumbers, FileNumbers DEF FilesInv, FilesOrdered, NoFile
  <2>3. ASSUME NEW file \in Sources(task.video, task.audio), file \in disk.deleted \cup disk.cleanup
        PROVE  FALSE
    <3>1. PICK pair \in disk.muxed : file \in Sources(pair[1], pair[2])
      BY <2>3 DEF FilesInv, DiskInv, DeletedAreMuxed
    <3>2. pair[1] # task.video /\ pair[2] # task.audio
      BY <2>1, FileNumbers DEF FilesInv
    <3> QED BY <2>3, <3>1, <3>2 DEF Sources, Video, Audio
  <2> QED BY <2>2, <2>3
<1> QED
  BY <1>1, FilesInvariant, PTL

-----------------------------------------------------------------------------
(* One session at a time: the plans in which none starts before the last mux *)

\* While a video is captured no mux is carried out and the state shows the capture; a
\* pending mux expects the session's own video, and a worker has it.
OneSession ==
    ~budget.plan.eager =>
        /\ recorder.video => worker = "none" /\ sessionState \notin {"Idle", "Done"}
        /\ recorder.video /\ budget.wantsMux => config = "mux"
        /\ mux.pending => mux.expectedVideo =
               IF recorder.video THEN recorder.videoPath ELSE recorder.lastVideo
        /\ worker # "none" => task.video = mux.expectedVideo /\ task.audio # mux.previousAudio
        /\ main.at = "stopping" /\ budget.wantsMux => mux.pending
        /\ main.at = "clearAudio" => ~recorder.video

\* The video, what was asked for and the plan stay as they are.
VideoKept ==
    /\ budget'.plan = budget.plan
    /\ budget'.wantsMux <=> budget.wantsMux
    /\ recorder'.video <=> recorder.video
    /\ recorder'.videoPath = recorder.videoPath /\ recorder'.lastVideo = recorder.lastVideo

\* A step that starts no video, arms no mux and launches none keeps OneSession, if it
\* lets the state show a capture.
LEMMA SessionKept ==
    ASSUME OneSession, VideoKept,
           worker' # "none" =>
              /\ worker # "none"
              /\ task'.video = task.video /\ task'.audio = task.audio
              /\ mux'.previousAudio = mux.previousAudio,
           mux'.pending => mux.pending,
           mux'.expectedVideo = mux.expectedVideo,
           config' = config \/ ~recorder.video,
           sessionState' = sessionState \/ sessionState' \notin {"Idle", "Done"} \/ ~recorder.video,
           main'.at = "clearAudio" => main.at = "clearAudio",
           main'.at = "stopping" => main.at = "stopping" /\ mux'.pending = mux.pending
    PROVE  OneSession'
<1> SUFFICES ASSUME ~budget.plan.eager
             PROVE  OneSession'
  BY DEF OneSession, VideoKept
<1>1. /\ recorder'.video => worker' = "none" /\ sessionState' \notin {"Idle", "Done"}
      /\ recorder'.video /\ budget'.wantsMux => config' = "mux"
  BY DEF OneSession, VideoKept
<1>2. /\ mux'.pending => mux'.expectedVideo =
             IF recorder'.video THEN recorder'.videoPath ELSE recorder'.lastVideo
      /\ worker' # "none" =>
             task'.video = mux'.expectedVideo /\ task'.audio # mux'.previousAudio
  BY DEF OneSession, VideoKept
<1>3. /\ main'.at = "stopping" /\ budget'.wantsMux => mux'.pending
      /\ main'.at = "clearAudio" => ~recorder'.video
  BY DEF OneSession, VideoKept
<1> QED BY <1>1, <1>2, <1>3 DEF OneSession

\* The end of the audio leaves the video as it is.
LEMMA AudioLeavesVideo ==
    ASSUME TypeOK
    PROVE  /\ AudioClosed(recorder).video = recorder.video
           /\ AudioClosed(recorder).videoPath = recorder.videoPath
           /\ AudioClosed(recorder).lastVideo = recorder.lastVideo
BY DEF TypeOK, RecorderType, AudioClosed

\* A capture starts where nothing is captured or muxed.
LEMMA SessionStart ==
    ASSUME TypeOK, MuxInv, OneSession, Start
    PROVE  OneSession'
<1>1. budget \in BudgetType /\ recorder \in RecorderType
  BY DEF TypeOK
<1>2. ASSUME NEW failed, NEW muxOnStop, NEW asked, Begun(failed, muxOnStop, asked)
      PROVE  budget'.plan = budget.plan /\ budget'.wantsMux = muxOnStop
  BY <1>1, <1>2 DEF Begun, BudgetType
<1>3. ASSUME StartBegins, ~budget.plan.eager
      PROVE  /\ ~recorder.video /\ ~CaptureActive
             /\ ~mux.pending /\ worker = "none" /\ main.at = "idle"
  BY <1>3 DEF StartBegins, MayStart, CaptureActive, MuxInv, OneMux, Idle
<1>4. CASE StartRefused
  <2>1. budget.plan.eager /\ UNCHANGED budget
    BY <1>3, <1>4 DEF StartRefused
  <2> QED BY <2>1 DEF OneSession
<1>5. ASSUME NEW session \in budget.plan.sessions, NEW failed \in BOOLEAN,
             StartSession(session, failed)
      PROVE  OneSession'
  <2>1. /\ budget'.plan = budget.plan
        /\ budget'.wantsMux = (session.muxOnStop /\ ~failed)
        /\ StartBegins /\ UNCHANGED << mux, worker >>
    BY <1>2, <1>5 DEF StartSession
  <2>2. sessionState' \in {"Failed", "Capturing"} /\ main'.at \in {"idle", "stop"}
    BY <1>5 DEF StartSession, StartBegins, Idle
  <2>3. session.muxOnStop /\ ~failed => config' = "mux"
    BY <1>5 DEF StartSession
  <2> QED BY <1>3, <2>1, <2>2, <2>3 DEF OneSession
<1>6. ASSUME NEW pathSet \in BOOLEAN, StartFails(pathSet)
      PROVE  OneSession'
  <2>1. /\ budget'.plan = budget.plan /\ budget'.wantsMux = FALSE
        /\ StartBegins /\ UNCHANGED << mux, worker, main >>
        /\ recorder'.video = recorder.video
    BY <1>1, <1>2, <1>6 DEF StartFails, RecorderType
  <2> QED BY <1>3, <2>1 DEF OneSession
<1>7. ASSUME NEW failed \in BOOLEAN, AudioStarts(failed)
      PROVE  /\ recorder'.video = recorder.video
             /\ recorder'.videoPath = recorder.videoPath
             /\ recorder'.lastVideo = recorder.lastVideo
             /\ sessionState' \in {"Failed", "Capturing"}
  BY <1>1, <1>7 DEF AudioStarts, RecorderType
<1>8. ASSUME NEW failed \in BOOLEAN, AttachAudio(failed)
      PROVE  OneSession'
  <2>1. AudioStarts(failed) /\ Begun(failed, budget.wantsMux, budget.asked)
    BY <1>8 DEF AttachAudio
  <2>2. VideoKept /\ sessionState' \in {"Failed", "Capturing"}
    BY <1>2, <1>7, <2>1 DEF VideoKept
  <2> QED BY <1>8, <2>2, SessionKept DEF AttachAudio
<1>9. ASSUME NEW failed \in BOOLEAN, RecordAudioStarts(failed)
      PROVE  OneSession'
  <2>1. /\ AudioStarts(failed) /\ Begun(failed, FALSE, FALSE)
        /\ StartBegins /\ UNCHANGED << mux, worker, main >>
    BY <1>9 DEF RecordAudioStarts
  <2>2. /\ budget'.plan = budget.plan /\ budget'.wantsMux = FALSE
        /\ recorder'.video = recorder.video
    BY <1>2, <1>7, <2>1
  <2> QED BY <1>3, <2>1, <2>2 DEF OneSession
<1> QED BY <1>4, <1>5, <1>6, <1>8, <1>9 DEF Start

\* A capture is stopped: with its mux, if it was started with one.
LEMMA SessionStop ==
    ASSUME TypeOK, MuxInv, OneSession, Stop \/ Update
    PROVE  OneSession'
<1>1. CASE RecordAudioEnds \/ StopAudio \/ StopNothing
  <2>1. VideoKept
    BY <1>1, AudioLeavesVideo DEF RecordAudioEnds, StopAudio, StopNothing, VideoKept
  <2>2. ~recorder.video /\ UNCHANGED << mux, task, worker, main >>
    BY <1>1 DEF RecordAudioEnds, StopAudio, StopNothing, CaptureActive
  <2> QED BY <2>1, <2>2, SessionKept
<1>2. CASE StopVideo
  <2>1. /\ VideoKept /\ recorder.video
        /\ UNCHANGED << recorder, config, mux, task, worker, sessionState >>
    BY <1>2 DEF StopVideo, VideoKept, TypeOK, BudgetType
  <2>2. main'.at = IF config = "mux" THEN "finalize" ELSE "stopping"
    BY <1>2 DEF StopVideo, TypeOK, MainType
  <2> QED BY <2>1, <2>2 DEF OneSession, VideoKept
<1>3. CASE StopAndMux \/ PlayerStop \/ Close \/ Update
  <2>1. VideoKept /\ UNCHANGED << config, mux, task, worker, sessionState >>
    BY <1>3 DEF StopAndMux, PlayerStop, Close, Update, VideoKept
  <2>2. main'.at \in {"finalize", "stop"}
    BY <1>3 DEF StopAndMux, PlayerStop, Close, Update, TypeOK, MainType
  <2> QED BY <2>1, <2>2, SessionKept
<1> QED BY <1>1, <1>2, <1>3 DEF Stop

\* The mux of a session, from its arming to its end.
LEMMA SessionMux ==
    ASSUME TypeOK, MuxInv, FilesOrdered, OneSession,
           Arm \/ ArmExpect \/ LaunchMux \/ ClearVideo
    PROVE  OneSession'
<1>1. CASE Arm
  <2>1. /\ VideoKept /\ UNCHANGED << config, task, worker, sessionState >>
        /\ ~mux'.pending /\ worker = "none" /\ main'.at = "expect"
    BY <1>1 DEF Arm, VideoKept, MuxInv, OneMux, TypeOK, MuxType, MainType
  <2> QED BY <2>1 DEF OneSession, VideoKept
<1>2. CASE ArmExpect
  <2>1. /\ VideoKept /\ UNCHANGED << config, task, worker >>
        /\ mux'.pending /\ mux'.expectedVideo = recorder.videoPath
        /\ main'.at = "stopping" /\ sessionState' = "Finalizing"
    BY <1>2 DEF ArmExpect, VideoKept, TypeOK, MuxType, MainType
  <2>2. recorder.video /\ worker = "none"
    BY <1>2 DEF ArmExpect, MuxInv, OneMux, ArmAlone
  <2> QED BY <2>1, <2>2 DEF OneSession, VideoKept
<1>3. CASE LaunchMux
  <2>1. /\ VideoKept /\ ~recorder.video /\ mux.pending
        /\ ~mux'.pending /\ main'.at = "playback"
        /\ task'.video = ResolvedVideo /\ task'.audio = ResolvedAudio
        /\ mux'.expectedVideo = mux.expectedVideo /\ mux'.previousAudio = mux.previousAudio
    BY <1>3 DEF LaunchMux, MuxWaits, CaptureActive, VideoKept, NoTask, TypeOK, MuxType, MainType
  <2>2. ResolvedAudio # mux.previousAudio
    BY <1>3 DEF LaunchMux, FilesArrived
  <2>3. ~budget.plan.eager => ResolvedVideo = mux.expectedVideo
    BY <2>1 DEF OneSession, ResolvedVideo, Resolved
  <2> QED BY <2>1, <2>2, <2>3 DEF OneSession, VideoKept
<1>4. CASE ClearVideo
  <2>1. /\ ~recorder'.video /\ main'.at = "clearAudio"
        /\ recorder'.lastVideo = IF recorder.video THEN recorder.videoPath ELSE recorder.lastVideo
        /\ UNCHANGED << mux, task, worker, budget >>
    BY <1>4 DEF ClearVideo, VideoCleared, FilesOrdered, TypeOK, RecorderType, MainType
  <2> QED BY <2>1 DEF OneSession
<1> QED BY <1>1, <1>2, <1>3, <1>4

\* The worker is joined, or all is closed: nothing is captured then, or any more.
LEMMA SessionJoin ==
    ASSUME TypeOK, MuxInv, OneSession, NEW removed, FinalizeMux(removed) \/ CloseSession(removed)
    PROVE  OneSession'
<1>1. CASE FinalizeMux(removed)
  <2>1. /\ VideoKept /\ UNCHANGED config /\ worker = "done" /\ worker' = "none"
        /\ mux'.pending = mux.pending /\ mux'.expectedVideo = mux.expectedVideo
    BY <1>1 DEF FinalizeMux, VideoKept, TypeOK, MuxType
  <2>2. main'.at \in {"cleanup", "cancel", "arm"}
    BY <1>1 DEF FinalizeMux, AfterFinalize, TypeOK, MainType
  <2>3. ~budget.plan.eager => ~recorder.video
    BY <2>1 DEF OneSession
  <2> QED BY <2>1, <2>2, <2>3 DEF OneSession, VideoKept
<1>2. CASE CloseSession(removed)
  <2>1. /\ worker' = "none" /\ mux'.pending = mux.pending /\ main.at = "join"
        /\ main'.at = "idle" /\ UNCHANGED budget
    BY <1>2 DEF CloseSession, Idle, TypeOK, MuxType
  <2>2. ~mux'.pending
    BY <2>1 DEF MuxInv, ArmAlone
  <2>3. recorder' = AudioClosed(VideoCleared(recorder))
    BY <1>2 DEF CloseSession
  <2>4. ~recorder'.video
    BY <2>3 DEF AudioClosed, VideoCleared, TypeOK, RecorderType
  <2> QED BY <2>1, <2>2, <2>4 DEF OneSession
<1> QED BY <1>1, <1>2

\* The steps that only pass on.
LEMMA SessionPasses ==
    ASSUME TypeOK, MuxInv, OneSession,
           \/ NothingToFinalize \/ ArmRefused \/ ArmWithoutAudio \/ StopCapture \/ StopPlayer
           \/ MuxDelayed \/ FinalizeStop
    PROVE  OneSession'
<1>1. VideoKept /\ UNCHANGED << config, mux, task, worker >>
  BY DEF NothingToFinalize, ArmRefused, ArmWithoutAudio, StopCapture, StopPlayer, MuxDelayed,
     FinalizeStop, VideoKept
<1>2. sessionState' = sessionState \/ sessionState' \in {"Failed", "Stopping", "Finalizing"}
  BY DEF NothingToFinalize, ArmRefused, ArmWithoutAudio, StopCapture, StopPlayer, MuxDelayed,
     FinalizeStop
<1>3. main'.at \in {"idle", "cleanup", "cancel", "arm", "stop", "playback", "clearVideo"}
  <2>1. CASE NothingToFinalize
    BY <2>1 DEF NothingToFinalize, AfterFinalize, TypeOK, MainType
  <2>2. CASE ArmRefused \/ ArmWithoutAudio
    BY <2>2 DEF ArmRefused, ArmWithoutAudio, Idle
  <2>3. CASE StopCapture \/ StopPlayer \/ MuxDelayed \/ FinalizeStop
    BY <2>3 DEF StopCapture, StopPlayer, MuxDelayed, FinalizeStop, Idle, TypeOK, MainType
  <2> QED BY <2>1, <2>2, <2>3
<1> QED BY <1>1, <1>2, <1>3, SessionKept

LEMMA SessionNext ==
    ASSUME TypeOK, MuxInv, FilesOrdered, OneSession, [Next]_vars
    PROVE  OneSession'
<1>1. CASE PlayerEnds \/ PlayerStopped \/ WorkerReturns \/ UNCHANGED vars
  <2>1. /\ VideoKept /\ UNCHANGED << config, mux, task, sessionState, main >>
        /\ worker' # "none" => worker # "none"
    BY <1>1 DEF PlayerEnds, PlayerStopped, WorkerReturns, vars, VideoKept
  <2> QED BY <2>1, SessionKept
<1>2. CASE AudioFails
  <2>1. /\ budget'.plan = budget.plan
        /\ budget'.wantsMux = budget.wantsMux
    BY <1>2 DEF AudioFails, TypeOK, BudgetType
  <2>2. VideoKept
    BY <1>2, <2>1, AudioLeavesVideo DEF AudioFails, VideoKept
  <2> QED BY <1>2, <2>2, SessionKept DEF AudioFails
<1>3. ASSUME NEW success \in BOOLEAN, WorkerMuxes(success)
      PROVE  OneSession'
  <2>1. /\ VideoKept /\ UNCHANGED << config, mux, sessionState, main >>
        /\ worker # "none" /\ task'.video = task.video /\ task'.audio = task.audio
    BY <1>3 DEF WorkerMuxes, VideoKept, TypeOK, TaskType
  <2> QED BY <2>1, SessionKept
<1>4. CASE ClearAudio
  <2>1. /\ main.at = "clearAudio" /\ main'.at = "idle" /\ UNCHANGED << task, worker >>
        /\ mux'.pending = mux.pending /\ mux'.expectedVideo = mux.expectedVideo
        /\ mux'.previousAudio = mux.previousAudio
    BY <1>4 DEF ClearAudio, Idle, TypeOK, MuxType
  <2>2. VideoKept
    BY <1>4, AudioLeavesVideo DEF ClearAudio, VideoKept
  <2>3. ~budget.plan.eager => ~recorder.video
    BY <2>1 DEF OneSession
  <2> QED BY <2>1, <2>2, <2>3, SessionKept DEF OneSession, VideoKept
<1>5. ASSUME NEW removed, NEW kept, Cleanup(removed, kept)
      PROVE  OneSession'
  <2>1. /\ VideoKept /\ UNCHANGED << config, mux, task, worker, sessionState >>
        /\ main'.at = "mux"
    BY <1>5 DEF Cleanup, VideoKept, TypeOK, MainType
  <2> QED BY <2>1, SessionKept
<1>6. CASE CancelMux
  <2>1. /\ VideoKept /\ UNCHANGED << config, worker, sessionState >>
        /\ main'.at = "join" /\ ~mux'.pending
        /\ mux'.expectedVideo = mux.expectedVideo /\ mux'.previousAudio = mux.previousAudio
        /\ task'.video = task.video /\ task'.audio = task.audio
    BY <1>6 DEF CancelMux, VideoKept, TypeOK, MuxType, TaskType, MainType
  <2> QED BY <2>1, SessionKept
<1> QED
  BY <1>1, <1>2, <1>3, <1>4, <1>5, <1>6,
     SessionStart, SessionStop, SessionMux, SessionJoin, SessionPasses
  DEF Next, MainStep, WorkerStep

LEMMA SessionInvariant == Spec => [](FilesInv /\ OneSession)
<1>1. Init => OneSession
  BY DEF Init, Idle, OneSession
<1>2. FilesInv /\ OneSession /\ [Next]_vars => OneSession'
  BY SessionNext DEF FilesInv
<1> QED
  BY <1>1, <1>2, FilesInvariant, PTL DEF Spec

\* What is muxed is the session that was stopped: its own video, and an audio finished
\* since, for any plan that starts no session before the last one is muxed.
THEOREM MuxOwnSessionAlways == Spec => []MuxOwnSession
<1>1. OneSession => MuxOwnSession
  BY DEF OneSession, MuxOwnSession
<1> QED
  BY <1>1, SessionInvariant, PTL

\* The state of the session never calls a running capture idle or done, for those plans.
THEOREM StateShowsCaptureAlways == Spec => []StateShowsCapture
<1>1. OneSession => StateShowsCapture
  BY DEF OneSession, StateShowsCapture
<1> QED
  BY <1>1, SessionInvariant, PTL

\* A session started with muxOnStop is not stopped without its mux, for those plans.
THEOREM StopArmsMuxAlways == Spec => []StopArmsMux
<1>1. OneSession => StopArmsMux
  BY DEF OneSession, StopArmsMux
<1> QED
  BY <1>1, SessionInvariant, PTL
=============================================================================
