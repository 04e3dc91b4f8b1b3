------------------------- MODULE PlaybackTransport -------------------------
(***************************************************************************)
(* The transport of ofxVlc4: how PlaybackController turns play, pause,     *)
(* stop, playIndex and direct-media requests into calls of libVLC's        *)
(* asynchronous media player, and the player's events back into playlist   *)
(* advancement.                                                            *)
(*                                                                         *)
(* Three actors share the atomics of PlaybackTransportState: the main      *)
(* thread (the application's calls, and update() which runs                *)
(* processDeferredPlaybackActions()), libVLC's event thread (the           *)
(* onMediaPlayer... handlers) and libVLC's audio thread.  libVLC holds its *)
(* recursive player lock while it delivers an event, and every libvlc_     *)
(* call of the main thread takes that lock: a main step that asks libVLC   *)
(* anything waits until no handler runs, and the steps between two such    *)
(* calls interleave with the handlers freely.  Only the stores made for a  *)
(* player just seen stopped, and those that lead to the loading of a media *)
(* into one, are one step with the call: no handler runs on such a player. *)
(*                                                                         *)
(* A media is an index of the playlist, Direct (a capture device or other  *)
(* source outside the playlist) or NoMedia.                                *)
(***************************************************************************)
EXTENDS Integers

CONSTANTS
    PlaylistSize,   \* number of playlist items; the playlist does not change
    Modes,          \* playback modes: a subset of {"Default", "Repeat", "Loop"}
    Plans           \* what the application and libVLC may do in a behaviour:
                    \* a subset of PlanType, each behaviour follows one

Indices == 0 .. PlaylistSize - 1
NoIndex == -1
Direct == PlaylistSize
NoMedia == -2

AllCommands == {"playIndex", "select", "direct", "play", "pause", "stop", "next", "previous"}

PlanType ==
    [kinds : SUBSET AllCommands,  \* the application's calls
     commands : Nat,              \* bound on the number of those calls
     ends : Nat,                  \* bound on the times a media plays to its end
     faults : Nat,                \* bound on failures: media not created, or not opened
     overlapping : BOOLEAN,       \* a call may come while an earlier one takes effect
     late : BOOLEAN,              \* get_state may still say Stopped after a play() call
     hangs : BOOLEAN]             \* the player may hang in any state

ASSUME SizeAssumption == PlaylistSize \in Nat
ASSUME ModesAssumption == Modes # {} /\ Modes \subseteq {"Default", "Repeat", "Loop"}
ASSUME PlansAssumption == Plans # {} /\ Plans \subseteq PlanType

VARIABLES
    transport,     \* PlaybackTransportState
    currentIndex,  \* mediaLibrary.currentIndex
    mode,          \* playbackPolicyRuntime.playbackMode
    player,        \* libVLC's media player
    main,          \* where the main thread is
    handler,       \* the event handler running on libVLC's thread
    last,          \* the application's latest call and what it asked for
    budget         \* the plan and what has been used of it; and the number of
                   \* times handlePlaybackEnded() moved on

vars == << transport, currentIndex, mode, player, main, handler, last, budget >>

PlayerStates == {"Stopped", "Opening", "Playing", "Paused", "Stopping"}

\* isStoppedOrIdleState, and isTransientPlaybackState
Inactive(state) == state = "Stopped"
Transient(state) == state \in {"Opening", "Stopping"}

\* manualStopRequestTimeMs, seen from now: not set, recent, older than
\* kManualStopRetryMs, older than kManualStopFallbackMs.
StopAges == {"unset", "fresh", "retry", "fallback"}

TransportType ==
    [wanted : BOOLEAN,          \* playbackWanted
     pauseRequested : BOOLEAN,
     audioPaused : BOOLEAN,     \* audioPausedSignal
     stopEvents : -1 .. 1,      \* pendingManualStopEvents
     stopInProgress : BOOLEAN,  \* manualStopInProgress
     stopFinalize : BOOLEAN,    \* pendingManualStopFinalize
     stopAge : StopAges,        \* manualStopRequestTimeMs
     retryIssued : BOOLEAN,     \* manualStopRetryIssued
     stoppedLatched : BOOLEAN,  \* stoppedStateLatched
     playNext : BOOLEAN,        \* playNextRequested
     index : Indices \cup {NoIndex},  \* pendingActivateIndex
     direct : BOOLEAN,          \* pendingDirectMediaSource is not empty
     shouldPlay : BOOLEAN,      \* pendingActivateShouldPlay
     ready : BOOLEAN,           \* pendingActivateReady
     activeDirect : BOOLEAN]    \* activeDirectMediaSource is not empty

PlayerType ==
    [state : PlayerStates,
     media : Indices \cup {Direct, NoMedia},
     starting : BOOLEAN,        \* play() accepted, input thread not yet running
     ending : BOOLEAN,          \* stop_async(), or media replaced while active
     pausing : {"no", "pause", "resume"}]

MainPlaces == {"idle", "busy", "queue", "free", "switch", "switchStop", "now",
               "play", "playState", "playJoin", "playStart", "pauseState", "pauseMark",
               "pausePlayer", "stopCheck", "stopMark", "stopAsync", "manualStop",
               "poll", "pollState", "finalize", "clear", "activate", "advance", "endClear"}

HandlerSteps == {"none", "playing", "paused", "stopping", "stopped", "decide",
                 "mark", "publish"}

DecisionType == [keep : BOOLEAN, finalize : BOOLEAN, activate : BOOLEAN, advance : BOOLEAN]
NoDecision == [keep |-> FALSE, finalize |-> FALSE, activate |-> FALSE, advance |-> FALSE]

MainType == [at : MainPlaces, item : Indices \cup {Direct, NoMedia}, play : BOOLEAN,
             seen : PlayerStates,  \* what libvlc_media_player_get_state() answered
             reset : BOOLEAN, retry : BOOLEAN, finalize : BOOLEAN]
HandlerType == [step : HandlerSteps, stops : -1 .. 1, decision : DecisionType]
LastType == [call : AllCommands \cup {"none"}, item : Indices \cup {Direct, NoMedia}]
BudgetType ==
    [plan : Plans, commands : Nat, ends : Nat, faults : Nat, advances : Nat]

TypeOK ==
    /\ transport \in TransportType
    /\ currentIndex \in Indices \cup {NoIndex}
    /\ mode \in Modes
    /\ player \in PlayerType
    /\ main \in MainType
    /\ handler \in HandlerType
    /\ last \in LastType
    /\ budget \in BudgetType

\* After init(): resetTransportState() and a new player.
Init ==
    /\ transport =
          [wanted |-> FALSE, pauseRequested |-> FALSE, audioPaused |-> FALSE,
           stopEvents |-> 0, stopInProgress |-> FALSE, stopFinalize |-> FALSE,
           stopAge |-> "unset", retryIssued |-> FALSE, stoppedLatched |-> FALSE,
           playNext |-> FALSE, index |-> NoIndex, direct |-> FALSE,
           shouldPlay |-> FALSE, ready |-> FALSE, activeDirect |-> FALSE]
    /\ currentIndex = IF PlaylistSize = 0 THEN NoIndex ELSE 0
    /\ mode \in Modes
    /\ player = [state |-> "Stopped", media |-> NoMedia, starting |-> FALSE,
                 ending |-> FALSE, pausing |-> "no"]
    /\ main = [at |-> "idle", item |-> NoMedia, play |-> FALSE, seen |-> "Stopped",
               reset |-> FALSE, retry |-> FALSE, finalize |-> FALSE]
    /\ handler = [step |-> "none", stops |-> 0, decision |-> NoDecision]
    /\ last = [call |-> "none", item |-> NoMedia]
    /\ budget \in [plan : Plans, commands : {0}, ends : {0}, faults : {0}, advances : {0}]

-----------------------------------------------------------------------------
(* libVLC's media player, as the code in src/ uses it *)

\* No event is being delivered: the main thread may take the player lock.
Unlocked == handler.step = "none"

Active(p) == ~Inactive(p.state)
HasMedia == player.media # NoMedia

\* libvlc_media_player_play(): starts the media of an inactive player; a player
\* still winding down starts it afterwards.
LibPlay(p) ==
    IF p.media = NoMedia THEN p
    ELSE IF Active(p) THEN [p EXCEPT !.starting = @ \/ p.ending]
    ELSE IF budget.plan.late THEN [p EXCEPT !.starting = TRUE]
    ELSE [p EXCEPT !.state = "Opening"]

\* libvlc_media_player_stop_async(): no effect on a player that does not run.
LibStopAsync(p) == [p EXCEPT !.ending = Active(p) \/ p.starting]

\* libvlc_media_player_set_media(): what was playing winds down by itself.
LibSetMedia(p, m) ==
    [p EXCEPT !.media = m, !.ending = Active(p), !.starting = FALSE, !.pausing = "no"]

\* libvlc_media_player_set_pause(): asynchronous as well.
LibSetPause(p, ask) == [p EXCEPT !.pausing = ask]

PlayerTurns(to, event) ==
    /\ Unlocked
    /\ player' = [player EXCEPT !.state = to]
    /\ handler' = [handler EXCEPT !.step = event]
    /\ UNCHANGED << transport, currentIndex, mode, main, last >>

PlayerOpening ==
    /\ player.starting /\ Inactive(player.state) /\ Unlocked
    /\ player' = [player EXCEPT !.state = "Opening", !.starting = FALSE]
    /\ UNCHANGED << transport, currentIndex, mode, main, handler, last, budget >>

PlayerPlaying ==
    /\ player.state = "Opening" /\ ~player.ending
    /\ PlayerTurns("Playing", "playing")
    /\ UNCHANGED budget

\* The media cannot be opened: the player stops by itself.
PlayerFails ==
    /\ player.state = "Opening" /\ ~player.ending
    /\ budget.faults < budget.plan.faults
    /\ budget' = [budget EXCEPT !.faults = @ + 1]
    /\ PlayerTurns("Stopping", "stopping")

\* The media has been played to its end.
PlayerEnds ==
    /\ player.state = "Playing" /\ ~player.ending
    /\ budget.ends < budget.plan.ends
    /\ budget' = [budget EXCEPT !.ends = @ + 1]
    /\ PlayerTurns("Stopping", "stopping")

PlayerStopping ==
    /\ player.ending /\ player.state \in {"Opening", "Playing", "Paused"}
    /\ PlayerTurns("Stopping", "stopping")
    /\ UNCHANGED budget

PlayerStopped ==
    /\ player.state = "Stopping" /\ Unlocked
    /\ player' = [player EXCEPT !.state = "Stopped", !.ending = FALSE, !.pausing = "no"]
    /\ handler' = [handler EXCEPT !.step = "stopped"]
    /\ UNCHANGED << transport, currentIndex, mode, main, last, budget >>

PlayerPauses ==
    /\ player.pausing = "pause" /\ player.state = "Playing" /\ ~player.ending
    /\ PlayerTurns("Paused", "paused")
    /\ UNCHANGED budget

PlayerResumes ==
    /\ player.pausing = "resume" /\ player.state = "Paused" /\ ~player.ending
    /\ PlayerTurns("Playing", "playing")
    /\ UNCHANGED budget

\* libVLC's audio thread reports its pause state, a little before or after the
\* events: audioPause(), and audioResume(), audioFlush() or audioDrain().
AudioSignal ==
    /\ player.state \in {"Playing", "Paused"}
    /\ transport' = [transport EXCEPT !.audioPaused = (player.state = "Paused")]
    /\ UNCHANGED << currentIndex, mode, player, main, handler, last, budget >>

PlayerStep ==
    \/ PlayerOpening
    \/ PlayerPlaying
    \/ PlayerStopping
    \/ PlayerStopped
    \/ PlayerPauses
    \/ PlayerResumes

-----------------------------------------------------------------------------
(* The event handlers, on libVLC's thread *)

HandlerGoes(from, to) ==
    /\ handler.step = from
    /\ handler' = [handler EXCEPT !.step = to]
    /\ UNCHANGED << currentIndex, mode, player, main, last, budget >>

WithoutStopTimer(t) == [t EXCEPT !.stopAge = "unset", !.retryIssued = FALSE]

OnMediaPlayerPlaying ==
    /\ HandlerGoes("playing", "none")
    /\ LET t == [transport EXCEPT !.audioPaused = FALSE, !.pauseRequested = FALSE] IN
       transport' = IF t.wanted THEN WithoutStopTimer([t EXCEPT !.stopInProgress = FALSE]) ELSE t

OnMediaPlayerPaused ==
    /\ HandlerGoes("paused", "none")
    /\ transport' = [transport EXCEPT !.audioPaused = TRUE]

OnMediaPlayerStopping ==
    /\ HandlerGoes("stopping", "none")
    /\ transport' = [transport EXCEPT !.audioPaused = FALSE,
                                      !.stopInProgress = @ \/ ~transport.wanted]

\* onMediaPlayerStopped() up to its fetch_sub of pendingManualStopEvents ...
OnStoppedCount ==
    /\ handler.step = "stopped"
    /\ handler' = [handler EXCEPT !.step = "decide", !.stops = transport.stopEvents]
    /\ transport' = WithoutStopTimer([transport EXCEPT !.audioPaused = FALSE, !.stopEvents = @ - 1])
    /\ UNCHANGED << currentIndex, mode, player, main, last, budget >>

\* A plausible bug: every awaited stop ends playback, a pending request or not.
StoppedDecision_Finalizes(stops, pending, stopped, wanted) ==
    [keep |-> stops > 0, activate |-> FALSE, finalize |-> stops > 0,
     advance |-> stops <= 0 /\ stopped /\ wanted]

\* A plausible bug: whether the stop was asked for is not looked at.
StoppedDecision_IgnoresCount(stops, pending, stopped, wanted) ==
    [NoDecision EXCEPT !.advance = stopped /\ wanted]

\* evaluateStoppedPlaybackEvent()
StoppedDecision(stops, pending, stopped, wanted) ==
    [keep |-> stops > 0,
     activate |-> stops > 0 /\ pending,
     finalize |-> stops > 0 /\ ~pending,
     advance |-> stops <= 0 /\ stopped /\ wanted]

\* ... what it reads and decides ...
OnStoppedDecide ==
    /\ handler.step = "decide"
    /\ handler' = [handler EXCEPT !.step = "mark",
          !.decision = StoppedDecision(handler.stops, transport.index >= 0 \/ transport.direct,
                                       Inactive(player.state), transport.wanted)]
    /\ UNCHANGED << transport, currentIndex, mode, player, main, last, budget >>

\* ... its first stores ...
OnStoppedMark ==
    /\ HandlerGoes("mark", "publish")
    /\ transport' = IF handler.decision.keep
                    THEN [transport EXCEPT !.stopInProgress = TRUE]
                    ELSE [transport EXCEPT !.stopInProgress = FALSE, !.stopEvents = 0]

\* ... and its last ones.
OnStoppedPublish ==
    /\ handler.step = "publish"
    /\ handler' = [step |-> "none", stops |-> 0, decision |-> NoDecision]
    /\ transport' = [transport EXCEPT !.ready = @ \/ handler.decision.activate,
                                      !.stopFinalize = @ \/ handler.decision.finalize,
                                      !.playNext = @ \/ handler.decision.advance]
    /\ UNCHANGED << currentIndex, mode, player, main, last, budget >>

HandlerStep ==
    \/ OnMediaPlayerPlaying
    \/ OnMediaPlayerPaused
    \/ OnMediaPlayerStopping
    \/ OnStoppedCount
    \/ OnStoppedDecide
    \/ OnStoppedMark
    \/ OnStoppedPublish

-----------------------------------------------------------------------------
(* The main thread: requests to activate a media *)

At(place) == main.at = place
Goes(place) == main' = [main EXCEPT !.at = place]
Done == main' = [main EXCEPT !.at = "idle", !.item = NoMedia, !.play = FALSE,
                            !.seen = "Stopped"]

\* The thread asks libVLC for the player's state and goes on with the answer,
\* which may be out of date by then.
GetState(from, to) ==
    /\ At(from) /\ Unlocked
    /\ main' = [main EXCEPT !.at = to, !.seen = player.state]
    /\ UNCHANGED << transport, currentIndex, mode, player, handler, last, budget >>

ClearPendingActivation(t) ==
    [t EXCEPT !.index = NoIndex, !.shouldPlay = FALSE, !.ready = FALSE, !.direct = FALSE]

\* activatePlaylistIndex() or requestDirectMediaActivation(), from their first
\* test: is an earlier stop still awaited?
Request(item, shouldPlay) ==
    main' = [main EXCEPT !.at = IF transport.stopEvents > 0 THEN "busy" ELSE "free",
                         !.item = item, !.play = shouldPlay]

\* It is: but the player may have stopped meanwhile.
RequestWhileStopping ==
    /\ At("busy") /\ Unlocked
    /\ IF Inactive(player.state)
       THEN /\ transport' = ClearPendingActivation([transport EXCEPT !.stopEvents = 0])
            /\ Goes("free")
       ELSE /\ Goes("queue")
            /\ UNCHANGED transport
    /\ UNCHANGED << currentIndex, mode, player, handler, last, budget >>

Queued(t, item, shouldPlay) ==
    LET u == [t EXCEPT !.shouldPlay = shouldPlay, !.ready = FALSE, !.playNext = FALSE] IN
    IF item = Direct THEN [u EXCEPT !.direct = TRUE] ELSE [u EXCEPT !.index = item]

\* The request waits for the Stopped event of the earlier stop.
QueueRequest ==
    /\ At("queue")
    /\ transport' = Queued(transport, main.item, main.play)
    /\ Done
    /\ UNCHANGED << currentIndex, mode, player, handler, last, budget >>

\* needsAsyncStop
RequestWhileFree ==
    /\ At("free") /\ Unlocked
    /\ Goes(IF HasMedia /\ Active(player) THEN "switch" ELSE "now")
    /\ UNCHANGED << transport, currentIndex, mode, player, handler, last, budget >>

\* The stores that hand the request to the Stopped event ...
SwitchRequest ==
    /\ At("switch")
    /\ transport' = [Queued(transport, main.item, main.play) EXCEPT !.stopEvents = 1]
    /\ Goes("switchStop")
    /\ UNCHANGED << currentIndex, mode, player, handler, last, budget >>

\* ... and the call that is to cause that event.
SwitchStopAsync ==
    /\ At("switchStop") /\ Unlocked
    /\ player' = LibStopAsync(player)
    /\ Done
    /\ UNCHANGED << transport, currentIndex, mode, handler, last, budget >>

\* activatePlaylistIndexImmediate() and activateDirectMediaImmediate(): the
\* stores before the media is loaded.
ActivatedPlaylistItem(t, shouldPlay) ==
    [t EXCEPT !.activeDirect = FALSE, !.playNext = FALSE, !.wanted = shouldPlay,
              !.stopInProgress = FALSE, !.stopFinalize = FALSE, !.retryIssued = FALSE,
              !.stoppedLatched = FALSE]

ActivatedDirectMedia(t, shouldPlay) ==
    [t EXCEPT !.playNext = FALSE, !.wanted = shouldPlay, !.pauseRequested = FALSE,
              !.stopInProgress = FALSE, !.stopFinalize = FALSE, !.stoppedLatched = FALSE]

\* loadMediaSource(): clearCurrentMedia(), then the new media, which libVLC may
\* fail to create; started is the player once it is loaded and asked to play.
LoadAnd(t, item, started) ==
    \/ /\ transport' = [t EXCEPT !.audioPaused = FALSE, !.activeDirect = @ \/ item = Direct]
       /\ player' = started
       /\ UNCHANGED budget
    \/ /\ budget.faults < budget.plan.faults
       /\ budget' = [budget EXCEPT !.faults = @ + 1]
       /\ transport' = [t EXCEPT !.audioPaused = FALSE]
       /\ player' = IF HasMedia THEN LibSetMedia(player, NoMedia) ELSE player

Loaded(item, shouldPlay) ==
    IF shouldPlay THEN LibPlay(LibSetMedia(player, item)) ELSE LibSetMedia(player, item)

Activated(t, item, shouldPlay) ==
    IF item = Direct THEN ActivatedDirectMedia(t, shouldPlay)
    ELSE ActivatedPlaylistItem(t, shouldPlay)

\* A plausible bug: the playlist's current index is left where it was.
ActivateImmediate_KeepsIndex(t, item, shouldPlay) ==
    /\ LoadAnd(Activated(t, item, shouldPlay), item, Loaded(item, shouldPlay))
    /\ UNCHANGED currentIndex

ActivateImmediate(t, item, shouldPlay) ==
    /\ LoadAnd(Activated(t, item, shouldPlay), item, Loaded(item, shouldPlay))
    /\ currentIndex' = IF item = Direct THEN NoIndex ELSE item

ActivateNow ==
    /\ At("now") /\ Unlocked
    /\ ActivateImmediate(ClearPendingActivation(transport), main.item, main.play)
    /\ Done
    /\ UNCHANGED << mode, handler, last >>

RequestStep ==
    \/ RequestWhileStopping
    \/ QueueRequest
    \/ RequestWhileFree
    \/ SwitchRequest
    \/ SwitchStopAsync
    \/ ActivateNow

-----------------------------------------------------------------------------
(* The main thread: play(), pause() and stop() *)

NothingToPlay == ~HasMedia /\ PlaylistSize = 0 /\ ~transport.activeDirect

\* play(), up to its query of the player's state.  main.item is the media it
\* will have to load.
PlayRequest ==
    /\ At("play")
    /\ IF NothingToPlay
       THEN Done /\ UNCHANGED << transport, currentIndex >>
       ELSE LET first == IF currentIndex \in Indices THEN currentIndex ELSE 0 IN
            /\ currentIndex' = IF HasMedia \/ PlaylistSize = 0 THEN currentIndex ELSE first
            /\ main' = [main EXCEPT !.at = "playState",
                  !.item = IF HasMedia THEN NoMedia
                           ELSE IF PlaylistSize = 0 THEN Direct ELSE first]
            /\ transport' = WithoutStopTimer(
                  [transport EXCEPT !.playNext = FALSE, !.wanted = TRUE, !.pauseRequested = FALSE,
                                    !.audioPaused = FALSE, !.stopInProgress = FALSE,
                                    !.stopFinalize = FALSE, !.stoppedLatched = FALSE])
    /\ UNCHANGED << mode, player, handler, last, budget >>

PlayState == GetState("playState", "playJoin")

\* It joins a stop or an activation that is under way, and leaves a player in
\* transition alone ...
PlayJoins ==
    \/ transport.stopEvents > 0 /\ ~Inactive(main.seen)
    \/ transport.index >= 0

PlayJoin ==
    /\ At("playJoin")
    /\ transport' = [transport EXCEPT
          !.stopEvents = IF @ > 0 /\ Inactive(main.seen) THEN 0 ELSE @,
          !.shouldPlay = @ \/ PlayJoins]
    /\ IF PlayJoins \/ Transient(main.seen) THEN Done ELSE Goes("playStart")
    /\ UNCHANGED << currentIndex, mode, player, handler, last, budget >>

\* ... or resumes a paused one, or starts it.
\* A plausible bug: a paused player is asked to play, which has no effect on it.
StartOrResume_NeverResumes(state, p) == LibPlay(p)

StartOrResume(state, p) == IF state = "Paused" THEN LibSetPause(p, "resume") ELSE LibPlay(p)

PlayStart ==
    /\ At("playStart") /\ Unlocked
    /\ Done
    /\ IF main.item # NoMedia
       THEN LoadAnd(transport, main.item,
                    StartOrResume(main.seen, LibSetMedia(player, main.item)))
       ELSE /\ player' = StartOrResume(main.seen, player)
            /\ UNCHANGED << transport, budget >>
    /\ UNCHANGED << currentIndex, mode, handler, last >>

IsManualStopPending(t) ==
    (t.stopInProgress \/ t.stopFinalize) /\ ~t.wanted /\ ~t.pauseRequested
IsPlaybackLocallyStopped(t) == t.stoppedLatched \/ IsManualStopPending(t)

NotPlaying(t) == [t EXCEPT !.pauseRequested = FALSE, !.wanted = FALSE, !.audioPaused = FALSE]

\* pause(), after its early return for a transport that is locally stopped: it
\* goes on as play(), has nothing to pause, or withdraws the wish to play ...
PauseState == GetState("pauseState", "pauseMark")

QueuedActivation(t) == t.stopEvents > 0 \/ t.index >= 0
PauseResumes(t) ==
    t.pauseRequested \/ (t.audioPaused /\ (main.seen = "Paused" \/ QueuedActivation(t)))

PauseMark ==
    /\ At("pauseMark")
    /\ LET queued == QueuedActivation(transport) IN
       IF PauseResumes(transport)
       THEN Goes("play") /\ UNCHANGED transport
       ELSE IF Inactive(main.seen) /\ ~queued
       THEN Done /\ transport' = NotPlaying(transport)
       ELSE /\ transport' = [transport EXCEPT !.pauseRequested = TRUE, !.wanted = FALSE,
                                              !.shouldPlay = @ /\ ~queued]
            /\ IF main.seen = "Playing" /\ ~queued THEN Goes("pausePlayer") ELSE Done
    /\ UNCHANGED << currentIndex, mode, player, handler, last, budget >>

\* ... and asks libVLC to pause.
PausePlayer ==
    /\ At("pausePlayer") /\ Unlocked
    /\ player' = LibSetPause(player, "pause")
    /\ Done
    /\ UNCHANGED << transport, currentIndex, mode, handler, last, budget >>

\* stop(): the stores before it queries the player ...
\* A plausible bug: stop() forgets the request that waits for a Stopped event.
StopRequested_KeepsRequest(t) ==
    [NotPlaying(t) EXCEPT !.playNext = FALSE, !.stopFinalize = FALSE, !.stoppedLatched = TRUE]

StopRequested(t) ==
    [ClearPendingActivation(NotPlaying(t)) EXCEPT
        !.playNext = FALSE, !.stopFinalize = FALSE, !.stoppedLatched = TRUE]

\* clearCurrentMedia()
ClearedMedia(p) == IF p.media = NoMedia THEN p ELSE LibSetMedia(p, NoMedia)

\* ... nothing plays: the media goes at once ...
StopCheck ==
    /\ At("stopCheck") /\ Unlocked
    /\ IF HasMedia /\ Active(player)
       THEN Goes("stopMark") /\ UNCHANGED << transport, player >>
       ELSE /\ Done
            /\ transport' = WithoutStopTimer(
                  [transport EXCEPT !.stopInProgress = FALSE, !.stopEvents = 0,
                                    !.audioPaused = FALSE])
            /\ player' = ClearedMedia(player)
    /\ UNCHANGED << currentIndex, mode, handler, last, budget >>

\* ... or pendingManualStopEvents.exchange(1), and the first stop of a series
\* starts the clock of the retry and the fallback ...
StopMark ==
    /\ At("stopMark")
    /\ IF transport.stopEvents = 0
       THEN /\ transport' = [transport EXCEPT !.stopEvents = 1, !.stopInProgress = TRUE,
                                              !.stopFinalize = FALSE, !.stopAge = "fresh",
                                              !.retryIssued = FALSE]
            /\ Goes("stopAsync")
       ELSE /\ transport' = [transport EXCEPT !.stopEvents = 1]
            /\ Done
    /\ UNCHANGED << currentIndex, mode, player, handler, last, budget >>

\* ... and asks libVLC to stop.
StopAsync ==
    /\ At("stopAsync") /\ Unlocked
    /\ player' = LibStopAsync(player)
    /\ Done
    /\ UNCHANGED << transport, currentIndex, mode, handler, last, budget >>

TransportCallStep ==
    \/ PlayRequest
    \/ PlayState
    \/ PlayJoin
    \/ PlayStart
    \/ PauseState
    \/ PauseMark
    \/ PausePlayer
    \/ StopCheck
    \/ StopMark
    \/ StopAsync

-----------------------------------------------------------------------------
(* The application's calls *)

\* Nothing of an earlier call is still under way.
Settled ==
    /\ Unlocked
    /\ ~Transient(player.state) /\ ~player.starting /\ ~player.ending
    /\ player.pausing = "pause" => player.state = "Paused"
    /\ player.pausing = "resume" => player.state = "Playing"
    /\ transport.stopEvents = 0 /\ ~transport.stopInProgress /\ ~transport.stopFinalize
    /\ ~transport.ready /\ ~transport.playNext

Calls(call, item) ==
    /\ At("idle")
    /\ budget.plan.overlapping \/ Settled
    /\ call \in budget.plan.kinds
    /\ budget.commands < budget.plan.commands
    /\ budget' = [budget EXCEPT !.commands = @ + 1]
    /\ last' = [call |-> call, item |-> item]
    /\ UNCHANGED << currentIndex, mode, player, handler >>

\* playIndex(i), and activatePlaylistIndex(i, false)
CallPlayIndex ==
    \E i \in Indices : Calls("playIndex", i) /\ Request(i, TRUE) /\ UNCHANGED transport
CallSelect ==
    \E i \in Indices : Calls("select", i) /\ Request(i, FALSE) /\ UNCHANGED transport

CallDirect ==
    Calls("direct", Direct) /\ Request(Direct, TRUE) /\ UNCHANGED transport

CallPlay == Calls("play", NoMedia) /\ Goes("play") /\ UNCHANGED transport

CallPause ==
    /\ Calls("pause", NoMedia)
    /\ IF ~HasMedia \/ IsPlaybackLocallyStopped(transport)
       THEN transport' = NotPlaying(transport) /\ UNCHANGED main
       ELSE Goes("pauseState") /\ UNCHANGED transport

CallStop ==
    /\ Calls("stop", NoMedia)
    /\ transport' = StopRequested(transport)
    /\ Goes("stopCheck")

\* nextMediaListItem() and previousMediaListItem(), without shuffle
CallNext ==
    /\ PlaylistSize > 0
    /\ Calls("next", NoMedia)
    /\ Request(IF currentIndex + 1 \in Indices THEN currentIndex + 1 ELSE 0, transport.wanted)
    /\ UNCHANGED transport

CallPrevious ==
    /\ PlaylistSize > 0
    /\ Calls("previous", NoMedia)
    /\ Request(IF currentIndex > 0 THEN currentIndex - 1 ELSE PlaylistSize - 1, transport.wanted)
    /\ UNCHANGED transport

Call ==
    \/ CallPlayIndex
    \/ CallSelect
    \/ CallDirect
    \/ CallPlay
    \/ CallPause
    \/ CallStop
    \/ CallNext
    \/ CallPrevious

-----------------------------------------------------------------------------
(* update(): processDeferredPlaybackActions(), phase by phase *)

\* The clock of a stop that waits for its event.
StopAges_After(age) == IF age = "fresh" THEN "retry" ELSE "fallback"

TimePasses ==
    /\ transport.stopAge \in {"fresh", "retry"}
    /\ transport' = [transport EXCEPT !.stopAge = StopAges_After(@)]
    /\ UNCHANGED << currentIndex, mode, player, main, handler, last, budget >>

\* evaluateDeferredManualStop()
ManualStopIdle(t) ==
    t.stopFinalize \/ ~t.stopInProgress \/ t.wanted \/ t.pauseRequested

\* A plausible bug: no fallback, the stop waits for its event forever.
ManualStopDecision_NoFallback(t, hasMedia, stopped) ==
    IF ManualStopIdle(t) THEN [reset |-> FALSE, retry |-> FALSE, finalize |-> FALSE]
    ELSE [reset |-> ~hasMedia,
          retry |-> hasMedia /\ ~stopped /\ ~t.retryIssued /\ t.stopAge \in {"retry", "fallback"},
          finalize |-> hasMedia /\ stopped]

ManualStopDecision(t, hasMedia, stopped) ==
    IF ManualStopIdle(t) THEN [reset |-> FALSE, retry |-> FALSE, finalize |-> FALSE]
    ELSE [reset |-> ~hasMedia,
          retry |-> hasMedia /\ ~stopped /\ ~t.retryIssued /\ t.stopAge \in {"retry", "fallback"},
          finalize |-> hasMedia /\ (stopped \/ t.stopAge = "fallback")]

\* Phase 1, a manual stop in progress: what it reads ...
Update ==
    /\ At("idle")
    /\ IF transport.stopInProgress
       THEN LET d == ManualStopDecision(transport, HasMedia, Inactive(player.state)) IN
            /\ Unlocked
            /\ main' = [main EXCEPT !.at = "manualStop", !.reset = d.reset,
                                    !.retry = d.retry, !.finalize = d.finalize]
       ELSE Goes("poll")
    /\ UNCHANGED << transport, currentIndex, mode, player, handler, last, budget >>

\* ... and what it does.
ManualStopActed(t) ==
    LET reset == IF main.reset
                 THEN WithoutStopTimer([t EXCEPT !.stopInProgress = FALSE, !.stopEvents = 0])
                 ELSE t
        retried == IF main.retry THEN [reset EXCEPT !.retryIssued = TRUE] ELSE reset
    IN IF main.finalize
       THEN WithoutStopTimer([retried EXCEPT !.stopEvents = 0, !.stopFinalize = TRUE])
       ELSE retried

UpdateManualStop ==
    /\ At("manualStop") /\ (main.retry => Unlocked)
    /\ player' = IF main.retry THEN LibStopAsync(player) ELSE player
    /\ transport' = ManualStopActed(transport)
    /\ main' = [main EXCEPT !.at = "poll", !.reset = FALSE, !.retry = FALSE, !.finalize = FALSE]
    /\ UNCHANGED << currentIndex, mode, handler, last, budget >>

\* Phase 2: a player found stopped although playback is wanted counts as ended.
PollApplies(t) ==
    /\ HasMedia /\ t.wanted /\ ~t.pauseRequested
    /\ ~t.stopInProgress /\ ~t.stopFinalize /\ t.stopEvents = 0
    /\ t.index < 0 /\ ~t.ready /\ ~t.direct

UpdatePollFlags ==
    /\ At("poll")
    /\ Goes(IF PollApplies(transport) THEN "pollState" ELSE "finalize")
    /\ UNCHANGED << transport, currentIndex, mode, player, handler, last, budget >>

UpdatePollState ==
    /\ At("pollState") /\ Unlocked
    /\ transport' = [transport EXCEPT !.playNext = @ \/ Inactive(player.state)]
    /\ Goes("finalize")
    /\ UNCHANGED << currentIndex, mode, player, handler, last, budget >>

\* Phase 3: a stop that is complete clears the media.
UpdateFinalize ==
    /\ At("finalize")
    /\ IF transport.stopFinalize
       THEN /\ transport' = WithoutStopTimer(
                  [transport EXCEPT !.stopFinalize = FALSE, !.stopInProgress = FALSE,
                                    !.stopEvents = 0])
            /\ Goes("clear")
       ELSE Goes("activate") /\ UNCHANGED transport
    /\ UNCHANGED << currentIndex, mode, player, handler, last, budget >>

ClearsMedia ==
    /\ Unlocked
    /\ transport' = [transport EXCEPT !.audioPaused = FALSE]
    /\ player' = ClearedMedia(player)
    /\ UNCHANGED << currentIndex, mode, handler, last, budget >>

UpdateClear == At("clear") /\ ClearsMedia /\ Goes("activate")

\* Phase 4: the request that waited for the Stopped event, an index before a
\* direct media.
\* A plausible bug: a pending index is activated before the Stopped event.
UpdateActivate_Early ==
    /\ At("activate")
    /\ Goes("advance")
    /\ IF transport.index >= 0
       THEN Unlocked /\ ActivateImmediate(ClearPendingActivation(transport),
                                          transport.index, transport.shouldPlay)
       ELSE UNCHANGED << transport, currentIndex, player, budget >>
    /\ UNCHANGED << mode, handler, last >>

UpdateActivate ==
    /\ At("activate")
    /\ Goes("advance")
    /\ LET t == [transport EXCEPT !.ready = FALSE, !.index = NoIndex, !.shouldPlay = FALSE] IN
       IF ~transport.ready
       THEN UNCHANGED << transport, currentIndex, player, budget >>
       ELSE IF transport.index >= 0
       THEN Unlocked /\ ActivateImmediate(t, transport.index, transport.shouldPlay)
       ELSE IF transport.direct
       THEN Unlocked /\ ActivateImmediate(ClearPendingActivation(t), Direct, transport.shouldPlay)
       ELSE transport' = t /\ UNCHANGED << currentIndex, player, budget >>
    /\ UNCHANGED << mode, handler, last >>

\* Phase 5: handlePlaybackEnded().  The item after the current one, if any.
Following ==
    IF currentIndex + 1 \in Indices THEN currentIndex + 1
    ELSE IF mode = "Loop" THEN 0 ELSE NoIndex

PlaylistEnds ==
    /\ transport' = [NotPlaying(transport) EXCEPT !.playNext = FALSE, !.stoppedLatched = TRUE]
    /\ Goes("endClear")
    /\ UNCHANGED << player, budget >>

Repeats ==
    /\ Unlocked
    /\ transport' = [transport EXCEPT !.playNext = FALSE]
    /\ player' = LibPlay(player)
    /\ Done
    /\ UNCHANGED budget

\* Advances are counted up to one more than can be right.
TooManyAdvances == budget.advances > budget.plan.ends + budget.plan.faults

MovesOn ==
    /\ transport' = [transport EXCEPT !.playNext = FALSE]
    /\ Request(Following, TRUE)
    /\ budget' = [budget EXCEPT !.advances = IF TooManyAdvances THEN @ ELSE @ + 1]
    /\ UNCHANGED player

UpdateAdvance ==
    /\ At("advance")
    /\ IF ~transport.playNext
       THEN Done /\ UNCHANGED << transport, player, budget >>
       ELSE IF currentIndex \notin Indices
       THEN PlaylistEnds
       ELSE IF mode = "Repeat"
       THEN Repeats
       ELSE IF Following \in Indices
       THEN MovesOn
       ELSE PlaylistEnds
    /\ UNCHANGED << currentIndex, mode, handler, last >>

UpdateEnd == At("endClear") /\ ClearsMedia /\ Done

UpdateStep ==
    \/ Update
    \/ UpdateManualStop
    \/ UpdatePollFlags
    \/ UpdatePollState
    \/ UpdateFinalize
    \/ UpdateClear
    \/ UpdateActivate
    \/ UpdateAdvance
    \/ UpdateEnd

MainStep == RequestStep \/ TransportCallStep \/ UpdateStep

Next ==
    \/ Call
    \/ MainStep
    \/ HandlerStep
    \/ PlayerStep
    \/ PlayerFails
    \/ PlayerEnds
    \/ AudioSignal
    \/ TimePasses

Spec == Init /\ [][Next]_vars

\* update() keeps being called, and libVLC's threads keep running.
Fairness ==
    /\ WF_vars(MainStep)
    /\ WF_vars(HandlerStep)
    /\ WF_vars(TimePasses)
PromptPlayerStep == ~budget.plan.hangs /\ PlayerStep

FairSpec == Spec /\ Fairness /\ WF_vars(PromptPlayerStep)

-----------------------------------------------------------------------------
(* Properties *)

\* The loaded media is the current playlist item, or a direct media with no
\* current item.
MediaIsCurrent ==
    /\ player.media \in Indices => currentIndex = player.media
    /\ player.media = Direct => transport.activeDirect /\ currentIndex = NoIndex

\* What the inductive invariant adds to TypeOK and MediaIsCurrent: the counter
\* of awaited stops is below zero only inside onMediaPlayerStopped() ...
StopsCounted ==
    transport.stopEvents < 0 =>
        \/ handler.step = "decide" /\ handler.stops <= 0
        \/ handler.step = "mark" /\ ~handler.decision.keep

\* ... and a request carries its media from its first step to its last.
ItemKnown ==
    /\ main.at \in {"busy", "queue", "free", "switch", "now"}
          => main.item \in Indices \cup {Direct}
    /\ main.at \in {"playState", "playJoin", "playStart"} =>
          /\ main.item \in Indices => currentIndex = main.item
          /\ main.item = Direct => PlaylistSize = 0

\* At most one call overtakes an earlier one, and get_state never lags.
Unhurried == ~budget.plan.late /\ (budget.plan.overlapping => budget.plan.commands <= 2)

\* handlePlaybackEnded() moves on to another item at most once for every media
\* that ended or failed, though both the Stopped event and the poll of update()
\* ask for it.
AdvancesOncePerEnd == Unhurried => budget.advances <= budget.ends + budget.faults

\* A media is put in the place of another one only when the player is stopped:
\* what the asynchronous stop of activatePlaylistIndex() and
\* requestDirectMediaActivation() is for.
ReplacedOnlyWhenStopped ==
    [][(Unhurried /\ HasMedia /\ player'.media # player.media /\ player'.media # NoMedia)
          => Inactive(player.state)]_vars

\* Nothing asks libVLC to play after stop() until the application calls again: no
\* advance of the playlist and no queued request outlives it.  If calls overlap, that
\* holds for at most three of them, where no media ends or fails by itself: play()
\* that overlaps a stop() lets its Stopped handler decide to advance, and the decision
\* is published after the stores of a stop() called in between.
Starting(p) == p.starting \/ p.state = "Opening"
CanEnd == budget.plan.ends > 0 \/ budget.plan.faults > 0
FewOverlap == budget.plan.overlapping => ~CanEnd /\ budget.plan.commands <= 3
StopDropsRequests ==
    [][(~budget.plan.late /\ FewOverlap /\ Starting(player') /\ ~Starting(player))
          => last.call # "stop"]_vars

\* A stop that is the latest call completes, even if the player never reports
\* that it has stopped: the media is cleared and no request is left over.
StoppedForGood ==
    /\ ~HasMedia
    /\ ~transport.wanted /\ ~transport.stopInProgress /\ ~transport.stopFinalize
    /\ transport.stopEvents = 0

StopCompletes == <>[](last.call = "stop" => StoppedForGood)

\* A play() that is the latest call leads to playback, if there is a current
\* media or one to load and the player does not hang.
PlayPlays ==
    <>[](last.call = "play" /\ ~NothingToPlay /\ ~budget.plan.hangs
            => player.state = "Playing")

\* The latest playIndex() leads to the playback of that item.
PlayIndexPlays ==
    <>[](last.call = "playIndex" /\ ~budget.plan.hangs
            => player.state = "Playing" /\ player.media = last.item)
=============================================================================
