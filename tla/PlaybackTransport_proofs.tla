---------------------- MODULE PlaybackTransport_proofs ----------------------
(***************************************************************************)
(* Proofs about PlaybackTransport, for playlists of any size, any set of   *)
(* modes and commands, and any bounds: what holds of every interleaving,   *)
(* then what holds of calls that come one after the other.                 *)
(***************************************************************************)
EXTENDS PlaybackTransport, TLAPS

IInv == TypeOK /\ MediaIsCurrent /\ StopsCounted /\ ItemKnown

-----------------------------------------------------------------------------
(* What the operators on the transport and on the player return *)

\* The indices, the direct media and no media are told apart.
LEMMA Media ==
    /\ Direct \notin Indices
    /\ NoMedia \notin Indices \cup {Direct}
    /\ NoIndex \notin Indices
BY SizeAssumption DEF Direct, Indices, NoMedia, NoIndex

\* clearPendingActivationRequest() keeps the types.
LEMMA ClearTyped ==
    ASSUME NEW t \in TransportType
    PROVE  ClearPendingActivation(t) \in TransportType
BY DEF TransportType, ClearPendingActivation

\* Resetting the clock of a manual stop keeps the types.
LEMMA TimerTyped ==
    ASSUME NEW t \in TransportType
    PROVE  WithoutStopTimer(t) \in TransportType
BY DEF TransportType, WithoutStopTimer, StopAges

\* Withdrawing the wish to play keeps the types.
LEMMA NotPlayingTyped ==
    ASSUME NEW t \in TransportType
    PROVE  NotPlaying(t) \in TransportType
BY DEF TransportType, NotPlaying

\* What stop() stores first has the right types.
LEMMA StopRequestedTyped ==
    ASSUME NEW t \in TransportType
    PROVE  StopRequested(t) \in TransportType
<1> DEFINE u == ClearPendingActivation(NotPlaying(t))
<1>1. u \in TransportType
  BY ClearTyped, NotPlayingTyped
<1> HIDE DEF u
<1>2. [u EXCEPT !.playNext = FALSE, !.stopFinalize = FALSE, !.stoppedLatched = TRUE]
         \in TransportType
  BY <1>1 DEF TransportType
<1>. QED
  BY <1>2 DEF u, StopRequested

\* A queued request has the right types.
LEMMA QueuedTyped ==
    ASSUME NEW t \in TransportType, NEW item \in Indices \cup {Direct}, NEW b \in BOOLEAN
    PROVE  Queued(t, item, b) \in TransportType
BY DEF TransportType, Queued

\* So has a new count of awaited stops.
LEMMA StopsTyped ==
    ASSUME NEW t \in TransportType, NEW n \in -1 .. 1, NEW b \in BOOLEAN
    PROVE  [t EXCEPT !.stopInProgress = b, !.stopEvents = n] \in TransportType
BY DEF TransportType

\* Stopping at once clears what an awaited stop had set.
LEMMA StoppedAtOnceTyped ==
    ASSUME NEW t \in TransportType
    PROVE  /\ [t EXCEPT !.stopInProgress = FALSE, !.stopEvents = 0, !.audioPaused = FALSE]
                 \in TransportType
           /\ [t EXCEPT !.stopInProgress = FALSE, !.stopEvents = 0,
                        !.audioPaused = FALSE].stopEvents = 0
           /\ [t EXCEPT !.stopInProgress = FALSE, !.stopEvents = 0,
                        !.audioPaused = FALSE].activeDirect = t.activeDirect
<1>1. 0 \in -1 .. 1
  OBVIOUS
<1>2. ASSUME NEW n \in -1 .. 1
      PROVE  [t EXCEPT !.stopInProgress = FALSE, !.stopEvents = n, !.audioPaused = FALSE]
                \in TransportType
  BY DEF TransportType
<1>. QED
  BY <1>1, <1>2 DEF TransportType

\* The main thread's place when it ends a call or goes to a step that carries
\* no media.
LEMMA DoneTyped ==
    ASSUME main \in MainType, Done
    PROVE  main' \in MainType /\ ItemKnown'
BY DEF Done, MainType, MainPlaces, PlayerStates, ItemKnown

\* The main thread's place when it goes to a step with what it carries.
LEMMA GoesTyped ==
    ASSUME main \in MainType,
           NEW place \in {"play", "stopCheck", "stopMark", "stopAsync", "pauseState",
                          "pauseMark", "pausePlayer", "poll", "pollState", "finalize",
                          "clear", "activate", "advance", "endClear"},
           Goes(place)
    PROVE  main' \in MainType /\ ItemKnown'
BY DEF Goes, MainType, MainPlaces, ItemKnown

\* Asking for the player's state changes nothing but what the main thread
\* knows.
LEMMA GetStatePreserves ==
    ASSUME IInv, NEW from \in {"playState", "pauseState"}, NEW to \in {"playJoin", "pauseMark"},
           from = "playState" <=> to = "playJoin", GetState(from, to)
    PROVE  IInv'
<1>1. main' \in MainType /\ ItemKnown'
  BY DEF GetState, At, IInv, TypeOK, MainType, MainPlaces, PlayerType, ItemKnown
<1>. QED
  BY <1>1 DEF GetState, IInv, TypeOK, MediaIsCurrent, StopsCounted

\* Its first step of a request for a media.
LEMMA RequestTyped ==
    ASSUME main \in MainType, NEW item \in Indices \cup {Direct}, NEW b \in BOOLEAN,
           Request(item, b)
    PROVE  main' \in MainType /\ ItemKnown'
BY DEF Request, MainType, MainPlaces, ItemKnown

\* What every call of the application leaves alone.
LEMMA CallsTyped ==
    ASSUME TypeOK, NEW call \in AllCommands, NEW item \in Indices \cup {Direct, NoMedia},
           Calls(call, item)
    PROVE  /\ UNCHANGED << currentIndex, mode, player, handler >>
           /\ budget' \in BudgetType
           /\ last' \in LastType
           /\ main.at = "idle"
BY PlansAssumption DEF TypeOK, Calls, At, BudgetType, LastType

\* The player's types survive libVLC's calls.
LEMMA PlayTyped ==
    ASSUME NEW p \in PlayerType
    PROVE  LibPlay(p) \in PlayerType /\ LibPlay(p).media = p.media
BY DEF PlayerType, LibPlay, Active, Inactive, PlayerStates

\* libvlc_media_player_stop_async() keeps the player's type.
LEMMA StopAsyncTyped ==
    ASSUME NEW p \in PlayerType
    PROVE  LibStopAsync(p) \in PlayerType /\ LibStopAsync(p).media = p.media
BY DEF PlayerType, LibStopAsync, Active, Inactive, PlayerStates

\* Loading a media keeps it, for every media.
LEMMA SetMediaTyped ==
    ASSUME NEW p \in PlayerType, NEW m \in Indices \cup {Direct, NoMedia}
    PROVE  LibSetMedia(p, m) \in PlayerType /\ LibSetMedia(p, m).media = m
BY DEF PlayerType, LibSetMedia, Active, Inactive, PlayerStates

\* So does a request to pause or to resume.
LEMMA SetPauseTyped ==
    ASSUME NEW p \in PlayerType, NEW ask \in {"pause", "resume"}
    PROVE  LibSetPause(p, ask) \in PlayerType /\ LibSetPause(p, ask).media = p.media
BY DEF PlayerType, LibSetPause

\* So does what play() asks of a player in any state.
LEMMA StartTyped ==
    ASSUME NEW p \in PlayerType, NEW state
    PROVE  StartOrResume(state, p) \in PlayerType /\ StartOrResume(state, p).media = p.media
BY PlayTyped, SetPauseTyped DEF StartOrResume

\* And clearCurrentMedia().
LEMMA ClearedTyped ==
    ASSUME NEW p \in PlayerType
    PROVE  ClearedMedia(p) \in PlayerType /\ ClearedMedia(p).media = NoMedia
BY SetMediaTyped DEF ClearedMedia

\* evaluateStoppedPlaybackEvent() keeps a manual stop in progress exactly when
\* one was awaited.
LEMMA DecisionKeeps ==
    ASSUME NEW stops, NEW pending \in BOOLEAN, NEW stopped \in BOOLEAN, NEW wanted \in BOOLEAN
    PROVE  StoppedDecision(stops, pending, stopped, wanted).keep <=> stops > 0
BY DEF StoppedDecision

-----------------------------------------------------------------------------
(* Every kind of step keeps the invariant *)

\* libVLC's player: it never changes its media by itself, and enters
\* onMediaPlayerStopped() at its first step only.
LEMMA PlayerPreserves ==
    ASSUME IInv, PlayerStep \/ PlayerFails \/ PlayerEnds
    PROVE  IInv'
<1>1. /\ player' \in PlayerType
      /\ player'.media = player.media
      /\ handler' \in HandlerType
      /\ handler'.step \notin {"decide", "mark"}
  BY DEF IInv, TypeOK, PlayerType, HandlerType, HandlerSteps, PlayerStates, PlayerStep,
         PlayerOpening, PlayerPlaying, PlayerStopping, PlayerStopped, PlayerPauses,
         PlayerResumes, PlayerFails, PlayerEnds, PlayerTurns, Unlocked
<1>2. UNCHANGED << transport, currentIndex, mode, main, last >>
  BY DEF PlayerStep,
         PlayerOpening, PlayerPlaying, PlayerStopping, PlayerStopped, PlayerPauses,
         PlayerResumes, PlayerFails, PlayerEnds, PlayerTurns, Unlocked
<1>3. budget' \in BudgetType
  BY PlansAssumption DEF IInv, TypeOK, BudgetType, PlayerStep,
         PlayerOpening, PlayerPlaying, PlayerStopping, PlayerStopped, PlayerPauses,
         PlayerResumes, PlayerFails, PlayerEnds
<1>4. StopsCounted'
  BY <1>1, <1>2 DEF IInv, StopsCounted, PlayerStep,
         PlayerOpening, PlayerPlaying, PlayerStopping, PlayerStopped, PlayerPauses,
         PlayerResumes, PlayerFails, PlayerEnds, PlayerTurns, Unlocked
<1>. QED
  BY <1>1, <1>2, <1>3, <1>4 DEF IInv, TypeOK, MediaIsCurrent, ItemKnown

\* The audio thread and the clock.
LEMMA SignalsPreserve ==
    ASSUME IInv, AudioSignal \/ TimePasses
    PROVE  IInv'
<1>1. /\ transport' \in TransportType
      /\ transport'.stopEvents = transport.stopEvents
      /\ transport'.activeDirect = transport.activeDirect
  BY DEF IInv, TypeOK, TransportType, AudioSignal, TimePasses, StopAges, StopAges_After
<1>2. UNCHANGED << currentIndex, mode, player, main, handler, last, budget >>
  BY DEF AudioSignal, TimePasses
<1>. QED
  BY <1>1, <1>2 DEF IInv, TypeOK, MediaIsCurrent, ItemKnown, StopsCounted

\* The event handlers.  pendingManualStopEvents drops below zero only in a
\* Stopped event nobody asked for, which resets it before it ends.
LEMMA HandlersPreserve ==
    ASSUME IInv, HandlerStep
    PROVE  IInv'
<1>1. UNCHANGED << currentIndex, mode, player, main, last, budget >>
  BY DEF HandlerStep, HandlerGoes, OnMediaPlayerPlaying, OnMediaPlayerPaused,
         OnMediaPlayerStopping, OnStoppedCount, OnStoppedDecide, OnStoppedMark, OnStoppedPublish
<1> USE DEF IInv, TypeOK
<1>2. handler' \in HandlerType
  <2>1. CASE OnStoppedCount
    BY <2>1 DEF OnStoppedCount, HandlerType, HandlerSteps, TransportType
  <2>2. CASE OnStoppedDecide
    <3>1. \A stops, pending, stopped, wanted :
             StoppedDecision(stops, pending, stopped, wanted) \in DecisionType
      BY DEF StoppedDecision, DecisionType
    <3>. QED
      BY <2>2, <3>1 DEF OnStoppedDecide, HandlerType, HandlerSteps
  <2>3. CASE OnStoppedPublish
    BY <2>3 DEF OnStoppedPublish, NoDecision, DecisionType, HandlerType, HandlerSteps
  <2>4. CASE OnMediaPlayerPlaying \/ OnMediaPlayerPaused \/ OnMediaPlayerStopping \/ OnStoppedMark
    BY <2>4 DEF OnMediaPlayerPlaying, OnMediaPlayerPaused, OnMediaPlayerStopping, OnStoppedMark,
                HandlerGoes, HandlerType, HandlerSteps
  <2>. QED
    BY <2>1, <2>2, <2>3, <2>4 DEF HandlerStep
<1>3. transport' \in TransportType /\ transport'.activeDirect = transport.activeDirect
  <2>1. CASE OnMediaPlayerPlaying
    BY <2>1 DEF OnMediaPlayerPlaying, TransportType, WithoutStopTimer, StopAges
  <2>2. CASE OnMediaPlayerPaused \/ OnMediaPlayerStopping
    BY <2>2 DEF OnMediaPlayerPaused, OnMediaPlayerStopping, TransportType
  <2>3. CASE OnStoppedCount
    <3>1. transport.stopEvents - 1 \in -1 .. 1
      BY <2>3 DEF OnStoppedCount, StopsCounted, TransportType
    <3>. QED
      BY <2>3, <3>1 DEF OnStoppedCount, TransportType, WithoutStopTimer, StopAges
  <2>4. CASE OnStoppedDecide
    BY <2>4 DEF OnStoppedDecide
  <2>5. CASE OnStoppedMark
    <3>1. [transport EXCEPT !.stopInProgress = TRUE] \in TransportType
      BY DEF TransportType
    <3>2. [transport EXCEPT !.stopInProgress = FALSE, !.stopEvents = 0] \in TransportType
      <4>1. 0 \in -1 .. 1
        OBVIOUS
      <4>. QED
        BY <4>1, StopsTyped
    <3>. QED
      BY <2>5, <3>1, <3>2 DEF OnStoppedMark, TransportType
  <2>6. CASE OnStoppedPublish
    <3>1. ASSUME NEW a \in BOOLEAN, NEW b \in BOOLEAN, NEW c \in BOOLEAN
          PROVE  [transport EXCEPT !.ready = a, !.stopFinalize = b, !.playNext = c]
                    \in TransportType
      BY DEF TransportType
    <3>2. /\ (transport.ready \/ handler.decision.activate) \in BOOLEAN
          /\ (transport.stopFinalize \/ handler.decision.finalize) \in BOOLEAN
          /\ (transport.playNext \/ handler.decision.advance) \in BOOLEAN
      BY Zenon
    <3>3. transport' =
            [transport EXCEPT !.ready = transport.ready \/ handler.decision.activate,
                              !.stopFinalize = transport.stopFinalize \/ handler.decision.finalize,
                              !.playNext = transport.playNext \/ handler.decision.advance]
      BY <2>6 DEF OnStoppedPublish
    <3>4. transport' \in TransportType
      BY <3>1, <3>2, <3>3, Zenon
    <3>5. transport'.activeDirect = transport.activeDirect
      BY <3>3 DEF TransportType
    <3>. QED
      BY <3>4, <3>5
  <2>. QED
    BY <2>1, <2>2, <2>3, <2>4, <2>5, <2>6 DEF HandlerStep
<1>4. StopsCounted'
  <2>1. CASE OnMediaPlayerPlaying \/ OnMediaPlayerPaused \/ OnMediaPlayerStopping
    <3>1. transport.stopEvents >= 0
      <4>1. handler.step \in {"playing", "paused", "stopping"}
        BY <2>1 DEF OnMediaPlayerPlaying, OnMediaPlayerPaused, OnMediaPlayerStopping,
           HandlerGoes
      <4>2. transport.stopEvents \in -1 .. 1
        BY DEF TransportType
      <4>. QED
        BY <4>1, <4>2 DEF StopsCounted
    <3>2. transport'.stopEvents = transport.stopEvents
      <4>1. CASE OnMediaPlayerPlaying
        BY <4>1 DEF OnMediaPlayerPlaying, WithoutStopTimer, TransportType
      <4>2. CASE OnMediaPlayerPaused \/ OnMediaPlayerStopping
        BY <4>2 DEF OnMediaPlayerPaused, OnMediaPlayerStopping, TransportType
      <4>. QED
        BY <2>1, <4>1, <4>2
    <3>. QED
      BY <3>1, <3>2 DEF StopsCounted, TransportType
  <2>2. CASE OnStoppedCount
    <3>1. /\ transport'.stopEvents = transport.stopEvents - 1
          /\ handler'.step = "decide" /\ handler'.stops = transport.stopEvents
      BY <2>2 DEF OnStoppedCount, WithoutStopTimer, TransportType, HandlerType
    <3>. QED
      BY <3>1 DEF StopsCounted, TransportType
  <2>3. CASE OnStoppedDecide
    <3>1. transport' = transport /\ handler.step = "decide" /\ handler'.step = "mark"
      BY <2>3 DEF OnStoppedDecide, HandlerType
    <3>2. PICK pending \in BOOLEAN, stopped \in BOOLEAN, wanted \in BOOLEAN :
             handler'.decision = StoppedDecision(handler.stops, pending, stopped, wanted)
      BY <2>3 DEF OnStoppedDecide, HandlerType, TransportType, Inactive
    <3>3. handler'.decision.keep <=> handler.stops > 0
      BY <3>2, DecisionKeeps
    <3>4. handler.stops \in -1 .. 1
      BY DEF HandlerType
    <3>. QED
      BY <3>1, <3>3, <3>4 DEF StopsCounted
  <2>4. CASE OnStoppedMark
    <3>1. CASE handler.decision.keep
      BY <2>4, <3>1 DEF OnStoppedMark, HandlerGoes, TransportType, StopsCounted
    <3>2. CASE ~handler.decision.keep
      BY <2>4, <3>2 DEF OnStoppedMark, TransportType, StopsCounted
    <3>. QED
      BY <3>1, <3>2
  <2>5. CASE OnStoppedPublish
    BY <2>5 DEF OnStoppedPublish, TransportType, StopsCounted
  <2>. QED
    BY <2>1, <2>2, <2>3, <2>4, <2>5 DEF HandlerStep
<1>. QED
  BY <1>1, <1>2, <1>3, <1>4 DEF MediaIsCurrent, ItemKnown

\* Loading a media: what is loaded afterwards is the item, or nothing.
LEMMA Loads ==
    ASSUME TypeOK, NEW t \in TransportType, NEW item \in Indices \cup {Direct},
           NEW started \in PlayerType, started.media = item,
           LoadAnd(t, item, started)
    PROVE  /\ transport' \in TransportType
           /\ transport'.stopEvents = t.stopEvents
           /\ player' \in PlayerType
           /\ \/ player'.media = NoMedia
              \/ player'.media = item /\ transport'.activeDirect = (t.activeDirect \/ item = Direct)
           /\ budget' \in BudgetType
<1>1. CASE /\ transport' = [t EXCEPT !.audioPaused = FALSE, !.activeDirect = @ \/ item = Direct]
           /\ player' = started
           /\ UNCHANGED budget
  BY <1>1 DEF TypeOK, TransportType
<1>2. CASE /\ budget.faults < budget.plan.faults
           /\ budget' = [budget EXCEPT !.faults = @ + 1]
           /\ transport' = [t EXCEPT !.audioPaused = FALSE]
           /\ player' = IF HasMedia THEN LibSetMedia(player, NoMedia) ELSE player
  <2>1. player' \in PlayerType /\ player'.media = NoMedia
    BY <1>2, SetMediaTyped DEF TypeOK, HasMedia
  <2>2. budget' \in BudgetType
    BY <1>2, PlansAssumption DEF TypeOK, BudgetType
  <2>3. transport' \in TransportType /\ transport'.stopEvents = t.stopEvents
    BY <1>2 DEF TransportType
  <2>. QED
    BY <2>1, <2>2, <2>3
<1>. QED
  BY <1>1, <1>2 DEF LoadAnd

\* activatePlaylistIndexImmediate() and activateDirectMediaImmediate().
LEMMA Activates ==
    ASSUME TypeOK, NEW t \in TransportType, NEW item \in Indices \cup {Direct},
           NEW b \in BOOLEAN, ActivateImmediate(t, item, b)
    PROVE  /\ transport' \in TransportType
           /\ transport'.stopEvents = t.stopEvents
           /\ player' \in PlayerType
           /\ currentIndex' \in Indices \cup {NoIndex}
           /\ budget' \in BudgetType
           /\ MediaIsCurrent'
<1>1. ActivatedDirectMedia(t, b) \in TransportType
  BY DEF ActivatedDirectMedia, TransportType
<1>2. ActivatedPlaylistItem(t, b) \in TransportType
  BY DEF ActivatedPlaylistItem, TransportType
<1>3. Activated(t, item, b) \in TransportType /\ Activated(t, item, b).stopEvents = t.stopEvents
  <2>1. ActivatedDirectMedia(t, b).stopEvents = t.stopEvents
    BY DEF ActivatedDirectMedia, TransportType
  <2>2. ActivatedPlaylistItem(t, b).stopEvents = t.stopEvents
    BY DEF ActivatedPlaylistItem, TransportType
  <2>. QED
    BY <1>1, <1>2, <2>1, <2>2 DEF Activated
<1>4. Loaded(item, b) \in PlayerType /\ Loaded(item, b).media = item
  <2>1. /\ LibSetMedia(player, item) \in PlayerType
        /\ LibSetMedia(player, item).media = item
    BY SetMediaTyped DEF TypeOK
  <2>. QED
    BY <2>1, PlayTyped DEF Loaded
<1>5. /\ LoadAnd(Activated(t, item, b), item, Loaded(item, b))
      /\ currentIndex' = IF item = Direct THEN NoIndex ELSE item
  BY DEF ActivateImmediate
<1>6. /\ transport' \in TransportType
      /\ transport'.stopEvents = t.stopEvents
      /\ player' \in PlayerType
      /\ \/ player'.media = NoMedia
         \/ /\ player'.media = item
            /\ transport'.activeDirect = (Activated(t, item, b).activeDirect \/ item = Direct)
      /\ budget' \in BudgetType
  BY <1>3, <1>4, <1>5, Loads
<1>7. MediaIsCurrent'
  BY <1>5, <1>6, Media DEF MediaIsCurrent
<1>. QED
  BY <1>5, <1>6, <1>7

\* The requests to activate a media.
LEMMA RequestsPreserve ==
    ASSUME IInv, RequestStep
    PROVE  IInv'
<1> USE DEF IInv, TypeOK
<1>0. UNCHANGED << mode, handler, last >>
  BY DEF RequestStep, RequestWhileStopping, QueueRequest, RequestWhileFree, SwitchRequest,
         SwitchStopAsync, ActivateNow
<1>1. CASE RequestWhileStopping
  <2>1. main' \in MainType /\ ItemKnown'
    BY <1>1 DEF RequestWhileStopping, At, Goes, MainType, MainPlaces, ItemKnown
  <2>2. UNCHANGED << currentIndex, player, budget >>
    BY <1>1 DEF RequestWhileStopping
  <2>3. [transport EXCEPT !.stopEvents = 0] \in TransportType
    BY DEF TransportType
  <2>4. transport' \in TransportType /\ transport'.activeDirect = transport.activeDirect
    <3>1. CASE transport' = ClearPendingActivation([transport EXCEPT !.stopEvents = 0])
      <4>1. transport' \in TransportType
        BY <3>1, <2>3, ClearTyped
      <4>2. ClearPendingActivation([transport EXCEPT !.stopEvents = 0]).activeDirect
              = [transport EXCEPT !.stopEvents = 0].activeDirect
        BY <2>3 DEF ClearPendingActivation, TransportType
      <4>3. [transport EXCEPT !.stopEvents = 0].activeDirect = transport.activeDirect
        BY DEF TransportType
      <4>. QED
        BY <3>1, <4>1, <4>2, <4>3
    <3>2. CASE UNCHANGED transport
      BY <3>2
    <3>. QED
      BY <1>1, <3>1, <3>2 DEF RequestWhileStopping
  <2>5. transport'.stopEvents \in {0, transport.stopEvents}
    BY <1>1, <2>3 DEF RequestWhileStopping, ClearPendingActivation, TransportType
  <2>. QED
    BY <1>0, <2>1, <2>2, <2>4, <2>5 DEF MediaIsCurrent, StopsCounted
<1>2. CASE QueueRequest
  <2>1. main' \in MainType /\ ItemKnown' /\ main.item \in Indices \cup {Direct} /\ main.play \in BOOLEAN
    BY <1>2 DEF QueueRequest, At, Done, MainType, MainPlaces, PlayerStates, ItemKnown
  <2>2. UNCHANGED << currentIndex, player, budget >>
    BY <1>2 DEF QueueRequest
  <2>3. transport' \in TransportType
    BY <1>2, <2>1, QueuedTyped DEF QueueRequest
  <2>4. /\ transport'.activeDirect = transport.activeDirect
        /\ transport'.stopEvents = transport.stopEvents
    BY <1>2 DEF QueueRequest, Queued, TransportType
  <2>. QED
    BY <1>0, <2>1, <2>2, <2>3, <2>4 DEF MediaIsCurrent, StopsCounted
<1>3. CASE RequestWhileFree
  <2>1. main' \in MainType /\ ItemKnown'
    BY <1>3 DEF RequestWhileFree, At, Goes, MainType, MainPlaces, ItemKnown
  <2>. QED
    BY <1>0, <1>3, <2>1 DEF RequestWhileFree, MediaIsCurrent, StopsCounted
<1>4. CASE SwitchRequest
  <2>1. main' \in MainType /\ ItemKnown' /\ main.item \in Indices \cup {Direct} /\ main.play \in BOOLEAN
    BY <1>4 DEF SwitchRequest, At, Goes, MainType, MainPlaces, ItemKnown
  <2>2. UNCHANGED << currentIndex, player, budget >>
    BY <1>4 DEF SwitchRequest
  <2>3. Queued(transport, main.item, main.play) \in TransportType
    BY <2>1, QueuedTyped
  <2>4. transport' = [Queued(transport, main.item, main.play) EXCEPT !.stopEvents = 1]
    BY <1>4 DEF SwitchRequest
  <2>5. transport' \in TransportType /\ transport'.stopEvents = 1
    BY <2>3, <2>4 DEF TransportType
  <2>6. transport'.activeDirect = transport.activeDirect
    BY <2>4 DEF Queued, TransportType
  <2>. QED
    BY <1>0, <2>1, <2>2, <2>5, <2>6 DEF MediaIsCurrent, StopsCounted
<1>5. CASE SwitchStopAsync
  <2>1. main' \in MainType /\ ItemKnown'
    BY <1>5 DEF SwitchStopAsync, At, Done, MainType, MainPlaces, PlayerStates, ItemKnown
  <2>2. player' \in PlayerType /\ player'.media = player.media
    BY <1>5, StopAsyncTyped DEF SwitchStopAsync
  <2>. QED
    BY <1>0, <1>5, <2>1, <2>2 DEF SwitchStopAsync, MediaIsCurrent, StopsCounted
<1>6. CASE ActivateNow
  <2>1. main' \in MainType /\ ItemKnown' /\ main.item \in Indices \cup {Direct} /\ main.play \in BOOLEAN
    BY <1>6 DEF ActivateNow, At, Done, MainType, MainPlaces, PlayerStates, ItemKnown
  <2>2. ClearPendingActivation(transport) \in TransportType
    BY ClearTyped
  <2>3. ClearPendingActivation(transport).stopEvents = transport.stopEvents
    BY DEF ClearPendingActivation, TransportType
  <2>4. ActivateImmediate(ClearPendingActivation(transport), main.item, main.play)
    BY <1>6 DEF ActivateNow
  <2>5. /\ transport' \in TransportType
        /\ transport'.stopEvents = ClearPendingActivation(transport).stopEvents
        /\ player' \in PlayerType
        /\ currentIndex' \in Indices \cup {NoIndex}
        /\ budget' \in BudgetType
        /\ MediaIsCurrent'
    BY <2>1, <2>2, <2>4, Activates
  <2>. QED
    BY <1>0, <2>1, <2>3, <2>5 DEF StopsCounted
<1>. QED
  BY <1>1, <1>2, <1>3, <1>4, <1>5, <1>6 DEF RequestStep

\* play(), pause() and stop(), after their first step.
LEMMA TransportCallsPreserve ==
    ASSUME IInv, TransportCallStep
    PROVE  IInv'
<1> USE DEF IInv, TypeOK
<1>0. UNCHANGED << mode, handler, last >>
  BY DEF TransportCallStep, PlayRequest, PlayState, PlayJoin, PlayStart, PauseState, PauseMark,
         PausePlayer, GetState, StopCheck, StopMark, StopAsync
<1>1. CASE PlayRequest
  <2>1. UNCHANGED << player, budget >>
    BY <1>1 DEF PlayRequest
  <2>2. CASE NothingToPlay
    <3>1. main' \in MainType /\ ItemKnown'
      BY <1>1, <2>2, DoneTyped DEF PlayRequest
    <3>. QED
      BY <1>0, <1>1, <2>1, <2>2, <3>1 DEF PlayRequest, MediaIsCurrent, StopsCounted
  <2>3. CASE ~NothingToPlay
    <3> DEFINE first == IF currentIndex \in Indices THEN currentIndex ELSE 0
               u == [transport EXCEPT !.playNext = FALSE, !.wanted = TRUE, !.pauseRequested = FALSE,
                                      !.audioPaused = FALSE, !.stopInProgress = FALSE,
                                      !.stopFinalize = FALSE, !.stoppedLatched = FALSE]
    <3>1. PlaylistSize # 0 => first \in Indices
      BY SizeAssumption DEF Indices
    <3>2. /\ currentIndex' = IF HasMedia \/ PlaylistSize = 0 THEN currentIndex ELSE first
          /\ main' = [main EXCEPT !.at = "playState",
                         !.item = IF HasMedia THEN NoMedia
                                  ELSE IF PlaylistSize = 0 THEN Direct ELSE first]
          /\ transport' = WithoutStopTimer(u)
      BY <1>1, <2>3 DEF PlayRequest
    <3>3. main' \in MainType /\ ItemKnown'
      BY <3>1, <3>2, Media DEF MainType, MainPlaces, ItemKnown
    <3>4. currentIndex' \in Indices \cup {NoIndex}
      BY <3>1, <3>2
    <3>5. u \in TransportType /\ u.stopEvents = transport.stopEvents
                              /\ u.activeDirect = transport.activeDirect
      BY DEF TransportType
    <3>6. /\ transport' \in TransportType
          /\ transport'.stopEvents = transport.stopEvents
          /\ transport'.activeDirect = transport.activeDirect
      <4> HIDE DEF u
      <4>. QED
        BY <3>2, <3>5, TimerTyped DEF WithoutStopTimer, TransportType
    <3>7. MediaIsCurrent'
      BY <2>1, <3>2, <3>6, Media DEF MediaIsCurrent, HasMedia
    <3>. QED
      BY <1>0, <2>1, <3>3, <3>4, <3>6, <3>7 DEF StopsCounted
  <2>. QED
    BY <2>2, <2>3
<1>2. CASE PlayJoin
  <2>1. main' \in MainType /\ ItemKnown' /\ UNCHANGED << currentIndex, player, budget >>
    <3>1. CASE Done
      BY <1>2, <3>1, DoneTyped DEF PlayJoin
    <3>2. CASE Goes("playStart")
      BY <1>2, <3>2 DEF PlayJoin, At, Goes, MainType, MainPlaces, ItemKnown
    <3>. QED
      BY <1>2, <3>1, <3>2 DEF PlayJoin
  <2>2. /\ transport' \in TransportType
        /\ transport'.stopEvents \in {0, transport.stopEvents}
        /\ transport'.activeDirect = transport.activeDirect
    <3>1. ASSUME NEW n \in -1 .. 1, NEW b \in BOOLEAN
          PROVE  [transport EXCEPT !.stopEvents = n, !.shouldPlay = b] \in TransportType
      BY DEF TransportType
    <3> DEFINE n == IF transport.stopEvents > 0 /\ Inactive(main.seen)
                    THEN 0 ELSE transport.stopEvents
    <3>2. n \in -1 .. 1 /\ n \in {0, transport.stopEvents}
      BY DEF TransportType
    <3>3. (transport.shouldPlay \/ PlayJoins) \in BOOLEAN
      BY Zenon
    <3>4. transport' = [transport EXCEPT !.stopEvents = n,
                                         !.shouldPlay = transport.shouldPlay \/ PlayJoins]
      BY <1>2 DEF PlayJoin
    <3> HIDE DEF n
    <3>5. transport' \in TransportType
      BY <3>1, <3>2, <3>3, <3>4, Zenon
    <3>6. transport'.stopEvents = n /\ transport'.activeDirect = transport.activeDirect
      BY <3>4 DEF TransportType
    <3>. QED
      BY <3>2, <3>5, <3>6
  <2>. QED
    BY <1>0, <2>1, <2>2 DEF MediaIsCurrent, StopsCounted
<1>3. CASE PlayStart
  <2> DEFINE loaded == LibSetMedia(player, main.item)
  <2>1. main' \in MainType /\ ItemKnown' /\ UNCHANGED currentIndex
    BY <1>3, DoneTyped DEF PlayStart
  <2>2. CASE main.item # NoMedia
    <3>1. main.item \in Indices \cup {Direct} /\ main.at = "playStart"
      BY <1>3, <2>2 DEF PlayStart, At, MainType
    <3>2. LoadAnd(transport, main.item, StartOrResume(main.seen, loaded))
      BY <1>3, <2>2 DEF PlayStart
    <3>3. loaded \in PlayerType /\ loaded.media = main.item
      BY <3>1, SetMediaTyped
    <3>4. /\ StartOrResume(main.seen, loaded) \in PlayerType
          /\ StartOrResume(main.seen, loaded).media = main.item
      BY <3>3, StartTyped
    <3>5. /\ transport' \in TransportType
          /\ transport'.stopEvents = transport.stopEvents
          /\ player' \in PlayerType
          /\ \/ player'.media = NoMedia
             \/ /\ player'.media = main.item
                /\ transport'.activeDirect = (transport.activeDirect \/ main.item = Direct)
          /\ budget' \in BudgetType
      BY <3>1, <3>2, <3>4, Loads
    <3>6. main.item = Direct => currentIndex = NoIndex
      BY <3>1 DEF ItemKnown, Indices
    <3>7. MediaIsCurrent'
      BY <2>1, <3>1, <3>5, <3>6, Media DEF MediaIsCurrent, ItemKnown
    <3>. QED
      BY <1>0, <2>1, <3>5, <3>7 DEF StopsCounted
  <2>3. CASE main.item = NoMedia
    <3>1. player' = StartOrResume(main.seen, player) /\ UNCHANGED << transport, budget >>
      BY <1>3, <2>3 DEF PlayStart
    <3>2. player' \in PlayerType /\ player'.media = player.media
      BY <3>1, StartTyped
    <3>. QED
      BY <1>0, <2>1, <3>1, <3>2 DEF MediaIsCurrent, StopsCounted
  <2>. QED
    BY <2>2, <2>3
<1>7. CASE PlayState \/ PauseState
  BY <1>7, GetStatePreserves DEF PlayState, PauseState
<1>8. CASE PauseMark
  <2>1. main' \in MainType /\ ItemKnown' /\ UNCHANGED << currentIndex, player, budget >>
    BY <1>8, DoneTyped, GoesTyped DEF PauseMark
  <2>2. /\ NotPlaying(transport) \in TransportType
        /\ NotPlaying(transport).stopEvents = transport.stopEvents
        /\ NotPlaying(transport).activeDirect = transport.activeDirect
    BY NotPlayingTyped DEF NotPlaying, TransportType
  <2>3. ASSUME NEW b \in BOOLEAN
        PROVE  /\ [transport EXCEPT !.pauseRequested = TRUE, !.wanted = FALSE,
                                    !.shouldPlay = b] \in TransportType
               /\ [transport EXCEPT !.pauseRequested = TRUE, !.wanted = FALSE,
                                    !.shouldPlay = b].stopEvents = transport.stopEvents
               /\ [transport EXCEPT !.pauseRequested = TRUE, !.wanted = FALSE,
                                    !.shouldPlay = b].activeDirect = transport.activeDirect
    BY DEF TransportType
  <2> DEFINE b == transport.shouldPlay /\ ~QueuedActivation(transport)
             u == [transport EXCEPT !.pauseRequested = TRUE, !.wanted = FALSE, !.shouldPlay = b]
  <2>4. b \in BOOLEAN
    BY Zenon
  <2>5. transport' \in {transport, NotPlaying(transport), u}
    BY <1>8 DEF PauseMark
  <2>6. /\ u \in TransportType
        /\ u.stopEvents = transport.stopEvents
        /\ u.activeDirect = transport.activeDirect
    <3> HIDE DEF b
    <3>. QED
      BY <2>3, <2>4
  <2>7. /\ transport' \in TransportType
        /\ transport'.stopEvents = transport.stopEvents
        /\ transport'.activeDirect = transport.activeDirect
    <3> HIDE DEF u
    <3>. QED
      BY <2>2, <2>5, <2>6
  <2>. QED
    BY <1>0, <2>1, <2>7 DEF MediaIsCurrent, StopsCounted
<1>9. CASE PausePlayer
  <2>1. main' \in MainType /\ ItemKnown'
    BY <1>9, DoneTyped DEF PausePlayer
  <2>2. player' \in PlayerType /\ player'.media = player.media
    BY <1>9, SetPauseTyped DEF PausePlayer
  <2>. QED
    BY <1>0, <1>9, <2>1, <2>2 DEF PausePlayer, MediaIsCurrent, StopsCounted
<1>4. CASE StopCheck
  <2>1. main' \in MainType /\ ItemKnown' /\ UNCHANGED << currentIndex, budget >>
    BY <1>4, DoneTyped, GoesTyped DEF StopCheck
  <2>2. player' \in PlayerType /\ player'.media \in {player.media, NoMedia}
    BY <1>4, ClearedTyped DEF StopCheck
  <2> DEFINE u == [transport EXCEPT !.stopInProgress = FALSE, !.stopEvents = 0, !.audioPaused = FALSE]
  <2>3. u \in TransportType /\ u.stopEvents = 0 /\ u.activeDirect = transport.activeDirect
    BY StoppedAtOnceTyped
  <2>4. transport' \in {transport, WithoutStopTimer(u)}
    BY <1>4 DEF StopCheck
  <2>5. /\ WithoutStopTimer(u) \in TransportType
        /\ WithoutStopTimer(u).stopEvents = 0
        /\ WithoutStopTimer(u).activeDirect = transport.activeDirect
    <3> HIDE DEF u
    <3>. QED
      BY <2>3, TimerTyped DEF WithoutStopTimer, TransportType
  <2>. QED
    BY <1>0, <2>1, <2>2, <2>4, <2>5, Media DEF MediaIsCurrent, StopsCounted
<1>5. CASE StopMark
  <2>1. main' \in MainType /\ ItemKnown' /\ UNCHANGED << currentIndex, player, budget >>
    BY <1>5, DoneTyped, GoesTyped DEF StopMark
  <2>2. transport' \in TransportType /\ transport'.stopEvents = 1
                                     /\ transport'.activeDirect = transport.activeDirect
    <3>1. ASSUME NEW n \in -1 .. 1
          PROVE  /\ [transport EXCEPT !.stopEvents = n, !.stopInProgress = TRUE,
                                      !.stopFinalize = FALSE, !.stopAge = "fresh",
                                      !.retryIssued = FALSE] \in TransportType
                 /\ [transport EXCEPT !.stopEvents = n] \in TransportType
      BY DEF TransportType, StopAges
    <3>2. 1 \in -1 .. 1
      OBVIOUS
    <3>3. CASE transport.stopEvents = 0
      <4>1. transport' = [transport EXCEPT !.stopEvents = 1, !.stopInProgress = TRUE,
                                           !.stopFinalize = FALSE, !.stopAge = "fresh",
                                           !.retryIssued = FALSE]
        BY <1>5, <3>3 DEF StopMark
      <4>. QED
        BY <3>1, <3>2, <4>1 DEF TransportType
    <3>4. CASE transport.stopEvents # 0
      <4>1. transport' = [transport EXCEPT !.stopEvents = 1]
        BY <1>5, <3>4 DEF StopMark
      <4>. QED
        BY <3>1, <3>2, <4>1 DEF TransportType
    <3>. QED
      BY <3>3, <3>4
  <2>. QED
    BY <1>0, <2>1, <2>2 DEF MediaIsCurrent, StopsCounted
<1>6. CASE StopAsync
  <2>1. main' \in MainType /\ ItemKnown'
    BY <1>6 DEF StopAsync, At, Done, MainType, MainPlaces, PlayerStates, ItemKnown
  <2>2. player' \in PlayerType /\ player'.media = player.media
    BY <1>6, StopAsyncTyped DEF StopAsync
  <2>. QED
    BY <1>0, <1>6, <2>1, <2>2 DEF StopAsync, MediaIsCurrent, StopsCounted
<1>. QED
  BY <1>1, <1>2, <1>3, <1>4, <1>5, <1>6, <1>7, <1>8, <1>9 DEF TransportCallStep

\* The application's calls, up to the first step that needs libVLC.
LEMMA CallsPreserve ==
    ASSUME IInv, Call
    PROVE  IInv'
<1> USE DEF IInv, TypeOK
<1>1. /\ UNCHANGED << currentIndex, mode, player, handler >>
      /\ budget' \in BudgetType
      /\ last' \in LastType
      /\ main.at = "idle"
  <2>1. PICK call \in AllCommands, item \in Indices \cup {Direct, NoMedia} : Calls(call, item)
    BY DEF Call, CallPlayIndex, CallSelect, CallDirect, CallPlay, CallPause, CallStop, CallNext,
           CallPrevious, AllCommands
  <2>. QED
    BY <2>1, CallsTyped
<1>2. main' \in MainType /\ ItemKnown'
  <2>1. CASE CallPlayIndex \/ CallSelect
    BY <2>1, RequestTyped DEF CallPlayIndex, CallSelect
  <2>2. CASE CallDirect
    BY <2>2, RequestTyped DEF CallDirect
  <2>3. CASE CallPlay \/ CallStop
    BY <2>3, GoesTyped DEF CallPlay, CallStop
  <2>4. CASE CallPause
    <3>1. CASE UNCHANGED main
      BY <1>1, <3>1 DEF ItemKnown
    <3>. QED
      BY <2>4, <3>1, GoesTyped DEF CallPause
  <2>5. CASE CallNext \/ CallPrevious
    <3>1. PlaylistSize > 0 => /\ 0 \in Indices /\ PlaylistSize - 1 \in Indices
                              /\ currentIndex > 0 => currentIndex - 1 \in Indices
      BY SizeAssumption DEF Indices, NoIndex
    <3>2. transport.wanted \in BOOLEAN
      BY DEF TransportType
    <3>3. PICK item \in Indices : Request(item, transport.wanted)
      BY <2>5, <3>1 DEF CallNext, CallPrevious
    <3>. QED
      BY <3>2, <3>3, RequestTyped
  <2>. QED
    BY <2>1, <2>2, <2>3, <2>4, <2>5 DEF Call
<1>3. /\ transport' \in TransportType
      /\ transport'.stopEvents = transport.stopEvents
      /\ transport'.activeDirect = transport.activeDirect
  <2>1. /\ NotPlaying(transport) \in TransportType
        /\ NotPlaying(transport).stopEvents = transport.stopEvents
        /\ NotPlaying(transport).activeDirect = transport.activeDirect
    BY NotPlayingTyped DEF NotPlaying, TransportType
  <2>2. /\ ClearPendingActivation(NotPlaying(transport)) \in TransportType
        /\ ClearPendingActivation(NotPlaying(transport)).stopEvents = transport.stopEvents
        /\ ClearPendingActivation(NotPlaying(transport)).activeDirect = transport.activeDirect
    BY <2>1, ClearTyped DEF ClearPendingActivation, TransportType
  <2>3. /\ StopRequested(transport) \in TransportType
        /\ StopRequested(transport).stopEvents = transport.stopEvents
        /\ StopRequested(transport).activeDirect = transport.activeDirect
    BY <2>2, StopRequestedTyped DEF StopRequested, TransportType
  <2>4. transport' \in {transport, NotPlaying(transport), StopRequested(transport)}
    BY DEF Call, CallPlayIndex, CallSelect, CallDirect, CallPlay, CallPause, CallStop, CallNext,
           CallPrevious
  <2>. QED
    BY <2>1, <2>3, <2>4
<1>. QED
  BY <1>1, <1>2, <1>3 DEF MediaIsCurrent, StopsCounted

\* What update() stores for a manual stop has the right types.
LEMMA ManualStopTyped ==
    ASSUME NEW t \in TransportType
    PROVE  /\ ManualStopActed(t) \in TransportType
           /\ ManualStopActed(t).stopEvents \in {0, t.stopEvents}
           /\ ManualStopActed(t).activeDirect = t.activeDirect
<1> DEFINE u == [t EXCEPT !.stopInProgress = FALSE, !.stopEvents = 0]
           reset == IF main.reset THEN WithoutStopTimer(u) ELSE t
           retried == IF main.retry THEN [reset EXCEPT !.retryIssued = TRUE] ELSE reset
           v == [retried EXCEPT !.stopEvents = 0, !.stopFinalize = TRUE]
<1>0. 0 \in -1 .. 1
  OBVIOUS
<1>1. u \in TransportType /\ u.stopEvents = 0 /\ u.activeDirect = t.activeDirect
  BY <1>0, StopsTyped DEF TransportType
<1>2. /\ reset \in TransportType
      /\ reset.stopEvents \in {0, t.stopEvents}
      /\ reset.activeDirect = t.activeDirect
  <2> HIDE DEF u
  <2>1. /\ WithoutStopTimer(u) \in TransportType
        /\ WithoutStopTimer(u).stopEvents = 0
        /\ WithoutStopTimer(u).activeDirect = t.activeDirect
    BY <1>1, TimerTyped DEF WithoutStopTimer, TransportType
  <2>. QED
    BY <2>1
<1>3. /\ retried \in TransportType
      /\ retried.stopEvents \in {0, t.stopEvents}
      /\ retried.activeDirect = t.activeDirect
  <2> HIDE DEF reset
  <2>1. /\ [reset EXCEPT !.retryIssued = TRUE] \in TransportType
        /\ [reset EXCEPT !.retryIssued = TRUE].stopEvents = reset.stopEvents
        /\ [reset EXCEPT !.retryIssued = TRUE].activeDirect = reset.activeDirect
    BY <1>2 DEF TransportType
  <2>. QED
    BY <1>2, <2>1
<1>4. v \in TransportType /\ v.stopEvents = 0 /\ v.activeDirect = t.activeDirect
  <2> HIDE DEF retried
  <2>1. ASSUME NEW n \in -1 .. 1
        PROVE  [retried EXCEPT !.stopEvents = n, !.stopFinalize = TRUE] \in TransportType
    BY <1>3 DEF TransportType
  <2>. QED
    BY <1>0, <1>3, <2>1 DEF TransportType
<1>5. /\ WithoutStopTimer(v) \in TransportType
      /\ WithoutStopTimer(v).stopEvents = 0
      /\ WithoutStopTimer(v).activeDirect = t.activeDirect
  <2> HIDE DEF v
  <2>. QED
    BY <1>4, TimerTyped DEF WithoutStopTimer, TransportType
<1>6. ManualStopActed(t) = IF main.finalize THEN WithoutStopTimer(v) ELSE retried
  BY DEF ManualStopActed
<1>. QED
  <2> HIDE DEF v, retried
  <2>. QED
    BY <1>3, <1>5, <1>6

\* processDeferredPlaybackActions(), phase by phase.
LEMMA UpdatesPreserve ==
    ASSUME IInv, UpdateStep
    PROVE  IInv'
<1> USE DEF IInv, TypeOK
<1>0. UNCHANGED << mode, handler, last >>
  BY DEF UpdateStep, Update, UpdateManualStop, UpdatePollFlags, UpdatePollState, UpdateFinalize,
         UpdateClear, ClearsMedia, UpdateActivate, UpdateAdvance, UpdateEnd
<1>1. CASE Update
  <2>1. main' \in MainType /\ ItemKnown'
    <3>1. CASE transport.stopInProgress
      <4> DEFINE d == ManualStopDecision(transport, HasMedia, Inactive(player.state))
      <4>1. /\ d.reset \in BOOLEAN /\ d.retry \in BOOLEAN /\ d.finalize \in BOOLEAN
        BY DEF ManualStopDecision, HasMedia, Inactive
      <4>2. main' = [main EXCEPT !.at = "manualStop", !.reset = d.reset,
                                 !.retry = d.retry, !.finalize = d.finalize]
        BY <1>1, <3>1 DEF Update
      <4> HIDE DEF d
      <4>. QED
        BY <4>1, <4>2 DEF MainType, MainPlaces, ItemKnown
    <3>2. CASE ~transport.stopInProgress
      BY <1>1, <3>2, GoesTyped DEF Update
    <3>. QED
      BY <3>1, <3>2
  <2>. QED
    BY <1>0, <1>1, <2>1 DEF Update, MediaIsCurrent, StopsCounted
<1>2. CASE UpdateManualStop
  <2>1. main' \in MainType /\ ItemKnown' /\ UNCHANGED << currentIndex, budget >>
    BY <1>2 DEF UpdateManualStop, MainType, MainPlaces, ItemKnown
  <2>2. player' \in PlayerType /\ player'.media = player.media
    BY <1>2, StopAsyncTyped DEF UpdateManualStop
  <2>3. transport' = ManualStopActed(transport)
    BY <1>2 DEF UpdateManualStop
  <2>. QED
    BY <1>0, <2>1, <2>2, <2>3, ManualStopTyped DEF MediaIsCurrent, StopsCounted
<1>3. CASE UpdatePollFlags
  <2>1. main' \in MainType /\ ItemKnown'
    BY <1>3, GoesTyped DEF UpdatePollFlags
  <2>. QED
    BY <1>0, <1>3, <2>1 DEF UpdatePollFlags, MediaIsCurrent, StopsCounted
<1>4. CASE UpdatePollState
  <2>1. main' \in MainType /\ ItemKnown' /\ UNCHANGED << currentIndex, player, budget >>
    BY <1>4, GoesTyped DEF UpdatePollState
  <2>2. PICK b \in BOOLEAN : transport' = [transport EXCEPT !.playNext = b]
    BY <1>4 DEF UpdatePollState, Inactive
  <2>3. /\ transport' \in TransportType
        /\ transport'.stopEvents = transport.stopEvents
        /\ transport'.activeDirect = transport.activeDirect
    BY <2>2 DEF TransportType
  <2>. QED
    BY <1>0, <2>1, <2>3 DEF MediaIsCurrent, StopsCounted
<1>5. CASE UpdateFinalize
  <2>1. main' \in MainType /\ ItemKnown' /\ UNCHANGED << currentIndex, player, budget >>
    BY <1>5, GoesTyped DEF UpdateFinalize
  <2> DEFINE u == [transport EXCEPT !.stopFinalize = FALSE, !.stopInProgress = FALSE,
                                    !.stopEvents = 0]
  <2>2. u \in TransportType /\ u.stopEvents = 0 /\ u.activeDirect = transport.activeDirect
    <3>1. 0 \in -1 .. 1
      OBVIOUS
    <3>2. ASSUME NEW n \in -1 .. 1
          PROVE  [transport EXCEPT !.stopFinalize = FALSE, !.stopInProgress = FALSE,
                                   !.stopEvents = n] \in TransportType
      BY DEF TransportType
    <3>. QED
      BY <3>1, <3>2 DEF TransportType
  <2>3. transport' \in {transport, WithoutStopTimer(u)}
    BY <1>5 DEF UpdateFinalize
  <2>4. /\ WithoutStopTimer(u) \in TransportType
        /\ WithoutStopTimer(u).stopEvents = 0
        /\ WithoutStopTimer(u).activeDirect = transport.activeDirect
    <3> HIDE DEF u
    <3>. QED
      BY <2>2, TimerTyped DEF WithoutStopTimer, TransportType
  <2>. QED
    BY <1>0, <2>1, <2>3, <2>4 DEF MediaIsCurrent, StopsCounted
<1>8. CASE UpdateClear \/ UpdateEnd
  <2>1. main' \in MainType /\ ItemKnown'
    BY <1>8, DoneTyped, GoesTyped DEF UpdateClear, UpdateEnd
  <2>2. UNCHANGED << currentIndex, budget >>
    BY <1>8 DEF UpdateClear, UpdateEnd, ClearsMedia
  <2>3. player' \in PlayerType /\ player'.media = NoMedia
    BY <1>8, ClearedTyped DEF UpdateClear, UpdateEnd, ClearsMedia
  <2>4. /\ transport' \in TransportType
        /\ transport'.stopEvents = transport.stopEvents
    BY <1>8 DEF UpdateClear, UpdateEnd, ClearsMedia, TransportType
  <2>. QED
    BY <1>0, <2>1, <2>2, <2>3, <2>4, Media DEF MediaIsCurrent, StopsCounted
<1>6. CASE UpdateActivate
  <2>1. main' \in MainType /\ ItemKnown'
    BY <1>6, GoesTyped DEF UpdateActivate
  <2> DEFINE t == [transport EXCEPT !.ready = FALSE, !.index = NoIndex, !.shouldPlay = FALSE]
  <2>2. /\ t \in TransportType
        /\ t.stopEvents = transport.stopEvents
        /\ t.activeDirect = transport.activeDirect
    BY DEF TransportType
  <2>3. /\ ClearPendingActivation(t) \in TransportType
        /\ ClearPendingActivation(t).stopEvents = transport.stopEvents
    <3> HIDE DEF t
    <3>. QED
      BY <2>2, ClearTyped DEF ClearPendingActivation, TransportType
  <2>4. CASE transport' \in {transport, t} /\ UNCHANGED << currentIndex, player, budget >>
    <3> HIDE DEF t
    <3>. QED
      BY <1>0, <2>1, <2>2, <2>4 DEF MediaIsCurrent, StopsCounted
  <2>5. ASSUME NEW v \in TransportType, v.stopEvents = transport.stopEvents,
               NEW item \in Indices \cup {Direct},
               ActivateImmediate(v, item, transport.shouldPlay)
        PROVE  IInv'
    <3>1. transport.shouldPlay \in BOOLEAN
      BY DEF TransportType
    <3>2. /\ transport' \in TransportType
          /\ transport'.stopEvents = v.stopEvents
          /\ player' \in PlayerType
          /\ currentIndex' \in Indices \cup {NoIndex}
          /\ budget' \in BudgetType
          /\ MediaIsCurrent'
      BY <2>5, <3>1, Activates
    <3>. QED
      BY <1>0, <2>1, <2>5, <3>2 DEF StopsCounted
  <2>6. transport.index >= 0 => transport.index \in Indices
    BY DEF TransportType, NoIndex
  <2>7. \/ transport' \in {transport, t} /\ UNCHANGED << currentIndex, player, budget >>
        \/ transport.index >= 0 /\ ActivateImmediate(t, transport.index, transport.shouldPlay)
        \/ ActivateImmediate(ClearPendingActivation(t), Direct, transport.shouldPlay)
    BY <1>6 DEF UpdateActivate
  <2>. QED
    <3> HIDE DEF t
    <3>. QED
      BY <2>2, <2>3, <2>4, <2>5, <2>6, <2>7
<1>7. CASE UpdateAdvance
  <2>1. CASE ~transport.playNext
    BY <1>0, <1>7, <2>1, DoneTyped DEF UpdateAdvance, MediaIsCurrent, StopsCounted
  <2>2. CASE PlaylistEnds /\ UNCHANGED currentIndex
    <3>1. /\ NotPlaying(transport) \in TransportType
          /\ NotPlaying(transport).stopEvents = transport.stopEvents
          /\ NotPlaying(transport).activeDirect = transport.activeDirect
      BY NotPlayingTyped DEF NotPlaying, TransportType
    <3>2. /\ transport' \in TransportType
          /\ transport'.stopEvents = transport.stopEvents
          /\ transport'.activeDirect = transport.activeDirect
      BY <2>2, <3>1 DEF PlaylistEnds, TransportType
    <3>. QED
      BY <1>0, <2>2, <3>2, GoesTyped DEF PlaylistEnds, MediaIsCurrent, StopsCounted
  <2>3. CASE (Repeats \/ (MovesOn /\ Following \in Indices)) /\ UNCHANGED currentIndex
    <3>1. /\ transport' \in TransportType
          /\ transport'.stopEvents = transport.stopEvents
          /\ transport'.activeDirect = transport.activeDirect
      BY <2>3 DEF Repeats, MovesOn, TransportType
    <3>2. main' \in MainType /\ ItemKnown'
      BY <2>3, DoneTyped, RequestTyped DEF Repeats, MovesOn
    <3>3. player' \in PlayerType /\ player'.media = player.media
      BY <2>3, PlayTyped DEF Repeats, MovesOn
    <3>4. budget' \in BudgetType
      <4>1. CASE Repeats
        BY <4>1 DEF Repeats
      <4>2. CASE MovesOn
        <5>1. PICK n \in Nat : budget' = [budget EXCEPT !.advances = n]
          BY <4>2 DEF MovesOn, BudgetType
        <5>. QED
          BY <5>1 DEF BudgetType
      <4>. QED
        BY <2>3, <4>1, <4>2
    <3>. QED
      BY <1>0, <2>3, <3>1, <3>2, <3>3, <3>4 DEF MediaIsCurrent, StopsCounted
  <2>4. UNCHANGED currentIndex
    BY <1>7 DEF UpdateAdvance
  <2>5. \/ ~transport.playNext
        \/ PlaylistEnds
        \/ Repeats
        \/ MovesOn /\ Following \in Indices
    BY <1>7 DEF UpdateAdvance
  <2>. QED
    BY <2>1, <2>2, <2>3, <2>4, <2>5
<1>. QED
  BY <1>1, <1>2, <1>3, <1>4, <1>5, <1>6, <1>7, <1>8 DEF UpdateStep

\* No step breaks the strengthened invariant.
LEMMA Inductive == IInv /\ [Next]_vars => IInv'
<1>1. CASE UNCHANGED vars
  BY <1>1 DEF vars, IInv, TypeOK, MediaIsCurrent, StopsCounted, ItemKnown
<1>2. CASE Next
  BY <1>2, PlayerPreserves, SignalsPreserve, HandlersPreserve, RequestsPreserve,
     TransportCallsPreserve, CallsPreserve, UpdatesPreserve DEF Next, MainStep
<1>. QED
  BY <1>1, <1>2

\* It holds of a player just initialised.
LEMMA Initial == Init => IInv
<1> SUFFICES ASSUME Init PROVE IInv
  OBVIOUS
<1>1. transport \in TransportType
  BY DEF Init, TransportType, StopAges
<1>2. /\ player \in PlayerType
      /\ main \in MainType
      /\ handler \in HandlerType
  BY DEF Init, PlayerType, PlayerStates, MainType, MainPlaces, HandlerType, HandlerSteps,
         NoDecision, DecisionType
<1>3. /\ last \in LastType
      /\ budget \in BudgetType
  BY PlansAssumption DEF Init, LastType, BudgetType
<1>4. currentIndex \in Indices \cup {NoIndex}
  BY SizeAssumption DEF Init, Indices
<1>. QED
  BY <1>1, <1>2, <1>3, <1>4, Media
     DEF Init, IInv, TypeOK, MediaIsCurrent, StopsCounted, ItemKnown

\* So it holds in every reachable state: the count of awaited stops is below
\* zero only inside the Stopped handler, and a request keeps its media.
THEOREM Invariance == Spec => []IInv
BY Initial, Inductive, PTL DEF Spec

-----------------------------------------------------------------------------
\* The types of all variables: among them that pendingManualStopEvents, which
\* the Stopped handler decrements without looking, stays between -1 and 1.
THEOREM TypeInvariant == Spec => []TypeOK
BY Invariance, PTL DEF IInv

\* Whatever the interleaving of requests, events and updates, the media libVLC
\* holds is the playlist's current item, or the active direct media.
THEOREM LoadedMediaIsCurrent == Spec => []MediaIsCurrent
BY Invariance, PTL DEF IInv

-----------------------------------------------------------------------------
(* Calls that come one after the other: what orders the flags, the events   *)
(* and the steps of the main thread                                          *)

\* No call comes before what the earlier ones asked for has taken effect.
InSeries == ~budget.plan.overlapping /\ ~budget.plan.late

PlayPlaces == {"play", "playState", "playJoin", "playStart"}
PausePlaces == {"pauseState", "pauseMark", "pausePlayer"}
StopPlaces == {"stopCheck", "stopMark", "stopAsync"}
RequestPlaces == {"busy", "free", "switch", "now"}

\* onMediaPlayerStopped() has counted the awaited stops, and has decided.
Counted == handler.step \in {"decide", "mark", "publish"}
Decided == handler.step \in {"mark", "publish"}

\* The player runs, or its Stopped event has not been counted yet.
Live == Active(player) \/ handler.step = "stopped"

\* A request waits for a Stopped event.
Waiting == transport.index >= 0 \/ transport.direct

\* The Stopped event runs on a stopped player; an awaited one finds no advance asked
\* for, and what it activates waits.
HandlerOrder ==
    /\ handler.step = "stopped" \/ Counted => Inactive(player.state) /\ ~transport.ready
    /\ Counted /\ handler.stops > 0 =>
          /\ ~transport.playNext /\ transport.stopEvents <= 0
          /\ handler.step = "decide" /\ transport.wanted => Waiting
    /\ Decided =>
          /\ handler.decision.keep <=> handler.stops > 0
          /\ handler.decision.activate => handler.stops > 0 /\ Waiting
          /\ handler.decision.finalize => handler.stops > 0 /\ ~transport.wanted
          /\ handler.decision.advance => handler.stops <= 0

\* What winds down is awaited or unwanted.
PlayerOrder ==
    /\ ~player.starting
    /\ player.ending => Active(player) /\ (transport.stopEvents = 1 \/ ~transport.wanted)
    /\ ~HasMedia => Inactive(player.state) \/ player.ending

\* A request that is ready finds a stopped player, and no advance asked for; nothing
\* stops a player that plays before the advance asked for.
FlagsOrder ==
    /\ transport.stopEvents > 0 => ~transport.ready /\ (transport.wanted => Waiting)
    /\ transport.stopFinalize => ~transport.wanted
    /\ transport.ready => Inactive(player.state) /\ ~transport.playNext
    /\ transport.playNext /\ Live =>
          /\ ~player.ending /\ transport.stopEvents <= 0
          /\ transport.stopAge = "unset" /\ ~transport.stopFinalize

\* play() and pause() meet a player that nobody stops.
PlayOrder ==
    /\ main.at \in PlayPlaces \cup PausePlaces =>
          /\ transport.stopEvents <= 0 /\ ~transport.ready /\ ~player.ending
          /\ player.state # "Opening"
          /\ player.state = "Paused" => player.pausing # "resume"
          /\ player.state = "Playing" => player.pausing # "pause"
          /\ Counted => handler.stops <= 0
    /\ main.at \in {"playState", "playJoin", "playStart"} =>
          /\ transport.wanted /\ transport.stopAge = "unset" /\ ~transport.stopFinalize
          /\ main.item # NoMedia => ~HasMedia

\* So do requests, and none is queued behind another.
RequestOrder ==
    /\ main.at # "queue"
    /\ main.at \in RequestPlaces =>
          /\ ~player.ending
          /\ main.at # "busy" => transport.stopEvents <= 0
          /\ Counted => handler.stops <= 0
    /\ main.at = "busy" => ~Live
    /\ main.at = "now" => Inactive(player.state)
    /\ main.at = "switchStop" =>
          Waiting /\ (Live => transport.stopEvents = 1 /\ ~transport.playNext)

\* handlePlaybackEnded() has been asked for, or will be by the handler that runs.
AdvanceDue ==
    \/ transport.playNext
    \/ handler.step = "stopped" /\ transport.stopEvents <= 0
    \/ handler.step = "decide" /\ handler.stops <= 0
    \/ Decided /\ handler.decision.advance

\* What play() has seen still holds, or is about to be followed by an advance.
SeenOrder ==
    /\ main.at \in {"playJoin", "playStart"} =>
          /\ main.seen # "Opening"
          /\ main.seen = "Paused" => player.state = "Paused"
    /\ main.at = "playJoin" /\ main.seen = "Stopping" =>
          player.state = "Stopping" \/ AdvanceDue

\* update() retries and finalizes stops only.
UpdateOrder ==
    /\ main.at = "manualStop" /\ (main.reset \/ main.retry \/ main.finalize) => ~transport.wanted
    /\ main.at = "manualStop" /\ (main.retry \/ main.finalize) /\ Live => ~transport.playNext
    /\ main.at \in {"clear", "endClear"} => ~transport.wanted /\ (Live => ~transport.playNext)
    /\ main.at = "pollState" => transport.wanted /\ HasMedia /\ ~Waiting

\* After stop() nothing is wanted, waits or has been asked for.
StopOrder ==
    /\ main.at \in StopPlaces => last.call = "stop"
    /\ main.at \in {"stopCheck", "stopMark"} =>
          transport.stopEvents <= 0 /\ (Counted => handler.stops <= 0)
    /\ last.call = "stop" =>
          /\ ~transport.wanted /\ ~Waiting /\ ~transport.ready /\ ~transport.playNext
          /\ Decided => ~handler.decision.advance
          /\ main.at \notin PlayPlaces \cup PausePlaces \cup RequestPlaces

\* A wanted media that is not played is about to be followed, or a request waits: the
\* poll of update() never finds an end that no event has reported.
PollFindsNothing ==
    /\ transport.wanted /\ HasMedia /\ Inactive(player.state)
    /\ main.at \notin PlayPlaces \cup RequestPlaces
    => AdvanceDue \/ Waiting

\* A media has ended or failed, and the events of that may still ask for an advance.
EndReported ==
    \/ player.state = "Stopping" /\ ~player.ending
    \/ /\ transport.wanted \/ main.at \in PlayPlaces \cup PausePlaces
       /\ \/ handler.step = "stopped" /\ transport.stopEvents <= 0
          \/ handler.step = "decide" /\ handler.stops <= 0
    \/ Decided /\ handler.decision.advance

One(b) == IF b THEN 1 ELSE 0

\* Advances made, asked for and to be asked for are as many as ends and failures at most.
AdvancesOwed ==
    budget.advances + One(transport.playNext) + One(EndReported) <= budget.ends + budget.faults

SeriesOrder ==
    /\ HandlerOrder /\ PlayerOrder /\ FlagsOrder /\ PlayOrder /\ RequestOrder
    /\ SeenOrder /\ UpdateOrder /\ StopOrder /\ PollFindsNothing

SeriesInv == IInv /\ InSeries /\ SeriesOrder /\ AdvancesOwed

\* The fields these speak of, and their types.
LEMMA Fields ==
    ASSUME TypeOK
    PROVE  /\ transport.stopEvents \in -1 .. 1 /\ handler.stops \in -1 .. 1
           /\ transport.index \in Indices \cup {NoIndex} /\ transport.index \in Int
           /\ transport.playNext \in BOOLEAN /\ transport.wanted \in BOOLEAN
           /\ transport.ready \in BOOLEAN /\ transport.direct \in BOOLEAN
           /\ transport.stopFinalize \in BOOLEAN
           /\ budget.advances \in Nat /\ budget.ends \in Nat /\ budget.faults \in Nat
           /\ handler.decision \in DecisionType
BY SizeAssumption DEF TypeOK, TransportType, HandlerType, BudgetType, Indices, NoIndex

\* A step that asks for nothing and reports no end owes no more.
LEMMA OwedStays ==
    ASSUME TypeOK, AdvancesOwed, UNCHANGED budget,
           transport'.playNext => transport.playNext, EndReported' => EndReported
    PROVE  AdvancesOwed'
BY Fields DEF AdvancesOwed, One

-----------------------------------------------------------------------------
(* The player and its events keep the order                                  *)

\* The events that tell that the player plays, pauses or stops leave the flags alone.
LEMMA EventsInOrder ==
    ASSUME SeriesInv,
           OnMediaPlayerPlaying \/ OnMediaPlayerPaused \/ OnMediaPlayerStopping
    PROVE  SeriesOrder' /\ AdvancesOwed'
<1>. USE DEF SeriesInv, SeriesOrder
<1>1. /\ UNCHANGED << currentIndex, mode, player, main, last, budget >>
      /\ handler'.step = "none" /\ handler.step \in {"playing", "paused", "stopping"}
  BY DEF OnMediaPlayerPlaying, OnMediaPlayerPaused, OnMediaPlayerStopping, HandlerGoes,
         IInv, TypeOK, HandlerType
<1>2. /\ transport'.wanted = transport.wanted /\ transport'.playNext = transport.playNext
      /\ transport'.ready = transport.ready /\ transport'.index = transport.index
      /\ transport'.direct = transport.direct /\ transport'.stopEvents = transport.stopEvents
      /\ transport'.stopFinalize = transport.stopFinalize
      /\ transport'.stopAge \in {transport.stopAge, "unset"}
  BY DEF OnMediaPlayerPlaying, OnMediaPlayerPaused, OnMediaPlayerStopping, WithoutStopTimer,
         IInv, TypeOK, TransportType
<1>3. HandlerOrder'
  BY <1>1, <1>2 DEF HandlerOrder, Counted, Decided
<1>4. PlayerOrder'
  BY <1>1, <1>2 DEF PlayerOrder, Active, HasMedia
<1>5. FlagsOrder'
  BY <1>1, <1>2 DEF FlagsOrder, Live, Active, Waiting
<1>6. PlayOrder'
  BY <1>1, <1>2 DEF PlayOrder, Counted, HasMedia
<1>7. RequestOrder'
  BY <1>1, <1>2 DEF RequestOrder, Counted, Live, Active, Waiting
<1>8. SeenOrder'
  BY <1>1, <1>2 DEF SeenOrder, AdvanceDue, Decided
<1>9. UpdateOrder'
  BY <1>1, <1>2 DEF UpdateOrder, Live, Active, Waiting, HasMedia
<1>10. StopOrder'
  BY <1>1, <1>2 DEF StopOrder, Counted, Decided, Waiting
<1>11. PollFindsNothing'
  BY <1>1, <1>2 DEF PollFindsNothing, AdvanceDue, Decided, Waiting, HasMedia
<1>12. AdvancesOwed'
  BY <1>1, <1>2 DEF AdvancesOwed, EndReported, Decided, One
<1>. QED
  BY <1>3, <1>4, <1>5, <1>6, <1>7, <1>8, <1>9, <1>10, <1>11, <1>12

\* The Stopped event is counted.
LEMMA CountInOrder ==
    ASSUME SeriesInv, OnStoppedCount
    PROVE  SeriesOrder' /\ AdvancesOwed'
<1>. USE DEF SeriesInv, SeriesOrder
<1>1. /\ UNCHANGED << currentIndex, mode, player, main, last, budget >>
      /\ handler.step = "stopped" /\ handler'.step = "decide"
      /\ handler'.stops = transport.stopEvents
  BY DEF OnStoppedCount, IInv, TypeOK, HandlerType
<1>2. /\ transport'.wanted = transport.wanted /\ transport'.playNext = transport.playNext
      /\ transport'.ready = transport.ready /\ transport'.index = transport.index
      /\ transport'.direct = transport.direct
      /\ transport'.stopEvents = transport.stopEvents - 1
      /\ transport'.stopFinalize = transport.stopFinalize
      /\ transport'.stopAge = "unset"
  BY DEF OnStoppedCount, WithoutStopTimer, IInv, TypeOK, TransportType
<1>3. transport.stopEvents \in -1 .. 1 /\ Inactive(player.state)
  BY <1>1, Fields DEF IInv, HandlerOrder
<1>4. HandlerOrder'
  BY <1>1, <1>2, <1>3 DEF HandlerOrder, FlagsOrder, Live, Counted, Decided, Waiting
<1>5. PlayerOrder'
  BY <1>1, <1>2, <1>3 DEF PlayerOrder, Active, HasMedia
<1>6. FlagsOrder'
  BY <1>1, <1>2, <1>3 DEF FlagsOrder, Live, Active, Waiting
<1>7. PlayOrder'
  BY <1>1, <1>2, <1>3 DEF PlayOrder, Counted, HasMedia
<1>8. RequestOrder'
  BY <1>1, <1>2, <1>3 DEF RequestOrder, Counted, Live, Active, Waiting
<1>9. SeenOrder'
  BY <1>1, <1>2, <1>3 DEF SeenOrder, AdvanceDue, Decided
<1>10. UpdateOrder'
  BY <1>1, <1>2, <1>3 DEF UpdateOrder, Live, Active, Waiting, HasMedia
<1>11. StopOrder'
  BY <1>1, <1>2, <1>3 DEF StopOrder, Counted, Decided, Waiting
<1>12. PollFindsNothing'
  BY <1>1, <1>2, <1>3 DEF PollFindsNothing, AdvanceDue, Decided, Waiting, HasMedia
<1>13. AdvancesOwed'
  BY <1>1, <1>2, <1>3 DEF AdvancesOwed, EndReported, Decided, One
<1>. QED
  BY <1>4, <1>5, <1>6, <1>7, <1>8, <1>9, <1>10, <1>11, <1>12, <1>13

\* evaluateStoppedPlaybackEvent() answers what the count and the wish to play say.
LEMMA DecisionSays ==
    ASSUME NEW stops, NEW pending \in BOOLEAN, NEW stopped \in BOOLEAN, NEW wanted \in BOOLEAN
    PROVE  LET d == StoppedDecision(stops, pending, stopped, wanted) IN
           /\ d.keep <=> stops > 0
           /\ d.activate <=> stops > 0 /\ pending
           /\ d.finalize <=> stops > 0 /\ ~pending
           /\ d.advance <=> stops <= 0 /\ stopped /\ wanted
BY DEF StoppedDecision

\* It is decided upon.
LEMMA DecideInOrder ==
    ASSUME SeriesInv, OnStoppedDecide
    PROVE  SeriesOrder' /\ AdvancesOwed'
<1>. USE DEF SeriesInv, SeriesOrder
<1>1. /\ UNCHANGED << transport, currentIndex, mode, player, main, last, budget >>
      /\ handler.step = "decide" /\ handler'.step = "mark" /\ handler'.stops = handler.stops
  BY DEF OnStoppedDecide, IInv, TypeOK, HandlerType
<1>2. Inactive(player.state) /\ ~transport.ready
  BY <1>1 DEF HandlerOrder, Counted
<1>3. handler'.decision = StoppedDecision(handler.stops, Waiting, Inactive(player.state),
                                          transport.wanted)
  BY DEF OnStoppedDecide, IInv, TypeOK, HandlerType, Waiting
<1>4. /\ handler'.decision.keep <=> handler.stops > 0
      /\ handler'.decision.activate <=> handler.stops > 0 /\ Waiting
      /\ handler'.decision.finalize <=> handler.stops > 0 /\ ~Waiting
      /\ handler'.decision.advance <=> handler.stops <= 0 /\ transport.wanted
  <2>1. /\ Waiting \in BOOLEAN /\ Inactive(player.state) \in BOOLEAN
        /\ transport.wanted \in BOOLEAN
    BY Fields DEF IInv, Waiting, Inactive
  <2>. DEFINE d == StoppedDecision(handler.stops, Waiting, Inactive(player.state),
                                   transport.wanted)
  <2>2. /\ d.keep <=> handler.stops > 0
        /\ d.activate <=> handler.stops > 0 /\ Waiting
        /\ d.finalize <=> handler.stops > 0 /\ ~Waiting
        /\ d.advance <=> handler.stops <= 0 /\ Inactive(player.state) /\ transport.wanted
    BY <2>1, DecisionSays, Zenon
  <2>. HIDE DEF d
  <2>. QED
    BY <1>2, <1>3, <2>2 DEF d
<1>5. HandlerOrder'
  BY <1>1, <1>2, <1>4 DEF HandlerOrder, Counted, Decided, Waiting
<1>6. PlayerOrder'
  BY <1>1 DEF PlayerOrder, Active, HasMedia
<1>7. FlagsOrder'
  BY <1>1 DEF FlagsOrder, Live, Active, Waiting
<1>8. PlayOrder'
  BY <1>1 DEF PlayOrder, Counted, HasMedia
<1>9. RequestOrder'
  BY <1>1 DEF RequestOrder, Counted, Live, Active, Waiting
<1>10. SeenOrder'
  BY <1>1, <1>4 DEF SeenOrder, PlayOrder, AdvanceDue, Decided
<1>11. UpdateOrder'
  BY <1>1 DEF UpdateOrder, Live, Active, Waiting, HasMedia
<1>12. StopOrder'
  BY <1>1, <1>4 DEF StopOrder, Counted, Decided, Waiting
<1>13. PollFindsNothing'
  BY <1>1, <1>4 DEF PollFindsNothing, AdvanceDue, Decided, Waiting, HasMedia
<1>14. AdvancesOwed'
  BY <1>1, <1>4, Fields DEF AdvancesOwed, EndReported, Decided, One, IInv
<1>. QED
  BY <1>5, <1>6, <1>7, <1>8, <1>9, <1>10, <1>11, <1>12, <1>13, <1>14

\* A stop that was not awaited ends the stop in progress, and resets the count.
LEMMA MarkInOrder ==
    ASSUME SeriesInv, OnStoppedMark
    PROVE  SeriesOrder' /\ AdvancesOwed'
<1>. USE DEF SeriesInv, SeriesOrder
<1>1. /\ UNCHANGED << currentIndex, mode, player, main, last, budget >>
      /\ handler.step = "mark" /\ handler'.step = "publish"
      /\ handler'.stops = handler.stops /\ handler'.decision = handler.decision
  BY DEF OnStoppedMark, HandlerGoes, IInv, TypeOK, HandlerType
<1>2. /\ transport'.wanted = transport.wanted /\ transport'.playNext = transport.playNext
      /\ transport'.ready = transport.ready /\ transport'.index = transport.index
      /\ transport'.direct = transport.direct
      /\ transport'.stopEvents \in {transport.stopEvents, 0}
      /\ transport'.stopFinalize = transport.stopFinalize
      /\ transport'.stopAge = transport.stopAge
  BY DEF OnStoppedMark, IInv, TypeOK, TransportType
<1>3. transport.stopEvents \in -1 .. 1 /\ Inactive(player.state) /\ ~transport.ready
  BY <1>1, Fields DEF IInv, HandlerOrder, Counted
<1>4. HandlerOrder'
  BY <1>1, <1>2, <1>3 DEF HandlerOrder, Counted, Decided, Waiting
<1>5. PlayerOrder'
  BY <1>1, <1>2, <1>3 DEF PlayerOrder, Active, HasMedia
<1>6. FlagsOrder'
  BY <1>1, <1>2, <1>3 DEF FlagsOrder, Live, Active, Waiting
<1>7. PlayOrder'
  BY <1>1, <1>2, <1>3 DEF PlayOrder, Counted, HasMedia
<1>8. RequestOrder'
  BY <1>1, <1>2, <1>3 DEF RequestOrder, Counted, Live, Active, Waiting
<1>9. SeenOrder'
  BY <1>1, <1>2, <1>3 DEF SeenOrder, AdvanceDue, Decided
<1>10. UpdateOrder'
  BY <1>1, <1>2, <1>3 DEF UpdateOrder, Live, Active, Waiting, HasMedia
<1>11. StopOrder'
  BY <1>1, <1>2, <1>3 DEF StopOrder, Counted, Decided, Waiting
<1>12. PollFindsNothing'
  BY <1>1, <1>2, <1>3 DEF PollFindsNothing, AdvanceDue, Decided, Waiting, HasMedia
<1>13. AdvancesOwed'
  BY <1>1, <1>2, <1>3 DEF AdvancesOwed, EndReported, Decided, One
<1>. QED
  BY <1>4, <1>5, <1>6, <1>7, <1>8, <1>9, <1>10, <1>11, <1>12, <1>13

\* And what has been decided is published: the media that ended has its advance.
LEMMA PublishInOrder ==
    ASSUME SeriesInv, OnStoppedPublish
    PROVE  SeriesOrder' /\ AdvancesOwed'
<1>. USE DEF SeriesInv, SeriesOrder
<1>1. /\ UNCHANGED << currentIndex, mode, player, main, last, budget >>
      /\ handler.step = "publish" /\ handler'.step = "none"
  BY DEF OnStoppedPublish
<1>2. DEFINE r == transport.ready \/ handler.decision.activate
             f == transport.stopFinalize \/ handler.decision.finalize
             n == transport.playNext \/ handler.decision.advance
<1>3. transport' = [transport EXCEPT !.ready = r, !.stopFinalize = f, !.playNext = n]
  BY DEF OnStoppedPublish
<1>4. /\ transport'.wanted = transport.wanted /\ transport'.index = transport.index
      /\ transport'.direct = transport.direct
      /\ transport'.stopEvents = transport.stopEvents
      /\ transport'.stopAge = transport.stopAge
      /\ transport'.ready <=> r
      /\ transport'.stopFinalize <=> f
      /\ transport'.playNext <=> n
  <2>1. ASSUME NEW a, NEW b, NEW c, transport' = [transport EXCEPT !.ready = a,
                                           !.stopFinalize = b, !.playNext = c]
        PROVE  /\ transport'.wanted = transport.wanted /\ transport'.index = transport.index
               /\ transport'.direct = transport.direct
               /\ transport'.stopEvents = transport.stopEvents
               /\ transport'.stopAge = transport.stopAge
               /\ transport'.ready = a /\ transport'.stopFinalize = b /\ transport'.playNext = c
    BY <2>1 DEF IInv, TypeOK, TransportType
  <2>2. /\ transport'.ready = r /\ transport'.stopFinalize = f /\ transport'.playNext = n
    BY <1>3, <2>1, Zenon
  <2>3. /\ transport'.ready <=> r
        /\ transport'.stopFinalize <=> f
        /\ transport'.playNext <=> n
    BY <2>2, Zenon
  <2>. QED
    <3>. HIDE DEF r, f, n
    <3>. QED
      BY <1>3, <2>1, <2>3
<1>5. /\ transport.stopEvents \in -1 .. 1 /\ handler.stops \in -1 .. 1
      /\ Inactive(player.state) /\ ~transport.ready
  BY <1>1, Fields DEF IInv, HandlerOrder, Counted
<1>6. HandlerOrder'
  BY <1>1 DEF HandlerOrder, Counted, Decided
<1>7. PlayerOrder'
  BY <1>1, <1>4 DEF PlayerOrder, Active, HasMedia
<1>8. ~Live'
  BY <1>1, <1>5 DEF Live, Active
<1>9. FlagsOrder'
  BY <1>1, <1>4, <1>5, <1>8 DEF FlagsOrder, HandlerOrder, Counted, Decided, Waiting
<1>10. PlayOrder'
  BY <1>1, <1>4, <1>5 DEF PlayOrder, HandlerOrder, Counted, Decided, HasMedia
<1>11. RequestOrder'
  BY <1>1, <1>4, <1>5, <1>8 DEF RequestOrder, Counted, Waiting, Live
<1>12. SeenOrder'
  BY <1>1, <1>4, <1>5 DEF SeenOrder, AdvanceDue, Decided
<1>13. UpdateOrder'
  BY <1>1, <1>4, <1>8 DEF UpdateOrder, Waiting, HasMedia
<1>14. StopOrder'
  BY <1>1, <1>4, <1>5 DEF StopOrder, HandlerOrder, Counted, Decided, Waiting
<1>15. PollFindsNothing'
  BY <1>1, <1>4, <1>5 DEF PollFindsNothing, AdvanceDue, Decided, Waiting, HasMedia
<1>16. AdvancesOwed'
  <2>1. /\ EndReported' <=> player.state = "Stopping" /\ ~player.ending
        /\ handler.decision.advance => EndReported
        /\ ~EndReported'
    BY <1>1, <1>5 DEF EndReported, Decided, Inactive
  <2>. QED
    BY <1>1, <1>4, <2>1, Fields DEF AdvancesOwed, One, IInv
<1>. QED
  BY <1>6, <1>7, <1>9, <1>10, <1>11, <1>12, <1>13, <1>14, <1>15, <1>16

\* The audio thread and the clock leave the flags and the player alone.
LEMMA SignalsInOrder ==
    ASSUME SeriesInv, AudioSignal \/ TimePasses
    PROVE  SeriesOrder' /\ AdvancesOwed'
<1>. USE DEF SeriesInv, SeriesOrder
<1>1. UNCHANGED << currentIndex, mode, player, main, handler, last, budget >>
  BY DEF AudioSignal, TimePasses
<1>2. /\ transport'.wanted = transport.wanted /\ transport'.playNext = transport.playNext
      /\ transport'.ready = transport.ready /\ transport'.index = transport.index
      /\ transport'.direct = transport.direct /\ transport'.stopEvents = transport.stopEvents
      /\ transport'.stopFinalize = transport.stopFinalize
      /\ transport'.stopAge = "unset" <=> transport.stopAge = "unset"
  BY DEF AudioSignal, TimePasses, StopAges_After, IInv, TypeOK, TransportType
<1>3. HandlerOrder'
  BY <1>1, <1>2 DEF HandlerOrder, Counted, Decided, Waiting
<1>4. PlayerOrder'
  BY <1>1, <1>2 DEF PlayerOrder, Active, HasMedia
<1>5. FlagsOrder'
  BY <1>1, <1>2 DEF FlagsOrder, Live, Active, Waiting
<1>6. PlayOrder'
  BY <1>1, <1>2 DEF PlayOrder, Counted, HasMedia
<1>7. RequestOrder'
  BY <1>1, <1>2 DEF RequestOrder, Counted, Live, Active, Waiting
<1>8. SeenOrder'
  BY <1>1, <1>2 DEF SeenOrder, AdvanceDue, Decided
<1>9. UpdateOrder'
  BY <1>1, <1>2 DEF UpdateOrder, Live, Active, Waiting, HasMedia
<1>10. StopOrder'
  BY <1>1, <1>2 DEF StopOrder, Counted, Decided, Waiting
<1>11. PollFindsNothing'
  BY <1>1, <1>2 DEF PollFindsNothing, AdvanceDue, Decided, Waiting, HasMedia
<1>12. AdvancesOwed'
  BY <1>1, <1>2 DEF AdvancesOwed, EndReported, Decided, One
<1>. QED
  BY <1>3, <1>4, <1>5, <1>6, <1>7, <1>8, <1>9, <1>10, <1>11, <1>12

\* A player that runs goes on running, however it turns.
LEMMA TurnsInOrder ==
    ASSUME SeriesInv, PlayerPlaying \/ PlayerPauses \/ PlayerResumes
    PROVE  SeriesOrder' /\ AdvancesOwed'
<1>. USE DEF SeriesInv, SeriesOrder
<1>1. UNCHANGED << transport, currentIndex, mode, main, last, budget >>
  BY DEF PlayerPlaying, PlayerPauses, PlayerResumes, PlayerTurns
<1>2. /\ player'.media = player.media /\ player'.starting = player.starting
      /\ player'.ending = player.ending /\ player'.pausing = player.pausing
      /\ handler.step = "none" /\ handler'.step \in {"playing", "paused"} /\ ~player.ending
      /\ \/ player.state = "Opening" /\ player'.state = "Playing"
         \/ player.state = "Playing" /\ player'.state = "Paused" /\ player.pausing = "pause"
         \/ player.state = "Paused" /\ player'.state = "Playing" /\ player.pausing = "resume"
  BY DEF PlayerPlaying, PlayerPauses, PlayerResumes, PlayerTurns, Unlocked, IInv, TypeOK,
         PlayerType, HandlerType
<1>3. HandlerOrder'
  BY <1>1, <1>2 DEF HandlerOrder, Counted, Decided, Waiting, Inactive
<1>4. PlayerOrder'
  BY <1>1, <1>2 DEF PlayerOrder, Active, HasMedia, Inactive
<1>5. FlagsOrder'
  BY <1>1, <1>2 DEF FlagsOrder, Live, Active, Waiting, Inactive
<1>6. PlayOrder'
  BY <1>1, <1>2 DEF PlayOrder, Counted, HasMedia
<1>7. RequestOrder'
  BY <1>1, <1>2 DEF RequestOrder, Counted, Live, Active, Waiting, Inactive
<1>8. SeenOrder'
  BY <1>1, <1>2 DEF SeenOrder, AdvanceDue, Decided, PlayOrder, PlayPlaces
<1>9. UpdateOrder'
  BY <1>1, <1>2 DEF UpdateOrder, Live, Active, Waiting, HasMedia, Inactive
<1>10. StopOrder'
  BY <1>1, <1>2 DEF StopOrder, Counted, Decided, Waiting
<1>11. PollFindsNothing'
  BY <1>1, <1>2 DEF PollFindsNothing, AdvanceDue, Decided, Waiting, HasMedia, Inactive
<1>12. AdvancesOwed'
  BY <1>1, <1>2 DEF AdvancesOwed, EndReported, Decided, One
<1>. QED
  BY <1>3, <1>4, <1>5, <1>6, <1>7, <1>8, <1>9, <1>10, <1>11, <1>12

\* A media that ends, or cannot be opened, owes one advance at most.
LEMMA EndsInOrder ==
    ASSUME SeriesInv, PlayerFails \/ PlayerEnds
    PROVE  SeriesOrder' /\ AdvancesOwed'
<1>. USE DEF SeriesInv, SeriesOrder
<1>1. /\ UNCHANGED << transport, currentIndex, mode, main, last >>
      /\ budget'.advances = budget.advances
      /\ budget'.ends + budget'.faults = budget.ends + budget.faults + 1
  <2>1. UNCHANGED << transport, currentIndex, mode, main, last >>
    BY DEF PlayerFails, PlayerEnds, PlayerTurns
  <2>2. CASE PlayerFails
    BY <2>1, <2>2, Fields DEF PlayerFails, IInv, TypeOK, BudgetType
  <2>3. CASE PlayerEnds
    BY <2>1, <2>3, Fields DEF PlayerEnds, IInv, TypeOK, BudgetType
  <2>. QED
    BY <2>1, <2>2, <2>3
<1>2. /\ player'.media = player.media /\ player'.starting = player.starting
      /\ player'.ending = player.ending /\ ~player.ending
      /\ player'.pausing = player.pausing
      /\ handler.step = "none" /\ handler'.step = "stopping"
      /\ player.state \in {"Opening", "Playing"} /\ player'.state = "Stopping"
  BY DEF PlayerFails, PlayerEnds, PlayerTurns, Unlocked, IInv, TypeOK, PlayerType, HandlerType
<1>3. HandlerOrder'
  BY <1>1, <1>2 DEF HandlerOrder, Counted, Decided, Waiting, Inactive
<1>4. PlayerOrder'
  BY <1>1, <1>2 DEF PlayerOrder, Active, HasMedia, Inactive
<1>5. FlagsOrder'
  BY <1>1, <1>2 DEF FlagsOrder, Live, Active, Waiting, Inactive
<1>6. PlayOrder'
  BY <1>1, <1>2 DEF PlayOrder, Counted, HasMedia
<1>7. RequestOrder'
  BY <1>1, <1>2 DEF RequestOrder, Counted, Live, Active, Waiting, Inactive
<1>8. SeenOrder'
  BY <1>1, <1>2 DEF SeenOrder, AdvanceDue, Decided, PlayOrder, PlayPlaces
<1>9. UpdateOrder'
  BY <1>1, <1>2 DEF UpdateOrder, Live, Active, Waiting, HasMedia, Inactive
<1>10. StopOrder'
  BY <1>1, <1>2 DEF StopOrder, Counted, Decided, Waiting
<1>11. PollFindsNothing'
  BY <1>1, <1>2 DEF PollFindsNothing, AdvanceDue, Decided, Waiting, HasMedia, Inactive
<1>12. AdvancesOwed'
  BY <1>1, <1>2, Fields DEF AdvancesOwed, EndReported, Decided, One, IInv
<1>. QED
  BY <1>3, <1>4, <1>5, <1>6, <1>7, <1>8, <1>9, <1>10, <1>11, <1>12

\* A player that is stopped owes none.
LEMMA StoppingInOrder ==
    ASSUME SeriesInv, PlayerStopping
    PROVE  SeriesOrder' /\ AdvancesOwed'
<1>. USE DEF SeriesInv, SeriesOrder
<1>1. UNCHANGED << transport, currentIndex, mode, main, last, budget >>
  BY DEF PlayerStopping, PlayerTurns
<1>2. /\ player'.media = player.media /\ player'.starting = player.starting
      /\ player'.ending = player.ending /\ player.ending
      /\ player'.pausing = player.pausing
      /\ handler.step = "none" /\ handler'.step = "stopping"
      /\ player.state \in {"Opening", "Playing", "Paused"} /\ player'.state = "Stopping"
  BY DEF PlayerStopping, PlayerTurns, Unlocked, IInv, TypeOK, PlayerType, HandlerType
<1>3. HandlerOrder'
  BY <1>1, <1>2 DEF HandlerOrder, Counted, Decided, Waiting, Inactive
<1>4. PlayerOrder'
  BY <1>1, <1>2 DEF PlayerOrder, Active, HasMedia, Inactive
<1>5. FlagsOrder'
  BY <1>1, <1>2 DEF FlagsOrder, Live, Active, Waiting, Inactive
<1>6. PlayOrder'
  BY <1>1, <1>2 DEF PlayOrder, Counted, HasMedia
<1>7. RequestOrder'
  BY <1>1, <1>2 DEF RequestOrder, Counted, Live, Active, Waiting, Inactive
<1>8. SeenOrder'
  BY <1>1, <1>2 DEF SeenOrder, AdvanceDue, Decided, PlayOrder, PlayPlaces
<1>9. UpdateOrder'
  BY <1>1, <1>2 DEF UpdateOrder, Live, Active, Waiting, HasMedia, Inactive
<1>10. StopOrder'
  BY <1>1, <1>2 DEF StopOrder, Counted, Decided, Waiting
<1>11. PollFindsNothing'
  BY <1>1, <1>2 DEF PollFindsNothing, AdvanceDue, Decided, Waiting, HasMedia, Inactive
<1>12. AdvancesOwed'
  BY <1>1, <1>2, Fields DEF AdvancesOwed, EndReported, Decided, One, IInv
<1>. QED
  BY <1>3, <1>4, <1>5, <1>6, <1>7, <1>8, <1>9, <1>10, <1>11, <1>12

\* And its Stopped event is that of a stop awaited or of nothing wanted.
LEMMA StoppedInOrder ==
    ASSUME SeriesInv, PlayerStopped
    PROVE  SeriesOrder' /\ AdvancesOwed'
<1>. USE DEF SeriesInv, SeriesOrder
<1>1. UNCHANGED << transport, currentIndex, mode, main, last, budget >>
  BY DEF PlayerStopped
<1>2. /\ player'.media = player.media /\ player'.starting = player.starting
      /\ ~player'.ending
      /\ handler.step = "none" /\ handler'.step = "stopped"
      /\ player.state = "Stopping" /\ player'.state = "Stopped"
  BY DEF PlayerStopped, Unlocked, IInv, TypeOK, PlayerType, HandlerType
<1>3. transport.stopEvents \in -1 .. 1
  BY Fields DEF IInv
<1>4. HandlerOrder'
  BY <1>1, <1>2, <1>3 DEF HandlerOrder, Counted, Decided, Waiting, Inactive, FlagsOrder, Active
<1>5. PlayerOrder'
  BY <1>1, <1>2, <1>3 DEF PlayerOrder, Active, HasMedia, Inactive
<1>6. FlagsOrder'
  BY <1>1, <1>2, <1>3 DEF FlagsOrder, Live, Active, Waiting, Inactive
<1>7. PlayOrder'
  BY <1>1, <1>2, <1>3 DEF PlayOrder, Counted, HasMedia
<1>8. RequestOrder'
  BY <1>1, <1>2, <1>3 DEF RequestOrder, Counted, Live, Active, Waiting, Inactive
<1>9. SeenOrder'
  BY <1>1, <1>2, <1>3 DEF SeenOrder, AdvanceDue, Decided, PlayOrder, PlayPlaces
<1>10. UpdateOrder'
  BY <1>1, <1>2, <1>3 DEF UpdateOrder, Live, Active, Waiting, HasMedia, Inactive
<1>11. StopOrder'
  BY <1>1, <1>2, <1>3 DEF StopOrder, Counted, Decided, Waiting
<1>12. PollFindsNothing'
  BY <1>1, <1>2, <1>3 DEF PollFindsNothing, AdvanceDue, Decided, Waiting, HasMedia, Inactive,
     FlagsOrder
<1>13. AdvancesOwed'
  BY <1>1, <1>2, <1>3, Fields DEF AdvancesOwed, EndReported, Decided, One, IInv, PlayerOrder,
     PlayOrder
<1>. QED
  BY <1>4, <1>5, <1>6, <1>7, <1>8, <1>9, <1>10, <1>11, <1>12, <1>13

-----------------------------------------------------------------------------
(* Requests keep the order                                                   *)

\* What a budget allows may only grow.
LEMMA LoadSpends ==
    ASSUME TypeOK, NEW t, NEW item, NEW started, LoadAnd(t, item, started)
    PROVE  /\ budget'.advances = budget.advances /\ budget'.ends = budget.ends
           /\ budget'.faults \in Nat /\ budget'.faults >= budget.faults
           /\ budget'.plan = budget.plan
BY Fields DEF LoadAnd, TypeOK, BudgetType

\* A media activated on a stopped player plays, if it should and could be loaded.
LEMMA ActivatesInOrder ==
    ASSUME TypeOK, InSeries, NEW t \in TransportType, NEW item \in Indices \cup {Direct},
           NEW b \in BOOLEAN, Inactive(player.state), PlayerOrder,
           ActivateImmediate(t, item, b)
    PROVE  /\ ~transport'.playNext /\ ~transport'.stopFinalize
           /\ transport'.wanted = b /\ transport'.ready = t.ready
           /\ transport'.index = t.index /\ transport'.direct = t.direct
           /\ transport'.stopEvents = t.stopEvents /\ transport'.stopAge = t.stopAge
           /\ player'.state \in {"Stopped", "Opening"}
           /\ ~player'.starting /\ ~player'.ending
           /\ player'.media = NoMedia => player'.state = "Stopped"
           /\ b /\ player'.media # NoMedia => player'.state = "Opening"
           /\ ~b => player'.state = "Stopped"
           /\ budget'.advances = budget.advances /\ budget'.ends = budget.ends
           /\ budget'.faults \in Nat /\ budget'.faults >= budget.faults
           /\ budget'.plan = budget.plan
<1>. DEFINE u == Activated(t, item, b)
<1>1. LoadAnd(u, item, Loaded(item, b))
  BY DEF ActivateImmediate
<1>2. /\ u \in TransportType
      /\ u.playNext = FALSE /\ u.stopFinalize = FALSE /\ u.wanted = b /\ u.ready = t.ready
      /\ u.index = t.index /\ u.direct = t.direct
      /\ u.stopEvents = t.stopEvents /\ u.stopAge = t.stopAge
  <2>1. CASE item = Direct
    BY <2>1 DEF Activated, ActivatedDirectMedia, TransportType
  <2>2. CASE item # Direct
    BY <2>2 DEF Activated, ActivatedPlaylistItem, TransportType
  <2>. QED
    BY <2>1, <2>2
<1>3. /\ transport'.playNext = FALSE /\ transport'.stopFinalize = FALSE
      /\ transport'.wanted = b /\ transport'.ready = t.ready
      /\ transport'.index = t.index /\ transport'.direct = t.direct
      /\ transport'.stopEvents = t.stopEvents /\ transport'.stopAge = t.stopAge
  <2>. HIDE DEF u
  <2>. DEFINE direct == u.activeDirect \/ item = Direct
  <2>1. ASSUME NEW a, transport' = [u EXCEPT !.audioPaused = FALSE, !.activeDirect = a]
        PROVE  /\ transport'.playNext = u.playNext /\ transport'.stopFinalize = u.stopFinalize
               /\ transport'.wanted = u.wanted /\ transport'.ready = u.ready
               /\ transport'.index = u.index /\ transport'.direct = u.direct
               /\ transport'.stopEvents = u.stopEvents /\ transport'.stopAge = u.stopAge
    BY <1>2, <2>1 DEF TransportType
  <2>2. ASSUME transport' = [u EXCEPT !.audioPaused = FALSE]
        PROVE  /\ transport'.playNext = u.playNext /\ transport'.stopFinalize = u.stopFinalize
               /\ transport'.wanted = u.wanted /\ transport'.ready = u.ready
               /\ transport'.index = u.index /\ transport'.direct = u.direct
               /\ transport'.stopEvents = u.stopEvents /\ transport'.stopAge = u.stopAge
    BY <1>2, <2>2 DEF TransportType
  <2>3. \/ transport' = [u EXCEPT !.audioPaused = FALSE, !.activeDirect = direct]
        \/ transport' = [u EXCEPT !.audioPaused = FALSE]
    BY <1>1 DEF LoadAnd
  <2>4. /\ transport'.playNext = u.playNext /\ transport'.stopFinalize = u.stopFinalize
        /\ transport'.wanted = u.wanted /\ transport'.ready = u.ready
        /\ transport'.index = u.index /\ transport'.direct = u.direct
        /\ transport'.stopEvents = u.stopEvents /\ transport'.stopAge = u.stopAge
    BY <2>1, <2>2, <2>3, Zenon
  <2>. QED
    BY <1>2, <2>4
<1>4. /\ player \in PlayerType /\ player.state = "Stopped"
      /\ ~player.starting /\ ~player.ending
  BY DEF TypeOK, PlayerOrder, Active, Inactive
<1>5. item # NoMedia
  BY Media
<1>6. ASSUME NEW m
      PROVE  /\ LibSetMedia(player, m).state = "Stopped"
             /\ ~LibSetMedia(player, m).starting /\ ~LibSetMedia(player, m).ending
             /\ LibSetMedia(player, m).media = m
  BY <1>4 DEF LibSetMedia, PlayerType, Active, Inactive
<1>7. /\ Loaded(item, b).media = item
      /\ ~Loaded(item, b).starting /\ ~Loaded(item, b).ending
      /\ Loaded(item, b).state = IF b THEN "Opening" ELSE "Stopped"
  <2>. DEFINE p == LibSetMedia(player, item)
  <2>1. /\ p \in PlayerType /\ p.state = "Stopped" /\ ~p.starting /\ ~p.ending
        /\ p.media = item
    BY <1>4, <1>6, SetMediaTyped
  <2>. HIDE DEF p
  <2>2. /\ LibPlay(p).media = item /\ LibPlay(p).state = "Opening"
        /\ ~LibPlay(p).starting /\ ~LibPlay(p).ending
    BY <1>5, <2>1 DEF LibPlay, PlayerType, Active, Inactive, InSeries
  <2>. QED
    BY <2>1, <2>2 DEF Loaded, p
<1>8. \/ player' = Loaded(item, b)
      \/ player' = LibSetMedia(player, NoMedia)
      \/ player' = player /\ player.media = NoMedia
  BY <1>1 DEF LoadAnd, HasMedia
<1>. QED
  BY <1>1, <1>3, <1>4, <1>5, <1>6, <1>7, <1>8, LoadSpends

\* What an activation leaves is in order, if no stop is awaited.
LEMMA ActivatedInOrder ==
    ASSUME SeriesInv, UNCHANGED handler, handler.step = "none",
           transport'.stopEvents \in {-1, 0}, ~transport'.playNext, ~transport'.stopFinalize,
           ~transport'.ready, last' = last, last.call # "stop",
           player'.state \in {"Stopped", "Opening"},
           ~player'.starting, ~player'.ending,
           player'.media = NoMedia => player'.state = "Stopped",
           transport'.wanted /\ player'.media # NoMedia => player'.state = "Opening",
           budget'.advances = budget.advances, budget'.ends = budget.ends,
           budget'.faults \in Nat, budget'.faults >= budget.faults,
           main'.at \in {"idle", "advance"}
    PROVE  SeriesOrder' /\ AdvancesOwed'
<1>. USE DEF SeriesInv, SeriesOrder
<1>1. HandlerOrder'
  BY Fields DEF HandlerOrder, Counted, Decided, Waiting
<1>2. PlayerOrder'
  BY Fields DEF PlayerOrder, Active, HasMedia, Inactive
<1>3. FlagsOrder'
  BY Fields DEF FlagsOrder, Live, Active, Waiting, Inactive
<1>4. PlayOrder'
  BY Fields DEF PlayOrder, Counted, HasMedia, PlayPlaces, PausePlaces
<1>5. RequestOrder'
  BY Fields DEF RequestOrder, Counted, Live, Active, Waiting, RequestPlaces
<1>6. SeenOrder'
  BY Fields DEF SeenOrder, AdvanceDue, Decided
<1>7. UpdateOrder'
  BY Fields DEF UpdateOrder, Live, Active, Waiting, HasMedia, Inactive
<1>8. StopOrder'
  BY Fields DEF StopOrder, Counted, Decided, Waiting, StopPlaces
<1>9. PollFindsNothing'
  BY Fields DEF PollFindsNothing, AdvanceDue, Decided, Waiting, HasMedia, Inactive
<1>10. AdvancesOwed'
  BY Fields DEF AdvancesOwed, EndReported, Decided, One, IInv, PlayPlaces, PausePlaces
<1>. QED
  BY <1>1, <1>2, <1>3, <1>4, <1>5, <1>6, <1>7, <1>8, <1>9, <1>10

\* A request that finds an earlier stop awaited finds that it has come.
LEMMA BusyInOrder ==
    ASSUME SeriesInv, RequestWhileStopping
    PROVE  SeriesOrder' /\ AdvancesOwed'
<1>. USE DEF SeriesInv, SeriesOrder
<1>1. /\ UNCHANGED << currentIndex, mode, player, handler, last, budget >>
      /\ main.at = "busy" /\ handler.step = "none"
  BY DEF RequestWhileStopping, At, Unlocked
<1>2. Inactive(player.state)
  BY <1>1 DEF RequestOrder, Live, Active
<1>3. /\ transport' = ClearPendingActivation([transport EXCEPT !.stopEvents = 0])
      /\ main'.at = "free"
  BY <1>2 DEF RequestWhileStopping, Goes, IInv, TypeOK, MainType
<1>4. /\ transport'.wanted = transport.wanted /\ transport'.playNext = transport.playNext
      /\ ~transport'.ready /\ transport'.index = NoIndex /\ ~transport'.direct
      /\ transport'.stopEvents = 0
      /\ transport'.stopFinalize = transport.stopFinalize
      /\ transport'.stopAge = transport.stopAge
  BY <1>3 DEF ClearPendingActivation, IInv, TypeOK, TransportType
<1>5. NoIndex < 0
  BY DEF NoIndex
<1>6. HandlerOrder'
  BY <1>1, <1>2, <1>3, <1>4, <1>5 DEF HandlerOrder, Counted, Decided, Waiting
<1>7. PlayerOrder'
  BY <1>1, <1>2, <1>3, <1>4, <1>5 DEF PlayerOrder, Active, HasMedia
<1>8. FlagsOrder'
  BY <1>1, <1>2, <1>3, <1>4, <1>5 DEF FlagsOrder, Live, Active, Waiting
<1>9. PlayOrder'
  BY <1>1, <1>2, <1>3, <1>4, <1>5 DEF PlayOrder, Counted, HasMedia, PlayPlaces, PausePlaces
<1>10. RequestOrder'
  BY <1>1, <1>2, <1>3, <1>4, <1>5 DEF RequestOrder, Counted, Live, Active, Waiting,
     RequestPlaces
<1>11. SeenOrder'
  BY <1>1, <1>2, <1>3, <1>4, <1>5 DEF SeenOrder, AdvanceDue, Decided
<1>12. UpdateOrder'
  BY <1>1, <1>2, <1>3, <1>4, <1>5 DEF UpdateOrder, Live, Active, Waiting, HasMedia
<1>13. StopOrder'
  BY <1>1, <1>2, <1>3, <1>4, <1>5 DEF StopOrder, Counted, Decided, Waiting, StopPlaces,
     PlayPlaces, PausePlaces, RequestPlaces
<1>14. PollFindsNothing'
  BY <1>1, <1>2, <1>3, <1>4, <1>5 DEF PollFindsNothing, AdvanceDue, Decided, Waiting,
     HasMedia, RequestPlaces
<1>15. AdvancesOwed'
  BY <1>1, <1>2, <1>3, <1>4, <1>5 DEF AdvancesOwed, EndReported, Decided, One, PlayPlaces,
     PausePlaces
<1>. QED
  BY <1>6, <1>7, <1>8, <1>9, <1>10, <1>11, <1>12, <1>13, <1>14, <1>15

\* Otherwise it switches from what is loaded, or activates at once.
LEMMA FreeInOrder ==
    ASSUME SeriesInv, RequestWhileFree
    PROVE  SeriesOrder' /\ AdvancesOwed'
<1>. USE DEF SeriesInv, SeriesOrder
<1>1. /\ UNCHANGED << transport, currentIndex, mode, player, handler, last, budget >>
      /\ main.at = "free" /\ handler.step = "none"
  BY DEF RequestWhileFree, At, Unlocked
<1>2. /\ main'.at \in {"switch", "now"}
      /\ main'.at = "now" => ~HasMedia \/ ~Active(player)
  BY DEF RequestWhileFree, Goes, IInv, TypeOK, MainType
<1>3. HandlerOrder'
  BY <1>1, <1>2 DEF HandlerOrder, Counted, Decided, Waiting
<1>4. PlayerOrder'
  BY <1>1, <1>2 DEF PlayerOrder, Active, HasMedia
<1>5. FlagsOrder'
  BY <1>1, <1>2 DEF FlagsOrder, Live, Active, Waiting
<1>6. PlayOrder'
  BY <1>1, <1>2 DEF PlayOrder, Counted, HasMedia, PlayPlaces, PausePlaces
<1>7. RequestOrder'
  BY <1>1, <1>2 DEF RequestOrder, Counted, Live, Active, Waiting, RequestPlaces, PlayerOrder
<1>8. SeenOrder'
  BY <1>1, <1>2 DEF SeenOrder, AdvanceDue, Decided
<1>9. UpdateOrder'
  BY <1>1, <1>2 DEF UpdateOrder, Live, Active, Waiting, HasMedia
<1>10. StopOrder'
  BY <1>1, <1>2 DEF StopOrder, Counted, Decided, Waiting, StopPlaces, PlayPlaces,
     PausePlaces, RequestPlaces
<1>11. PollFindsNothing'
  BY <1>1, <1>2 DEF PollFindsNothing, AdvanceDue, Decided, Waiting, HasMedia, RequestPlaces
<1>12. AdvancesOwed'
  BY <1>1, <1>2 DEF AdvancesOwed, EndReported, Decided, One, PlayPlaces, PausePlaces
<1>. QED
  BY <1>3, <1>4, <1>5, <1>6, <1>7, <1>8, <1>9, <1>10, <1>11, <1>12

\* A switch hands the request to the Stopped event.
LEMMA SwitchInOrder ==
    ASSUME SeriesInv, SwitchRequest
    PROVE  SeriesOrder' /\ AdvancesOwed'
<1>. USE DEF SeriesInv, SeriesOrder
<1>1. /\ UNCHANGED << currentIndex, mode, player, handler, last, budget >>
      /\ main.at = "switch" /\ main'.at = "switchStop"
      /\ transport' = [Queued(transport, main.item, main.play) EXCEPT !.stopEvents = 1]
      /\ main.item \in Indices \cup {Direct} /\ main.play \in BOOLEAN
  BY DEF SwitchRequest, At, Goes, IInv, TypeOK, MainType, ItemKnown
<1>. DEFINE u == Queued(transport, main.item, main.play)
<1>2. /\ u \in TransportType
      /\ u.wanted = transport.wanted /\ ~u.playNext /\ ~u.ready
      /\ u.stopFinalize = transport.stopFinalize /\ u.stopAge = transport.stopAge
      /\ u.index >= 0 \/ u.direct
  <2>1. u \in TransportType
    BY <1>1, QueuedTyped DEF IInv, TypeOK
  <2>2. main.item # Direct => main.item >= 0
    BY <1>1, SizeAssumption DEF Indices
  <2>. QED
    BY <2>1, <2>2 DEF Queued, IInv, TypeOK, TransportType
<1>3. /\ transport'.wanted = transport.wanted /\ ~transport'.playNext /\ ~transport'.ready
      /\ transport'.stopFinalize = transport.stopFinalize
      /\ transport'.stopAge = transport.stopAge
      /\ transport'.stopEvents = 1 /\ Waiting'
  <2>. HIDE DEF u
  <2>1. transport' = [u EXCEPT !.stopEvents = 1]
    BY <1>1 DEF u
  <2>2. /\ transport'.index = u.index /\ transport'.direct = u.direct
        /\ transport'.wanted = u.wanted /\ transport'.playNext = u.playNext
        /\ transport'.ready = u.ready /\ transport'.stopFinalize = u.stopFinalize
        /\ transport'.stopAge = u.stopAge /\ transport'.stopEvents = 1
    BY <1>2, <2>1 DEF TransportType
  <2>. QED
    BY <1>2, <2>2 DEF Waiting
<1>4. last.call # "stop" /\ ~player.ending /\ (Counted => handler.stops <= 0)
  BY <1>1 DEF RequestOrder, StopOrder, RequestPlaces
<1>5. /\ handler.stops \in -1 .. 1
  BY Fields DEF IInv
<1>6. HandlerOrder'
  BY <1>1, <1>3, <1>4, <1>5 DEF HandlerOrder, Counted, Decided
<1>7. PlayerOrder'
  BY <1>1, <1>3, <1>4 DEF PlayerOrder, Active, HasMedia
<1>8. FlagsOrder'
  BY <1>1, <1>3, <1>4 DEF FlagsOrder
<1>9. PlayOrder'
  BY <1>1 DEF PlayOrder, PlayPlaces, PausePlaces
<1>10. RequestOrder'
  BY <1>1, <1>3 DEF RequestOrder, RequestPlaces
<1>11. SeenOrder'
  BY <1>1 DEF SeenOrder
<1>12. UpdateOrder'
  BY <1>1 DEF UpdateOrder
<1>13. StopOrder'
  BY <1>1, <1>4 DEF StopOrder, StopPlaces
<1>14. PollFindsNothing'
  BY <1>3 DEF PollFindsNothing
<1>15. AdvancesOwed'
  <2>1. EndReported' => EndReported
    BY <1>1, <1>3 DEF EndReported, Decided, PlayPlaces, PausePlaces
  <2>. QED
    BY <1>1, <1>3, <2>1, Fields DEF AdvancesOwed, One, IInv
<1>. QED
  BY <1>6, <1>7, <1>8, <1>9, <1>10, <1>11, <1>12, <1>13, <1>14, <1>15

\* The stop it asks for is the one awaited, if the player still runs.
LEMMA SwitchStopInOrder ==
    ASSUME SeriesInv, SwitchStopAsync
    PROVE  SeriesOrder' /\ AdvancesOwed'
<1>. USE DEF SeriesInv, SeriesOrder
<1>1. /\ UNCHANGED << transport, currentIndex, mode, handler, last, budget >>
      /\ main.at = "switchStop" /\ main'.at = "idle" /\ handler.step = "none"
  BY DEF SwitchStopAsync, At, Done, Unlocked, IInv, TypeOK, MainType
<1>2. /\ player'.state = player.state /\ player'.media = player.media
      /\ ~player'.starting
      /\ player'.ending <=> Active(player)
  BY DEF SwitchStopAsync, LibStopAsync, IInv, TypeOK, PlayerType, PlayerOrder
<1>3. HandlerOrder'
  BY <1>1, <1>2 DEF HandlerOrder, Counted, Decided, Waiting
<1>4. PlayerOrder'
  BY <1>1, <1>2 DEF PlayerOrder, Active, HasMedia, RequestOrder, Live, Waiting
<1>5. FlagsOrder'
  BY <1>1, <1>2 DEF FlagsOrder, Live, Active, Waiting, RequestOrder
<1>6. PlayOrder'
  BY <1>1, <1>2 DEF PlayOrder, Counted, HasMedia, PlayPlaces, PausePlaces
<1>7. RequestOrder'
  BY <1>1, <1>2 DEF RequestOrder, Counted, Live, Active, Waiting, RequestPlaces
<1>8. SeenOrder'
  BY <1>1, <1>2 DEF SeenOrder, AdvanceDue, Decided
<1>9. UpdateOrder'
  BY <1>1, <1>2 DEF UpdateOrder, Live, Active, Waiting, HasMedia
<1>10. StopOrder'
  BY <1>1, <1>2 DEF StopOrder, Counted, Decided, Waiting, StopPlaces, PlayPlaces,
     PausePlaces, RequestPlaces
<1>11. PollFindsNothing'
  BY <1>1, <1>2 DEF PollFindsNothing, AdvanceDue, Decided, Waiting, HasMedia, RequestOrder
<1>12. AdvancesOwed'
  BY <1>1, <1>2, Fields DEF AdvancesOwed, EndReported, Decided, One, IInv, PlayPlaces,
     PausePlaces, PlayerOrder
<1>. QED
  BY <1>3, <1>4, <1>5, <1>6, <1>7, <1>8, <1>9, <1>10, <1>11, <1>12

\* A request that is free of an earlier one activates its media.
LEMMA NowInOrder ==
    ASSUME SeriesInv, ActivateNow
    PROVE  SeriesOrder' /\ AdvancesOwed'
<1>. USE DEF SeriesInv, SeriesOrder
<1>1. /\ UNCHANGED << mode, handler, last >>
      /\ main.at = "now" /\ main'.at = "idle" /\ handler.step = "none"
      /\ main.item \in Indices \cup {Direct} /\ main.play \in BOOLEAN
  BY DEF ActivateNow, At, Done, Unlocked, IInv, TypeOK, MainType, ItemKnown
<1>. DEFINE t == ClearPendingActivation(transport)
<1>2. /\ t \in TransportType /\ ~t.ready /\ t.stopEvents = transport.stopEvents
  BY ClearTyped DEF ClearPendingActivation, IInv, TypeOK, TransportType
<1>3. /\ transport.stopEvents \in {-1, 0} /\ Inactive(player.state) /\ last.call # "stop"
  BY <1>1, Fields DEF RequestOrder, RequestPlaces, StopOrder, IInv
<1>4. ActivateImmediate(t, main.item, main.play)
  BY DEF ActivateNow
<1>. HIDE DEF t
<1>5. /\ ~transport'.playNext /\ ~transport'.stopFinalize
      /\ transport'.wanted = main.play /\ ~transport'.ready
      /\ transport'.stopEvents = transport.stopEvents
      /\ player'.state \in {"Stopped", "Opening"}
      /\ ~player'.starting /\ ~player'.ending
      /\ player'.media = NoMedia => player'.state = "Stopped"
      /\ main.play /\ player'.media # NoMedia => player'.state = "Opening"
      /\ budget'.advances = budget.advances /\ budget'.ends = budget.ends
      /\ budget'.faults \in Nat /\ budget'.faults >= budget.faults
  BY <1>1, <1>2, <1>3, <1>4, ActivatesInOrder DEF IInv
<1>. QED
  BY <1>1, <1>3, <1>5, ActivatedInOrder

-----------------------------------------------------------------------------
(* play(), pause() and stop() keep the order                                 *)

\* play() withdraws an advance asked for, or has nothing to play.
LEMMA PlayRequestInOrder ==
    ASSUME SeriesInv, PlayRequest
    PROVE  SeriesOrder' /\ AdvancesOwed'
<1>. USE DEF SeriesInv, SeriesOrder
<1>1. UNCHANGED << mode, player, handler, last, budget >> /\ main.at = "play"
  BY DEF PlayRequest, At
<1>2. CASE NothingToPlay
  <2>1. UNCHANGED transport /\ main'.at = "idle" /\ ~HasMedia
    BY <1>2 DEF PlayRequest, NothingToPlay, Done, IInv, TypeOK, MainType
  <2>2. HandlerOrder'
    BY <1>1, <2>1 DEF HandlerOrder, Counted, Decided, Waiting
  <2>3. PlayerOrder'
    BY <1>1, <2>1 DEF PlayerOrder, Active, HasMedia
  <2>4. FlagsOrder'
    BY <1>1, <2>1 DEF FlagsOrder, Live, Active, Waiting
  <2>5. PlayOrder'
    BY <1>1, <2>1 DEF PlayOrder, Counted, HasMedia, PlayPlaces, PausePlaces
  <2>6. RequestOrder'
    BY <1>1, <2>1 DEF RequestOrder, Counted, Live, Active, Waiting, RequestPlaces
  <2>7. SeenOrder'
    BY <1>1, <2>1 DEF SeenOrder, AdvanceDue, Decided
  <2>8. UpdateOrder'
    BY <1>1, <2>1 DEF UpdateOrder, Live, Active, Waiting, HasMedia
  <2>9. StopOrder'
    BY <1>1, <2>1 DEF StopOrder, Counted, Decided, Waiting, StopPlaces, PlayPlaces,
       PausePlaces, RequestPlaces
  <2>10. PollFindsNothing'
    BY <1>1, <2>1 DEF PollFindsNothing, AdvanceDue, Decided, Waiting, HasMedia, PlayPlaces,
       RequestPlaces
  <2>11. AdvancesOwed'
    <3>1. EndReported' => EndReported
      BY <1>1, <2>1 DEF EndReported, Decided, PlayPlaces, PausePlaces
    <3>. QED
      BY <1>1, <2>1, <3>1, OwedStays DEF IInv
  <2>. QED
    BY <2>2, <2>3, <2>4, <2>5, <2>6, <2>7, <2>8, <2>9, <2>10, <2>11
<1>3. CASE ~NothingToPlay
  <2>1. /\ transport' = WithoutStopTimer(
             [transport EXCEPT !.playNext = FALSE, !.wanted = TRUE, !.pauseRequested = FALSE,
                               !.audioPaused = FALSE, !.stopInProgress = FALSE,
                               !.stopFinalize = FALSE, !.stoppedLatched = FALSE])
        /\ main'.at = "playState" /\ (main'.item # NoMedia => ~HasMedia)
    BY <1>3 DEF PlayRequest, IInv, TypeOK, MainType
  <2>2. /\ transport'.playNext = FALSE /\ transport'.wanted = TRUE
        /\ transport'.stopFinalize = FALSE /\ transport'.stopAge = "unset"
        /\ transport'.ready = transport.ready /\ transport'.index = transport.index
        /\ transport'.direct = transport.direct
        /\ transport'.stopEvents = transport.stopEvents
    BY <2>1 DEF WithoutStopTimer, IInv, TypeOK, TransportType
  <2>3. /\ transport.stopEvents <= 0 /\ ~transport.ready /\ ~player.ending
        /\ transport.stopEvents \in -1 .. 1 /\ handler.stops \in -1 .. 1
        /\ Counted => handler.stops <= 0
        /\ last.call # "stop"
    BY <1>1, Fields DEF PlayOrder, StopOrder, PlayPlaces, IInv
  <2>4. HandlerOrder'
    BY <1>1, <2>1, <2>2, <2>3 DEF HandlerOrder, Counted, Decided, Waiting, PlayOrder
  <2>5. PlayerOrder'
    BY <1>1, <2>1, <2>2, <2>3 DEF PlayerOrder, Active, HasMedia
  <2>6. FlagsOrder'
    BY <1>1, <2>1, <2>2, <2>3 DEF FlagsOrder, Live, Active, Waiting
  <2>7. PlayOrder'
    BY <1>1, <2>1, <2>2, <2>3 DEF PlayOrder, Counted, HasMedia, PlayPlaces, PausePlaces
  <2>8. RequestOrder'
    BY <1>1, <2>1, <2>2, <2>3 DEF RequestOrder, Counted, Live, Active, Waiting, RequestPlaces
  <2>9. SeenOrder'
    BY <1>1, <2>1, <2>2, <2>3 DEF SeenOrder, AdvanceDue, Decided
  <2>10. UpdateOrder'
    BY <1>1, <2>1, <2>2, <2>3 DEF UpdateOrder, Live, Active, Waiting, HasMedia
  <2>11. StopOrder'
    BY <1>1, <2>1, <2>2, <2>3 DEF StopOrder, Counted, Decided, Waiting, StopPlaces,
       PlayPlaces, PausePlaces, RequestPlaces
  <2>12. PollFindsNothing'
    BY <1>1, <2>1, <2>2, <2>3 DEF PollFindsNothing, AdvanceDue, Decided, Waiting, HasMedia,
       PlayPlaces, RequestPlaces
  <2>13. AdvancesOwed'
    BY <1>1, <2>1, <2>2, <2>3, Fields DEF AdvancesOwed, EndReported, Decided, One,
       PlayPlaces, PausePlaces, IInv
  <2>. QED
    BY <2>4, <2>5, <2>6, <2>7, <2>8, <2>9, <2>10, <2>11, <2>12, <2>13
<1>. QED
  BY <1>2, <1>3

\* play() and pause() ask for the state of a player that is not opening.
LEMMA StateInOrder ==
    ASSUME SeriesInv, PlayState \/ PauseState
    PROVE  SeriesOrder' /\ AdvancesOwed'
<1>. USE DEF SeriesInv, SeriesOrder
<1>1. /\ UNCHANGED << transport, currentIndex, mode, player, handler, last, budget >>
      /\ main'.item = main.item /\ main'.seen = player.state
      /\ \/ main.at = "playState" /\ main'.at = "playJoin"
         \/ main.at = "pauseState" /\ main'.at = "pauseMark"
  BY DEF PlayState, PauseState, GetState, At, IInv, TypeOK, MainType
<1>2. HandlerOrder'
  BY <1>1 DEF HandlerOrder, Counted, Decided, Waiting
<1>3. PlayerOrder'
  BY <1>1 DEF PlayerOrder, Active, HasMedia
<1>4. FlagsOrder'
  BY <1>1 DEF FlagsOrder, Live, Active, Waiting
<1>5. PlayOrder'
  BY <1>1 DEF PlayOrder, Counted, HasMedia, PlayPlaces, PausePlaces
<1>6. RequestOrder'
  BY <1>1 DEF RequestOrder, Counted, Live, Active, Waiting, RequestPlaces
<1>7. SeenOrder'
  BY <1>1 DEF SeenOrder, AdvanceDue, Decided, PlayOrder, PlayPlaces
<1>8. UpdateOrder'
  BY <1>1 DEF UpdateOrder, Live, Active, Waiting, HasMedia
<1>9. StopOrder'
  BY <1>1 DEF StopOrder, Counted, Decided, Waiting, StopPlaces, PlayPlaces, PausePlaces,
     RequestPlaces
<1>10. PollFindsNothing'
  BY <1>1 DEF PollFindsNothing, AdvanceDue, Decided, Waiting, HasMedia, PlayPlaces,
     RequestPlaces
<1>11. AdvancesOwed'
  BY <1>1 DEF AdvancesOwed, EndReported, Decided, One, PlayPlaces, PausePlaces
<1>. QED
  BY <1>2, <1>3, <1>4, <1>5, <1>6, <1>7, <1>8, <1>9, <1>10, <1>11

\* play() leaves a player alone that is about to be followed, or a request that waits.
LEMMA PlayJoinInOrder ==
    ASSUME SeriesInv, PlayJoin
    PROVE  SeriesOrder' /\ AdvancesOwed'
<1>. USE DEF SeriesInv, SeriesOrder
<1>1. /\ UNCHANGED << currentIndex, mode, player, handler, last, budget >>
      /\ main.at = "playJoin"
  BY DEF PlayJoin, At
<1>2. transport.stopEvents <= 0 /\ transport.stopEvents \in -1 .. 1
  BY <1>1, Fields DEF PlayOrder, PlayPlaces, IInv
<1>3. /\ transport'.playNext = transport.playNext /\ transport'.wanted = transport.wanted
      /\ transport'.stopFinalize = transport.stopFinalize
      /\ transport'.stopAge = transport.stopAge
      /\ transport'.ready = transport.ready /\ transport'.index = transport.index
      /\ transport'.direct = transport.direct
      /\ transport'.stopEvents = transport.stopEvents
  <2>1. ASSUME NEW n, NEW b,
               transport' = [transport EXCEPT !.stopEvents = n, !.shouldPlay = b]
        PROVE  /\ transport'.playNext = transport.playNext
               /\ transport'.wanted = transport.wanted
               /\ transport'.stopFinalize = transport.stopFinalize
               /\ transport'.stopAge = transport.stopAge
               /\ transport'.ready = transport.ready /\ transport'.index = transport.index
               /\ transport'.direct = transport.direct
               /\ transport'.stopEvents = n
    BY <2>1 DEF IInv, TypeOK, TransportType
  <2>. DEFINE n == IF transport.stopEvents > 0 /\ Inactive(main.seen)
                   THEN 0 ELSE transport.stopEvents
              b == transport.shouldPlay \/ PlayJoins
  <2>2. transport' = [transport EXCEPT !.stopEvents = n, !.shouldPlay = b]
    BY DEF PlayJoin
  <2>3. n = transport.stopEvents
    BY <1>2
  <2>. HIDE DEF n, b
  <2>. QED
    BY <2>1, <2>2, <2>3, Zenon
<1>4. /\ main'.at \in {"idle", "playStart"} /\ main'.item \in {main.item, NoMedia}
      /\ main'.at = "idle" => transport.index >= 0 \/ main.seen \in {"Opening", "Stopping"}
      /\ main'.at = "playStart" => main'.seen = main.seen
  <2>1. PlayJoins <=> transport.index >= 0
    BY <1>2 DEF PlayJoins
  <2>2. CASE PlayJoins \/ Transient(main.seen)
    <3>1. Done
      BY <2>2 DEF PlayJoin
    <3>. QED
      BY <2>1, <2>2, <3>1 DEF Transient, Done, IInv, TypeOK, MainType
  <2>3. CASE ~(PlayJoins \/ Transient(main.seen))
    <3>1. Goes("playStart")
      BY <2>3 DEF PlayJoin
    <3>. QED
      BY <3>1 DEF Goes, IInv, TypeOK, MainType
  <2>. QED
    BY <2>2, <2>3
<1>5. HandlerOrder'
  BY <1>1, <1>2, <1>3, <1>4 DEF HandlerOrder, Counted, Decided, Waiting
<1>6. PlayerOrder'
  BY <1>1, <1>2, <1>3, <1>4 DEF PlayerOrder, Active, HasMedia
<1>7. FlagsOrder'
  BY <1>1, <1>2, <1>3, <1>4 DEF FlagsOrder, Live, Active, Waiting
<1>8. PlayOrder'
  BY <1>1, <1>2, <1>3, <1>4 DEF PlayOrder, Counted, HasMedia, PlayPlaces, PausePlaces
<1>9. RequestOrder'
  BY <1>1, <1>2, <1>3, <1>4 DEF RequestOrder, Counted, Live, Active, Waiting, RequestPlaces
<1>10. SeenOrder'
  BY <1>1, <1>2, <1>3, <1>4 DEF SeenOrder, AdvanceDue, Decided
<1>11. UpdateOrder'
  BY <1>1, <1>2, <1>3, <1>4 DEF UpdateOrder, Live, Active, Waiting, HasMedia
<1>12. StopOrder'
  BY <1>1, <1>2, <1>3, <1>4 DEF StopOrder, Counted, Decided, Waiting, StopPlaces, PlayPlaces,
     PausePlaces, RequestPlaces
<1>13. PollFindsNothing'
  BY <1>1, <1>2, <1>3, <1>4 DEF PollFindsNothing, AdvanceDue, Decided, Waiting, HasMedia,
     PlayPlaces, RequestPlaces, SeenOrder, Inactive
<1>14. AdvancesOwed'
  <2>1. EndReported' => EndReported
    BY <1>1, <1>2, <1>3, <1>4 DEF EndReported, Decided, PlayPlaces, PausePlaces
  <2>. QED
    BY <1>1, <1>2, <1>3, <1>4, <2>1, OwedStays DEF IInv
<1>. QED
  BY <1>5, <1>6, <1>7, <1>8, <1>9, <1>10, <1>11, <1>12, <1>13, <1>14

\* play() starts or resumes the player it has found.
LEMMA PlayStartInOrder ==
    ASSUME SeriesInv, PlayStart
    PROVE  SeriesOrder' /\ AdvancesOwed'
<1>. USE DEF SeriesInv, SeriesOrder
<1>1. /\ UNCHANGED << currentIndex, mode, handler, last >>
      /\ main.at = "playStart" /\ main'.at = "idle" /\ handler.step = "none"
  BY DEF PlayStart, At, Done, Unlocked, IInv, TypeOK, MainType
<1>2. /\ transport.stopEvents \in {-1, 0} /\ ~transport.ready /\ ~player.ending
      /\ ~player.starting /\ transport.wanted /\ transport.stopAge = "unset"
      /\ ~transport.stopFinalize /\ last.call # "stop"
      /\ player.state # "Opening"
      /\ main.item # NoMedia => ~HasMedia
      /\ main.seen = "Paused" => player.state = "Paused"
      /\ player \in PlayerType
  BY <1>1, Fields DEF PlayOrder, PlayerOrder, StopOrder, SeenOrder, PlayPlaces, IInv, TypeOK
<1>3. ~HasMedia => player.state = "Stopped"
  BY <1>2 DEF PlayerOrder, Inactive
<1>4. /\ transport'.playNext = transport.playNext /\ transport'.wanted = transport.wanted
      /\ transport'.stopFinalize = transport.stopFinalize
      /\ transport'.stopAge = transport.stopAge
      /\ transport'.ready = transport.ready /\ transport'.index = transport.index
      /\ transport'.direct = transport.direct
      /\ transport'.stopEvents = transport.stopEvents
  <2>1. ASSUME NEW a,
               transport' = [transport EXCEPT !.audioPaused = FALSE, !.activeDirect = a]
        PROVE  <1>4
    BY <2>1 DEF IInv, TypeOK, TransportType
  <2>2. CASE transport' = [transport EXCEPT !.audioPaused = FALSE]
    BY <2>2 DEF IInv, TypeOK, TransportType
  <2>. DEFINE direct == transport.activeDirect \/ main.item = Direct
  <2>3. \/ transport' = [transport EXCEPT !.audioPaused = FALSE, !.activeDirect = direct]
        \/ transport' = [transport EXCEPT !.audioPaused = FALSE]
        \/ transport' = transport
    BY DEF PlayStart, LoadAnd
  <2>. HIDE DEF direct
  <2>. QED
    BY <2>1, <2>2, <2>3, Zenon
<1>5. /\ budget'.advances = budget.advances /\ budget'.ends = budget.ends
      /\ budget'.faults \in Nat /\ budget'.faults >= budget.faults
  <2>1. CASE main.item # NoMedia
    BY <2>1, LoadSpends DEF PlayStart, IInv
  <2>2. CASE main.item = NoMedia
    BY <2>2, Fields DEF PlayStart, IInv
  <2>. QED
    BY <2>1, <2>2
<1>6. ASSUME NEW p \in PlayerType, ~p.starting, ~p.ending,
             main.seen = "Paused" => p.state = "Paused",
             p.state # "Opening",
             p.media = NoMedia => p.state = "Stopped"
      PROVE  LET q == StartOrResume(main.seen, p) IN
             /\ q.media = p.media /\ ~q.starting /\ ~q.ending
             /\ q.media = NoMedia => q.state = "Stopped"
             /\ q.media # NoMedia => q.state # "Stopped"
             /\ q.state \in {p.state, "Opening"}
  BY <1>2, <1>6 DEF StartOrResume, LibPlay, LibSetPause, PlayerType, Active, Inactive, InSeries
<1>7. /\ ~player'.starting /\ ~player'.ending
      /\ player'.media = NoMedia => player'.state = "Stopped"
      /\ player'.media # NoMedia => player'.state # "Stopped"
      /\ player'.state \in {player.state, "Opening", "Stopped"}
  <2>1. CASE main.item # NoMedia
    <3>. DEFINE p == LibSetMedia(player, main.item)
    <3>1. main.item \in Indices \cup {Direct}
      BY <2>1 DEF IInv, TypeOK, MainType
    <3>2. p \in PlayerType /\ p.media = main.item
      BY <1>2, <3>1, SetMediaTyped
    <3>3. p.state = "Stopped" /\ ~p.starting /\ ~p.ending
      BY <1>2, <1>3, <2>1 DEF LibSetMedia, PlayerType, Active, Inactive
    <3>4. \/ player' = StartOrResume(main.seen, p)
          \/ player' = player
      BY <1>2, <2>1 DEF PlayStart, LoadAnd
    <3>5. main.seen # "Paused"
      BY <1>2, <1>3, <2>1
    <3>. HIDE DEF p
    <3>. QED
      BY <1>2, <1>3, <1>6, <2>1, <3>2, <3>3, <3>4, <3>5 DEF HasMedia
  <2>2. CASE main.item = NoMedia
    BY <1>2, <1>3, <1>6, <2>2 DEF PlayStart, HasMedia
  <2>. QED
    BY <2>1, <2>2
<1>8. HandlerOrder'
  BY <1>1, <1>2, <1>4, <1>5, <1>7 DEF HandlerOrder, Counted, Decided, Waiting, Inactive
<1>9. PlayerOrder'
  BY <1>1, <1>2, <1>4, <1>5, <1>7 DEF PlayerOrder, Active, HasMedia, Inactive
<1>10. FlagsOrder'
  BY <1>1, <1>2, <1>4, <1>5, <1>7 DEF FlagsOrder, Live, Active, Waiting, Inactive
<1>11. PlayOrder'
  BY <1>1, <1>2, <1>4, <1>5, <1>7 DEF PlayOrder, Counted, HasMedia, PlayPlaces, PausePlaces
<1>12. RequestOrder'
  BY <1>1, <1>2, <1>4, <1>5, <1>7 DEF RequestOrder, Counted, Live, Active, Waiting,
     RequestPlaces
<1>13. SeenOrder'
  BY <1>1, <1>2, <1>4, <1>5, <1>7 DEF SeenOrder, AdvanceDue, Decided
<1>14. UpdateOrder'
  BY <1>1, <1>2, <1>4, <1>5, <1>7 DEF UpdateOrder, Live, Active, Waiting, HasMedia
<1>15. StopOrder'
  BY <1>1, <1>2, <1>4, <1>5, <1>7 DEF StopOrder, Counted, Decided, Waiting, StopPlaces,
     PlayPlaces, PausePlaces, RequestPlaces
<1>16. PollFindsNothing'
  BY <1>1, <1>2, <1>4, <1>5, <1>7 DEF PollFindsNothing, AdvanceDue, Decided, Waiting,
     HasMedia, PlayPlaces, RequestPlaces, Inactive
<1>17. AdvancesOwed'
  BY <1>1, <1>2, <1>4, <1>5, <1>7, Fields DEF AdvancesOwed, EndReported, Decided, One,
     PlayPlaces, PausePlaces, IInv
<1>. QED
  BY <1>8, <1>9, <1>10, <1>11, <1>12, <1>13, <1>14, <1>15, <1>16, <1>17

\* pause() withdraws the wish to play, or goes on as play().
LEMMA PauseMarkInOrder ==
    ASSUME SeriesInv, PauseMark
    PROVE  SeriesOrder' /\ AdvancesOwed'
<1>. USE DEF SeriesInv, SeriesOrder
<1>1. /\ UNCHANGED << currentIndex, mode, player, handler, last, budget >>
      /\ main.at = "pauseMark"
  BY DEF PauseMark, At
<1>2. /\ transport'.playNext = transport.playNext
      /\ transport'.stopFinalize = transport.stopFinalize
      /\ transport'.stopAge = transport.stopAge
      /\ transport'.ready = transport.ready /\ transport'.index = transport.index
      /\ transport'.direct = transport.direct
      /\ transport'.stopEvents = transport.stopEvents
      /\ transport'.wanted => transport.wanted /\ main'.at = "play"
      /\ main'.at \in {"play", "idle", "pausePlayer"}
  <2>1. CASE Goes("play") /\ UNCHANGED transport
    BY <2>1 DEF Goes, IInv, TypeOK, MainType
  <2>2. CASE Done /\ transport' = NotPlaying(transport)
    BY <2>2 DEF Done, NotPlaying, IInv, TypeOK, MainType, TransportType
  <2>3. ASSUME NEW b,
               transport' = [transport EXCEPT !.pauseRequested = TRUE, !.wanted = FALSE,
                                              !.shouldPlay = b],
               Goes("pausePlayer") \/ Done
        PROVE  <1>2
    <3>1. main'.at \in {"idle", "pausePlayer"}
      BY <2>3 DEF Goes, Done, IInv, TypeOK, MainType
    <3>. QED
      BY <2>3, <3>1 DEF IInv, TypeOK, TransportType
  <2>. DEFINE b == transport.shouldPlay /\ ~QueuedActivation(transport)
  <2>4. \/ Goes("play") /\ UNCHANGED transport
        \/ Done /\ transport' = NotPlaying(transport)
        \/ /\ transport' = [transport EXCEPT !.pauseRequested = TRUE, !.wanted = FALSE,
                                             !.shouldPlay = b]
           /\ Goes("pausePlayer") \/ Done
    BY DEF PauseMark
  <2>. HIDE DEF b
  <2>. QED
    BY <2>1, <2>2, <2>3, <2>4
<1>3. /\ transport.stopEvents <= 0 /\ last.call # "stop"
  BY <1>1 DEF PlayOrder, StopOrder, PausePlaces
<1>4. HandlerOrder'
  BY <1>1, <1>2, <1>3 DEF HandlerOrder, Counted, Decided, Waiting
<1>5. PlayerOrder'
  BY <1>1, <1>2, <1>3 DEF PlayerOrder, Active, HasMedia
<1>6. FlagsOrder'
  BY <1>1, <1>2, <1>3 DEF FlagsOrder, Live, Active, Waiting
<1>7. PlayOrder'
  BY <1>1, <1>2, <1>3 DEF PlayOrder, Counted, HasMedia, PlayPlaces, PausePlaces
<1>8. RequestOrder'
  BY <1>1, <1>2, <1>3 DEF RequestOrder, Counted, Live, Active, Waiting, RequestPlaces
<1>9. SeenOrder'
  BY <1>1, <1>2, <1>3 DEF SeenOrder, AdvanceDue, Decided
<1>10. UpdateOrder'
  BY <1>1, <1>2, <1>3 DEF UpdateOrder, Live, Active, Waiting, HasMedia
<1>11. StopOrder'
  BY <1>1, <1>2, <1>3 DEF StopOrder, Counted, Decided, Waiting, StopPlaces, PlayPlaces,
     PausePlaces, RequestPlaces
<1>12. PollFindsNothing'
  BY <1>1, <1>2, <1>3 DEF PollFindsNothing, AdvanceDue, Decided, Waiting, HasMedia,
     PlayPlaces, RequestPlaces
<1>13. AdvancesOwed'
  <2>1. EndReported' => EndReported
    BY <1>1, <1>2, <1>3 DEF EndReported, Decided, PlayPlaces, PausePlaces
  <2>. QED
    BY <1>1, <1>2, <1>3, <2>1, OwedStays DEF IInv
<1>. QED
  BY <1>4, <1>5, <1>6, <1>7, <1>8, <1>9, <1>10, <1>11, <1>12, <1>13

\* It pauses a player that runs.
LEMMA PausePlayerInOrder ==
    ASSUME SeriesInv, PausePlayer
    PROVE  SeriesOrder' /\ AdvancesOwed'
<1>. USE DEF SeriesInv, SeriesOrder
<1>1. /\ UNCHANGED << transport, currentIndex, mode, handler, last, budget >>
      /\ main.at = "pausePlayer" /\ main'.at = "idle"
      /\ handler.step = "none"
  BY DEF PausePlayer, At, Unlocked, Done, IInv, TypeOK, MainType
<1>2. /\ player'.state = player.state /\ player'.media = player.media
      /\ player'.starting = player.starting /\ player'.ending = player.ending
  BY DEF PausePlayer, LibSetPause, IInv, TypeOK, PlayerType
<1>3. HandlerOrder'
  BY <1>1, <1>2 DEF HandlerOrder, Counted, Decided, Waiting
<1>4. PlayerOrder'
  BY <1>1, <1>2 DEF PlayerOrder, Active, HasMedia
<1>5. FlagsOrder'
  BY <1>1, <1>2 DEF FlagsOrder, Live, Active, Waiting
<1>6. PlayOrder'
  BY <1>1, <1>2 DEF PlayOrder, Counted, HasMedia, PlayPlaces, PausePlaces
<1>7. RequestOrder'
  BY <1>1, <1>2 DEF RequestOrder, Counted, Live, Active, Waiting, RequestPlaces
<1>8. SeenOrder'
  BY <1>1, <1>2 DEF SeenOrder, AdvanceDue, Decided
<1>9. UpdateOrder'
  BY <1>1, <1>2 DEF UpdateOrder, Live, Active, Waiting, HasMedia
<1>10. StopOrder'
  BY <1>1, <1>2 DEF StopOrder, Counted, Decided, Waiting, StopPlaces, PlayPlaces,
     PausePlaces, RequestPlaces
<1>11. PollFindsNothing'
  BY <1>1, <1>2 DEF PollFindsNothing, AdvanceDue, Decided, Waiting, HasMedia, PlayPlaces,
     RequestPlaces
<1>12. AdvancesOwed'
  <2>1. EndReported' => EndReported
    BY <1>1, <1>2 DEF EndReported, Decided, PlayPlaces, PausePlaces
  <2>. QED
    BY <1>1, <1>2, <2>1, OwedStays DEF IInv
<1>. QED
  BY <1>3, <1>4, <1>5, <1>6, <1>7, <1>8, <1>9, <1>10, <1>11, <1>12

\* stop() of a player that does not run clears the media at once.
LEMMA StopCheckInOrder ==
    ASSUME SeriesInv, StopCheck
    PROVE  SeriesOrder' /\ AdvancesOwed'
<1>. USE DEF SeriesInv, SeriesOrder
<1>1. /\ UNCHANGED << currentIndex, mode, handler, last, budget >>
      /\ main.at = "stopCheck" /\ handler.step = "none"
  BY DEF StopCheck, At, Unlocked
<1>2. CASE HasMedia /\ Active(player)
  <2>1. UNCHANGED << transport, player >> /\ main'.at = "stopMark"
    BY <1>2 DEF StopCheck, Goes, IInv, TypeOK, MainType
  <2>2. HandlerOrder'
    BY <1>1, <2>1 DEF HandlerOrder, Counted, Decided, Waiting
  <2>3. PlayerOrder'
    BY <1>1, <2>1 DEF PlayerOrder, Active, HasMedia
  <2>4. FlagsOrder'
    BY <1>1, <2>1 DEF FlagsOrder, Live, Active, Waiting
  <2>5. PlayOrder'
    BY <1>1, <2>1 DEF PlayOrder, Counted, HasMedia, PlayPlaces, PausePlaces
  <2>6. RequestOrder'
    BY <1>1, <2>1 DEF RequestOrder, Counted, Live, Active, Waiting, RequestPlaces
  <2>7. SeenOrder'
    BY <1>1, <2>1 DEF SeenOrder, AdvanceDue, Decided
  <2>8. UpdateOrder'
    BY <1>1, <2>1 DEF UpdateOrder, Live, Active, Waiting, HasMedia
  <2>9. StopOrder'
    BY <1>1, <2>1 DEF StopOrder, Counted, Decided, Waiting, StopPlaces, PlayPlaces,
       PausePlaces, RequestPlaces
  <2>10. PollFindsNothing'
    BY <1>1, <2>1 DEF PollFindsNothing, AdvanceDue, Decided, Waiting, HasMedia, PlayPlaces,
       RequestPlaces
  <2>11. AdvancesOwed'
    <3>1. EndReported' => EndReported
      BY <1>1, <2>1 DEF EndReported, Decided, PlayPlaces, PausePlaces
    <3>. QED
      BY <1>1, <2>1, <3>1, OwedStays DEF IInv
  <2>. QED
    BY <2>2, <2>3, <2>4, <2>5, <2>6, <2>7, <2>8, <2>9, <2>10, <2>11
<1>3. CASE ~(HasMedia /\ Active(player))
  <2>1. /\ transport' = WithoutStopTimer(
              [transport EXCEPT !.stopInProgress = FALSE, !.stopEvents = 0,
                                !.audioPaused = FALSE])
        /\ player' = ClearedMedia(player) /\ main'.at = "idle"
    BY <1>3 DEF StopCheck, Done, IInv, TypeOK, MainType
  <2>2. /\ transport'.playNext = transport.playNext /\ transport'.wanted = transport.wanted
        /\ transport'.stopFinalize = transport.stopFinalize
        /\ transport'.stopAge = "unset"
        /\ transport'.ready = transport.ready /\ transport'.index = transport.index
        /\ transport'.direct = transport.direct
        /\ transport'.stopEvents = 0
    BY <2>1 DEF WithoutStopTimer, IInv, TypeOK, TransportType
  <2>3. /\ player'.state = player.state /\ player'.media = NoMedia
        /\ ~player'.starting /\ player'.ending = player.ending
    <3>1. CASE HasMedia
      BY <1>3, <2>1, <3>1
         DEF ClearedMedia, LibSetMedia, HasMedia, Active, PlayerOrder, IInv, TypeOK, PlayerType
    <3>2. CASE ~HasMedia
      BY <2>1, <3>2 DEF ClearedMedia, HasMedia, PlayerOrder
    <3>. QED
      BY <3>1, <3>2
  <2>4. ~transport.wanted /\ ~transport.playNext
    BY <1>1 DEF StopOrder, StopPlaces
  <2>5. HandlerOrder'
    BY <1>1, <1>3, <2>2, <2>3, <2>4, <2>1 DEF HandlerOrder, Counted, Decided, Waiting
  <2>6. PlayerOrder'
    BY <1>1, <1>3, <2>2, <2>3, <2>4, <2>1 DEF PlayerOrder, Active, HasMedia
  <2>7. FlagsOrder'
    BY <1>1, <1>3, <2>2, <2>3, <2>4, <2>1 DEF FlagsOrder, Live, Active, Waiting
  <2>8. PlayOrder'
    BY <1>1, <1>3, <2>2, <2>3, <2>4, <2>1 DEF PlayOrder, Counted, HasMedia, PlayPlaces,
       PausePlaces
  <2>9. RequestOrder'
    BY <1>1, <1>3, <2>2, <2>3, <2>4, <2>1 DEF RequestOrder, Counted, Live, Active, Waiting,
       RequestPlaces
  <2>10. SeenOrder'
    BY <1>1, <1>3, <2>2, <2>3, <2>4, <2>1 DEF SeenOrder, AdvanceDue, Decided
  <2>11. UpdateOrder'
    BY <1>1, <1>3, <2>2, <2>3, <2>4, <2>1 DEF UpdateOrder, Live, Active, Waiting, HasMedia
  <2>12. StopOrder'
    BY <1>1, <1>3, <2>2, <2>3, <2>4, <2>1 DEF StopOrder, Counted, Decided, Waiting,
       StopPlaces, PlayPlaces, PausePlaces, RequestPlaces
  <2>13. PollFindsNothing'
    BY <1>1, <1>3, <2>2, <2>3, <2>4, <2>1 DEF PollFindsNothing, AdvanceDue, Decided, Waiting,
       HasMedia, PlayPlaces, RequestPlaces
  <2>14. AdvancesOwed'
    <3>1. EndReported' => EndReported
      BY <1>1, <1>3, <2>2, <2>3, <2>4, <2>1 DEF EndReported, Decided, PlayPlaces, PausePlaces
    <3>. QED
      BY <1>1, <1>3, <2>2, <2>3, <2>4, <2>1, <3>1, OwedStays DEF IInv
  <2>. QED
    BY <2>5, <2>6, <2>7, <2>8, <2>9, <2>10, <2>11, <2>12, <2>13, <2>14
<1>. QED
  BY <1>2, <1>3

\* Otherwise it awaits the Stopped event, and nothing else is.
LEMMA StopMarkInOrder ==
    ASSUME SeriesInv, StopMark
    PROVE  SeriesOrder' /\ AdvancesOwed'
<1>. USE DEF SeriesInv, SeriesOrder
<1>1. /\ UNCHANGED << currentIndex, mode, player, handler, last, budget >>
      /\ main.at = "stopMark" /\ main'.at \in {"idle", "stopAsync"}
  BY DEF StopMark, At, Done, Goes, IInv, TypeOK, MainType
<1>2. /\ transport'.playNext = transport.playNext /\ transport'.wanted = transport.wanted
      /\ transport'.stopFinalize \in {transport.stopFinalize, FALSE}
      /\ transport'.ready = transport.ready /\ transport'.index = transport.index
      /\ transport'.direct = transport.direct
      /\ transport'.stopEvents = 1
  BY DEF StopMark, IInv, TypeOK, TransportType
<1>3. /\ ~transport.wanted /\ ~transport.playNext /\ ~transport.ready /\ ~Waiting
      /\ Counted => handler.stops <= 0
      /\ last.call = "stop" /\ handler.stops \in -1 .. 1
  BY <1>1, Fields DEF StopOrder, StopPlaces, IInv
<1>4. HandlerOrder'
  BY <1>1, <1>2, <1>3 DEF HandlerOrder, Counted, Decided, Waiting
<1>5. PlayerOrder'
  BY <1>1, <1>2, <1>3 DEF PlayerOrder, Active, HasMedia
<1>6. FlagsOrder'
  BY <1>1, <1>2, <1>3 DEF FlagsOrder, Live, Active, Waiting
<1>7. PlayOrder'
  BY <1>1, <1>2, <1>3 DEF PlayOrder, Counted, HasMedia, PlayPlaces, PausePlaces
<1>8. RequestOrder'
  BY <1>1, <1>2, <1>3 DEF RequestOrder, Counted, Live, Active, Waiting, RequestPlaces
<1>9. SeenOrder'
  BY <1>1, <1>2, <1>3 DEF SeenOrder, AdvanceDue, Decided
<1>10. UpdateOrder'
  BY <1>1, <1>2, <1>3 DEF UpdateOrder, Live, Active, Waiting, HasMedia
<1>11. StopOrder'
  BY <1>1, <1>2, <1>3 DEF StopOrder, Counted, Decided, Waiting, StopPlaces, PlayPlaces,
     PausePlaces, RequestPlaces
<1>12. PollFindsNothing'
  BY <1>1, <1>2, <1>3 DEF PollFindsNothing, AdvanceDue, Decided, Waiting, HasMedia,
     PlayPlaces, RequestPlaces
<1>13. AdvancesOwed'
  <2>1. EndReported' => EndReported
    BY <1>1, <1>2, <1>3 DEF EndReported, Decided, PlayPlaces, PausePlaces
  <2>. QED
    BY <1>1, <1>2, <1>3, <2>1, OwedStays DEF IInv
<1>. QED
  BY <1>4, <1>5, <1>6, <1>7, <1>8, <1>9, <1>10, <1>11, <1>12, <1>13

\* And it asks the player to stop.
LEMMA StopAsyncInOrder ==
    ASSUME SeriesInv, StopAsync
    PROVE  SeriesOrder' /\ AdvancesOwed'
<1>. USE DEF SeriesInv, SeriesOrder
<1>1. /\ UNCHANGED << transport, currentIndex, mode, handler, last, budget >>
      /\ main.at = "stopAsync" /\ main'.at = "idle" /\ handler.step = "none"
  BY DEF StopAsync, At, Done, Unlocked, IInv, TypeOK, MainType
<1>2. /\ player'.state = player.state /\ player'.media = player.media
      /\ ~player'.starting
      /\ player'.ending <=> Active(player)
  BY DEF StopAsync, LibStopAsync, IInv, TypeOK, PlayerType, PlayerOrder
<1>3. ~transport.wanted /\ ~transport.playNext /\ last.call = "stop"
  BY <1>1 DEF StopOrder, StopPlaces
<1>4. HandlerOrder'
  BY <1>1, <1>2, <1>3 DEF HandlerOrder, Counted, Decided, Waiting
<1>5. PlayerOrder'
  BY <1>1, <1>2, <1>3 DEF PlayerOrder, Active, HasMedia
<1>6. FlagsOrder'
  BY <1>1, <1>2, <1>3 DEF FlagsOrder, Live, Active, Waiting
<1>7. PlayOrder'
  BY <1>1, <1>2, <1>3 DEF PlayOrder, Counted, HasMedia, PlayPlaces, PausePlaces
<1>8. RequestOrder'
  BY <1>1, <1>2, <1>3 DEF RequestOrder, Counted, Live, Active, Waiting, RequestPlaces
<1>9. SeenOrder'
  BY <1>1, <1>2, <1>3 DEF SeenOrder, AdvanceDue, Decided
<1>10. UpdateOrder'
  BY <1>1, <1>2, <1>3 DEF UpdateOrder, Live, Active, Waiting, HasMedia
<1>11. StopOrder'
  BY <1>1, <1>2, <1>3 DEF StopOrder, Counted, Decided, Waiting, StopPlaces, PlayPlaces,
     PausePlaces, RequestPlaces
<1>12. PollFindsNothing'
  BY <1>1, <1>2, <1>3 DEF PollFindsNothing, AdvanceDue, Decided, Waiting, HasMedia,
     PlayPlaces, RequestPlaces
<1>13. AdvancesOwed'
  <2>1. EndReported' => EndReported
    BY <1>1, <1>2, <1>3 DEF EndReported, Decided, PlayPlaces, PausePlaces, PlayerOrder
  <2>. QED
    BY <1>1, <1>2, <1>3, <2>1, OwedStays DEF IInv
<1>. QED
  BY <1>4, <1>5, <1>6, <1>7, <1>8, <1>9, <1>10, <1>11, <1>12, <1>13

-----------------------------------------------------------------------------
(* The application's calls keep the order                                    *)

\* A call comes when nothing is under way.
LEMMA CallSettled ==
    ASSUME SeriesInv, NEW call \in AllCommands, NEW item \in Indices \cup {Direct, NoMedia},
           Calls(call, item)
    PROVE  /\ UNCHANGED << currentIndex, mode, player, handler >>
           /\ main.at = "idle" /\ handler.step = "none" /\ last'.call = call
           /\ player.state \in {"Stopped", "Playing", "Paused"}
           /\ ~player.ending
           /\ player.pausing = "pause" => player.state = "Paused"
           /\ player.pausing = "resume" => player.state = "Playing"
           /\ transport.stopEvents = 0 /\ ~transport.stopFinalize
           /\ ~transport.ready /\ ~transport.playNext
           /\ budget'.advances = budget.advances /\ budget'.ends = budget.ends
           /\ budget'.faults = budget.faults /\ budget'.plan = budget.plan
<1>. USE DEF SeriesInv
<1>1. Settled
  BY DEF Calls, InSeries
<1>2. /\ player.state \in {"Stopped", "Playing", "Paused"}
      /\ ~player.ending
      /\ player.pausing = "pause" => player.state = "Paused"
      /\ player.pausing = "resume" => player.state = "Playing"
      /\ transport.stopEvents = 0 /\ ~transport.stopFinalize
      /\ ~transport.ready /\ ~transport.playNext /\ handler.step = "none"
  BY <1>1 DEF Settled, Unlocked, Transient, IInv, TypeOK, PlayerType, PlayerStates
<1>3. /\ budget'.advances = budget.advances /\ budget'.ends = budget.ends
      /\ budget'.faults = budget.faults /\ budget'.plan = budget.plan
  BY DEF Calls, IInv, TypeOK, BudgetType
<1>. QED
  BY <1>2, <1>3 DEF Calls, At

\* A request for a media finds no earlier one.
LEMMA RequestCallInOrder ==
    ASSUME SeriesInv, NEW call \in AllCommands, NEW item \in Indices \cup {Direct},
           NEW b, call # "stop", Calls(call, item) \/ Calls(call, NoMedia), Request(item, b),
           UNCHANGED transport
    PROVE  SeriesOrder' /\ AdvancesOwed'
<1>. USE DEF SeriesInv, SeriesOrder
<1>1. /\ UNCHANGED << currentIndex, mode, player, handler >>
      /\ main.at = "idle" /\ handler.step = "none" /\ last'.call = call
      /\ ~player.ending
      /\ transport.stopEvents = 0
      /\ budget'.advances = budget.advances /\ budget'.ends = budget.ends
      /\ budget'.faults = budget.faults
  BY CallSettled
<1>2. main'.at = "free"
  BY <1>1 DEF Request, IInv, TypeOK, MainType
<1>3. HandlerOrder'
  BY <1>1, <1>2 DEF HandlerOrder, Counted, Decided, Waiting
<1>4. PlayerOrder'
  BY <1>1, <1>2 DEF PlayerOrder, Active, HasMedia
<1>5. FlagsOrder'
  BY <1>1, <1>2 DEF FlagsOrder, Live, Active, Waiting
<1>6. PlayOrder'
  BY <1>1, <1>2 DEF PlayOrder, Counted, HasMedia, PlayPlaces, PausePlaces
<1>7. RequestOrder'
  BY <1>1, <1>2 DEF RequestOrder, Counted, Live, Active, Waiting, RequestPlaces
<1>8. SeenOrder'
  BY <1>1, <1>2 DEF SeenOrder, AdvanceDue, Decided
<1>9. UpdateOrder'
  BY <1>1, <1>2 DEF UpdateOrder, Live, Active, Waiting, HasMedia
<1>10. StopOrder'
  BY <1>1, <1>2 DEF StopOrder, Counted, Decided, Waiting, StopPlaces, PlayPlaces,
     PausePlaces, RequestPlaces
<1>11. PollFindsNothing'
  BY <1>1, <1>2 DEF PollFindsNothing, AdvanceDue, Decided, Waiting, HasMedia, PlayPlaces,
     RequestPlaces
<1>12. AdvancesOwed'
  BY <1>1, <1>2 DEF AdvancesOwed, EndReported, Decided, One, PlayPlaces, PausePlaces
<1>. QED
  BY <1>3, <1>4, <1>5, <1>6, <1>7, <1>8, <1>9, <1>10, <1>11, <1>12

\* play() and pause() find a player at rest.
LEMMA PlayCallInOrder ==
    ASSUME SeriesInv, CallPlay \/ CallPause
    PROVE  SeriesOrder' /\ AdvancesOwed'
<1>. USE DEF SeriesInv, SeriesOrder
<1>1. /\ UNCHANGED << currentIndex, mode, player, handler >>
      /\ main.at = "idle" /\ handler.step = "none" /\ last'.call # "stop"
      /\ player.state \in {"Stopped", "Playing", "Paused"}
      /\ ~player.ending
      /\ player.pausing = "pause" => player.state = "Paused"
      /\ player.pausing = "resume" => player.state = "Playing"
      /\ transport.stopEvents = 0 /\ ~transport.ready /\ ~transport.playNext
      /\ budget'.advances = budget.advances /\ budget'.ends = budget.ends
      /\ budget'.faults = budget.faults
  <2>1. PICK call \in {"play", "pause"} : Calls(call, NoMedia)
    BY DEF CallPlay, CallPause
  <2>. QED
    BY <2>1, CallSettled DEF AllCommands
<1>2. /\ transport'.playNext = transport.playNext
      /\ transport'.stopFinalize = transport.stopFinalize
      /\ transport'.stopAge = transport.stopAge
      /\ transport'.ready = transport.ready /\ transport'.index = transport.index
      /\ transport'.direct = transport.direct
      /\ transport'.stopEvents = transport.stopEvents
      /\ transport'.wanted => transport.wanted
      /\ main'.at \in {"idle", "play", "pauseState"}
  <2>1. CASE transport' = NotPlaying(transport) /\ UNCHANGED main
    BY <1>1, <2>1 DEF NotPlaying, IInv, TypeOK, TransportType
  <2>2. CASE UNCHANGED transport /\ (Goes("play") \/ Goes("pauseState"))
    BY <2>2 DEF Goes, IInv, TypeOK, MainType
  <2>. QED
    BY <2>1, <2>2 DEF CallPlay, CallPause
<1>3. HandlerOrder'
  BY <1>1, <1>2 DEF HandlerOrder, Counted, Decided, Waiting
<1>4. PlayerOrder'
  BY <1>1, <1>2 DEF PlayerOrder, Active, HasMedia
<1>5. FlagsOrder'
  BY <1>1, <1>2 DEF FlagsOrder, Live, Active, Waiting
<1>6. PlayOrder'
  BY <1>1, <1>2 DEF PlayOrder, Counted, HasMedia, PlayPlaces, PausePlaces
<1>7. RequestOrder'
  BY <1>1, <1>2 DEF RequestOrder, Counted, Live, Active, Waiting, RequestPlaces
<1>8. SeenOrder'
  BY <1>1, <1>2 DEF SeenOrder, AdvanceDue, Decided
<1>9. UpdateOrder'
  BY <1>1, <1>2 DEF UpdateOrder, Live, Active, Waiting, HasMedia
<1>10. StopOrder'
  BY <1>1, <1>2 DEF StopOrder, Counted, Decided, Waiting, StopPlaces, PlayPlaces,
     PausePlaces, RequestPlaces
<1>11. PollFindsNothing'
  BY <1>1, <1>2 DEF PollFindsNothing, AdvanceDue, Decided, Waiting, HasMedia, PlayPlaces,
     RequestPlaces
<1>12. AdvancesOwed'
  BY <1>1, <1>2 DEF AdvancesOwed, EndReported, Decided, One, PlayPlaces, PausePlaces
<1>. QED
  BY <1>3, <1>4, <1>5, <1>6, <1>7, <1>8, <1>9, <1>10, <1>11, <1>12

\* stop() withdraws every wish and every request.
LEMMA StopCallInOrder ==
    ASSUME SeriesInv, CallStop
    PROVE  SeriesOrder' /\ AdvancesOwed'
<1>. USE DEF SeriesInv, SeriesOrder
<1>1. /\ UNCHANGED << currentIndex, mode, player, handler >>
      /\ main.at = "idle" /\ handler.step = "none" /\ last'.call = "stop"
      /\ player.state \in {"Stopped", "Playing", "Paused"}
      /\ ~player.ending
      /\ transport.stopEvents = 0
      /\ budget'.advances = budget.advances /\ budget'.ends = budget.ends
      /\ budget'.faults = budget.faults
  BY CallSettled DEF CallStop, AllCommands
<1>2. /\ transport' = StopRequested(transport) /\ main'.at = "stopCheck"
  BY DEF CallStop, Goes, IInv, TypeOK, MainType
<1>. DEFINE t == NotPlaying(transport)
           u == ClearPendingActivation(t)
<1>3. t \in TransportType /\ t.wanted = FALSE /\ t.stopEvents = transport.stopEvents
  BY NotPlayingTyped DEF NotPlaying, IInv, TypeOK, TransportType
<1>4. /\ u \in TransportType /\ u.wanted = FALSE /\ u.stopEvents = transport.stopEvents
      /\ u.index = NoIndex /\ u.direct = FALSE /\ u.ready = FALSE
  <2>. HIDE DEF t
  <2>. QED
    BY <1>3, ClearTyped DEF ClearPendingActivation, TransportType
<1>5. /\ transport'.playNext = FALSE /\ transport'.wanted = FALSE
      /\ transport'.stopFinalize = FALSE
      /\ transport'.ready = FALSE /\ transport'.index = NoIndex /\ transport'.direct = FALSE
      /\ transport'.stopEvents = transport.stopEvents
  <2>. HIDE DEF u
  <2>1. transport' = [u EXCEPT !.playNext = FALSE, !.stopFinalize = FALSE,
                               !.stoppedLatched = TRUE]
    BY <1>2 DEF StopRequested, u
  <2>. QED
    BY <1>4, <2>1 DEF TransportType
<1>. HIDE DEF t, u
<1>6. /\ NoIndex < 0 /\ ~Waiting' /\ ~transport'.playNext /\ ~transport'.wanted
      /\ ~transport'.ready /\ transport'.stopEvents <= 0 /\ ~Counted' /\ ~Decided'
  BY <1>1, <1>5 DEF NoIndex, Waiting, Counted, Decided
<1>7. HandlerOrder'
  BY <1>1, <1>2, <1>5, <1>6 DEF HandlerOrder, Counted, Decided, Waiting
<1>8. PlayerOrder'
  BY <1>1, <1>2, <1>5, <1>6 DEF PlayerOrder, Active, HasMedia
<1>9. FlagsOrder'
  BY <1>1, <1>2, <1>5, <1>6 DEF FlagsOrder, Live, Active, Waiting
<1>10. PlayOrder'
  BY <1>1, <1>2, <1>5, <1>6 DEF PlayOrder, Counted, HasMedia, PlayPlaces, PausePlaces
<1>11. RequestOrder'
  BY <1>1, <1>2, <1>5, <1>6 DEF RequestOrder, Counted, Live, Active, Waiting, RequestPlaces
<1>12. SeenOrder'
  BY <1>1, <1>2, <1>5, <1>6 DEF SeenOrder, AdvanceDue, Decided
<1>13. UpdateOrder'
  BY <1>1, <1>2, <1>5, <1>6 DEF UpdateOrder, Live, Active, Waiting, HasMedia
<1>14. StopOrder'
  BY <1>1, <1>2, <1>6 DEF StopOrder, StopPlaces, PlayPlaces, PausePlaces, RequestPlaces
<1>15. PollFindsNothing'
  BY <1>1, <1>2, <1>5, <1>6 DEF PollFindsNothing, AdvanceDue, Decided, Waiting, HasMedia,
     PlayPlaces, RequestPlaces
<1>16. AdvancesOwed'
  BY <1>1, <1>2, <1>5, <1>6, Fields DEF AdvancesOwed, EndReported, Decided, One, PlayPlaces,
     PausePlaces, IInv
<1>. QED
  BY <1>7, <1>8, <1>9, <1>10, <1>11, <1>12, <1>13, <1>14, <1>15, <1>16

\* So does every call.
LEMMA CallInOrder ==
    ASSUME SeriesInv, Call
    PROVE  SeriesOrder' /\ AdvancesOwed'
<1>1. CASE CallPlayIndex
  <2>1. PICK i \in Indices :
           Calls("playIndex", i) /\ Request(i, TRUE) /\ UNCHANGED transport
    BY <1>1 DEF CallPlayIndex
  <2>. QED
    BY <2>1, RequestCallInOrder DEF AllCommands
<1>2. CASE CallSelect
  <2>1. PICK i \in Indices :
           Calls("select", i) /\ Request(i, FALSE) /\ UNCHANGED transport
    BY <1>2 DEF CallSelect
  <2>. QED
    BY <2>1, RequestCallInOrder DEF AllCommands
<1>3. CASE CallDirect
  BY <1>3, RequestCallInOrder DEF CallDirect, AllCommands
<1>4. CASE CallNext
  <2>. DEFINE i == IF currentIndex + 1 \in Indices THEN currentIndex + 1 ELSE 0
  <2>1. i \in Indices
    BY <1>4, SizeAssumption DEF CallNext, Indices
  <2>2. Calls("next", NoMedia) /\ Request(i, transport.wanted) /\ UNCHANGED transport
    BY <1>4 DEF CallNext
  <2>. HIDE DEF i
  <2>. QED
    BY <2>1, <2>2, RequestCallInOrder DEF AllCommands
<1>5. CASE CallPrevious
  <2>. DEFINE i == IF currentIndex > 0 THEN currentIndex - 1 ELSE PlaylistSize - 1
  <2>1. i \in Indices
    BY <1>5, SizeAssumption DEF CallPrevious, Indices, NoIndex, SeriesInv, IInv, TypeOK
  <2>2. Calls("previous", NoMedia) /\ Request(i, transport.wanted) /\ UNCHANGED transport
    BY <1>5 DEF CallPrevious
  <2>. HIDE DEF i
  <2>. QED
    BY <2>1, <2>2, RequestCallInOrder DEF AllCommands
<1>. QED
  BY <1>1, <1>2, <1>3, <1>4, <1>5, PlayCallInOrder, StopCallInOrder DEF Call

-----------------------------------------------------------------------------
(* update() keeps the order                                                  *)

\* update() decides to act on a manual stop only when nothing is wanted, and not on a
\* player that an advance is asked for.
LEMMA UpdateInOrder ==
    ASSUME SeriesInv, Update
    PROVE  SeriesOrder' /\ AdvancesOwed'
<1>. USE DEF SeriesInv, SeriesOrder
<1>1. /\ UNCHANGED << transport, currentIndex, mode, player, handler, last, budget >>
      /\ main.at = "idle"
  BY DEF Update, At
<1>2. /\ main'.at \in {"manualStop", "poll"}
      /\ main'.at = "manualStop" => handler.step = "none"
      /\ main'.at = "manualStop" /\ (main'.reset \/ main'.retry \/ main'.finalize) =>
            ~transport.wanted
      /\ main'.at = "manualStop" /\ (main'.retry \/ main'.finalize) =>
            Inactive(player.state) \/ transport.stopAge # "unset"
  <2>. DEFINE d == ManualStopDecision(transport, HasMedia, Inactive(player.state))
  <2>1. /\ d.reset \/ d.retry \/ d.finalize => ~transport.wanted
        /\ d.retry \/ d.finalize => Inactive(player.state) \/ transport.stopAge # "unset"
    BY DEF ManualStopDecision, ManualStopIdle, IInv, TypeOK, TransportType
  <2>2. \/ Goes("poll")
        \/ /\ Unlocked
           /\ main' = [main EXCEPT !.at = "manualStop", !.reset = d.reset,
                                   !.retry = d.retry, !.finalize = d.finalize]
    BY DEF Update
  <2>. HIDE DEF d
  <2>3. ASSUME NEW a, NEW b, NEW c,
               main' = [main EXCEPT !.at = "manualStop", !.reset = a, !.retry = b,
                                    !.finalize = c]
        PROVE  main'.at = "manualStop" /\ main'.reset = a /\ main'.retry = b /\ main'.finalize = c
    BY <2>3 DEF IInv, TypeOK, MainType
  <2>4. CASE Goes("poll")
    BY <2>4 DEF Goes, IInv, TypeOK, MainType
  <2>5. CASE /\ Unlocked
             /\ main' = [main EXCEPT !.at = "manualStop", !.reset = d.reset,
                                     !.retry = d.retry, !.finalize = d.finalize]
    <3>1. /\ main'.at = "manualStop" /\ main'.reset = d.reset /\ main'.retry = d.retry
          /\ main'.finalize = d.finalize
      BY <2>3, <2>5, Zenon
    <3>. QED
      BY <2>1, <2>5, <3>1 DEF Unlocked
  <2>. QED
    BY <2>2, <2>4, <2>5
<1>3. HandlerOrder'
  BY <1>1, <1>2 DEF HandlerOrder, Counted, Decided, Waiting
<1>4. PlayerOrder'
  BY <1>1, <1>2 DEF PlayerOrder, Active, HasMedia
<1>5. FlagsOrder'
  BY <1>1, <1>2 DEF FlagsOrder, Live, Active, Waiting
<1>6. PlayOrder'
  BY <1>1, <1>2 DEF PlayOrder, Counted, HasMedia, PlayPlaces, PausePlaces
<1>7. RequestOrder'
  BY <1>1, <1>2 DEF RequestOrder, Counted, Live, Active, Waiting, RequestPlaces
<1>8. SeenOrder'
  BY <1>1, <1>2 DEF SeenOrder, AdvanceDue, Decided
<1>9. UpdateOrder'
  BY <1>1, <1>2 DEF UpdateOrder, Live, Active, Waiting, HasMedia, FlagsOrder
<1>10. StopOrder'
  BY <1>1, <1>2 DEF StopOrder, Counted, Decided, Waiting, StopPlaces, PlayPlaces,
     PausePlaces, RequestPlaces
<1>11. PollFindsNothing'
  BY <1>1, <1>2 DEF PollFindsNothing, AdvanceDue, Decided, Waiting, HasMedia, PlayPlaces,
     RequestPlaces
<1>12. AdvancesOwed'
  <2>1. EndReported' => EndReported
    BY <1>1, <1>2 DEF EndReported, Decided, PlayPlaces, PausePlaces
  <2>. QED
    BY <1>1, <1>2, <2>1, OwedStays DEF IInv
<1>. QED
  BY <1>3, <1>4, <1>5, <1>6, <1>7, <1>8, <1>9, <1>10, <1>11, <1>12

\* What it does of it leaves what is wanted alone.
LEMMA ActedInOrder ==
    ASSUME TypeOK
    PROVE  LET t == ManualStopActed(transport) IN
           /\ t.playNext = transport.playNext /\ t.wanted = transport.wanted
           /\ t.ready = transport.ready /\ t.index = transport.index
           /\ t.direct = transport.direct
           /\ t.stopEvents \in {transport.stopEvents, 0}
           /\ t.stopEvents # transport.stopEvents => main.reset \/ main.finalize
           /\ t.stopFinalize => transport.stopFinalize \/ main.finalize
           /\ t.stopAge \in {transport.stopAge, "unset"}
<1>. DEFINE reset == IF main.reset
                     THEN WithoutStopTimer([transport EXCEPT !.stopInProgress = FALSE,
                                                             !.stopEvents = 0])
                     ELSE transport
            retried == IF main.retry THEN [reset EXCEPT !.retryIssued = TRUE] ELSE reset
            t == IF main.finalize
                 THEN WithoutStopTimer([retried EXCEPT !.stopEvents = 0, !.stopFinalize = TRUE])
                 ELSE retried
<1>1. /\ reset \in TransportType
      /\ reset.playNext = transport.playNext /\ reset.wanted = transport.wanted
      /\ reset.ready = transport.ready /\ reset.index = transport.index
      /\ reset.direct = transport.direct
      /\ reset.stopEvents \in {transport.stopEvents, 0}
      /\ reset.stopEvents # transport.stopEvents => main.reset
      /\ reset.stopFinalize = transport.stopFinalize
      /\ reset.stopAge \in {transport.stopAge, "unset"}
  <2>. DEFINE u == [transport EXCEPT !.stopInProgress = FALSE, !.stopEvents = 0]
  <2>1. transport \in TransportType
    BY DEF TypeOK
  <2>2. u \in TransportType
    <3>1. 0 \in -1 .. 1 /\ FALSE \in BOOLEAN
      OBVIOUS
    <3>. QED
      BY <2>1, <3>1, StopsTyped
  <2>3. /\ u.playNext = transport.playNext /\ u.wanted = transport.wanted
        /\ u.ready = transport.ready /\ u.index = transport.index
        /\ u.direct = transport.direct /\ u.stopEvents = 0
        /\ u.stopFinalize = transport.stopFinalize
        /\ u.stopAge = transport.stopAge
    BY <2>1 DEF TransportType
  <2>. HIDE DEF u
  <2>. DEFINE v == WithoutStopTimer(u)
  <2>4. /\ v \in TransportType
        /\ v.playNext = u.playNext /\ v.wanted = u.wanted
        /\ v.ready = u.ready /\ v.index = u.index
        /\ v.direct = u.direct /\ v.stopEvents = u.stopEvents
        /\ v.stopFinalize = u.stopFinalize
        /\ v.stopAge = "unset"
    BY <2>2, TimerTyped DEF WithoutStopTimer, TransportType
  <2>5. reset = IF main.reset THEN v ELSE transport
    BY DEF u
  <2>. HIDE DEF v, reset
  <2>. QED
    BY <2>1, <2>3, <2>4, <2>5
<1>2. /\ retried \in TransportType
      /\ retried.playNext = transport.playNext /\ retried.wanted = transport.wanted
      /\ retried.ready = transport.ready /\ retried.index = transport.index
      /\ retried.direct = transport.direct
      /\ retried.stopEvents = reset.stopEvents
      /\ retried.stopFinalize = transport.stopFinalize
      /\ retried.stopAge = reset.stopAge
  <2>. HIDE DEF reset
  <2>. DEFINE v == [reset EXCEPT !.retryIssued = TRUE]
  <2>1. /\ v \in TransportType
        /\ v.playNext = reset.playNext /\ v.wanted = reset.wanted
        /\ v.ready = reset.ready /\ v.index = reset.index
        /\ v.direct = reset.direct /\ v.stopEvents = reset.stopEvents
        /\ v.stopFinalize = reset.stopFinalize /\ v.stopAge = reset.stopAge
    BY <1>1 DEF TransportType
  <2>2. retried = IF main.retry THEN v ELSE reset
    OBVIOUS
  <2>. HIDE DEF v, retried
  <2>. QED
    BY <1>1, <2>1, <2>2
<1>3. /\ t.playNext = retried.playNext /\ t.wanted = retried.wanted
      /\ t.ready = retried.ready /\ t.index = retried.index
      /\ t.direct = retried.direct
      /\ t.stopEvents = IF main.finalize THEN 0 ELSE retried.stopEvents
      /\ t.stopFinalize => retried.stopFinalize \/ main.finalize
      /\ t.stopAge \in {retried.stopAge, "unset"}
  <2>. HIDE DEF retried
  <2>. QED
    BY <1>2 DEF WithoutStopTimer, TransportType
<1>4. ManualStopActed(transport) = t
  BY DEF ManualStopActed
<1>. HIDE DEF reset, retried, t
<1>. QED
  BY <1>1, <1>2, <1>3, <1>4

\* It retries, finishes or resets a stop of a player that nobody wants to play.
LEMMA ManualStopInOrder ==
    ASSUME SeriesInv, UpdateManualStop
    PROVE  SeriesOrder' /\ AdvancesOwed'
<1>. USE DEF SeriesInv, SeriesOrder
<1>1. /\ UNCHANGED << currentIndex, mode, handler, last, budget >>
      /\ main.at = "manualStop" /\ main'.at = "poll"
  BY DEF UpdateManualStop, At, IInv, TypeOK, MainType
<1>2. /\ transport'.playNext = transport.playNext /\ transport'.wanted = transport.wanted
      /\ transport'.ready = transport.ready /\ transport'.index = transport.index
      /\ transport'.direct = transport.direct
      /\ transport'.stopEvents \in {transport.stopEvents, 0}
      /\ transport'.stopEvents # transport.stopEvents => main.reset \/ main.finalize
      /\ transport'.stopFinalize => transport.stopFinalize \/ main.finalize
      /\ transport'.stopAge \in {transport.stopAge, "unset"}
  BY ActedInOrder DEF UpdateManualStop, IInv
<1>3. /\ player'.state = player.state /\ player'.media = player.media
      /\ ~player'.starting
      /\ main.retry => (player'.ending <=> Active(player))
      /\ ~main.retry => (player'.ending <=> player.ending)
  BY DEF UpdateManualStop, LibStopAsync, IInv, TypeOK, PlayerType, PlayerOrder
<1>4. /\ main.reset \/ main.retry \/ main.finalize => ~transport.wanted
      /\ main.retry \/ main.finalize => (Live => ~transport.playNext)
  BY <1>1 DEF UpdateOrder
<1>5. transport.stopEvents \in -1 .. 1 /\ handler.stops \in -1 .. 1
  BY Fields DEF IInv
<1>6. HandlerOrder'
  BY <1>1, <1>2, <1>3, <1>4, <1>5 DEF HandlerOrder, Counted, Decided, Waiting
<1>7. PlayerOrder'
  BY <1>1, <1>2, <1>3, <1>4, <1>5 DEF PlayerOrder, Active, HasMedia
<1>8. FlagsOrder'
  BY <1>1, <1>2, <1>3, <1>4, <1>5 DEF FlagsOrder, Live, Active, Waiting
<1>9. PlayOrder'
  BY <1>1, <1>2, <1>3, <1>4, <1>5 DEF PlayOrder, Counted, HasMedia, PlayPlaces, PausePlaces
<1>10. RequestOrder'
  BY <1>1, <1>2, <1>3, <1>4, <1>5 DEF RequestOrder, Counted, Live, Active, Waiting,
     RequestPlaces
<1>11. SeenOrder'
  BY <1>1, <1>2, <1>3, <1>4, <1>5 DEF SeenOrder, AdvanceDue, Decided
<1>12. UpdateOrder'
  BY <1>1, <1>2, <1>3, <1>4, <1>5 DEF UpdateOrder, Live, Active, Waiting, HasMedia
<1>13. StopOrder'
  BY <1>1, <1>2, <1>3, <1>4, <1>5 DEF StopOrder, Counted, Decided, Waiting, StopPlaces,
     PlayPlaces, PausePlaces, RequestPlaces
<1>14. PollFindsNothing'
  BY <1>1, <1>2, <1>3, <1>4, <1>5 DEF PollFindsNothing, AdvanceDue, Decided, Waiting,
     HasMedia, PlayPlaces, RequestPlaces
<1>15. AdvancesOwed'
  <2>1. EndReported' => EndReported
    BY <1>1, <1>2, <1>3, <1>4, <1>5 DEF EndReported, Decided, PlayPlaces, PausePlaces,
       Active, Inactive
  <2>. QED
    BY <1>1, <1>2, <1>3, <1>4, <1>5, <2>1, OwedStays DEF IInv
<1>. QED
  BY <1>6, <1>7, <1>8, <1>9, <1>10, <1>11, <1>12, <1>13, <1>14, <1>15

\* The poll of update() comes when a media is wanted and no request waits ...
LEMMA PollFlagsInOrder ==
    ASSUME SeriesInv, UpdatePollFlags
    PROVE  SeriesOrder' /\ AdvancesOwed'
<1>. USE DEF SeriesInv, SeriesOrder
<1>1. /\ UNCHANGED << transport, currentIndex, mode, player, handler, last, budget >>
      /\ main.at = "poll" /\ main'.at \in {"pollState", "finalize"}
      /\ main'.at = "pollState" => PollApplies(transport)
  BY DEF UpdatePollFlags, At, Goes, IInv, TypeOK, MainType
<1>2. main'.at = "pollState" => transport.wanted /\ HasMedia /\ ~Waiting
  BY <1>1, Fields DEF PollApplies, Waiting, IInv
<1>3. HandlerOrder'
  BY <1>1, <1>2 DEF HandlerOrder, Counted, Decided, Waiting
<1>4. PlayerOrder'
  BY <1>1, <1>2 DEF PlayerOrder, Active, HasMedia
<1>5. FlagsOrder'
  BY <1>1, <1>2 DEF FlagsOrder, Live, Active, Waiting
<1>6. PlayOrder'
  BY <1>1, <1>2 DEF PlayOrder, Counted, HasMedia, PlayPlaces, PausePlaces
<1>7. RequestOrder'
  BY <1>1, <1>2 DEF RequestOrder, Counted, Live, Active, Waiting, RequestPlaces
<1>8. SeenOrder'
  BY <1>1, <1>2 DEF SeenOrder, AdvanceDue, Decided
<1>9. UpdateOrder'
  BY <1>1, <1>2 DEF UpdateOrder, Live, Active, Waiting, HasMedia
<1>10. StopOrder'
  BY <1>1, <1>2 DEF StopOrder, Counted, Decided, Waiting, StopPlaces, PlayPlaces,
     PausePlaces, RequestPlaces
<1>11. PollFindsNothing'
  BY <1>1, <1>2 DEF PollFindsNothing, AdvanceDue, Decided, Waiting, HasMedia, PlayPlaces,
     RequestPlaces
<1>12. AdvancesOwed'
  <2>1. EndReported' => EndReported
    BY <1>1, <1>2 DEF EndReported, Decided, PlayPlaces, PausePlaces
  <2>. QED
    BY <1>1, <1>2, <2>1, OwedStays DEF IInv
<1>. QED
  BY <1>3, <1>4, <1>5, <1>6, <1>7, <1>8, <1>9, <1>10, <1>11, <1>12

\* ... and finds no end that is not known already.
LEMMA PollStateInOrder ==
    ASSUME SeriesInv, UpdatePollState
    PROVE  SeriesOrder' /\ AdvancesOwed'
<1>. USE DEF SeriesInv, SeriesOrder
<1>1. /\ UNCHANGED << currentIndex, mode, player, handler, last, budget >>
      /\ main.at = "pollState" /\ main'.at = "finalize" /\ handler.step = "none"
  BY DEF UpdatePollState, At, Goes, Unlocked, IInv, TypeOK, MainType
<1>2. Inactive(player.state) => transport.playNext
  BY <1>1 DEF UpdateOrder, PollFindsNothing, AdvanceDue, Decided, PlayPlaces, RequestPlaces
<1>3. /\ transport'.playNext = transport.playNext /\ transport'.wanted = transport.wanted
      /\ transport'.ready = transport.ready /\ transport'.index = transport.index
      /\ transport'.direct = transport.direct
      /\ transport'.stopEvents = transport.stopEvents
      /\ transport'.stopFinalize = transport.stopFinalize
      /\ transport'.stopAge = transport.stopAge
  <2>1. ASSUME NEW a, transport' = [transport EXCEPT !.playNext = a]
        PROVE  /\ transport'.playNext = a /\ transport'.wanted = transport.wanted
               /\ transport'.ready = transport.ready /\ transport'.index = transport.index
               /\ transport'.direct = transport.direct
               /\ transport'.stopEvents = transport.stopEvents
               /\ transport'.stopFinalize = transport.stopFinalize
               /\ transport'.stopAge = transport.stopAge
    BY <2>1 DEF IInv, TypeOK, TransportType
  <2>. DEFINE a == transport.playNext \/ Inactive(player.state)
  <2>2. transport' = [transport EXCEPT !.playNext = a]
    BY DEF UpdatePollState
  <2>3. a = transport.playNext
    BY <1>2, Fields DEF IInv
  <2>. HIDE DEF a
  <2>. QED
    BY <2>1, <2>2, <2>3, Zenon
<1>4. HandlerOrder'
  BY <1>1, <1>3 DEF HandlerOrder, Counted, Decided, Waiting
<1>5. PlayerOrder'
  BY <1>1, <1>3 DEF PlayerOrder, Active, HasMedia
<1>6. FlagsOrder'
  BY <1>1, <1>3 DEF FlagsOrder, Live, Active, Waiting
<1>7. PlayOrder'
  BY <1>1, <1>3 DEF PlayOrder, Counted, HasMedia, PlayPlaces, PausePlaces
<1>8. RequestOrder'
  BY <1>1, <1>3 DEF RequestOrder, Counted, Live, Active, Waiting, RequestPlaces
<1>9. SeenOrder'
  BY <1>1, <1>3 DEF SeenOrder, AdvanceDue, Decided
<1>10. UpdateOrder'
  BY <1>1, <1>3 DEF UpdateOrder, Live, Active, Waiting, HasMedia
<1>11. StopOrder'
  BY <1>1, <1>3 DEF StopOrder, Counted, Decided, Waiting, StopPlaces, PlayPlaces,
     PausePlaces, RequestPlaces
<1>12. PollFindsNothing'
  BY <1>1, <1>3 DEF PollFindsNothing, AdvanceDue, Decided, Waiting, HasMedia, PlayPlaces,
     RequestPlaces
<1>13. AdvancesOwed'
  <2>1. EndReported' => EndReported
    BY <1>1, <1>3 DEF EndReported, Decided, PlayPlaces, PausePlaces
  <2>. QED
    BY <1>1, <1>3, <2>1, OwedStays DEF IInv
<1>. QED
  BY <1>4, <1>5, <1>6, <1>7, <1>8, <1>9, <1>10, <1>11, <1>12, <1>13

\* A stop that is complete was a stop of a player that nobody wants to play.
LEMMA FinalizeInOrder ==
    ASSUME SeriesInv, UpdateFinalize
    PROVE  SeriesOrder' /\ AdvancesOwed'
<1>. USE DEF SeriesInv, SeriesOrder
<1>1. /\ UNCHANGED << currentIndex, mode, player, handler, last, budget >>
      /\ main.at = "finalize"
  BY DEF UpdateFinalize, At
<1>2. CASE transport.stopFinalize
  <2>1. /\ transport' = WithoutStopTimer(
              [transport EXCEPT !.stopFinalize = FALSE, !.stopInProgress = FALSE,
                                !.stopEvents = 0])
        /\ main'.at = "clear"
    BY <1>2 DEF UpdateFinalize, Goes, IInv, TypeOK, MainType
  <2>2. /\ transport'.playNext = transport.playNext /\ transport'.wanted = transport.wanted
        /\ transport'.stopFinalize = FALSE /\ transport'.stopAge = "unset"
        /\ transport'.ready = transport.ready /\ transport'.index = transport.index
        /\ transport'.direct = transport.direct
        /\ transport'.stopEvents = 0
    BY <2>1 DEF WithoutStopTimer, IInv, TypeOK, TransportType
  <2>3. ~transport.wanted /\ (Live => ~transport.playNext)
    BY <1>2 DEF FlagsOrder
  <2>4. HandlerOrder'
    BY <1>1, <2>1, <2>2, <2>3 DEF HandlerOrder, Counted, Decided, Waiting
  <2>5. PlayerOrder'
    BY <1>1, <2>1, <2>2, <2>3 DEF PlayerOrder, Active, HasMedia
  <2>6. FlagsOrder'
    BY <1>1, <2>1, <2>2, <2>3 DEF FlagsOrder, Live, Active, Waiting
  <2>7. PlayOrder'
    BY <1>1, <2>1, <2>2, <2>3 DEF PlayOrder, Counted, HasMedia, PlayPlaces, PausePlaces
  <2>8. RequestOrder'
    BY <1>1, <2>1, <2>2, <2>3 DEF RequestOrder, Counted, Live, Active, Waiting, RequestPlaces
  <2>9. SeenOrder'
    BY <1>1, <2>1, <2>2, <2>3 DEF SeenOrder, AdvanceDue, Decided
  <2>10. UpdateOrder'
    BY <1>1, <2>1, <2>2, <2>3 DEF UpdateOrder, Live, Active, Waiting, HasMedia
  <2>11. StopOrder'
    BY <1>1, <2>1, <2>2, <2>3 DEF StopOrder, Counted, Decided, Waiting, StopPlaces,
       PlayPlaces, PausePlaces, RequestPlaces
  <2>12. PollFindsNothing'
    BY <1>1, <2>1, <2>2, <2>3 DEF PollFindsNothing, AdvanceDue, Decided, Waiting, HasMedia,
       PlayPlaces, RequestPlaces
  <2>13. AdvancesOwed'
    <3>1. EndReported' => EndReported
      BY <1>1, <2>1, <2>2, <2>3 DEF EndReported, Decided, PlayPlaces, PausePlaces
    <3>. QED
      BY <1>1, <2>1, <2>2, <2>3, <3>1, OwedStays DEF IInv
  <2>. QED
    BY <2>4, <2>5, <2>6, <2>7, <2>8, <2>9, <2>10, <2>11, <2>12, <2>13

<1>3. CASE ~transport.stopFinalize
  <2>1. UNCHANGED transport /\ main'.at = "activate"
    BY <1>3 DEF UpdateFinalize, Goes, IInv, TypeOK, MainType
  <2>2. HandlerOrder'
    BY <1>1, <2>1 DEF HandlerOrder, Counted, Decided, Waiting
  <2>3. PlayerOrder'
    BY <1>1, <2>1 DEF PlayerOrder, Active, HasMedia
  <2>4. FlagsOrder'
    BY <1>1, <2>1 DEF FlagsOrder, Live, Active, Waiting
  <2>5. PlayOrder'
    BY <1>1, <2>1 DEF PlayOrder, Counted, HasMedia, PlayPlaces, PausePlaces
  <2>6. RequestOrder'
    BY <1>1, <2>1 DEF RequestOrder, Counted, Live, Active, Waiting, RequestPlaces
  <2>7. SeenOrder'
    BY <1>1, <2>1 DEF SeenOrder, AdvanceDue, Decided
  <2>8. UpdateOrder'
    BY <1>1, <2>1 DEF UpdateOrder, Live, Active, Waiting, HasMedia
  <2>9. StopOrder'
    BY <1>1, <2>1 DEF StopOrder, Counted, Decided, Waiting, StopPlaces, PlayPlaces,
       PausePlaces, RequestPlaces
  <2>10. PollFindsNothing'
    BY <1>1, <2>1 DEF PollFindsNothing, AdvanceDue, Decided, Waiting, HasMedia, PlayPlaces,
       RequestPlaces
  <2>11. AdvancesOwed'
    <3>1. EndReported' => EndReported
      BY <1>1, <2>1 DEF EndReported, Decided, PlayPlaces, PausePlaces
    <3>. QED
      BY <1>1, <2>1, <3>1, OwedStays DEF IInv
  <2>. QED
    BY <2>2, <2>3, <2>4, <2>5, <2>6, <2>7, <2>8, <2>9, <2>10, <2>11

<1>. QED
  BY <1>2, <1>3

\* It clears a media that nobody wants to play.
LEMMA ClearInOrder ==
    ASSUME SeriesInv, UpdateClear \/ UpdateEnd
    PROVE  SeriesOrder' /\ AdvancesOwed'
<1>. USE DEF SeriesInv, SeriesOrder
<1>1. /\ UNCHANGED << currentIndex, mode, handler, last, budget >>
      /\ main.at \in {"clear", "endClear"} /\ main'.at \in {"activate", "idle"}
      /\ handler.step = "none"
      /\ transport' = [transport EXCEPT !.audioPaused = FALSE]
      /\ player' = ClearedMedia(player)
  BY DEF UpdateClear, UpdateEnd, ClearsMedia, At, Goes, Done, Unlocked, IInv, TypeOK, MainType
<1>2. /\ transport'.playNext = transport.playNext /\ transport'.wanted = transport.wanted
      /\ transport'.ready = transport.ready /\ transport'.index = transport.index
      /\ transport'.direct = transport.direct
      /\ transport'.stopEvents = transport.stopEvents
      /\ transport'.stopFinalize = transport.stopFinalize
      /\ transport'.stopAge = transport.stopAge
  BY <1>1 DEF IInv, TypeOK, TransportType
<1>3. ~transport.wanted /\ (Active(player) => ~transport.playNext)
  BY <1>1 DEF UpdateOrder, Live
<1>4. /\ player'.state = player.state /\ player'.media = NoMedia
      /\ ~player'.starting /\ (player'.ending => Active(player))
      /\ player.ending => player'.ending
      /\ Active(player) => player'.ending
  <2>1. CASE HasMedia
    BY <1>1, <2>1
       DEF ClearedMedia, LibSetMedia, HasMedia, PlayerOrder, IInv, TypeOK, PlayerType
  <2>2. CASE ~HasMedia
    BY <1>1, <2>2 DEF ClearedMedia, HasMedia, PlayerOrder, Active
  <2>. QED
    BY <2>1, <2>2
<1>5. HandlerOrder'
  BY <1>1, <1>2, <1>3, <1>4 DEF HandlerOrder, Counted, Decided, Waiting
<1>6. PlayerOrder'
  BY <1>1, <1>2, <1>3, <1>4 DEF PlayerOrder, Active, HasMedia
<1>7. FlagsOrder'
  BY <1>1, <1>2, <1>3, <1>4 DEF FlagsOrder, Live, Active, Waiting
<1>8. PlayOrder'
  BY <1>1, <1>2, <1>3, <1>4 DEF PlayOrder, Counted, HasMedia, PlayPlaces, PausePlaces
<1>9. RequestOrder'
  BY <1>1, <1>2, <1>3, <1>4 DEF RequestOrder, Counted, Live, Active, Waiting, RequestPlaces
<1>10. SeenOrder'
  BY <1>1, <1>2, <1>3, <1>4 DEF SeenOrder, AdvanceDue, Decided
<1>11. UpdateOrder'
  BY <1>1, <1>2, <1>3, <1>4 DEF UpdateOrder, Live, Active, Waiting, HasMedia
<1>12. StopOrder'
  BY <1>1, <1>2, <1>3, <1>4 DEF StopOrder, Counted, Decided, Waiting, StopPlaces, PlayPlaces,
     PausePlaces, RequestPlaces
<1>13. PollFindsNothing'
  BY <1>1, <1>2, <1>3, <1>4 DEF PollFindsNothing, AdvanceDue, Decided, Waiting, HasMedia,
     PlayPlaces, RequestPlaces
<1>14. AdvancesOwed'
  <2>1. EndReported' => EndReported
    BY <1>1, <1>2, <1>3, <1>4 DEF EndReported, Decided, PlayPlaces, PausePlaces
  <2>. QED
    BY <1>1, <1>2, <1>3, <1>4, <2>1, OwedStays DEF IInv
<1>. QED
  BY <1>5, <1>6, <1>7, <1>8, <1>9, <1>10, <1>11, <1>12, <1>13, <1>14

\* What it activates finds a stopped player, and the request is an earlier call's.
LEMMA UpdateActivateInOrder ==
    ASSUME SeriesInv, UpdateActivate
    PROVE  SeriesOrder' /\ AdvancesOwed'
<1>. USE DEF SeriesInv, SeriesOrder
<1>. DEFINE t == [transport EXCEPT !.ready = FALSE, !.index = NoIndex, !.shouldPlay = FALSE]
            u == ClearPendingActivation(t)
<1>1. /\ UNCHANGED << mode, handler, last >> /\ main.at = "activate" /\ main'.at = "advance"
  BY DEF UpdateActivate, At, Goes, IInv, TypeOK, MainType
<1>2. CASE ~transport.ready
  <2>1. UNCHANGED << transport, currentIndex, player, budget >>
    BY <1>2 DEF UpdateActivate
  <2>2. HandlerOrder'
    BY <1>1, <2>1 DEF HandlerOrder, Counted, Decided, Waiting
  <2>3. PlayerOrder'
    BY <1>1, <2>1 DEF PlayerOrder, Active, HasMedia
  <2>4. FlagsOrder'
    BY <1>1, <2>1 DEF FlagsOrder, Live, Active, Waiting
  <2>5. PlayOrder'
    BY <1>1, <2>1 DEF PlayOrder, Counted, HasMedia, PlayPlaces, PausePlaces
  <2>6. RequestOrder'
    BY <1>1, <2>1 DEF RequestOrder, Counted, Live, Active, Waiting, RequestPlaces
  <2>7. SeenOrder'
    BY <1>1, <2>1 DEF SeenOrder, AdvanceDue, Decided
  <2>8. UpdateOrder'
    BY <1>1, <2>1 DEF UpdateOrder, Live, Active, Waiting, HasMedia
  <2>9. StopOrder'
    BY <1>1, <2>1 DEF StopOrder, Counted, Decided, Waiting, StopPlaces, PlayPlaces,
       PausePlaces, RequestPlaces
  <2>10. PollFindsNothing'
    BY <1>1, <2>1 DEF PollFindsNothing, AdvanceDue, Decided, Waiting, HasMedia, PlayPlaces,
       RequestPlaces
  <2>11. AdvancesOwed'
    <3>1. EndReported' => EndReported
      BY <1>1, <2>1 DEF EndReported, Decided, PlayPlaces, PausePlaces
    <3>. QED
      BY <1>1, <2>1, <3>1, OwedStays DEF IInv
  <2>. QED
    BY <2>2, <2>3, <2>4, <2>5, <2>6, <2>7, <2>8, <2>9, <2>10, <2>11

<1>3. /\ t \in TransportType /\ t.ready = FALSE /\ t.index = NoIndex
      /\ t.stopEvents = transport.stopEvents /\ t.direct = transport.direct
      /\ t.playNext = transport.playNext /\ t.wanted = transport.wanted
      /\ t.stopFinalize = transport.stopFinalize /\ t.stopAge = transport.stopAge
  BY DEF IInv, TypeOK, TransportType
<1>4. u \in TransportType /\ u.ready = FALSE /\ u.stopEvents = transport.stopEvents
  <2>. HIDE DEF t
  <2>1. u \in TransportType
    BY <1>3, ClearTyped
  <2>. QED
    BY <1>3, <2>1 DEF ClearPendingActivation, TransportType
<1>. HIDE DEF t, u
<1>5. CASE transport.ready
  <2>1. /\ transport.stopEvents \in {-1, 0} /\ Inactive(player.state) /\ ~transport.playNext
        /\ last.call # "stop"
    BY <1>5, Fields DEF FlagsOrder, StopOrder, IInv
  <2>2. ASSUME NEW w \in TransportType, NEW item \in Indices \cup {Direct}, NEW b \in BOOLEAN,
               w.ready = FALSE, w.stopEvents = transport.stopEvents,
               handler.step = "none", ActivateImmediate(w, item, b)
        PROVE  SeriesOrder' /\ AdvancesOwed'
    <3>1. /\ ~transport'.playNext /\ ~transport'.stopFinalize
          /\ transport'.wanted = b /\ ~transport'.ready
          /\ transport'.stopEvents = transport.stopEvents
          /\ player'.state \in {"Stopped", "Opening"}
          /\ ~player'.starting /\ ~player'.ending
          /\ player'.media = NoMedia => player'.state = "Stopped"
          /\ b /\ player'.media # NoMedia => player'.state = "Opening"
          /\ budget'.advances = budget.advances /\ budget'.ends = budget.ends
          /\ budget'.faults \in Nat /\ budget'.faults >= budget.faults
      BY <2>1, <2>2, ActivatesInOrder DEF IInv
    <3>. QED
      BY <1>1, <2>1, <2>2, <3>1, ActivatedInOrder
  <2>3. CASE transport.index >= 0
    <3>1. /\ handler.step = "none"
          /\ ActivateImmediate(t, transport.index, transport.shouldPlay)
      BY <1>5, <2>3 DEF UpdateActivate, Unlocked, t
    <3>2. transport.index \in Indices /\ transport.shouldPlay \in BOOLEAN
      BY <2>3, Fields DEF NoIndex, IInv, TypeOK, TransportType
    <3>. QED
      BY <1>3, <2>2, <3>1, <3>2
  <2>4. CASE ~(transport.index >= 0) /\ transport.direct
    <3>1. /\ handler.step = "none"
          /\ ActivateImmediate(u, Direct, transport.shouldPlay)
      BY <1>5, <2>4 DEF UpdateActivate, Unlocked, t, u
    <3>2. transport.shouldPlay \in BOOLEAN
      BY DEF IInv, TypeOK, TransportType
    <3>. QED
      BY <1>4, <2>2, <3>1, <3>2
  <2>5. CASE ~(transport.index >= 0) /\ ~transport.direct
    <3>1. transport' = t /\ UNCHANGED << currentIndex, player, budget >>
      BY <1>5, <2>5 DEF UpdateActivate, t
    <3>2. /\ ~transport'.playNext /\ ~transport'.ready /\ ~Waiting' /\ ~Waiting
          /\ transport'.wanted = transport.wanted
          /\ transport'.stopFinalize = transport.stopFinalize
          /\ transport'.stopAge = transport.stopAge
          /\ transport'.stopEvents = transport.stopEvents
      BY <1>3, <2>1, <2>5, <3>1 DEF Waiting, NoIndex
    <3>3. HandlerOrder'
      BY <1>1, <2>1, <3>1, <3>2 DEF HandlerOrder, Counted, Decided, Waiting
    <3>4. PlayerOrder'
      BY <1>1, <2>1, <3>1, <3>2 DEF PlayerOrder, Active, HasMedia
    <3>5. FlagsOrder'
      BY <1>1, <2>1, <3>1, <3>2 DEF FlagsOrder, Live, Active, Waiting
    <3>6. PlayOrder'
      BY <1>1, <2>1, <3>1, <3>2 DEF PlayOrder, Counted, HasMedia, PlayPlaces, PausePlaces
    <3>7. RequestOrder'
      BY <1>1, <2>1, <3>1, <3>2 DEF RequestOrder, Counted, Live, Active, Waiting, RequestPlaces
    <3>8. SeenOrder'
      BY <1>1, <2>1, <3>1, <3>2 DEF SeenOrder, AdvanceDue, Decided
    <3>9. UpdateOrder'
      BY <1>1, <2>1, <3>1, <3>2 DEF UpdateOrder, Live, Active, Waiting, HasMedia
    <3>10. StopOrder'
      BY <1>1, <2>1, <3>1, <3>2 DEF StopOrder, Counted, Decided, Waiting, StopPlaces,
         PlayPlaces, PausePlaces, RequestPlaces
    <3>11. PollFindsNothing'
      BY <1>1, <2>1, <3>1, <3>2 DEF PollFindsNothing, AdvanceDue, Decided, Waiting, HasMedia,
         PlayPlaces, RequestPlaces
    <3>12. AdvancesOwed'
      <4>1. EndReported' => EndReported
        BY <1>1, <2>1, <3>1, <3>2 DEF EndReported, Decided, PlayPlaces, PausePlaces
      <4>. QED
        BY <1>1, <2>1, <3>1, <3>2, <4>1, OwedStays DEF IInv
    <3>. QED
      BY <3>3, <3>4, <3>5, <3>6, <3>7, <3>8, <3>9, <3>10, <3>11, <3>12

  <2>. QED
    BY <2>3, <2>4, <2>5
<1>. QED
  BY <1>2, <1>5

\* An advance that was asked for ends the playlist, repeats what has ended or requests
\* the next item; none of it meets a stop that is awaited.
LEMMA AdvanceInOrder ==
    ASSUME SeriesInv, UpdateAdvance
    PROVE  SeriesOrder' /\ AdvancesOwed'
<1>. USE DEF SeriesInv, SeriesOrder
<1>1. UNCHANGED << currentIndex, mode, handler, last >> /\ main.at = "advance"
  BY DEF UpdateAdvance, At
<1>2. \/ ~transport.playNext /\ Done /\ UNCHANGED << transport, player, budget >>
      \/ transport.playNext /\ PlaylistEnds
      \/ transport.playNext /\ Repeats
      \/ transport.playNext /\ MovesOn
  BY DEF UpdateAdvance
<1>3. CASE ~transport.playNext /\ Done /\ UNCHANGED << transport, player, budget >>
  <2>1. main'.at = "idle"
    BY <1>3 DEF Done, IInv, TypeOK, MainType
  <2>2. HandlerOrder'
    BY <1>1, <1>3, <2>1 DEF HandlerOrder, Counted, Decided, Waiting
  <2>3. PlayerOrder'
    BY <1>1, <1>3, <2>1 DEF PlayerOrder, Active, HasMedia
  <2>4. FlagsOrder'
    BY <1>1, <1>3, <2>1 DEF FlagsOrder, Live, Active, Waiting
  <2>5. PlayOrder'
    BY <1>1, <1>3, <2>1 DEF PlayOrder, Counted, HasMedia, PlayPlaces, PausePlaces
  <2>6. RequestOrder'
    BY <1>1, <1>3, <2>1 DEF RequestOrder, Counted, Live, Active, Waiting, RequestPlaces
  <2>7. SeenOrder'
    BY <1>1, <1>3, <2>1 DEF SeenOrder, AdvanceDue, Decided
  <2>8. UpdateOrder'
    BY <1>1, <1>3, <2>1 DEF UpdateOrder, Live, Active, Waiting, HasMedia
  <2>9. StopOrder'
    BY <1>1, <1>3, <2>1 DEF StopOrder, Counted, Decided, Waiting, StopPlaces, PlayPlaces,
       PausePlaces, RequestPlaces
  <2>10. PollFindsNothing'
    BY <1>1, <1>3, <2>1 DEF PollFindsNothing, AdvanceDue, Decided, Waiting, HasMedia,
       PlayPlaces, RequestPlaces
  <2>11. AdvancesOwed'
    <3>1. EndReported' => EndReported
      BY <1>1, <1>3, <2>1 DEF EndReported, Decided, PlayPlaces, PausePlaces
    <3>. QED
      BY <1>1, <1>3, <2>1, <3>1, OwedStays DEF IInv
  <2>. QED
    BY <2>2, <2>3, <2>4, <2>5, <2>6, <2>7, <2>8, <2>9, <2>10, <2>11

<1>4. transport.playNext => last.call # "stop" /\ ~transport.ready
  BY DEF StopOrder, FlagsOrder
<1>5. CASE transport.playNext /\ PlaylistEnds
  <2>1. /\ UNCHANGED << player, budget >> /\ main'.at = "endClear"
        /\ transport' = [NotPlaying(transport) EXCEPT !.playNext = FALSE,
                                                      !.stoppedLatched = TRUE]
    BY <1>5 DEF PlaylistEnds, Goes, IInv, TypeOK, MainType
  <2>2. /\ ~transport'.playNext /\ ~transport'.wanted
        /\ transport'.ready = transport.ready /\ transport'.index = transport.index
        /\ transport'.direct = transport.direct
        /\ transport'.stopEvents = transport.stopEvents
        /\ transport'.stopFinalize = transport.stopFinalize
        /\ transport'.stopAge = transport.stopAge
    BY <2>1 DEF NotPlaying, IInv, TypeOK, TransportType
  <2>3. HandlerOrder'
    BY <1>1, <1>4, <1>5, <2>1, <2>2 DEF HandlerOrder, Counted, Decided, Waiting
  <2>4. PlayerOrder'
    BY <1>1, <1>4, <1>5, <2>1, <2>2 DEF PlayerOrder, Active, HasMedia
  <2>5. FlagsOrder'
    BY <1>1, <1>4, <1>5, <2>1, <2>2 DEF FlagsOrder, Live, Active, Waiting
  <2>6. PlayOrder'
    BY <1>1, <1>4, <1>5, <2>1, <2>2 DEF PlayOrder, Counted, HasMedia, PlayPlaces, PausePlaces
  <2>7. RequestOrder'
    BY <1>1, <1>4, <1>5, <2>1, <2>2 DEF RequestOrder, Counted, Live, Active, Waiting,
       RequestPlaces
  <2>8. SeenOrder'
    BY <1>1, <1>4, <1>5, <2>1, <2>2 DEF SeenOrder, AdvanceDue, Decided
  <2>9. UpdateOrder'
    BY <1>1, <1>4, <1>5, <2>1, <2>2 DEF UpdateOrder, Live, Active, Waiting, HasMedia
  <2>10. StopOrder'
    BY <1>1, <1>4, <1>5, <2>1, <2>2 DEF StopOrder, Counted, Decided, Waiting, StopPlaces,
       PlayPlaces, PausePlaces, RequestPlaces
  <2>11. PollFindsNothing'
    BY <1>1, <1>4, <1>5, <2>1, <2>2 DEF PollFindsNothing, AdvanceDue, Decided, Waiting,
       HasMedia, PlayPlaces, RequestPlaces
  <2>12. AdvancesOwed'
    <3>1. EndReported' => EndReported
      BY <1>1, <1>4, <1>5, <2>1, <2>2 DEF EndReported, Decided, PlayPlaces, PausePlaces
    <3>. QED
      BY <1>1, <1>4, <1>5, <2>1, <2>2, <3>1, OwedStays DEF IInv
  <2>. QED
    BY <2>3, <2>4, <2>5, <2>6, <2>7, <2>8, <2>9, <2>10, <2>11, <2>12

<1>6. CASE transport.playNext /\ (Repeats \/ MovesOn)
  <2>1. transport' = [transport EXCEPT !.playNext = FALSE]
    BY <1>6 DEF Repeats, MovesOn
  <2>2. /\ ~transport'.playNext /\ transport'.wanted = transport.wanted
        /\ transport'.ready = transport.ready /\ transport'.index = transport.index
        /\ transport'.direct = transport.direct
        /\ transport'.stopEvents = transport.stopEvents
        /\ transport'.stopFinalize = transport.stopFinalize
        /\ transport'.stopAge = transport.stopAge
    BY <2>1 DEF IInv, TypeOK, TransportType
  <2>3. /\ ~player.ending /\ ~player.starting
        /\ Live => transport.stopEvents <= 0
    BY <1>6 DEF FlagsOrder, PlayerOrder, Live
  <2>4. CASE Repeats
    <3>1. UNCHANGED budget /\ main'.at = "idle" /\ handler.step = "none"
      BY <2>4 DEF Repeats, Done, Unlocked, IInv, TypeOK, MainType
    <3>2. /\ player'.media = player.media /\ ~player'.starting /\ ~player'.ending
          /\ player'.state = IF HasMedia /\ Inactive(player.state) THEN "Opening"
                             ELSE player.state
      BY <2>3, <2>4 DEF Repeats, LibPlay, HasMedia, Active, InSeries, IInv, TypeOK, PlayerType
    <3>3. HandlerOrder'
      BY <1>1, <1>4, <1>6, <2>2, <2>3, <3>1, <3>2 DEF HandlerOrder, Counted, Decided, Waiting
    <3>4. PlayerOrder'
      BY <1>1, <1>4, <1>6, <2>2, <2>3, <3>1, <3>2 DEF PlayerOrder, Active, HasMedia, Inactive
    <3>5. FlagsOrder'
      BY <1>1, <1>4, <1>6, <2>2, <2>3, <3>1, <3>2 DEF FlagsOrder, Live, Active, Waiting,
         Inactive
    <3>6. PlayOrder'
      BY <1>1, <1>4, <1>6, <2>2, <2>3, <3>1, <3>2 DEF PlayOrder, Counted, HasMedia,
         PlayPlaces, PausePlaces
    <3>7. RequestOrder'
      BY <1>1, <1>4, <1>6, <2>2, <2>3, <3>1, <3>2 DEF RequestOrder, Counted, Live, Active,
         Waiting, RequestPlaces
    <3>8. SeenOrder'
      BY <1>1, <1>4, <1>6, <2>2, <2>3, <3>1, <3>2 DEF SeenOrder, AdvanceDue, Decided
    <3>9. UpdateOrder'
      BY <1>1, <1>4, <1>6, <2>2, <2>3, <3>1, <3>2 DEF UpdateOrder, Live, Active, Waiting,
         HasMedia
    <3>10. StopOrder'
      BY <1>1, <1>4, <1>6, <2>2, <2>3, <3>1, <3>2 DEF StopOrder, Counted, Decided, Waiting,
         StopPlaces, PlayPlaces, PausePlaces, RequestPlaces
    <3>11. PollFindsNothing'
      BY <1>1, <1>4, <1>6, <2>2, <2>3, <3>1, <3>2 DEF PollFindsNothing, AdvanceDue, Decided,
         Waiting, HasMedia, PlayPlaces, RequestPlaces, Inactive
    <3>12. AdvancesOwed'
      <4>1. EndReported' => EndReported
        BY <1>1, <1>4, <1>6, <2>2, <2>3, <3>1, <3>2 DEF EndReported, Decided, PlayPlaces,
           PausePlaces, Inactive
      <4>. QED
        BY <1>1, <1>4, <1>6, <2>2, <2>3, <3>1, <3>2, <4>1, OwedStays DEF IInv
    <3>. QED
      BY <3>3, <3>4, <3>5, <3>6, <3>7, <3>8, <3>9, <3>10, <3>11, <3>12

  <2>5. CASE MovesOn
    <3>1. /\ UNCHANGED player
          /\ main'.at = IF transport.stopEvents > 0 THEN "busy" ELSE "free"
      BY <2>5 DEF MovesOn, Request, IInv, TypeOK, MainType
    <3>2. /\ budget'.advances \in Nat /\ budget'.advances <= budget.advances + 1
          /\ budget'.ends = budget.ends /\ budget'.faults = budget.faults
      BY <2>5, Fields DEF MovesOn, IInv, TypeOK, BudgetType
    <3>3. /\ main'.at \in {"busy", "free"}
          /\ main'.at = "busy" => ~Live
          /\ main'.at = "free" => transport.stopEvents <= 0
          /\ transport.stopEvents \in -1 .. 1
          /\ Counted => handler.stops <= 0
          /\ handler.stops \in -1 .. 1
      BY <1>1, <1>6, <2>3, <3>1, Fields DEF HandlerOrder, IInv
    <3>4. HandlerOrder'
      BY <1>1, <1>4, <1>6, <2>2, <2>3, <3>1, <3>3 DEF HandlerOrder, Counted, Decided, Waiting
    <3>5. PlayerOrder'
      BY <1>1, <1>4, <1>6, <2>2, <2>3, <3>1, <3>3 DEF PlayerOrder, Active, HasMedia
    <3>6. FlagsOrder'
      BY <1>1, <1>4, <1>6, <2>2, <2>3, <3>1, <3>3 DEF FlagsOrder, Live, Active, Waiting
    <3>7. PlayOrder'
      BY <1>1, <1>4, <1>6, <2>2, <2>3, <3>1, <3>3 DEF PlayOrder, Counted, HasMedia,
         PlayPlaces, PausePlaces
    <3>8. RequestOrder'
      BY <1>1, <1>4, <1>6, <2>2, <2>3, <3>1, <3>3 DEF RequestOrder, Counted, Live, Active,
         Waiting, RequestPlaces
    <3>9. SeenOrder'
      BY <1>1, <1>4, <1>6, <2>2, <2>3, <3>1, <3>3 DEF SeenOrder, AdvanceDue, Decided
    <3>10. UpdateOrder'
      BY <1>1, <1>4, <1>6, <2>2, <2>3, <3>1, <3>3 DEF UpdateOrder, Live, Active, Waiting,
         HasMedia
    <3>11. StopOrder'
      BY <1>1, <1>4, <1>6, <2>2, <2>3, <3>1, <3>3 DEF StopOrder, Counted, Decided, Waiting,
         StopPlaces, PlayPlaces, PausePlaces, RequestPlaces
    <3>12. PollFindsNothing'
      BY <1>1, <1>4, <1>6, <2>2, <2>3, <3>1, <3>3 DEF PollFindsNothing, AdvanceDue, Decided,
         Waiting, HasMedia, PlayPlaces, RequestPlaces
    <3>13. AdvancesOwed'
      <4>1. EndReported' => EndReported
        BY <1>1, <2>2, <3>1, <3>3 DEF EndReported, Decided, PlayPlaces, PausePlaces
      <4>. QED
        BY <1>6, <2>2, <3>2, <4>1, Fields DEF AdvancesOwed, One, IInv
    <3>. QED
      BY <3>4, <3>5, <3>6, <3>7, <3>8, <3>9, <3>10, <3>11, <3>12, <3>13
  <2>. QED
    BY <1>6, <2>4, <2>5
<1>. QED
  BY <1>2, <1>3, <1>5, <1>6

-----------------------------------------------------------------------------
(* Every step keeps the order, so what it says holds of every series         *)

\* What a behaviour may do is decided at its start.
LEMMA PlanStays ==
    ASSUME TypeOK, [Next]_vars
    PROVE  budget'.plan = budget.plan
<1>1. budget \in BudgetType
  BY DEF TypeOK
<1>3. CASE UNCHANGED budget
  BY <1>3
<1>4. CASE Call
  <2>1. budget' = [budget EXCEPT !.commands = @ + 1]
    BY <1>4 DEF Call, CallPlayIndex, CallSelect, CallDirect, CallPlay, CallPause, CallStop,
       CallNext, CallPrevious, Calls
  <2>. QED
    BY <1>1, <2>1 DEF BudgetType
<1>5. CASE RequestStep
  BY <1>3, <1>5, LoadSpends
     DEF RequestStep, RequestWhileStopping, QueueRequest, RequestWhileFree, SwitchRequest,
         SwitchStopAsync, ActivateNow, ActivateImmediate
<1>6. CASE TransportCallStep
  BY <1>3, <1>6, LoadSpends
     DEF TransportCallStep, PlayRequest, PlayState, PlayJoin, PlayStart, PauseState, PauseMark,
         PausePlayer, StopCheck, StopMark, StopAsync, GetState
<1>7. CASE UpdateStep
  <2>1. CASE UpdateActivate
    BY <1>3, <2>1, LoadSpends DEF UpdateActivate, ActivateImmediate
  <2>2. CASE UpdateAdvance /\ MovesOn
    BY <1>1, <2>2 DEF MovesOn, BudgetType
  <2>3. CASE UpdateAdvance /\ ~MovesOn
    BY <1>3, <2>3 DEF UpdateAdvance, PlaylistEnds, Repeats
  <2>. QED
    BY <1>3, <1>7, <2>1, <2>2, <2>3
       DEF UpdateStep, Update, UpdateManualStop, UpdatePollFlags, UpdatePollState,
           UpdateFinalize, UpdateClear, UpdateEnd, ClearsMedia
<1>8. CASE HandlerStep
  BY <1>3, <1>8
     DEF HandlerStep, OnMediaPlayerPlaying, OnMediaPlayerPaused, OnMediaPlayerStopping,
         OnStoppedCount, OnStoppedDecide, OnStoppedMark, OnStoppedPublish, HandlerGoes
<1>9. CASE PlayerStep \/ AudioSignal \/ TimePasses
  BY <1>3, <1>9
     DEF PlayerStep, PlayerOpening, PlayerPlaying, PlayerStopping, PlayerStopped, PlayerPauses,
         PlayerResumes, AudioSignal, TimePasses
<1>10. CASE PlayerFails \/ PlayerEnds
  BY <1>1, <1>10 DEF PlayerFails, PlayerEnds, BudgetType
<1>. QED
  BY <1>3, <1>4, <1>5, <1>6, <1>7, <1>8, <1>9, <1>10 DEF Next, MainStep, vars

\* A step that changes nothing keeps the order.
LEMMA StutterInOrder ==
    ASSUME SeriesInv, UNCHANGED vars
    PROVE  SeriesOrder' /\ AdvancesOwed'
<1>. USE DEF SeriesInv, SeriesOrder
<1>1. UNCHANGED << transport, currentIndex, mode, player, main, handler, last, budget >>
  BY DEF vars
<1>2. HandlerOrder'
  BY <1>1 DEF HandlerOrder, Counted, Decided, Waiting
<1>3. PlayerOrder'
  BY <1>1 DEF PlayerOrder, Active, HasMedia
<1>4. FlagsOrder'
  BY <1>1 DEF FlagsOrder, Live, Active, Waiting
<1>5. PlayOrder'
  BY <1>1 DEF PlayOrder, Counted, HasMedia
<1>6. RequestOrder'
  BY <1>1 DEF RequestOrder, Counted, Live, Active, Waiting
<1>7. SeenOrder'
  BY <1>1 DEF SeenOrder, AdvanceDue, Decided
<1>8. UpdateOrder'
  BY <1>1 DEF UpdateOrder, Live, Active, Waiting, HasMedia
<1>9. StopOrder'
  BY <1>1 DEF StopOrder, Counted, Decided, Waiting
<1>10. PollFindsNothing'
  BY <1>1 DEF PollFindsNothing, AdvanceDue, Decided, Waiting, HasMedia
<1>11. AdvancesOwed'
  <2>1. EndReported' => EndReported
    BY <1>1 DEF EndReported, Decided
  <2>. QED
    BY <1>1, <2>1, OwedStays DEF IInv
<1>. QED
  BY <1>2, <1>3, <1>4, <1>5, <1>6, <1>7, <1>8, <1>9, <1>10, <1>11

\* So every step keeps the order.
LEMMA SeriesInductive == SeriesInv /\ [Next]_vars => SeriesInv'
<1> SUFFICES ASSUME SeriesInv, [Next]_vars
             PROVE  SeriesInv'
  OBVIOUS
<1>1. IInv'
  BY Inductive DEF SeriesInv
<1>2. budget'.plan = budget.plan
  BY PlanStays DEF SeriesInv, IInv
<1>3. SeriesOrder' /\ AdvancesOwed'
  <2>1. CASE UNCHANGED vars
    BY <2>1, StutterInOrder
  <2>2. CASE Call
    BY <2>2, CallInOrder
  <2>3. CASE RequestStep
    <3>1. ~QueueRequest
      BY DEF QueueRequest, At, SeriesInv, SeriesOrder, RequestOrder
    <3>. QED
      BY <2>3, <3>1, BusyInOrder, FreeInOrder, SwitchInOrder, SwitchStopInOrder, NowInOrder
         DEF RequestStep
  <2>4. CASE TransportCallStep
    BY <2>4, PlayRequestInOrder, StateInOrder, PlayJoinInOrder, PlayStartInOrder,
       PauseMarkInOrder, PausePlayerInOrder, StopCheckInOrder, StopMarkInOrder, StopAsyncInOrder
       DEF TransportCallStep
  <2>5. CASE UpdateStep
    BY <2>5, UpdateInOrder, ManualStopInOrder, PollFlagsInOrder, PollStateInOrder,
       FinalizeInOrder, ClearInOrder, UpdateActivateInOrder, AdvanceInOrder DEF UpdateStep
  <2>6. CASE HandlerStep
    BY <2>6, EventsInOrder, CountInOrder, DecideInOrder, MarkInOrder, PublishInOrder
       DEF HandlerStep
  <2>7. CASE PlayerStep
    <3>1. ~PlayerOpening
      BY DEF PlayerOpening, SeriesInv, SeriesOrder, PlayerOrder
    <3>. QED
      BY <2>7, <3>1, TurnsInOrder, StoppingInOrder, StoppedInOrder DEF PlayerStep
  <2>8. CASE PlayerFails \/ PlayerEnds
    BY <2>8, EndsInOrder
  <2>9. CASE AudioSignal \/ TimePasses
    BY <2>9, SignalsInOrder
  <2>. QED
    BY <2>1, <2>2, <2>3, <2>4, <2>5, <2>6, <2>7, <2>8, <2>9 DEF Next, MainStep
<1>. QED
  BY <1>1, <1>2, <1>3 DEF SeriesInv, InSeries

\* A series starts in order.
LEMMA SeriesInitial == Init /\ InSeries => SeriesInv
<1> SUFFICES ASSUME Init, InSeries
             PROVE  SeriesInv
  OBVIOUS
<1>1. IInv
  BY Initial
<1>2. /\ transport.wanted = FALSE /\ transport.stopEvents = 0 /\ transport.stopFinalize = FALSE
      /\ transport.stopAge = "unset" /\ transport.playNext = FALSE
      /\ transport.index = NoIndex /\ transport.direct = FALSE /\ transport.ready = FALSE
      /\ player.state = "Stopped" /\ player.media = NoMedia
      /\ player.starting = FALSE /\ player.ending = FALSE
      /\ main.at = "idle" /\ handler.step = "none" /\ last.call = "none"
      /\ budget.advances = 0 /\ budget.ends = 0 /\ budget.faults = 0
  BY DEF Init
<1>3. SeriesOrder
  BY <1>2 DEF SeriesOrder, HandlerOrder, PlayerOrder, FlagsOrder, PlayOrder,
       RequestOrder, SeenOrder, UpdateOrder, StopOrder, PollFindsNothing,
       AdvanceDue, Counted, Decided, Live, Active, Waiting, HasMedia, Inactive,
       PlayPlaces, PausePlaces, StopPlaces, RequestPlaces
<1>4. AdvancesOwed
  BY <1>2 DEF AdvancesOwed, EndReported, Decided, One, PlayPlaces, PausePlaces
<1>. QED
  BY <1>1, <1>3, <1>4 DEF SeriesInv

\* So it is in order all along.
THEOREM SeriesInvariance == Spec /\ InSeries => []SeriesInv
BY SeriesInitial, SeriesInductive, PTL DEF Spec

-----------------------------------------------------------------------------
(* What follows for a series of calls                                        *)

\* Requests replace the media of a stopped player only, and start what the latest
\* call, not a stop(), asked for.
LEMMA RequestStarts ==
    ASSUME SeriesInv, RequestStep
    PROVE  /\ HasMedia /\ player'.media # player.media => Inactive(player.state)
           /\ Starting(player') /\ ~Starting(player) => last.call # "stop"
<1>1. CASE ActivateNow
  BY <1>1 DEF ActivateNow, At, SeriesInv, SeriesOrder, RequestOrder, StopOrder, RequestPlaces
<1>2. CASE SwitchStopAsync
  BY <1>2
     DEF SwitchStopAsync, LibStopAsync, Starting, SeriesInv, IInv, TypeOK, PlayerType
<1>. QED
  BY <1>1, <1>2 DEF RequestStep, RequestWhileStopping, QueueRequest, RequestWhileFree,
     SwitchRequest

\* play(), pause() and stop() replace no media by another one.
LEMMA CallStarts ==
    ASSUME SeriesInv, TransportCallStep
    PROVE  /\ HasMedia /\ player'.media # player.media => player'.media = NoMedia
           /\ Starting(player') /\ ~Starting(player) => last.call # "stop"
<1>. USE DEF SeriesInv, IInv, TypeOK
<1>1. CASE PlayStart
  <2>1. /\ last.call # "stop" /\ (main.item # NoMedia => ~HasMedia)
    BY <1>1 DEF PlayStart, At, SeriesOrder, PlayOrder, StopOrder, PlayPlaces
  <2>2. CASE main.item = NoMedia
    BY <1>1, <2>1, <2>2 DEF PlayStart, StartOrResume, LibSetPause, LibPlay, PlayerType
  <2>. QED
    BY <2>1, <2>2
<1>2. CASE PausePlayer
  BY <1>2 DEF PausePlayer, LibSetPause, Starting, PlayerType
<1>3. CASE StopCheck
  BY <1>3 DEF StopCheck, ClearedMedia, LibSetMedia, Starting, HasMedia, PlayerType
<1>4. CASE StopAsync
  BY <1>4 DEF StopAsync, LibStopAsync, Starting, PlayerType
<1>. QED
  BY <1>1, <1>2, <1>3, <1>4
     DEF TransportCallStep, PlayRequest, PlayState, PlayJoin, PauseState, PauseMark, StopMark,
         GetState

\* update() replaces the media of a stopped player only, and starts nothing after stop().
LEMMA UpdateStarts ==
    ASSUME SeriesInv, UpdateStep
    PROVE  /\ HasMedia /\ player'.media # player.media /\ player'.media # NoMedia =>
                 Inactive(player.state)
           /\ Starting(player') /\ ~Starting(player) => last.call # "stop"
<1>. USE DEF SeriesInv, IInv, TypeOK
<1>1. CASE UpdateManualStop
  BY <1>1 DEF UpdateManualStop, LibStopAsync, Starting, PlayerType
<1>2. CASE UpdateClear \/ UpdateEnd
  BY <1>2 DEF UpdateClear, UpdateEnd, ClearsMedia, ClearedMedia, LibSetMedia, Starting,
     PlayerType
<1>3. CASE UpdateActivate
  BY <1>3 DEF UpdateActivate, SeriesOrder, FlagsOrder, StopOrder
<1>4. CASE UpdateAdvance
  <2>1. CASE Repeats
    <3>1. UNCHANGED player \/ transport.playNext
      BY <1>4 DEF UpdateAdvance, PlaylistEnds, MovesOn
    <3>. QED
      BY <2>1, <3>1 DEF Repeats, LibPlay, SeriesOrder, StopOrder, PlayerType
  <2>. QED
    BY <1>4, <2>1 DEF UpdateAdvance, PlaylistEnds, MovesOn
<1>. QED
  BY <1>1, <1>2, <1>3, <1>4
     DEF UpdateStep, Update, UpdatePollFlags, UpdatePollState, UpdateFinalize

\* libVLC's own steps, its events and the clock replace and start nothing.
LEMMA OthersStart ==
    ASSUME SeriesInv,
           \/ Call \/ HandlerStep \/ PlayerStep \/ PlayerFails \/ PlayerEnds
           \/ AudioSignal \/ TimePasses
    PROVE  /\ player'.media = player.media
           /\ Starting(player') => Starting(player)
<1>. USE DEF SeriesInv, IInv, TypeOK
<1>1. CASE PlayerStep \/ PlayerFails \/ PlayerEnds
  BY <1>1 DEF PlayerStep, PlayerFails, PlayerEnds, PlayerTurns, PlayerOpening, PlayerPlaying,
     PlayerStopping, PlayerStopped, PlayerPauses, PlayerResumes, Starting, PlayerType
<1>2. CASE Call \/ HandlerStep \/ AudioSignal \/ TimePasses
  <2>1. UNCHANGED player
    BY <1>2 DEF Call, CallPlayIndex, CallSelect, CallDirect, CallPlay, CallPause, CallStop,
       CallNext, CallPrevious, Calls, HandlerStep, OnMediaPlayerPlaying, OnMediaPlayerPaused,
       OnMediaPlayerStopping, OnStoppedCount, OnStoppedDecide, OnStoppedMark, OnStoppedPublish,
       HandlerGoes, AudioSignal, TimePasses
  <2>. QED
    BY <2>1
<1>. QED
  BY <1>1, <1>2

\* Of a series of steps none replaces a media that plays, or starts one after stop().
LEMMA StartsInOrder ==
    ASSUME SeriesInv, [Next]_vars
    PROVE  /\ HasMedia /\ player'.media # player.media /\ player'.media # NoMedia =>
                 Inactive(player.state)
           /\ Starting(player') /\ ~Starting(player) => last.call # "stop"
<1>1. CASE UNCHANGED vars
  BY <1>1 DEF vars
<1>. QED
  BY <1>1, RequestStarts, CallStarts, UpdateStarts, OthersStart DEF Next, MainStep

\* For any number of calls, each made when the earlier one has taken effect, and of
\* medias that end or fail: the Stopped event and the poll of update() together make
\* handlePlaybackEnded() move on once for each of those at most.
THEOREM SeriesAdvances == Spec /\ InSeries => []AdvancesOncePerEnd
<1>1. SeriesInv => AdvancesOncePerEnd
  BY Fields DEF SeriesInv, IInv, AdvancesOwed, AdvancesOncePerEnd, One
<1>. QED
  BY <1>1, SeriesInvariance, PTL

\* For the same calls, a media is put in the place of another one only when the player
\* is stopped.
THEOREM SeriesReplaces == Spec /\ InSeries => ReplacedOnlyWhenStopped
<1>1. SeriesInv /\ [Next]_vars =>
         [(Unhurried /\ HasMedia /\ player'.media # player.media /\ player'.media # NoMedia)
             => Inactive(player.state)]_vars
  BY StartsInOrder
<1>. QED
  BY <1>1, SeriesInvariance, PTL DEF Spec, ReplacedOnlyWhenStopped

\* And nothing starts the player after stop() until the application calls again, the
\* end of a media that stop() overtakes included.
THEOREM SeriesStops == Spec /\ InSeries => StopDropsRequests
<1>1. SeriesInv /\ [Next]_vars =>
         [(~budget.plan.late /\ FewOverlap /\ Starting(player') /\ ~Starting(player))
             => last.call # "stop"]_vars
  BY StartsInOrder
<1>. QED
  BY <1>1, SeriesInvariance, PTL DEF Spec, StopDropsRequests
=============================================================================
