# TLA+ models of ofxVlc4

ofxVlc4 wraps libVLC 4 for openFrameworks: a media player whose video and audio are delivered to
the application by callbacks on libVLC's threads, with a playlist, a recorder that muxes what it
captured, MIDI playback and a small non-linear editor (NLE). These modules model the parts of it
whose correctness depends on the order in which several threads, or several calls, take effect.
Paths below are relative to the repository; `PC` is `src/playback/PlaybackController.cpp`, `CORE`
is `src/core/ofxVlc4.cpp`, `REC` is `src/recording/ofxVlc4Recorder.cpp`, `ML` is
`src/media/MediaLibrary.cpp`, `VID` is `src/video/ofxVlc4Video.cpp`, `AUD` is
`src/audio/ofxVlc4Audio.cpp` and `DLG` is `src/media/ofxVlc4MediaDialogs.cpp`.

## 1. The system

### Threads

* The **main thread** runs the application, which calls the player's methods and, once per frame,
  `update()` (CORE 826-862). Everything deferred is done there.
* **libVLC's event threads** deliver the player's and the media's events to the static callbacks of
  `VlcEventRouter`, which call the handlers of the components. libVLC holds the player's recursive
  lock while it delivers a player event.
* **libVLC's audio thread** calls `audioPlay`, `audioPause`, `audioResume`, `audioFlush`,
  `audioDrain`; the **video threads** call the resize, swap and make-current callbacks.
* One **mux worker** thread combines the recorded files.

They share atomics and a handful of mutexes (`src/core/ofxVlc4Impl.h`).

### Components

| Component | State | Operations | Hard behaviour | What makes it correct |
|---|---|---|---|---|
| Callback scope and teardown (CORE 270-367, 1127-1172, 2004-2273) | `expired`, `shuttingDown`, `callbackDepth`, a condition variable | enter, leave, drain, init, close | a callback between its test and its count; a wake-up that is lost; a drain that times out | no callback inside a component while its resources go; the count is exact; teardown ends |
| Playback transport (`PC`, `PlaybackTransportState.h`, `ofxVlc4MediaHelpers.h`) | fifteen atomics, the current index, libVLC's player | play, pause, stop, playIndex, next, previous, direct media; event handlers; the five phases of `update()` | commands that overtake each other and the player's asynchronous stop; an end seen twice; a player that hangs | the loaded media is the current item; one advance per end; stop is final; play plays |
| Audio ring buffer (`ofxVlc4RingBuffer.cpp`, `ofxVlc4Audio.cpp`) | read and write positions, slots | write, read, peek, reset, silence | one writer and one reader without a lock; positions that wrap; main-thread writers | it is a queue of the latest samples, no copy is torn |
| Recorder and mux session (`ofxVlc4Recorder.cpp`, CORE 1710-1978) | capture state, paths, session state, the deferred mux, the worker | start, attach audio, stop, stop and mux, the phases of `update()`, cancel | the mux of one session while the next is recorded; an expected file that never comes; a worker not joined | the mux combines the files of its own session, ends, and deletes only what it has muxed |
| Playlist and media library (`ML`) | paths, current index, metadata cache, shuffle queue, thumbnail request | add, add a folder, remove, move one or several, clear, metadata, thumbnails | indices held across edits and through compound moves; metadata read from media that are no longer current; late thumbnails | the current index stays on its item; metadata are those of their path; shuffle does not choose what is playing |
| Media (`ofxVlc4Media.cpp`) | the media handle, options, subtitles, snapshots | load, clear, parse, snapshot | parse events after a change of media | covered by the transport and the playlist where it loads and clears |
| Video output (`VID`) | published frame and fence, pending resize, textures | set up, resize, render, swap, clean up; draw, exposed texture, startup resources | two threads and the GPU, sizes read before the lock, resize requests during a resize | a fence is deleted once; only finished frames are sampled, inside the texture; no frame and no size is lost |
| Dialogs (`DLG`) | the dialogs under way, by token | display, update, cancel; answer, dismiss; teardown | the application answers what libVLC cancels; addresses used again | a dialog's id is used only while it is valid |
| Event router, core session, handles | attached events, handles | attach, detach, dispatch | events after detaching | the callback scope |
| Discovery and renderers | lists under a mutex | start, stop, select | - | - |
| NLE (`src/nle`) | a sequence of tracks of segments, an undo stack | overwrite, splice, lift, extract, trims, undo, timecode | edits in two steps of which the second may fail; drop-frame arithmetic | segments never overlap; an edit that fails changes nothing; labels and frames are inverse to each other |
| MIDI (`src/midi`, CORE 2276-2361) | the messages, the cursor, the playhead and its anchor, the clock | load, clear, play, pause, stop, seek, tempo, loop, update, synchronisation with the video | loops, seeks and pauses between two frames; notes that sound; a video that jumps | each message is sent once per pass; at rest nothing sounds; position and clock are those of the time played |
| Overlays, crash handler, facades | options; signal handlers; wrappers | - | - | - |

Interactions: the application's calls go to the transport and to the recorder; `update()` finalises
a finished mux, advances the recorder, starts a pending mux, then runs the transport's deferred
actions. The recorder plays its capture through the same player as the transport, and `stop()`
stops both. The playlist chooses what the transport loads, and the transport's asynchronous stop
reaches back into a playlist that has been edited meanwhile. The main thread reads what the video
and audio threads write, and moves the MIDI session by the watch time of the video. Every callback of libVLC enters through the callback scope, so `close()` can wait for
them.

## 2. What is modelled

| Module | Models |
|---|---|
| `CallbackScope` | the callback scope and the teardown, one step per atomic access |
| `PlaybackTransport` | the transport, one step per group of accesses that no handler can split |
| `AudioRingBuffer` | the ring buffer and its callers, copies split into begin and end |
| `SampleQueue` | what the ring buffer promises: a bounded queue of samples |
| `RecordingSession` | the recording sessions, from the start of a capture to the deletion of what was muxed |
| `Timeline` | what a track promises its editor: what is seen at each frame, and how an edit may change it |
| `NleTrack` | a track of the NLE under its edits and trims |
| `NleTrackSearch` | the binary searches of a track |
| `NleTimecode` | the SMPTE labels of frames, with and without dropped ones, and milliseconds |
| `PlaylistLibrary` | the playlist, the shuffle queue and the metadata cache, with the transport that plays from them |
| `VideoOutput` | the OpenGL texture output between VLC's video thread, the GPU and the main thread |
| `MidiPlayback` | the MIDI playback session, its clock and its synchronisation with the video |
| `MediaDialogs` | libVLC's dialogs between its threads and the application |
| `MC...` | instances for TLC |
| `..._proofs` | the theorems |

### CallbackScope

`callback[c]` is where callback thread `c` is in `tryEnterCallbackScope()` (CORE 314-326) or
`leaveCallbackScope()` (328-343); `main` is where the main thread is in `init()`, `close()`,
`releaseVlcResources()` and `waitForCallbackScopeDrain()` (345-367). Audio and video output
callbacks test `shuttingDown` on entry (`EntryTest`), the router's tests come first
(`VlcEventRouter.cpp` 17-44, `DroppedAtEntry`). A thread that enters twice, a callback nested in
another, is two elements of the set. The condition variable loses a notification that falls
between the predicate and the sleep, since `leaveCallbackScope()` notifies without the mutex. The
callbacks `make_current` and `get_proc_address` enter no scope and are left out.

### PlaybackTransport

`transport` is `PlaybackTransportState`; `player` is libVLC's media player as the code uses it
(external: states, asynchronous stop, events); `main` is where the main thread is in a call or in
`update()`; `handler` is the event handler that runs. libVLC's player lock is held during a
handler, so a main-thread step that calls libVLC needs `Unlocked`, and all others interleave with
the handler's steps. A handler that decides and then stores (`onMediaPlayerStopped`, PC 901-938) is
split at every point where the main thread's stores could change the outcome. `stopAge` stands for
the clock against which a stop is retried and then finished locally.

What the application and libVLC may do is a *plan*, a record chosen once per behaviour from the
constant `Plans`: the kinds and number of calls, natural ends and failures, whether a call may come
before the previous one has taken effect (`overlapping`), whether `get_state` may still answer
Stopped after `play()` (`late`), whether the player may hang (`hangs`).

Left out: seeking, rate, chapters, watch time, the early returns on `shuttingDown` (the callback scope
shows them), `prepareForClose()`, and what `stop()` does to the recorder. Shuffle and a playlist that changes while it plays are in
`PlaylistLibrary`.

### AudioRingBuffer and SampleQueue

Positions are `% Word` with `Word` a multiple of `Capacity`, as a `size_t` is of a power of two.
`WriteCopy`/`WriteEnd` and the reader's steps are split so that a copy overlaps the other thread's.
The audio thread takes no lock (AUD 1635-1745); the readers hold `audioMutex`; so do the main
thread's `resetBuffer()` and `writeSilenceForContinuousMode()`, which `MainCalls` enables. Nothing in
the code keeps these two from overlapping `audioPlay()`. `MainWaits` does so in `ring_queue`, to show
that the buffer is sound without the overlap; `ring_mainwrites` has it, and shows what it breaks.
The refinement `IsSampleQueue` maps the slots between the positions to the queue of `SampleQueue`.

Left out: the overflow policy `ExpandOnce` (`ofxVlc4RingBuffer.cpp` 153-160), which nothing under `src/src` asks for: the
policy is `Drop` unless `setOverflowPolicy()` is called, and what does not fit is dropped.

### RecordingSession

`recorder` is `ofxVlc4Recorder` as far as sessions see it: the active flags, the paths being written
and the last ones finished. `config` is `recordingSessionRuntime`, `mux`, `task` and `worker` are
`RecordingMuxRuntimeState`, its `activeTask` and its thread (`ofxVlc4Impl.h` 272-318), `sessionState`
is what `getRecordingSessionState()` returns. A path is the number of the capture that wrote it,
because the code puts a time stamp into every path; two captures named within one second are left
out. `disk` remembers which pairs a mux has put together, what has been deleted and what
`deferredSourceCleanup` holds.

`main` is where the main thread is: `update()` runs through `finalize`, `cleanup`, `mux` and
`playback` (CORE 851-861); a stop through `finalize`, `arm`, `expect`, `stopping`, `stop` (REC
554-659) and, when the player has already stopped, through `clearVideo` and `clearAudio` (REC
464-479), which else follow in a later `update()` (PC 751-760); `close()` through `finalize`, `cancel`
and `join`. The steps are as large as the other threads allow: the audio thread may close a failing
file between any two (`AudioFails`, REC 839-857, also for the drains of the main thread), the worker
and the player go on beside them. `player` is external: it encodes, ends of its own, stops when it
has been asked to. The worker's play of the two files into the output (REC 24-205) is one step that
succeeds only when the files are finalized and nothing cancelled it; its waits all have timeouts, so
it may fail at any time.

A *plan* of the constant `Plans` says which calls the application makes, which sessions it starts,
how many captures, how many failures of a start and of an audio file, whether the sources are deleted
after the mux, and whether the application is `eager`: whether it starts a capture while another is
running or not yet muxed, where the code lets it.

Left out: the capture of frames and their readback, the WAV writer, codecs and presets, the window
listener, media other than recordings in the player, the recorder's mutexes (each locked block is
one step).

### Timeline, NleTrack and NleTrackSearch

`segments` is `Track::m_segments` (`src/nle/NleTrack.h`), a set instead of the sorted vector: as long
as no two segments overlap their starts differ and an index is a rank. Timecodes are numbers of
frames at one rate, and never negative (`Timecode`). Each operation of `Track` is an operator that
returns the segments and its result; the edits (`NleEditOps.h`) and trims (`NleTrimOps.h`) are
composed of them in the code's order, so that a second step can be refused after the first is made.
The callers are external, the editor and its tests: `Operations` says what they call. An edit comes
from three of the four marks (`ThreePointEdits`, one set per missing mark). The trims' early returns
for a delta of zero and an index out of range change nothing and are left out, and so are gain, pan,
the flags of a track and the length of the clip, which no edit looks at.

`Content` maps the segments to the frames of `Timeline`, which states each kind of edit by what
stays, what moves and what is new, without segments. `NleTrackSearch` puts the vector back
(`Vector`, each segment at its rank) and
compares `wouldOverlap()` and `segmentIndexAt()` as they search with what they look for, also on the
track a ripple trim has already shifted.

`NleTimecode` translates the arithmetic of `src/nle/NleTimecode.h`: it has no state. The reference is
`Following`, a counter of labels that leaves out the dropped ones. A rounding of a double halfway
between two integers may come out either way; the division itself is exact, as it is for the numbers
of frames a film has.

Left out: sequences, which hold tracks; the undo stack, for which the repository has no command but
those of its tests; export, which is formatting.

### PlaylistLibrary

`playlist` and `currentIndex` are those of `MediaLibraryState`; an entry is one line of the playlist, and
two entries may have one path. `cache` is `metadataCache`: of which media the metadata stored under a path
are, and how detailed. `shuffle` is the queue of indices of `nextPlaylistItem()` (`PC` 540-640). All of it
runs on the main thread, so a call is one step; `transport` has of the transport what the playlist meets:
the media loaded, the pending stop and the request that waits for it. `AddFolder` adds any number of
files, in any order of the listing, and reads the metadata of the current item (ML 521-542). `PlayerStops` is the Stopped event
and the `update()` after it, `PlaybackEnds` a natural end. The interleavings of these are
`PlaybackTransport`'s subject.

### VideoOutput

`vout` is where VLC's thread is between the callbacks of a session (`videoResize`, `make_current`,
`videoSwap`, clean-up; `VID` 340-460, 850-1150); `main` where the main thread is in `draw()`,
`drawWithShader()` or `getTexture()`, with the state it read before it locked `videoMutex`. `fence` is the
published one, `live` are all that exist. `gpu` counts the frames the GPU has finished, and `ordered` is
the frame the main thread's commands follow, after a wait for a fence or an error of that wait. A size
stands for width and height.

`videoResize()` takes no lock, so the size it stores and the request are two steps, and the main thread may clear
both between them. Nor does `prepareStartupVideoResources()` (`VID` 845-895): it stores the size to render at
(`PrepareStartup`), looks at the texture and its fence (`StartupLooks`), and replaces them (`StartupReplaces`); `startup`
is what it has read. What keeps the video thread away from it, from `clearCurrentMedia()` and from
`releaseVlcResources()` is a bounded wait: the stop is finished locally after 1500 ms (PC 727-756), the release goes on
after `kPlayerStopMaxWaitMs` (CORE 2069-2086). `VideoGone` is that wait: in a plan with `hung` it has run out, and the video
thread is beside all three.

A plan fixes what the application draws with, the numbers of frames, changes of size and sessions, whether
VLC renders between two changes (`calm`), whether waits for a fence may fail, and whether the video outlives the waits
for the player (`hung`).

Left out: the Direct3D 11 backend, HDR, crops and aspect ratios, OpenGL itself, the deferred GL clean-up
(`VID` 389, CORE 830).

### MidiPlayback

`midi` is `MidiPlaybackSession`: the file, the playhead with its anchor (`startWall`, `startPos`), the
cursor, the clock, and beside them what the device behind the callback has been told and which messages
the current pass has sent. `watch` is the watch time of the video with what the code keeps of it, which
`Update` synchronises to as `updateMidiTransport()` does. All calls hold one mutex throughout, so each is
one step; what varies is the order of the calls and the time between two frames. Left out: time code
pieces and the value of a song position, the tempo map, and the analysis of files, which is parsing; its
sorting is an assumption (`FilesAssumption`).

### MediaDialogs

`activeDialogs` is the list of the same name, by address of libVLC's id, which is the application's token.
`dialog` is libVLC's own (external): which dialog waits at an address; libVLC frees the id with the call
that ends the dialog, and may use the address again. `callback` and `main` are where libVLC's threads and
the application are between a locked block and the call that follows it. Left out: the dialogs' texts, the
severity, the last error, logging.

## 3. What the runs show

| Run | Module, cfg | Checks | Shows |
|---|---|---|---|
| `callback_teardown` | `CallbackScope_teardown` | `DepthCountsScopes`, `NoCallbackDuringTeardown`, `TeardownEnds` | the count is exact, teardown is exclusive unless the drain times out, and it ends |
| `transport_safety` | `PlaybackTransport_safety` | `MediaIsCurrent`, `AdvancesOncePerEnd`, `ReplacedOnlyWhenStopped`, `StopDropsRequests` | the transport's safety under four plans |
| `transport_live` | `PlaybackTransport_live` | `PlayPlays`, `PlayIndexPlays`, `StopCompletes` | commands take effect; a stop completes on a player that hangs |
| `transport_playlost` | `PlaybackTransport_playlost` | `PlayPlays` (violated) | play, stop, play: the second play is lost |
| `ring_queue` | `AudioRingBuffer_queue` | `NoTornCopy`, `PeekIsLatest`, `IsSampleQueue` | the buffer is a queue for one writer and one reader, a main thread that waits for the writer included |
| `ring_mainwrites` | `AudioRingBuffer_mainwrites` | `ReadableWithinCapacity` (violated) | a reset or silence by the main thread during `audioPlay()` breaks the positions |
| `recorder_session` | `RecordingSession_session` | `FilesFinalized`, `SourcesIntact`, `DeletedAreMuxed`, `MuxOwnSession`, `StateShowsCapture`, `StopArmsMux`, `WorkerJoined`, `StopEndsCapture`, `MuxEnds` | a mux reads finished, undeleted files of its own session, deletes only what it muxed, and ends |
| `nle_edits` | `NleTrack_edits` | `NoOverlap`, `SearchAgrees`, `RefusedChangesNothing`, `ImplementsTimeline` | edits and trims keep the track free of overlaps, do what they say on the timeline, and change nothing when they are refused; as an assumption evaluated once, `LabelsCountFrames` around every minute of an hour |
| `playlist_edits` | `PlaylistLibrary_edits` | `MovesAreSplices`, `ShuffleSkipsLoaded`, `CachedMetadataIsOwn`, `EditsKeepCurrentItem` | edits keep the current index on its item, a group moves as a splice, shuffle does not queue what is loaded, cached metadata are those of their path |
| `video_frames` | `VideoOutput_frames` | `FencesDeletedOnce`, `SamplesFinishedFrame`, `SamplesInsideTexture`, `ExposedIsLatest`, `RendersAsAsked` | fences, frames and sizes through resizes, the startup of further media and a teardown, in two plans beside a player that hangs |
| `midi_session` | `MidiPlayback_session` | `EachMessageOncePerPass`, `RestsSilently`, `PositionIsElapsed`, `ClockKeepsTime` | what the device hears, under any calls and any frame rate |
| `dialogs_spentid` | `MediaDialogs_races` | `IdsUsedWhileValid` (violated) | libVLC cancels the dialog the application answers: an id is used after it was freed |

The `TypeOK` of every module holds on these instances too. It is not among the runs' properties: the proofs
show it for every instance, except in `MediaDialogs`, which has none.

**Bounds.** Three callback threads and three sessions: a stale callback of one session can meet
the teardown of the next, and two callbacks can be refused at once; a fourth thread adds no new
interleaving of the two tests with the drain. Two playlist items give a first, a last, a following
and a wrap-around item. Two overlapping calls with one end and one failure, three overlapping calls
without, four in series with an end: every pair of calls races every handler step. Capacity 4,
blocks of up to 3 and a word of 8 make blocks wrap in the slots and positions wrap in the word;
ten samples pass the word once. Two captures are the least in which a mux can confuse the files of
its session with others or the state of one session with the next's; the third one, in the plan of
an eager application whose files are deleted, meets a mux after a deletion. One failed start and one
failed audio file suffice to put a failure before, between and after any two steps of a stop. Three
segments are what a slide needs, so four calls make every trim and every edit meet one, two and three
segments, adjacent ones and gaps; marks and deltas give durations from one frame upwards, a delta that
uses a segment up, and edits that end before, in, at the end of and behind a segment. Clips are
interchangeable (symmetry).

Four playlist entries, two of one path, let a group of two or three move over, into and behind the
rest, with the current item inside or outside it; four calls of any kind put any three calls
between a request and the stop it waits for; six of fewer kinds reach an edit and a metadata request after
an item has played and another is loaded, and five an edit of a playlist that plays shuffled. Three frames let one be published while the one before is
being drawn and a third while the fence of the second is waited for; two sizes and two changes make a
resize meet another, and one teardown meets each. The plans with a player that hangs have two frames: one that startup
finds published, and one that is published while it replaces the texture. A file of two overlapping notes has messages at its
start, inside, together, and at its end; frames are up to the whole file apart, so an update passes any
number of messages and, with loops, more than one end; a tempo of two makes positions differ from times.
Two addresses and three dialogs make libVLC use one again.

**Fairness.** `update()` is called once per frame, so the main thread's steps, a handler that has
begun, and the clock go on (`WF_vars`). libVLC's player steps are fair unless the plan says it
hangs. Nothing obliges the application to call, a media to end, or a callback to leave its scope:
`TeardownEnds` assumes only the main thread and the expiry of its own timed wait. The recorder's
`FairSpec` assumes that `update()` comes again and again even if calls come in between (`SF`), that
a call that has begun goes on, that the mux worker returns (each of its waits has a timeout), and
that a player that is being stopped stops, which the transport's retry and local fallback stand for.
The other modules have no liveness property: what they promise is what may never happen.

**Limits found while modelling**, where the properties do not hold and their conditions come from:

Transport and callback scope:

* A natural end whose Stopped handler has read the state before `stop()` sets its flags starts the next
  item after the stop (PC 936). Calls alone reach the same race when four of them overlap:
  `playIndex()`, `stop()`, a `play()` that overlaps it and makes the Stopped handler decide to
  advance, and a `stop()` before that decision is stored. `StopDropsRequests` is therefore stated for
  calls one after the other, with any ends and failures, and for at most three that overlap where no
  media ends or fails.
* Three overlapping calls with ends, or with a hanging player: a stop finished locally by
  `update()` followed by `playIndex()` replaces the media of a player still running, and `stop();
  play()` can make the poll advance once too often (`Unhurried` excludes these plans).
* `late`: after `play()` the poll (PC 735-748) may see Stopped before the input thread starts, and
  advance.
* On a hanging player, `stop()` during a playlist switch finds the counter set and starts no clock
  (PC 529-535): neither retry nor fallback follows. `transport_live` lets only play, pause and stop
  overlap on such a player.
* `playIndex()` is lost when the Stopped handler runs between its `get_state` and its stores (PC
  104-118), or when the media ends between the two (125-134).
* `play()` with only a direct request pending starts the old media again (PC 415-440).
* A callback refused by the second test notifies nobody (CORE 322) and `leaveCallbackScope()`
  notifies outside the waiter's mutex (339): the drain may sleep its whole two seconds with a zero
  counter.
Ring buffer: silence is written by the main thread after a test that the next `audioPlay()` makes stale
(AUD 1781), so it can also overwrite samples just written. The cache of the spectrum is keyed by a
version that is read while the audio thread writes (AUD 1055); it is not modelled.

Recorder:

* An audio file that failed during the capture makes the armed mux wait for ever (CORE 1895), and every later `stopRecordingSession()` with `muxOnStop` is refused. `MuxEnds`
  is stated for `Undisturbed` plans: no failure, and an audio file in every session.
* A session with `muxOnStop` and no audio: before any audio was ever recorded the mux cannot be armed
  and `stopRecordingSession()` returns without stopping the capture (REC 642); later an old audio
  path is found, the mux is armed and waits for ever. `StopEndsCapture` has the same condition.
* A session started while a mux is pending: the mux takes the files last finished (CORE 1890), so it
  combines the second session's under the first one's output name, and `stopRecordingSession()` is
  refused in between. The finished mux then stores Done or Failed over the new session's Capturing.
  `MuxOwnSession` and `StateShowsCapture` are stated for applications that wait.
* `startRecordingSession()` while a session runs is refused, but clears the running session's
  configuration and its `muxOnStop` (REC 327).
* `stopRecordingSession()` when nothing is captured sets the state to Idle also while a mux is pending;
  `recordAudio()` that ends its capture leaves it at Capturing (REC 481-486).
* A failing capture texture locks `recordingMutex` twice (REC 1196), the keyframe interval is reset
  before it is used (REC 1095), and `getLastFinishedAudioPath()` returns a reference to a string that
  the audio thread assigns (REC 987). None of these is modelled.
* `docs/RECORDING_PERFORMANCE.md:346` says that `stopRecordingSession()` "Blocks until mux
  completes"; it returns as soon as the player has been asked to stop.

NLE:

* A ripple trim that shortens a head keeps the end and shifts what follows to the left, over the
  trimmed segment (`NleTrimOps.h` 45-60); one that extends a head pushes what
  follows to the right and leaves a gap. The comment at line 26 has the sign of the left side the
  other way round. `nle_edits` has extensions only.
* A splice inside a segment shifts what follows it, is then refused, and leaves the gap
  (`NleEditOps.h` 185-192). `nle_edits` splices at cuts and in gaps.
* A three-point edit whose derived mark would be negative is moved to frame zero and keeps its
  duration, so it no longer ends at the given mark (`NleEditOps.h` 53-59, 67-73). `setLocked()` is
  stored, but no edit asks for it.
* A label that is left out, such as 00:01:00;00 at 29.97, is read as the frame of 00:00:59;28, two frames
  before the label that follows the gap.

Playlist and media library:

* The metadata preload asks for the index one past the item just added, so it preloads nothing (ML 482-486).
* Each activation drops the shuffle queue (PC 150), so shuffle never comes to the end of the list, and an item
  may come again before the others have been played. `ShuffleSkipsLoaded` is what remains.
* A playlist edited while a stop is pending does not move the index that waits for the stop (PC 762):
  another item plays, or none, and `playbackWanted` stays set.
* Removing the current item twice in quick succession while it plays drops `playbackWanted`
  (`ofxVlc4Media.cpp` 1516).
* While a removed item or a direct media is still loaded, its metadata are cached under the path of the item
  that took its index (ML 917). `CachedMetadataIsOwn` is stated for `calm` plans: the item that plays is not removed.
* Adding to an empty playlist while a direct media plays sets the current index to 0, so its end starts
  item 1. `removeFromPlaylist(-1)` without a current item stops the playback, and removing the only item while
  a direct media plays clears that media.
* Thumbnails: `requestThumbnail()` cancels, clears, creates and only then stores its request (ML 1180-1182), so
  an event that comes early finds none and leaves the new one active for ever; a late event of an old request
  destroys the new one's and is filed under the media current by then (ML 1269); `cancelThumbnailRequest()`
  destroys the request under `thumbnailMutex`, for which a handler under way waits (ML 1240). Not modelled.

Video output:

* A resize is compared with the size applied last, not with the one asked for last: back to the old size before
  VLC renders leaves the other one pending. `RendersAsAsked` is stated for `calm` plans.
* The shader path reads the state before it locks `videoMutex` and takes the dirty flag inside, so a frame of a new
  size may be copied at the old one, and the next copy waits for the next frame. `ExposedIsLatest` is stated for
  `getTexture()`.
* Beside a player that outlives the wait for its stop, `prepareStartupVideoResources()` and `clearCurrentMedia()` run without a
  lock against its video thread. A fence published between the look at the old one and its deletion (`VID` 386-396) is lost,
  and one that the other thread has taken is deleted again; a size that was asked for is overwritten, or kept for the next
  media. `FencesDeletedOnce` and `RendersAsAsked` are therefore stated where the video ends before its media is cleared; the
  other three properties hold without that.
* The startup resources are made in the main thread's context, although a framebuffer
  belongs to one context (the comment at `VID` 895-903 says so).
* There is one texture: VLC may render the next frame into it while the last is drawn, once the main thread has unlocked.
* `docs/GL_WORKFLOW_MAP.md:11` puts the swap before the release of the context, while `VID` relies on the opposite order.

MIDI:

* `stop()` returns at once for a file without messages, which goes on playing, and `clear()` leaves the device
  running then (`ofxVlc4MidiPlayback.cpp` 131). `RestsSilently` speaks of files with messages.
* A loop sends no note off: a note without an end sounds on, and the time past the end is dropped at each loop.
* `play()` while playing goes back to the playhead of the last update and sends a clock tick again; pause and play
  send one more; a change of tempo drops the ticks since the last update. `ClockKeepsTime` leaves these out.
* The drift from the video is measured against the playhead of the frame before, so below 20 frames a second every
  frame seeks; a video longer than the file makes every other frame start the file again and report its end
  (CORE 2291-2300).
* The application's callbacks run under `midiRuntime.mutex`: a call of a MIDI method from one of them never returns.

Dialogs:

* libVLC's cancel callbacks are dropped during a shutdown, so a dialog cancelled then is never released. `close()`
  does not clear the list: a dialog displayed between `dismissAllDialogs()` (CORE 2029) and `shuttingDown` (2104)
  is listed in the next session.
* A progress update looks a dialog up and stores it in two locked blocks (DLG 1033, 1050), and brings back an entry the
  application has removed in between.
* An answer removes its entry by the address after libVLC has freed the id: it may remove a newer dialog's, which then
  cannot be answered.

## 4. What is proved

`CallbackScope_proofs`, for any finite set of callback threads and any number of sessions:
`TypeInvariant`, `DepthIsExact` (`callbackDepth` is the number of callbacks between increment and
decrement), `TeardownIsExclusive`. The inductive invariant is the conjunction of the type invariant,
the exact count and `ShuttingDownWhileReleasing`: the drain passes only on a zero count, and a
callback counted later reads `shuttingDown` in its second test, which is up for the rest of the
teardown.

`PlaybackTransport_proofs`, for any playlist, modes and plans: `TypeInvariant` and
`LoadedMediaIsCurrent`. Neither is inductive alone. `StopsCounted` says where
`pendingManualStopEvents`, decremented without a test, may be below zero (inside the handler that
resets it), and `ItemKnown` that a request carries the item it was made for from its first step to
its last. `Invariance` proves the conjunction, one step per action.

The second half of the module is about calls that come one after the other (`InSeries`: each is made when
nothing of the one before is under way, and `get_state` never lags), any number of them, with any number of ends
and failures at any time: `SeriesAdvances`, `SeriesReplaces` and `SeriesStops` state `AdvancesOncePerEnd`,
`ReplacedOnlyWhenStopped` and `StopDropsRequests` of these. What makes them hard is that an end, its Stopped event
and the advance that follows are not calls: they may come between any two steps of a call or of `update()`. The
inductive invariant `SeriesInv` says, actor by actor, what such a step may find. `HandlerOrder`: the Stopped handler
runs on a stopped player, and one that counted an awaited stop finds no advance asked for. `PlayerOrder` and
`FlagsOrder`: what winds down is awaited or unwanted, a request that is ready finds a stopped player, and nothing
stops a player that still runs when an advance is asked for. `PlayOrder`, `RequestOrder`, `UpdateOrder` and
`StopOrder` say the same from inside each call, and `SeenOrder` that what `play()` has read of the player's state
still holds or is about to be followed by an advance. `PollFindsNothing` is the reason why the poll of `update()`
(PC 735-748) and the Stopped event never count one end twice: the poll finds a wanted media stopped only when the
advance is asked for already. `AdvancesOwed` adds it up: advances made, asked for and still to be reported are as
many as ends and failures at most.

`RecordingSession_proofs`, for any plans: `TypeInvariant`; `FilesFinalizedAlways` and
`WorkerJoinedAlways` from `MuxInv`, which adds that only one mux is pending or in progress and matches
the worker (`OneMux`), that none is pending while one is being armed (`ArmAlone`), and that a pending
mux whose captures have ended has its files finalized (`PendingFinalized`: this is what makes
`FilesFinalized` inductive, because the flags are cleared by the arming and set only at the end of a
capture); `OnlyMuxedIsDeleted` from `DiskInv`, which adds that a worker's successful result names a
pair already on disk (`ResultKnown`). `WorkerJoined` follows from `OneMux`: a mux is launched only when
it is pending, and then there is no worker.
`SourcesIntactAlways` holds because files are numbered as their captures start, and the last finished ones never
give way to older (`FilesOrdered`, `RecorderGrows`): all that is muxed or deleted is no newer than the files finished
before a mux was armed (`MuxedBefore`), a launch takes newer ones (`LaunchMuxed`), so a worker's files are newer than
all that was muxed (`WorkerAhead`). `OneSession`, for the plans that are not eager, has `MuxOwnSessionAlways`,
`StateShowsCaptureAlways` and `StopArmsMuxAlways` as its consequences: a pending mux expects the video now captured, or the
one just finished, the configuration of a capture started with muxOnStop survives to its stop, and no worker runs
beside a capture.

`Nle_proofs`, for any clips, marks, deltas, horizon and number of calls: `NoOverlapAlways`, as long as
no ripple trim shortens a head; `RefusedChangesNothingAlways` and `TrackIsTimeline`, if no splice falls
inside a segment either. Each operation of `Track` returns a sound track (`AddSound`, `ReplaceSound`,
`SetSound`), a shift does when it goes to the right (`ShiftRightSound`) or into room that is free
(`ShiftLeftSound`: what an extract has carved out, or a trimmed tail has given up, `ShiftedTail`). That
no trim stops halfway is shown by `TwoFit` and `SlidingFits`: once the first replacement is made, the
others are apart from all that stays, because the segments were neighbours (`Neighbours`).
`TrackIsTimeline` is the refinement of `Timeline`: a sound track shows at a frame the one segment that
covers it (`Shows`), so two tracks show the same where segments that show the same cover the frames
(`SameSeen`); `CarveSeen`, `ShiftSeenBefore` and `ShiftSeenAfter` say what a carved and a shifted track
show, and one lemma per call (`AddShown` ... `SlideShown`) makes a step of the timeline of it. That
rolls and slides keep as much filler as there was is counted in `TwoFiller` and `ThreeFiller`.

`SearchAgreesAlways`, again as long as no ripple trim shortens a head, is about the vector. A sound track that ends by
the horizon is finite and its starts differ, so ranks make a vector of it that is sorted (`RanksOrdered`,
`VectorSorted`). The loop of `lowerBoundByEnd()` is a recursive function: that there is one (`Searches`) and that its value
splits the vector into what ends by the frame and what does not (`SearchSplits`) are inductions over the length of a range,
made as arguments about the least length that fails (`LeastNatural`). `SearchFinds` needs the ends in order only around the frame
searched for, and this is what `ShiftedProbed` finds of a track that a ripple trim has shifted and not yet trimmed.

`PlaylistLibrary_proofs`, for any number of entries and any plans, so playlists of any length and any number of
calls: `Typing`, `ShuffleSkips`, `MetadataAreOwn`, `MovesSplice`, `EditsFollowItem`. The moves come first, and they are
about ranks: the members of a finite set of indices below one another are as many as the set has (`NthHasRank`, by
the cardinality of an injection, since there is no induction over the set), so the `k`th of them is the one of rank
`k` - 1. A set falls in two at the gap (`RanksSplit`, `ItemsSplit`), which makes a move a splice
(`MovedGroupSplices`) and says where each index goes (`GroupIndexFollows`); one item is a group of one (`OneIsAGroup`).
The inductive invariant, `IInv`, says that no entry is in the playlist twice, that a loaded entry that is still in the
playlist is the current item and the queue skips the current index (`LoadedIsCurrent`; this is what the drop of the
queue at every activation and edit is for), that a stop is awaited of an active player only, and, in the plans
`MetadataAreOwn` speaks of, that what is loaded is in the playlist (`LoadedInPlaylist`). One lemma per call shows that it
keeps `IInv` and makes an edit that follows the item.

`VideoOutput_proofs`, for any sizes, formats and plans: `FencesAreDeletedOnce`, `FinishedFrameIsSampled`,
`SampledInsideTexture`, `RenderedAsAsked`, `LatestIsExposed`; the second, the third and the last one also beside a player
that hangs. The inductive invariant says who holds the GL context and may touch the fence
when, what startup has read of it and of the size, that the commands' order never runs ahead of the GPU unless a wait failed, that a texture grows while a
session lasts, and how the requested, the pending and the applied size relate at each place of the video
thread. For `LatestIsExposed` it orders the frames (`FramesOrdered`: the frame in the texture and the one
last swapped are no newer than the one published, and between a publication and its swap the texture holds
the published one) and says that a copy that is not up to date, or a state read before a change that has
made it stale, has the dirty flag up or a swap to come (`Latest`).

`MidiPlayback_proofs`, for any files, tempos, interval, jump and drift, and any calls: `TypeInvariant`,
`DeviceRestsSilently`, `PositionAddsUp`, `MessagesOncePerPass`, `ClockTicks`. The inductive invariant ties the cursor to the
playhead (the messages before the one are those up to the other) and to what the pass has sent, and
the playhead to its anchor. `ClockTicks` adds that in a steady session the next tick is the first one
after those of the pass so far, which are counted by a quotient (`Clocked`, with `QuotientUnique`,
`SameQuotient` and `QuotientAbove` about division), and that a session at rest after it has played is at the
end of its file.

Also in `Nle_proofs`, about `NleTimecode`: `LabelsCountFramesAlways`, for every frame at every rate.
`MinuteStep` follows the division into ten minutes, a first minute and the nine shorter ones one frame
on, through the three boundaries; `LabelStep` makes labels of it; `FrameOf` is the way back.

`AudioRingBuffer_proofs`, for any capacity, word, block size and number of samples, under the assumption `MainWaits`
(without which `ring_mainwrites` finds the contrary): `TypeInvariant`, `RingIsSampleQueue`, `CopiesApartAlways`,
`PeekIsLatestAlways`, `ReadableWithinCapacityAlways`. The argument is about remainders first: the word is a multiple
of the capacity, so slots survive the wrap of an index (`SlotOfWord`), and indices less than the capacity apart share no slot
(`SlotsApart`); from these, the two-part copies of `writeBegin()`, `readBegin()` and `peekLatest()` touch the slots one
expects (`WritePlaces`, `ReadPlaces`, `PeekPlaces`). The inductive invariant says that the indices are as far apart as the samples
accepted and not delivered, that the slots between them hold these samples, and that the room a producer
has found stays free whatever the reader does meanwhile. Publishing is then `Put`, the end of a read `Take`, the
second store of a reset `Drop`, and every other step changes nothing the queue knows of.

The proofs assume the named assumptions of the modules' constants, and `MainWaits` where it is named, and nothing
else. What stays with TLC, and why:

* Liveness, and `ENABLED`, are out of the prover's reach: `TeardownEnds`, `PlayPlays`, `PlayIndexPlays`, `StopCompletes`,
  `StopEndsCapture`, `MuxEnds`.
* `AdvancesOncePerEnd`, `ReplacedOnlyWhenStopped` and `StopDropsRequests` for the two or three calls that may
  overlap: they fail with more of them, so an inductive invariant would have to know which calls overlapped.

## 5. Plan

What the next steps would be, in this order:

1. Thumbnails, with the locks of `ML` 1170-1290; frame capture and readback under the recorder's two mutexes, composed with
   the recording session.
2. The transport beneath the recorder, so that the player may play other media during a session.
3. Proofs: the dialogs; the transport's rules for two calls that overlap.

Not modelled, and why:

* Overlays: options forwarded to libVLC. Facades: calls forwarded to the player and the recorder.
* Discovery and renderers: sequential calls of the main thread, and lists replaced as a whole under one mutex.
* The crash handler: signal I/O. Logging, formatting, the parsing of MIDI files and the export of edit lists: no
  state to protect.
* OpenGL and Direct3D drawing, codecs, the equalizer and the spectrum: data without control.
* The example programs' user interface, and the headers of libVLC, which are vendored.
* The undo stack: it keeps two lists, and the repository gives it no command but those of its tests.
