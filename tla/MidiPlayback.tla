---------------------------- MODULE MidiPlayback ----------------------------
(***************************************************************************)
(* MidiPlaybackSession: the messages of a MIDI file sent to the            *)
(* application's callback at their times, with a MIDI clock, under play,   *)
(* pause, stop, seek, loops, changes of tempo, and the synchronisation of  *)
(* ofxVlc4::updateMidiTransport() to the video's watch time.               *)
(*                                                                         *)
(* Time is a number of steps.  A message is a note that begins or ends;    *)
(* the clock's interval is that of one tempo.  Every call of ofxVlc4 holds *)
(* midiRuntime.mutex from its first step to its last, callbacks included,  *)
(* so a call is one step.  The callback is set, and settings ask for the   *)
(* clock, transport messages and song positions, from the start.           *)
(*                                                                         *)
(* A pass is what is played since the position was last set: by a load, a  *)
(* stop, a seek or a loop.  The fields of midi from notes on are not the   *)
(* session's but what it leads to: what the device behind the callback has *)
(* been told, and the pass.                                                *)
(***************************************************************************)
EXTENDS Integers, Sequences, FiniteSetsExt

CONSTANTS
    Files,     \* records of the messages and the duration of a file
    Notes,     \* the notes of all channels
    Tempos,    \* multipliers
    Interval,  \* steps between two ticks of the clock
    Jump,      \* a change of the watch time above it is a discontinuity
    Drift,     \* a difference from the watch time above it is corrected
    Plans      \* what the application calls in a behaviour, how often, and until when

Sorted(messages) == \A i, j \in 1 .. Len(messages) : i < j => messages[i].time <= messages[j].time

\* The analyzer sorts the events of a file, and none is later than its end.
ASSUME FilesAssumption ==
    \A f \in Files :
        /\ f.duration \in Nat
        /\ f.messages \in Seq([time : 0 .. f.duration, note : Notes, on : BOOLEAN])
        /\ Sorted(f.messages)
ASSUME TempoAssumption == Tempos \subseteq Nat \ {0} /\ 1 \in Tempos
ASSUME TimeAssumption == Interval \in Nat \ {0} /\ Jump \in Nat /\ Drift \in Nat

Commands == {"load", "clear", "play", "replay", "pause", "stop", "seek", "tempo", "loop", "sync"}
ASSUME PlansAssumption ==
    Plans \subseteq [kinds : SUBSET Commands, files : SUBSET Files, calls : Nat, until : Nat]

VARIABLES
    midi,   \* the session; what has been sent; the pass
    watch,  \* syncToWatchTime (of the source WatchTime), lastWatchTimeUs, getWatchTimeInfo()
    now,    \* ofGetElapsedTimef()
    frame,  \* when update() was last called: once per frame, and a frame takes time
    plan, calls

vars == << midi, watch, now, frame, plan, calls >>

NoFile == [messages |-> << >>, duration |-> 0]
NotYet == -1

MidiType == [
    file : Files \cup {NoFile},
    loaded : BOOLEAN, playing : BOOLEAN, finished : BOOLEAN, loop : BOOLEAN,
    playhead : Nat, startWall : Nat, startPos : Nat,   \* playbackStartWallSeconds, ...PositionSeconds
    tempo : Tempos,
    nextSync : Nat,
    cursor : Nat,                                      \* MidiTimelineCursor::index
    notes : SUBSET Notes, running : BOOLEAN,           \* of the device: sounding, started
    heard : Seq(Nat), clocks : Nat,                    \* sent in this pass
    origin : Nat, reached : Nat \cup {NotYet}, elapsed : Nat]

WatchType == [sync : BOOLEAN, last : Nat \cup {NotYet}, available : BOOLEAN,
              paused : BOOLEAN, seeking : BOOLEAN, time : Nat]

TypeOK ==
    /\ midi \in MidiType
    /\ watch \in WatchType
    /\ now \in Nat /\ frame \in Nat \cup {NotYet} /\ plan \in Plans /\ calls \in Nat

Init ==
    /\ midi = [file |-> NoFile, loaded |-> FALSE, playing |-> FALSE, finished |-> FALSE,
               loop |-> FALSE, playhead |-> 0, startWall |-> 0, startPos |-> 0, tempo |-> 1,
               nextSync |-> 0, cursor |-> 0, notes |-> {}, running |-> FALSE,
               heard |-> << >>, clocks |-> 0, origin |-> 0, reached |-> NotYet, elapsed |-> 0]
    /\ watch = [sync |-> FALSE, last |-> NotYet, available |-> FALSE, paused |-> FALSE,
                seeking |-> FALSE, time |-> 0]
    /\ now = 0 /\ frame = NotYet /\ plan \in Plans /\ calls = 0

-----------------------------------------------------------------------------
(* What is sent to the callback *)

Larger(a, b) == IF a > b THEN a ELSE b
Smaller(a, b) == IF a < b THEN a ELSE b

\* A new pass begins at a position.
PassFrom(m, position) ==
    [m EXCEPT !.origin = position, !.reached = NotYet, !.elapsed = 0, !.heard = << >>, !.clocks = 0]

\* MidiTimelineCursor::advanceUntil(): messages at the position itself are passed.
AdvancedUntil(m, position) ==
    Min({c \in m.cursor .. Len(m.file.messages) :
            c < Len(m.file.messages) => m.file.messages[c + 1].time > position})

\* MidiTimelineCursor::seekSeconds(): messages at the position are still to come.
\* A plausible bug: they are passed.
SoughtTo_UpperBound(m, position) ==
    Min({c \in 0 .. Len(m.file.messages) :
            c < Len(m.file.messages) => m.file.messages[c + 1].time > position})
SoughtTo(m, position) ==
    Min({c \in 0 .. Len(m.file.messages) :
            c < Len(m.file.messages) => m.file.messages[c + 1].time >= position})

\* The notes that sound once the messages behind `from` up to `to` have been sent.
Sounding(m, from, to) ==
    LET about(n) == {i \in from + 1 .. to : m.file.messages[i].note = n} IN
    {n \in Notes : IF about(n) = {} THEN n \in m.notes ELSE m.file.messages[Max(about(n))].on}

\* dispatchRange()
Dispatched(m, position) ==
    LET to == AdvancedUntil(m, position) IN
    [m EXCEPT !.cursor = to, !.notes = Sounding(m, m.cursor, to), !.reached = position,
              !.heard = m.heard \o [k \in 1 .. to - m.cursor |-> m.cursor + k]]

\* emitSyncBetween(): the clock ticks that are due, from the previous playhead on.
Synced(m, from, position) ==
    LET first == Larger(m.nextSync, from)
        ticks == IF position < first THEN 0 ELSE 1 + (position - first) \div Interval
    IN  IF position < from THEN m
        ELSE [m EXCEPT !.clocks = m.clocks + ticks, !.nextSync = first + ticks * Interval]

AllNotesOff(m) == [m EXCEPT !.notes = {}]
TransportStart(m) == [m EXCEPT !.running = TRUE]
TransportStop(m) == [m EXCEPT !.running = FALSE]

-----------------------------------------------------------------------------
(* MidiPlaybackSession *)

\* stop()
Stopped(m) ==
    IF ~m.loaded \/ m.file.messages = << >> THEN m
    ELSE LET reset == [m EXCEPT !.playing = FALSE, !.finished = FALSE, !.playhead = 0,
                                !.startWall = 0, !.startPos = 0, !.nextSync = 0, !.cursor = 0]
         IN  AllNotesOff(TransportStop(PassFrom(reset, 0)))

\* clear(), and load() of a file that can be read; the loop flag is kept.
Loaded(m, file, loaded) ==
    LET stopped == Stopped(m)
        cleared == [stopped EXCEPT !.file = file, !.loaded = loaded, !.playing = FALSE,
                       !.finished = FALSE, !.playhead = 0, !.startWall = 0, !.startPos = 0,
                       !.tempo = 1, !.nextSync = 0, !.cursor = 0]
    IN  PassFrom(cleared, 0)

\* seek(); the time is passed on only if it is above zero.
Sought(m, seconds, at) ==
    LET to == Smaller(seconds, m.file.duration)
        moved == [m EXCEPT !.playhead = to, !.startPos = to, !.nextSync = to,
                           !.startWall = IF m.playing /\ at > 0 THEN at ELSE m.startWall,
                           !.cursor = SoughtTo(m, to),
                           !.finished = m.file.duration > 0 /\ to >= m.file.duration]
    IN  IF m.loaded THEN AllNotesOff(PassFrom(moved, to)) ELSE m

\* play(); after the end it starts again.
Played(m) ==
    LET again == m.finished /\ m.playhead >= m.file.duration
        from == IF again THEN [Sought(m, 0, 0) EXCEPT !.finished = FALSE] ELSE m
        started == [from EXCEPT !.startWall = now, !.startPos = from.playhead, !.playing = TRUE,
                                !.nextSync = from.playhead]
    IN  IF m.loaded THEN TransportStart(started) ELSE m

\* Where the playhead is at this time.
Position(m) == m.startPos + (now - m.startWall) * m.tempo

\* pause()
Paused(m) ==
    LET held == [m EXCEPT !.playhead = Position(m), !.startPos = Position(m), !.playing = FALSE]
    IN  IF m.loaded /\ m.playing THEN AllNotesOff(TransportStop(held)) ELSE m

\* setTempoMultiplier(): the old tempo counts up to now.
\* A plausible bug: the new one counts from the start.
Anchored_Not(m) == m
Anchored(m) ==
    IF m.loaded /\ m.playing
    THEN [m EXCEPT !.playhead = Position(m), !.startWall = now,
                   !.startPos = Smaller(Position(m), m.file.duration)]
    ELSE m
WithTempo(m, tempo) == IF m.tempo = tempo THEN m ELSE [Anchored(m) EXCEPT !.tempo = tempo]

\* The end of the file in update(): with the loop flag it starts again, without a word to
\* the notes that sound; else the finished callback is called.
\* A plausible bug: the next clock tick stays where it was.
Looped_KeepsSync(m) ==
    LET rewound == [m EXCEPT !.playhead = 0, !.startPos = 0, !.startWall = now, !.cursor = 0]
    IN  TransportStart(PassFrom(rewound, 0))
Looped(m) ==
    LET rewound == [m EXCEPT !.playhead = 0, !.startPos = 0, !.startWall = now,
                             !.nextSync = 0, !.cursor = 0]
    IN  TransportStart(PassFrom(rewound, 0))

\* A plausible bug: the notes that sound are left.
Finished_Sounding(m) == TransportStop([m EXCEPT !.playing = FALSE, !.finished = TRUE])
Finished(m) == AllNotesOff(TransportStop([m EXCEPT !.playing = FALSE, !.finished = TRUE]))

\* update()
Updated(m) ==
    LET ended == m.file.duration > 0 /\ Position(m) >= m.file.duration
        to == IF ended THEN m.file.duration ELSE Position(m)
        sent == Synced(Dispatched([m EXCEPT !.playhead = to], to), m.playhead, to)
    IN  IF ~m.loaded \/ ~m.playing THEN m
        ELSE IF ~ended THEN sent
        ELSE IF m.loop THEN Looped(sent)
        ELSE Finished(sent)

-----------------------------------------------------------------------------
(* The calls of ofxVlc4, each under midiRuntime.mutex *)

Calls(kind) ==
    /\ kind \in plan.kinds /\ calls < plan.calls
    /\ calls' = calls + 1
    /\ UNCHANGED << now, frame, plan >>

\* loadMidiFile() of a file that can be read ...
LoadMidiFile ==
    /\ Calls("load")
    /\ \E f \in plan.files : midi' = Loaded(midi, f, TRUE)
    /\ watch' = [watch EXCEPT !.last = NotYet]

\* ... and of one that cannot, or clearMidiTransport().
ClearMidiTransport ==
    /\ Calls("clear")
    /\ midi' = Loaded(midi, NoFile, FALSE)
    /\ watch' = [watch EXCEPT !.last = NotYet]

PlayMidi ==
    /\ Calls(IF midi.playing THEN "replay" ELSE "play")
    /\ midi' = Played(midi)
    /\ UNCHANGED watch

PauseMidi == Calls("pause") /\ midi' = Paused(midi) /\ UNCHANGED watch

StopMidi == Calls("stop") /\ midi' = Stopped(midi) /\ UNCHANGED watch

SeekMidi ==
    /\ Calls("seek")
    /\ \E s \in 0 .. midi.file.duration : midi' = Sought(midi, s, now)
    /\ UNCHANGED watch

SetMidiTempoMultiplier ==
    /\ Calls("tempo")
    /\ \E t \in Tempos : midi' = WithTempo(midi, t)
    /\ UNCHANGED watch

SetMidiLoopEnabled ==
    /\ Calls("loop")
    /\ midi' = [midi EXCEPT !.loop = ~midi.loop]
    /\ UNCHANGED watch

SetMidiSyncToWatchTimeEnabled ==
    /\ Calls("sync")
    /\ watch' = [watch EXCEPT !.sync = ~watch.sync,
                              !.last = IF watch.sync THEN NotYet ELSE watch.last]
    /\ UNCHANGED midi

\* updateMidiTransport() in a frame: the session follows the watch time, then goes on.
Apart(a, b) == Larger(a - b, b - a)
Follows(m) ==
    LET discontinuity == watch.last = NotYet \/ Apart(watch.time, watch.last) > Jump
        drifted == Apart(m.playhead, watch.time) > Drift
        there == IF watch.seeking \/ discontinuity \/ drifted THEN Sought(m, watch.time, now) ELSE m
    IN  IF watch.paused THEN Paused(there)
        ELSE IF there.playing THEN there
        ELSE Played(there)

UpdateMidiTransport ==
    LET synced == midi.loaded /\ watch.sync /\ watch.available IN
    /\ frame < now /\ frame' = now
    /\ midi' = Updated(IF synced THEN Follows(midi) ELSE midi)
    /\ watch' = IF synced THEN [watch EXCEPT !.last = watch.time] ELSE watch
    /\ UNCHANGED << now, plan, calls >>

-----------------------------------------------------------------------------
(* The time, and the video's *)

TimePasses ==
    /\ now < plan.until
    /\ now' = now + 1
    /\ midi' = [midi EXCEPT !.elapsed = midi.elapsed + (IF midi.playing THEN midi.tempo ELSE 0)]
    /\ UNCHANGED << watch, frame, plan, calls >>

\* The video plays, is paused or seeks: getWatchTimeInfo() returns anything.
VideoMoves ==
    /\ "sync" \in plan.kinds
    /\ \E paused, seeking \in BOOLEAN, time \in 0 .. plan.until :
          watch' = [watch EXCEPT !.available = TRUE, !.paused = paused, !.seeking = seeking,
                                 !.time = time]
    /\ UNCHANGED << midi, now, frame, plan, calls >>

Next ==
    \/ LoadMidiFile \/ ClearMidiTransport
    \/ PlayMidi \/ PauseMidi \/ StopMidi \/ SeekMidi
    \/ SetMidiTempoMultiplier \/ SetMidiLoopEnabled \/ SetMidiSyncToWatchTimeEnabled
    \/ UpdateMidiTransport
    \/ TimePasses \/ VideoMoves

Spec == Init /\ [][Next]_vars

-----------------------------------------------------------------------------
(* Properties *)

\* In a pass every message from its origin to where the last update() came is sent, once
\* and in order, and no other: the cursor keeps step with the playhead through seeks,
\* loops, pauses, changes of tempo and files (MidiTimelineCursor).
EachMessageOncePerPass ==
    /\ \A i \in DOMAIN midi.file.messages :
          (\E k \in DOMAIN midi.heard : midi.heard[k] = i) <=>
              midi.origin <= midi.file.messages[i].time /\ midi.file.messages[i].time <= midi.reached
    /\ \A k \in 1 .. Len(midi.heard) - 1 : midi.heard[k + 1] = midi.heard[k] + 1

\* The device runs when the session plays; otherwise it is told to stop and nothing sounds,
\* however the session came to rest, as long as every file has a message (stop() returns
\* at once when there is none).
RestsSilently ==
    (\A f \in plan.files : f.messages # << >>) =>
        /\ midi.running = midi.playing
        /\ ~midi.playing => midi.notes = {}

\* The position is what has been played in the pass, each stretch at its own tempo, up to
\* the end of the file; play() while playing excepted, which goes back to the last update().
PositionIsElapsed ==
    "replay" \notin plan.kinds /\ midi.file.duration > 0 =>
        Smaller(IF midi.playing THEN Position(midi) ELSE midi.playhead, midi.file.duration)
            = Smaller(midi.origin + midi.elapsed, midi.file.duration)

\* Without pauses and changes of tempo, the clock ticks of a pass are those between its
\* origin and where the last update() came: none lost, none twice, through seeks and loops.
ClockKeepsTime ==
    plan.kinds \cap {"pause", "tempo", "replay", "sync"} = {} =>
        midi.clocks = IF midi.reached = NotYet THEN 0
                      ELSE 1 + (midi.reached - midi.origin) \div Interval
=============================================================================
