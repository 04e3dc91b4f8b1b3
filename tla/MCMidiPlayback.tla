--------------------------- MODULE MCMidiPlayback ---------------------------
(* Instances of MidiPlayback for TLC. *)
EXTENDS MidiPlayback

Message(time, note, on) == [time |-> time, note |-> note, on |-> on]

\* Two notes that overlap, the first message at the start and the last one at the end.
Chord == [duration |-> 3,
          messages |-> << Message(0, 1, TRUE), Message(2, 2, TRUE), Message(2, 1, FALSE),
                          Message(3, 2, FALSE) >>]
\* A note that never ends, and a file without messages.
Drone == [duration |-> 2, messages |-> << Message(1, 1, TRUE) >>]
Empty == [duration |-> 2, messages |-> << >>]
MCFiles == {Chord, Drone, Empty}

Plan(kinds, files, n, until) ==
    [kinds |-> kinds, files |-> files, calls |-> n, until |-> until]

\* Six calls of load, play, stop, seek and loop; five with pause and tempo; five with clear and
\* replay; three with the video; four of every kind but the video's, also with no messages.
MCPlans ==
    {Plan({"load", "play", "stop", "seek", "loop"}, {Chord}, 6, 6),
     Plan(Commands \ {"sync", "replay", "clear"}, {Chord, Drone}, 5, 5),
     Plan({"load", "clear", "play", "replay", "pause", "seek"}, {Chord, Drone}, 5, 5),
     Plan({"load", "play", "pause", "seek", "sync"}, {Chord}, 3, 4),
     Plan(Commands \ {"sync"}, {Empty, Drone}, 4, 5)}
=============================================================================
