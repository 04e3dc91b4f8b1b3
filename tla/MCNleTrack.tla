----------------------------- MODULE MCNleTrack -----------------------------
(* Instances of NleTrack and NleTimecode for TLC. *)
EXTENDS NleTrackSearch, NleTimecode, TLC

\* Every call but those that leave a track halfway or overlapping: a splice inside
\* a segment, and a ripple trim that shortens the head.
MCSoundOperations == (Edits \cup Trims) \ {"spliceInside", "shortenHead"}

MCSourceMarks == {1, 3}
MCRecordMarks == {0, 2, 4}
MCDeltas == {-1, 2}

\* Nothing in a track depends on which clip is which.
MCClips == Permutations(Clips)

\* The frames around every full minute of the first hour and a bit, at every rate.
MCLabelledFrames ==
    {fps * 60 * m - dropped * (m - m \div 10) + d :
        fps \in {24, 25, 30, 50, 60}, dropped \in {0, 2, 4}, m \in 1 .. 61, d \in -2 .. 2}

\* At these frames the labels count on, read back and survive milliseconds; TLC
\* evaluates this once, before it looks for states.
ASSUME LabelsCountAroundMinutes == LabelsCountFrames
=============================================================================
