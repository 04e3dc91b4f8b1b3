------------------------ MODULE MCPlaybackTransport ------------------------
(* Instances of PlaybackTransport for TLC: the plans its runs follow. *)
EXTENDS PlaybackTransport

MCEveryMode == {"Default", "Repeat", "Loop"}
MCDefaultMode == {"Default"}

Series(kinds, commands, ends) ==
    [kinds |-> kinds, commands |-> commands, ends |-> ends, faults |-> 0,
     overlapping |-> FALSE, late |-> FALSE, hangs |-> FALSE]
Overlap(kinds, commands, ends, faults) ==
    [Series(kinds, commands, ends) EXCEPT !.overlapping = TRUE, !.faults = faults]

\* Two calls racing an end and a failure, with and without a slow start; four
\* calls one after the other, with an end; three overlapping calls without one.
MCSafetyPlans ==
    {Overlap(AllCommands, 2, 1, 1),
     [Overlap(AllCommands, 2, 1, 1) EXCEPT !.late = TRUE],
     Series(AllCommands, 4, 1),
     Overlap(AllCommands, 3, 0, 0)}

\* Four calls one after the other, and three overlapping calls of a player that
\* may hang.
MCLivePlans ==
    {Series(AllCommands, 4, 0),
     [Overlap({"play", "pause", "stop"}, 3, 0, 0) EXCEPT !.hangs = TRUE]}

\* play() and stop() in quick succession.
MCStartStopPlans == {Overlap({"play", "stop"}, 3, 0, 0)}
=============================================================================
