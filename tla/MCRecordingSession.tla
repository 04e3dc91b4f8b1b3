------------------------- MODULE MCRecordingSession -------------------------
(* Instances of RecordingSession for TLC: the plans its runs follow. *)
EXTENDS RecordingSession

EverySession == [audio : BOOLEAN, muxOnStop : BOOLEAN]
WithAudio == [audio : {TRUE}, muxOnStop : BOOLEAN]

Plan(calls, sessions, captures) ==
    [calls |-> calls, sessions |-> sessions, captures |-> captures, startFaults |-> 0,
     audioFaults |-> 0, eager |-> FALSE, deletes |-> TRUE]

\* Two captures of every kind one after the other, with a failure of each kind;
\* two started at any moment, with an audio file that fails; three sessions started
\* at any moment, their files deleted once muxed; and two without any failure.
MCSessionPlans ==
    {[Plan(Calls, EverySession, 2) EXCEPT !.startFaults = 1, !.audioFaults = 1],
     [Plan(Calls \ {"audio", "playerStop"}, EverySession, 2) EXCEPT
         !.audioFaults = 1, !.eager = TRUE],
     [Plan({"stop", "stopAndMux", "playerStop"}, WithAudio, 3) EXCEPT !.eager = TRUE],
     Plan(Calls, WithAudio, 2)}
=============================================================================
