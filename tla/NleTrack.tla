------------------------------ MODULE NleTrack ------------------------------
(***************************************************************************)
(* A track of the NLE: segments of clips on a timeline, kept free of       *)
(* overlaps by Track, and the edits (overwrite, splice-in, lift, extract)  *)
(* and trims (ripple, roll, slip, slide) that its editor calls.            *)
(*                                                                         *)
(* The vector of segments, sorted by their starts, is a set here: while no *)
(* two segments overlap their starts differ, and an index is a rank among  *)
(* them.  NleTrackSearch has the binary searches on the vector.  All       *)
(* timecodes of a sequence have one rate and are numbers of frames.        *)
(***************************************************************************)
EXTENDS Integers

CONSTANTS
    Clips,        \* master clips
    SourceMarks,  \* frames of a clip that may be marked
    RecordMarks,  \* frames of the timeline that may be marked
    Deltas,       \* by how many frames a trim moves
    Operations,   \* what the editor calls
    MaxCalls,     \* bound on the number of calls
    Horizon       \* bound on the frames of the timeline

Edits == {"add", "remove", "overwrite", "splice", "spliceInside", "lift", "extract"}
Trims == {"extendHead", "shortenHead", "tail", "roll", "slip", "slide"}

ASSUME InputsAssumption ==
    /\ SourceMarks \subseteq Nat /\ RecordMarks \subseteq Nat
    /\ Deltas \subseteq Int \ {0}
    /\ Operations \subseteq Edits \cup Trims
    /\ MaxCalls \in Nat /\ Horizon \in Nat

VARIABLES
    segments,   \* m_segments
    accepted,   \* what the last call returned
    calls       \* the number of calls so far

vars == << segments, accepted, calls >>

Segment == [clip : Clips, sourceIn : Nat, duration : Nat \ {0}, start : Nat]

Piece(clip, sourceIn, duration, start) ==
    [clip |-> clip, sourceIn |-> sourceIn, duration |-> duration, start |-> start]

TypeOK ==
    /\ segments \in SUBSET Segment
    /\ accepted \in BOOLEAN
    /\ calls \in 0 .. MaxCalls

Init == segments = {} /\ accepted = TRUE /\ calls = 0

-----------------------------------------------------------------------------
(* Timecodes *)

\* A timecode is never negative.
Timecode(frames) == IF frames < 0 THEN 0 ELSE frames

End(s) == s.start + s.duration

-----------------------------------------------------------------------------
(* Track: each operation returns the segments it leaves and its result. *)

Returns(ok, track) == [ok |-> ok, track |-> track]

\* A plausible bug: segments that share one frame do not overlap.
Overlap_OneFrame(s, t) == s.start + 1 < End(t) /\ t.start + 1 < End(s)

Overlap(s, t) == s.start < End(t) /\ t.start < End(s)
WouldOverlap(track, s) == \E t \in track : Overlap(s, t)

AddSegment(track, s) ==
    IF s.duration > 0 /\ ~WouldOverlap(track, s)
    THEN Returns(TRUE, track \cup {s})
    ELSE Returns(FALSE, track)

ReplaceSegment(track, s, new) ==
    IF new.duration > 0 /\ ~WouldOverlap(track \ {s}, new)
    THEN Returns(TRUE, (track \ {s}) \cup {new})
    ELSE Returns(FALSE, track)

\* Several replacements, the first that is refused being the last.
ReplaceInTurn(track, s1, new1, s2, new2) ==
    LET first == ReplaceSegment(track, s1, new1) IN
    IF first.ok THEN ReplaceSegment(first.track, s2, new2) ELSE first

SetSegments(track, new) ==
    IF \A s \in new : s.duration > 0 /\ ~WouldOverlap(new \ {s}, s)
    THEN Returns(TRUE, new)
    ELSE Returns(FALSE, track)

RippleShift(track, from, offset) ==
    {IF s.start < from THEN s ELSE [s EXCEPT !.start = Timecode(s.start + offset)] : s \in track}

-----------------------------------------------------------------------------
(* Edits *)

\* A three-point edit: what is taken from the clip and where it goes, with one of
\* the four marks derived from the others.
ThreePoint(sourceIn, duration, recordIn) ==
    [sourceIn |-> sourceIn, duration |-> duration, recordIn |-> recordIn]

SourceOutMissing ==
    {ThreePoint(in, Timecode(to - from), from) : in \in SourceMarks, from, to \in RecordMarks}
SourceInMissing ==
    {ThreePoint(Timecode(out - Timecode(to - from)), Timecode(to - from), from) :
        out \in SourceMarks, from, to \in RecordMarks}
RecordOutMissing ==
    {ThreePoint(in, Timecode(out - in), from) : in, out \in SourceMarks, from \in RecordMarks}
RecordInMissing ==
    {ThreePoint(in, Timecode(out - in), Timecode(to - Timecode(out - in))) :
        in, out \in SourceMarks, to \in RecordMarks}

ThreePointEdits ==
    {e \in SourceOutMissing \cup SourceInMissing \cup RecordOutMissing \cup RecordInMissing :
        e.duration > 0}

NewSegment(clip, edit) ==
    Piece(clip, edit.sourceIn, edit.duration, edit.recordIn)

\* What is left of a segment when the frames from .. to - 1 are carved out of the
\* track: what lies before them and what lies after them.
Before(s, from) ==
    IF s.start >= from THEN {}
    ELSE {IF End(s) <= from THEN s ELSE [s EXCEPT !.duration = from - s.start]}

\* A plausible bug: what lies after them starts over in its clip.
After_FromStart(s, to) ==
    IF End(s) <= to THEN {}
    ELSE {IF s.start >= to THEN s ELSE Piece(s.clip, s.sourceIn, End(s) - to, to)}

After(s, to) ==
    IF End(s) <= to THEN {}
    ELSE {IF s.start >= to THEN s
          ELSE Piece(s.clip, s.sourceIn + (to - s.start), End(s) - to, to)}

CarveOutRange(track, from, to) == UNION {Before(s, from) \cup After(s, to) : s \in track}

EditOverwrite(track, new) ==
    SetSegments(track, CarveOutRange(track, new.start, End(new)) \cup {new})

EditSpliceIn(track, new) ==
    AddSegment(RippleShift(track, new.start, new.duration), new)

EditLift(track, from, to) == SetSegments(track, CarveOutRange(track, from, to))

EditExtract(track, from, to) ==
    LET lift == EditLift(track, from, to) IN
    IF lift.ok THEN Returns(TRUE, RippleShift(lift.track, from, from - to)) ELSE lift

-----------------------------------------------------------------------------
(* Trims *)

Refused(track) == Returns(FALSE, track)

\* The in point moves, and with it the start of the segment; what follows the end,
\* which stays, is shifted by as much the other way.
TrimRippleLeft(track, s, delta) ==
    LET new == Piece(s.clip, s.sourceIn + delta, s.duration - delta, s.start + delta)
        replaced == ReplaceSegment(track, s, new)
    IN IF new.sourceIn < 0 \/ new.start < 0 \/ new.duration <= 0 THEN Refused(track)
       ELSE IF ~replaced.ok THEN replaced
       ELSE Returns(TRUE, RippleShift(replaced.track, End(new), -delta))

\* The out point moves, and what follows the segment with it.
TrimRippleRight(track, s, delta) ==
    LET new == [s EXCEPT !.duration = @ + delta]
    IN IF new.duration <= 0 THEN Refused(track)
       ELSE ReplaceSegment(RippleShift(track, End(s), delta), s, new)

\* The cut between two segments moves.
TrimRoll(track, left, right, delta) ==
    LET newLeft == [left EXCEPT !.duration = @ + delta]
        newRight == Piece(right.clip, right.sourceIn + delta, right.duration - delta,
                          Timecode(right.start + delta))
    IN IF newLeft.duration <= 0 \/ newRight.sourceIn < 0 \/ newRight.duration <= 0
       THEN Refused(track)
       ELSE IF delta > 0
       THEN ReplaceInTurn(track, right, newRight, left, newLeft)
       ELSE ReplaceInTurn(track, left, newLeft, right, newRight)

\* The clip moves under its segment.
TrimSlip(track, s, delta) ==
    IF s.sourceIn + delta < 0 THEN Refused(track)
    ELSE ReplaceSegment(track, s, [s EXCEPT !.sourceIn = @ + delta])

\* A plausible bug: the neighbour that grows is replaced before the segment moves.
ReplaceSliding_GrowFirst(track, shrinking, shrunk, s, moved, growing, grown) ==
    LET first == ReplaceInTurn(track, shrinking, shrunk, growing, grown) IN
    IF first.ok THEN ReplaceSegment(first.track, s, moved) ELSE first

\* The neighbour that shrinks makes room for the segment, and it for the other one.
ReplaceSliding(track, shrinking, shrunk, s, moved, growing, grown) ==
    LET first == ReplaceInTurn(track, shrinking, shrunk, s, moved) IN
    IF first.ok THEN ReplaceSegment(first.track, growing, grown) ELSE first

\* A segment moves between its neighbours, which fill and make the room.
TrimSlide(track, prev, curr, next, delta) ==
    LET newPrev == [prev EXCEPT !.duration = @ + delta]
        newCurr == [curr EXCEPT !.start = @ + delta]
        newNext == Piece(next.clip, next.sourceIn + delta, next.duration - delta,
                         Timecode(next.start + delta))
    IN IF \/ newPrev.duration <= 0 \/ newCurr.start < 0
          \/ newNext.sourceIn < 0 \/ newNext.duration <= 0
       THEN Refused(track)
       ELSE IF delta > 0
       THEN ReplaceSliding(track, next, newNext, curr, newCurr, prev, newPrev)
       ELSE ReplaceSliding(track, prev, newPrev, curr, newCurr, next, newNext)

-----------------------------------------------------------------------------
(* The calls of the editor *)

Call(result) ==
    /\ calls < MaxCalls
    /\ \A s \in result.track : End(s) <= Horizon
    /\ calls' = calls + 1
    /\ segments' = result.track
    /\ accepted' = result.ok

\* right is the segment after left in the track.
Adjacent(track, left, right) ==
    /\ left.start < right.start
    /\ \A s \in track : s.start <= left.start \/ right.start <= s.start

Inside(frame) == \E s \in segments : s.start < frame /\ frame < End(s)

Add ==
    /\ "add" \in Operations
    /\ \E clip \in Clips, edit \in ThreePointEdits : Call(AddSegment(segments, NewSegment(clip, edit)))

RemoveSegment ==
    /\ "remove" \in Operations
    /\ \E s \in segments : Call(Returns(TRUE, segments \ {s}))

Overwrite ==
    /\ "overwrite" \in Operations
    /\ \E clip \in Clips, edit \in ThreePointEdits : Call(EditOverwrite(segments, NewSegment(clip, edit)))

SpliceIn ==
    \E clip \in Clips, edit \in ThreePointEdits :
        /\ (IF Inside(edit.recordIn) THEN "spliceInside" ELSE "splice") \in Operations
        /\ Call(EditSpliceIn(segments, NewSegment(clip, edit)))

\* A range that is empty or backwards is refused.
Lift ==
    /\ "lift" \in Operations
    /\ \E from, to \in RecordMarks :
        Call(IF to <= from THEN Refused(segments) ELSE EditLift(segments, from, to))

Extract ==
    /\ "extract" \in Operations
    /\ \E from, to \in RecordMarks :
        Call(IF to <= from THEN Refused(segments) ELSE EditExtract(segments, from, to))

RippleLeft ==
    \E s \in segments, delta \in Deltas :
        /\ (IF delta < 0 THEN "extendHead" ELSE "shortenHead") \in Operations
        /\ Call(TrimRippleLeft(segments, s, delta))

RippleRight ==
    /\ "tail" \in Operations
    /\ \E s \in segments, delta \in Deltas : Call(TrimRippleRight(segments, s, delta))

Roll ==
    /\ "roll" \in Operations
    /\ \E left, right \in segments, delta \in Deltas :
        Adjacent(segments, left, right) /\ Call(TrimRoll(segments, left, right, delta))

Slip ==
    /\ "slip" \in Operations
    /\ \E s \in segments, delta \in Deltas : Call(TrimSlip(segments, s, delta))

Slide ==
    /\ "slide" \in Operations
    /\ \E prev, curr, next \in segments, delta \in Deltas :
        /\ Adjacent(segments, prev, curr) /\ Adjacent(segments, curr, next)
        /\ Call(TrimSlide(segments, prev, curr, next, delta))

Next ==
    \/ Add \/ RemoveSegment \/ Overwrite \/ SpliceIn \/ Lift \/ Extract
    \/ RippleLeft \/ RippleRight \/ Roll \/ Slip \/ Slide

Spec == Init /\ [][Next]_vars

-----------------------------------------------------------------------------
(* Properties *)

\* No two segments of a track ever overlap (NleTrack.h says that Track enforces
\* it), whatever edits and trims move them.
NoOverlap ==
    \A s, t \in segments : s = t \/ End(s) <= t.start \/ End(t) <= s.start

\* A call that is refused leaves the track as it was: no edit or trim that changes
\* several segments in turn stops halfway.
RefusedChangesNothing == [][~accepted' => segments' = segments]_vars

\* The track shows a timeline on which each call changes the frames it is about
\* and keeps every other frame of every clip.
Content ==
    [frame \in 0 .. Horizon - 1 |->
        IF \E s \in segments : s.start <= frame /\ frame < End(s)
        THEN LET s == CHOOSE s \in segments : s.start <= frame /\ frame < End(s)
             IN << s.clip, s.sourceIn + (frame - s.start) >>
        ELSE << >>]

Abstract == INSTANCE Timeline WITH content <- Content
ImplementsTimeline == Abstract!Spec
=============================================================================
