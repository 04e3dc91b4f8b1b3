------------------------------ MODULE Nle_proofs ------------------------------
(***************************************************************************)
(* Proofs about the NLE: its tracks (NleTrack) and the searches on them    *)
(* (NleTrackSearch), for any clips, marks, deltas, number of calls and     *)
(* horizon, and its labels of frames (NleTimecode), for every frame.       *)
(***************************************************************************)
EXTENDS NleTrackSearch, NleTimecode, FiniteSetTheorems, TLAPS

Disjoint(track) ==
    \A s, t \in track : s = t \/ End(s) <= t.start \/ End(t) <= s.start

\* A set of segments without overlaps, as every call takes and returns it
Sound(track) == track \in SUBSET Segment /\ Disjoint(track)
SoundResult(r) == r.ok \in BOOLEAN /\ Sound(r.track)

\* The invariant: the type and NoOverlap
SoundTrack == TypeOK /\ Disjoint(segments)

-----------------------------------------------------------------------------
(* What the operations of Track return *)

\* A segment that is added or replaces another one leaves the track sound.
LEMMA AddSound ==
    ASSUME NEW track, Sound(track), NEW s \in Segment
    PROVE  SoundResult(AddSegment(track, s))
BY DEF SoundResult, AddSegment, Returns, WouldOverlap, Overlap, End, Sound, Disjoint, Segment

LEMMA ReplaceSound ==
    ASSUME NEW track, Sound(track), NEW s, NEW new \in Segment
    PROVE  SoundResult(ReplaceSegment(track, s, new))
BY DEF SoundResult, ReplaceSegment, Returns, WouldOverlap, Overlap, End, Sound, Disjoint, Segment

LEMMA ReplaceInTurnSound ==
    ASSUME NEW track, Sound(track), NEW s1, NEW new1 \in Segment, NEW s2, NEW new2 \in Segment
    PROVE  SoundResult(ReplaceInTurn(track, s1, new1, s2, new2))
BY ReplaceSound DEF SoundResult, ReplaceInTurn

\* Validated segments are sound.
LEMMA SetSound ==
    ASSUME NEW track, Sound(track), NEW new \in SUBSET Segment
    PROVE  SoundResult(SetSegments(track, new))
BY DEF SoundResult, SetSegments, Returns, WouldOverlap, Overlap, End, Sound, Disjoint, Segment

\* A shift by any offset returns segments.
LEMMA ShiftTyped ==
    ASSUME NEW track \in SUBSET Segment, NEW from \in Nat, NEW offset \in Int
    PROVE  RippleShift(track, from, offset) \in SUBSET Segment
BY DEF RippleShift, Timecode, Segment

\* A shift to the right creates no overlap.
LEMMA ShiftRightSound ==
    ASSUME NEW track, Sound(track), NEW from \in Nat, NEW offset \in Nat
    PROVE  Sound(RippleShift(track, from, offset))
<1> DEFINE Moved(s) ==
        IF s.start < from THEN s ELSE [s EXCEPT !.start = Timecode(s.start + offset)]
<1>1. \A s \in track :
        /\ Moved(s) \in Segment /\ Moved(s).duration = s.duration
        /\ Moved(s).start = IF s.start < from THEN s.start ELSE s.start + offset
  BY DEF Timecode, Sound, Segment
<1>2. ASSUME NEW s \in track, NEW t \in track
      PROVE  Moved(s) = Moved(t) \/ End(Moved(s)) <= Moved(t).start \/ End(Moved(t)) <= Moved(s).start
  <2>1. CASE s = t
    BY <2>1
  <2>2. CASE s # t
    BY <1>1, <2>2 DEF End, Sound, Disjoint, Segment
  <2> QED BY <2>1, <2>2
<1>3. RippleShift(track, from, offset) = {Moved(s) : s \in track}
  BY DEF RippleShift
<1> QED BY <1>1, <1>2, <1>3 DEF Sound, Disjoint

\* Nor does a shift to the left into room that is free.
LEMMA ShiftLeftSound ==
    ASSUME NEW track, Sound(track), NEW from \in Nat, NEW offset \in Int, NEW room \in Nat,
           \A s \in track : IF s.start < from THEN End(s) <= room ELSE room <= s.start + offset
    PROVE  Sound(RippleShift(track, from, offset))
<1> DEFINE Moved(s) ==
        IF s.start < from THEN s ELSE [s EXCEPT !.start = Timecode(s.start + offset)]
<1>1. \A s \in track :
        /\ Moved(s) \in Segment /\ Moved(s).duration = s.duration
        /\ Moved(s).start = IF s.start < from THEN s.start ELSE s.start + offset
  BY DEF Timecode, Sound, Segment
<1>2. ASSUME NEW s \in track, NEW t \in track
      PROVE  Moved(s) = Moved(t) \/ End(Moved(s)) <= Moved(t).start \/ End(Moved(t)) <= Moved(s).start
  <2>1. CASE s = t
    BY <2>1
  <2>2. CASE s # t
    BY <1>1, <2>2 DEF End, Sound, Disjoint, Segment
  <2> QED BY <2>1, <2>2
<1>3. RippleShift(track, from, offset) = {Moved(s) : s \in track}
  BY DEF RippleShift
<1> QED BY <1>1, <1>2, <1>3 DEF Sound, Disjoint

\* What is left when a range is carved out are segments outside the range.
LEMMA CarveOutside ==
    ASSUME NEW track \in SUBSET Segment, NEW from \in Nat, NEW to \in Nat, from < to
    PROVE  /\ CarveOutRange(track, from, to) \in SUBSET Segment
           /\ \A s \in CarveOutRange(track, from, to) : End(s) <= from \/ to <= s.start
<1>1. ASSUME NEW s \in track, NEW rest \in Before(s, from)
      PROVE  rest \in Segment /\ End(rest) <= from
  BY <1>1 DEF Before, End, Segment
<1>2. ASSUME NEW s \in track, NEW rest \in After(s, to)
      PROVE  rest \in Segment /\ to <= rest.start
  BY <1>2 DEF After, Piece, End, Segment
<1> QED BY <1>1, <1>2 DEF CarveOutRange

-----------------------------------------------------------------------------
(* The edits *)

\* A resolved three-point edit makes a segment.
LEMMA EditTyped ==
    ASSUME NEW clip \in Clips, NEW edit \in ThreePointEdits
    PROVE  NewSegment(clip, edit) \in Segment
<1> DEFINE Marked == [sourceIn : Nat, duration : Nat, recordIn : Nat]
<1>1. SourceMarks \subseteq Nat /\ RecordMarks \subseteq Nat
  BY InputsAssumption
<1>2. \A m, n \in Nat : Timecode(m - n) \in Nat
  BY DEF Timecode
<1>3. ASSUME NEW e \in SourceOutMissing
      PROVE  e \in Marked
  <2>1. PICK in \in SourceMarks, from \in RecordMarks, to \in RecordMarks : e = ThreePoint(in, Timecode(to - from), from)
    BY DEF SourceOutMissing
  <2>2. in \in Nat /\ Timecode(to - from) \in Nat /\ from \in Nat
    BY <1>1, <1>2
  <2> QED BY <2>1, <2>2 DEF ThreePoint
<1>4. ASSUME NEW e \in SourceInMissing
      PROVE  e \in Marked
  <2>1. PICK out \in SourceMarks, from \in RecordMarks, to \in RecordMarks :
        e = ThreePoint(Timecode(out - Timecode(to - from)), Timecode(to - from), from)
    BY DEF SourceInMissing
  <2>2. Timecode(out - Timecode(to - from)) \in Nat /\ Timecode(to - from) \in Nat /\ from \in Nat
    BY <1>1, <1>2
  <2> QED BY <2>1, <2>2 DEF ThreePoint
<1>5. ASSUME NEW e \in RecordOutMissing
      PROVE  e \in Marked
  <2>1. PICK in \in SourceMarks, out \in SourceMarks, from \in RecordMarks :
        e = ThreePoint(in, Timecode(out - in), from)
    BY DEF RecordOutMissing
  <2>2. in \in Nat /\ Timecode(out - in) \in Nat /\ from \in Nat
    BY <1>1, <1>2
  <2> QED BY <2>1, <2>2 DEF ThreePoint
<1>6. ASSUME NEW e \in RecordInMissing
      PROVE  e \in Marked
  <2>1. PICK in \in SourceMarks, out \in SourceMarks, to \in RecordMarks :
        e = ThreePoint(in, Timecode(out - in), Timecode(to - Timecode(out - in)))
    BY DEF RecordInMissing
  <2>2. in \in Nat /\ Timecode(out - in) \in Nat /\ Timecode(to - Timecode(out - in)) \in Nat
    BY <1>1, <1>2
  <2> QED BY <2>1, <2>2 DEF ThreePoint
<1>7. edit \in Marked /\ edit.duration > 0
  BY <1>3, <1>4, <1>5, <1>6 DEF ThreePointEdits
<1> QED BY <1>7 DEF NewSegment, Piece, Segment

LEMMA OverwriteSound ==
    ASSUME NEW track, Sound(track), NEW new \in Segment
    PROVE  SoundResult(EditOverwrite(track, new))
<1>1. new.start \in Nat /\ End(new) \in Nat /\ new.start < End(new)
  BY DEF End, Segment
<1>2. CarveOutRange(track, new.start, End(new)) \in SUBSET Segment
  BY <1>1, CarveOutside DEF Sound
<1> QED BY <1>2, SetSound DEF EditOverwrite

LEMMA SpliceInSound ==
    ASSUME NEW track, Sound(track), NEW new \in Segment
    PROVE  SoundResult(EditSpliceIn(track, new))
<1>1. new.start \in Nat /\ new.duration \in Nat
  BY DEF Segment
<1>2. Sound(RippleShift(track, new.start, new.duration))
  BY <1>1, ShiftRightSound
<1> QED BY <1>2, AddSound DEF EditSpliceIn

LEMMA LiftSound ==
    ASSUME NEW track, Sound(track), NEW from \in Nat, NEW to \in Nat, from < to
    PROVE  SoundResult(EditLift(track, from, to))
BY CarveOutside, SetSound DEF EditLift, Sound

\* What is removed leaves the room that an extract closes.
LEMMA ExtractSound ==
    ASSUME NEW track, Sound(track), NEW from \in Nat, NEW to \in Nat, from < to
    PROVE  SoundResult(EditExtract(track, from, to))
<1> DEFINE lift == EditLift(track, from, to)
<1>1. SoundResult(lift)
  BY LiftSound
<1>2. CASE ~lift.ok
  BY <1>1, <1>2 DEF EditExtract
<1>3. CASE lift.ok
  <2>1. lift.track = CarveOutRange(track, from, to)
    BY <1>3 DEF EditLift, SetSegments, Returns
  <2>2. \A s \in lift.track :
          IF s.start < from THEN End(s) <= from ELSE from <= s.start + (from - to)
    BY <2>1, <1>1, CarveOutside DEF SoundResult, Sound, End, Segment
  <2>3. Sound(RippleShift(lift.track, from, from - to))
    BY <1>1, <2>2, ShiftLeftSound DEF SoundResult
  <2> QED BY <1>3, <2>3 DEF EditExtract, SoundResult, Returns
<1> QED BY <1>1, <1>2, <1>3 DEF SoundResult

-----------------------------------------------------------------------------
(* The trims *)

\* Extending a head never overlaps what is before it, and pushes what is behind.
LEMMA RippleLeftSound ==
    ASSUME NEW track, Sound(track), NEW s \in track, NEW delta \in Int, delta < 0
    PROVE  SoundResult(TrimRippleLeft(track, s, delta))
<1> DEFINE new == Piece(s.clip, s.sourceIn + delta, s.duration - delta, s.start + delta)
           replaced == ReplaceSegment(track, s, new)
<1>1. CASE new.sourceIn < 0 \/ new.start < 0 \/ new.duration <= 0
  BY <1>1 DEF TrimRippleLeft, Refused, Returns, SoundResult
<1>2. CASE ~(new.sourceIn < 0 \/ new.start < 0 \/ new.duration <= 0)
  <2>1. new \in Segment /\ End(new) \in Nat /\ -delta \in Nat
    BY <1>2 DEF Piece, End, Sound, Segment
  <2>2. SoundResult(replaced)
    BY <2>1, ReplaceSound
  <2>3. Sound(RippleShift(replaced.track, End(new), -delta))
    BY <2>1, <2>2, ShiftRightSound DEF SoundResult
  <2> QED BY <1>2, <2>2, <2>3 DEF TrimRippleLeft, SoundResult, Returns
<1> QED BY <1>1, <1>2

\* While the tail of a segment is trimmed, the shifted segments may overlap it, but
\* nothing else, and they leave the room for what it becomes.
LEMMA ShiftedTail ==
    ASSUME NEW track, Sound(track), NEW s \in track, NEW delta \in Int, s.duration + delta > 0
    PROVE  LET shifted == RippleShift(track, End(s), delta)
               new == [s EXCEPT !.duration = @ + delta]
           IN /\ new \in Segment
              /\ shifted \in SUBSET Segment
              /\ Disjoint(shifted \ {s})
              /\ ~WouldOverlap(shifted \ {s}, new)
<1> DEFINE others == track \ {s}
           shifted == RippleShift(track, End(s), delta)
           shiftedOthers == RippleShift(others, End(s), delta)
           new == [s EXCEPT !.duration = @ + delta]
<1>1. new \in Segment /\ End(s) \in Nat /\ End(new) \in Nat /\ End(new) = End(s) + delta /\ new.start = s.start
  BY DEF End, Sound, Segment
<1>2. \A t \in others : t.start < End(s) => End(t) <= s.start
  BY DEF End, Sound, Disjoint, Segment
<1>3. \A t \in others : IF t.start < End(s) THEN End(t) <= End(new) ELSE End(new) <= t.start + delta
  BY <1>1, <1>2 DEF End, Sound, Segment
<1>4. Sound(shiftedOthers)
  <2>1. Sound(others)
    BY DEF Sound, Disjoint
  <2> QED BY <1>1, <1>3, <2>1, ShiftLeftSound
<1>5. shifted \ {s} \subseteq shiftedOthers
  BY DEF RippleShift, End, Sound, Segment
<1>6. ~WouldOverlap(shiftedOthers, new)
  <2>1. \A t \in shiftedOthers : End(t) <= new.start \/ End(new) <= t.start
    <3>1. \A t \in others : t.start < End(s) => End(t) <= new.start
      BY <1>1, <1>2
    <3>2. ASSUME NEW t \in others, ~(t.start < End(s))
          PROVE  End(new) <= [t EXCEPT !.start = Timecode(t.start + delta)].start
      BY <1>1, <1>3, <3>2 DEF Timecode, Sound, Segment
    <3> QED BY <3>1, <3>2 DEF RippleShift
  <2>2. shiftedOthers \in SUBSET Segment /\ new \in Segment
    BY <1>1, <1>4 DEF Sound
  <2> HIDE DEF shiftedOthers, new
  <2> QED BY <2>1, <2>2 DEF WouldOverlap, Overlap, End, Segment
<1>7. shifted \in SUBSET Segment
  BY <1>1, ShiftTyped DEF Sound
<1> QED BY <1>1, <1>4, <1>5, <1>6, <1>7 DEF Sound, Disjoint, WouldOverlap

LEMMA RippleRightSound ==
    ASSUME NEW track, Sound(track), NEW s \in track, NEW delta \in Int
    PROVE  SoundResult(TrimRippleRight(track, s, delta))
<1> DEFINE shifted == RippleShift(track, End(s), delta)
           new == [s EXCEPT !.duration = @ + delta]
<1>1. s.duration \in Nat /\ new.duration = s.duration + delta
  BY DEF Sound, Segment
<1>2. CASE new.duration <= 0
  BY <1>2 DEF TrimRippleRight, Refused, Returns, SoundResult
<1>3. CASE new.duration > 0
  <2>1. /\ new \in Segment /\ shifted \in SUBSET Segment
        /\ Disjoint(shifted \ {s}) /\ ~WouldOverlap(shifted \ {s}, new)
    BY <1>1, <1>3, ShiftedTail
  <2>2. TrimRippleRight(track, s, delta) = Returns(TRUE, (shifted \ {s}) \cup {new})
    <3>1. ~(new.duration <= 0)
      BY <2>1 DEF Segment
    <3>2. TrimRippleRight(track, s, delta) = ReplaceSegment(shifted, s, new)
      BY <3>1, Zenon DEF TrimRippleRight
    <3> HIDE DEF shifted, new
    <3> QED BY <1>3, <2>1, <3>2 DEF ReplaceSegment
  <2> HIDE DEF shifted, new
  <2>3. Sound((shifted \ {s}) \cup {new})
    BY <2>1 DEF Sound, Disjoint, WouldOverlap, Overlap, End, Segment
  <2> QED BY <2>2, <2>3 DEF SoundResult, Returns
<1> QED BY <1>1, <1>2, <1>3

LEMMA RollSound ==
    ASSUME NEW track, Sound(track), NEW left \in track, NEW right \in track, NEW delta \in Int
    PROVE  SoundResult(TrimRoll(track, left, right, delta))
<1> DEFINE newLeft == [left EXCEPT !.duration = @ + delta]
           newRight == Piece(right.clip, right.sourceIn + delta, right.duration - delta,
                             Timecode(right.start + delta))
<1>1. CASE newLeft.duration <= 0 \/ newRight.sourceIn < 0 \/ newRight.duration <= 0
  BY <1>1 DEF TrimRoll, Refused, Returns, SoundResult
<1>2. CASE ~(newLeft.duration <= 0 \/ newRight.sourceIn < 0 \/ newRight.duration <= 0)
  <2>1. newLeft \in Segment /\ newRight \in Segment
    BY <1>2 DEF Piece, Timecode, Sound, Segment
  <2> QED BY <1>2, <2>1, ReplaceInTurnSound DEF TrimRoll
<1> QED BY <1>1, <1>2

LEMMA SlipSound ==
    ASSUME NEW track, Sound(track), NEW s \in track, NEW delta \in Int
    PROVE  SoundResult(TrimSlip(track, s, delta))
<1>1. CASE s.sourceIn + delta < 0
  BY <1>1 DEF TrimSlip, Refused, Returns, SoundResult
<1>2. CASE ~(s.sourceIn + delta < 0)
  <2>1. [s EXCEPT !.sourceIn = @ + delta] \in Segment
    BY <1>2 DEF Sound, Segment
  <2> QED BY <1>2, <2>1, ReplaceSound DEF TrimSlip
<1> QED BY <1>1, <1>2

LEMMA SlideSound ==
    ASSUME NEW track, Sound(track), NEW prev \in track, NEW curr \in track, NEW next \in track,
           NEW delta \in Int
    PROVE  SoundResult(TrimSlide(track, prev, curr, next, delta))
<1> DEFINE newPrev == [prev EXCEPT !.duration = @ + delta]
           newCurr == [curr EXCEPT !.start = @ + delta]
           newNext == Piece(next.clip, next.sourceIn + delta, next.duration - delta,
                            Timecode(next.start + delta))
           refused == \/ newPrev.duration <= 0 \/ newCurr.start < 0
                      \/ newNext.sourceIn < 0 \/ newNext.duration <= 0
<1>1. CASE refused
  BY <1>1 DEF TrimSlide, Refused, Returns, SoundResult
<1>2. CASE ~refused
  <2>1. newPrev \in Segment /\ newCurr \in Segment /\ newNext \in Segment
    BY <1>2 DEF Piece, Timecode, Sound, Segment
  <2>2. ASSUME NEW s, NEW new \in Segment, NEW t, NEW moved \in Segment, NEW u, NEW grown \in Segment
        PROVE  SoundResult(ReplaceSliding(track, s, new, t, moved, u, grown))
    BY ReplaceInTurnSound, ReplaceSound DEF ReplaceSliding, SoundResult
  <2> QED BY <1>2, <2>1, <2>2 DEF TrimSlide
<1> QED BY <1>1, <1>2

-----------------------------------------------------------------------------
(* The invariant *)

\* A call keeps the invariant when its result is sound.
LEMMA CallKeepsSound ==
    ASSUME NEW result, SoundResult(result), SoundTrack, Call(result)
    PROVE  SoundTrack'
<1>1. TypeOK'
  BY InputsAssumption DEF Call, SoundResult, Sound, SoundTrack, TypeOK
<1>2. Disjoint(segments)'
  BY DEF Call, SoundResult, Sound, Disjoint, End
<1> QED BY <1>1, <1>2 DEF SoundTrack

LEMMA NextKeepsSound ==
    ASSUME "shortenHead" \notin Operations, SoundTrack, [Next]_vars
    PROVE  SoundTrack'
<1>1. Sound(segments)
  BY DEF SoundTrack, TypeOK, Sound
<1>2. Deltas \subseteq Int /\ RecordMarks \subseteq Nat
  BY InputsAssumption
<1>3. \A clip \in Clips, edit \in ThreePointEdits : NewSegment(clip, edit) \in Segment
  BY EditTyped
<1>4. SoundResult(Refused(segments))
  BY <1>1 DEF Refused, Returns, SoundResult
<1>5. CASE Add
  <2>1. PICK clip \in Clips, edit \in ThreePointEdits :
          Call(AddSegment(segments, NewSegment(clip, edit)))
    BY <1>5 DEF Add
  <2> QED BY <1>1, <1>3, <2>1, AddSound, CallKeepsSound
<1>6. CASE RemoveSegment
  <2>1. PICK s \in segments : Call(Returns(TRUE, segments \ {s}))
    BY <1>6 DEF RemoveSegment
  <2>2. SoundResult(Returns(TRUE, segments \ {s}))
    BY <1>1 DEF Returns, SoundResult, Sound, Disjoint
  <2> QED BY <2>1, <2>2, CallKeepsSound
<1>7. CASE Overwrite
  <2>1. PICK clip \in Clips, edit \in ThreePointEdits :
          Call(EditOverwrite(segments, NewSegment(clip, edit)))
    BY <1>7 DEF Overwrite
  <2> QED BY <1>1, <1>3, <2>1, OverwriteSound, CallKeepsSound
<1>8. CASE SpliceIn
  <2>1. PICK clip \in Clips, edit \in ThreePointEdits :
          Call(EditSpliceIn(segments, NewSegment(clip, edit)))
    BY <1>8 DEF SpliceIn
  <2> QED BY <1>1, <1>3, <2>1, SpliceInSound, CallKeepsSound
<1>9. CASE Lift
  <2>1. PICK from \in RecordMarks, to \in RecordMarks :
          Call(IF to <= from THEN Refused(segments) ELSE EditLift(segments, from, to))
    BY <1>9 DEF Lift
  <2>2. ~(to <= from) => SoundResult(EditLift(segments, from, to))
    BY <1>1, <1>2, LiftSound
  <2> QED BY <1>4, <2>1, <2>2, CallKeepsSound
<1>10. CASE Extract
  <2>1. PICK from \in RecordMarks, to \in RecordMarks :
          Call(IF to <= from THEN Refused(segments) ELSE EditExtract(segments, from, to))
    BY <1>10 DEF Extract
  <2>2. ~(to <= from) => SoundResult(EditExtract(segments, from, to))
    BY <1>1, <1>2, ExtractSound
  <2> QED BY <1>4, <2>1, <2>2, CallKeepsSound
<1>11. CASE RippleLeft
  <2>1. PICK s \in segments, delta \in Deltas :
          /\ (IF delta < 0 THEN "extendHead" ELSE "shortenHead") \in Operations
          /\ Call(TrimRippleLeft(segments, s, delta))
    BY <1>11 DEF RippleLeft
  <2>2. delta < 0
    BY <2>1
  <2> QED BY <1>1, <1>2, <2>1, <2>2, RippleLeftSound, CallKeepsSound
<1>12. CASE RippleRight
  <2>1. PICK s \in segments, delta \in Deltas : Call(TrimRippleRight(segments, s, delta))
    BY <1>12 DEF RippleRight
  <2> QED BY <1>1, <1>2, <2>1, RippleRightSound, CallKeepsSound
<1>13. CASE Roll
  <2>1. PICK left \in segments, right \in segments, delta \in Deltas :
          Call(TrimRoll(segments, left, right, delta))
    BY <1>13 DEF Roll
  <2> QED BY <1>1, <1>2, <2>1, RollSound, CallKeepsSound
<1>14. CASE Slip
  <2>1. PICK s \in segments, delta \in Deltas : Call(TrimSlip(segments, s, delta))
    BY <1>14 DEF Slip
  <2> QED BY <1>1, <1>2, <2>1, SlipSound, CallKeepsSound
<1>15. CASE Slide
  <2>1. PICK prev \in segments, curr \in segments, next \in segments, delta \in Deltas :
          Call(TrimSlide(segments, prev, curr, next, delta))
    BY <1>15 DEF Slide
  <2> QED BY <1>1, <1>2, <2>1, SlideSound, CallKeepsSound
<1>16. CASE UNCHANGED vars
  BY <1>16 DEF vars, SoundTrack, TypeOK, Disjoint, End
<1> QED
  BY <1>5, <1>6, <1>7, <1>8, <1>9, <1>10, <1>11, <1>12, <1>13, <1>14, <1>15, <1>16 DEF Next

\* A track keeps its type, and no two of its segments overlap, however many edits
\* and trims are made, unless one shortens a head.
THEOREM NoOverlapAlways ==
    ASSUME "shortenHead" \notin Operations
    PROVE  Spec => [](TypeOK /\ NoOverlap)
<1>1. Init => SoundTrack
  BY InputsAssumption DEF Init, SoundTrack, TypeOK, Disjoint
<1>2. SoundTrack /\ [Next]_vars => SoundTrack'
  BY NextKeepsSound
<1>3. SoundTrack => TypeOK /\ NoOverlap
  BY DEF SoundTrack, Disjoint, NoOverlap
<1> QED BY <1>1, <1>2, <1>3, PTL DEF Spec

-----------------------------------------------------------------------------
(* Refused calls *)

Whole(track, r) == r.ok \/ r.track = track

\* A single change of the track is made or not.
LEMMA SingleWhole ==
    ASSUME NEW track, NEW s, NEW new
    PROVE  /\ Whole(track, AddSegment(track, new))
           /\ Whole(track, ReplaceSegment(track, s, new))
           /\ Whole(track, SetSegments(track, new))
           /\ Whole(track, Refused(track))
BY DEF Whole, AddSegment, ReplaceSegment, SetSegments, Refused, Returns

Apart(s, t) == End(s) <= t.start \/ End(t) <= s.start
ApartFrom(track, s) == \A t \in track : Apart(t, s)
Replaced(track, s, new) == (track \ {s}) \cup {new}

\* A replacement fits when it is apart from all that stays.
LEMMA Fits ==
    ASSUME NEW track \in SUBSET Segment, NEW s, NEW new \in Segment,
           ApartFrom(track \ {s}, new)
    PROVE  ReplaceSegment(track, s, new) = Returns(TRUE, Replaced(track, s, new))
<1>1. ~WouldOverlap(track \ {s}, new)
  BY DEF WouldOverlap, Overlap, ApartFrom, Apart, End, Segment
<1>2. new.duration > 0
  BY DEF Segment
<1> QED BY <1>1, <1>2 DEF ReplaceSegment, Replaced

\* Of two replacements in turn the second one fits when it is apart from the first
\* one and from the segments that stay.
LEMMA TwoFit ==
    ASSUME NEW track \in SUBSET Segment, NEW s1, NEW new1 \in Segment, NEW s2, NEW new2 \in Segment,
           Apart(new1, new2), ApartFrom(track \ {s1, s2}, new2)
    PROVE  \/ ReplaceInTurn(track, s1, new1, s2, new2) = Returns(FALSE, track)
           \/ ReplaceInTurn(track, s1, new1, s2, new2) =
                Returns(TRUE, Replaced(Replaced(track, s1, new1), s2, new2))
<1> DEFINE first == ReplaceSegment(track, s1, new1)
           mid == Replaced(track, s1, new1)
<1>1. first = Returns(TRUE, mid) \/ first = Returns(FALSE, track)
  BY DEF ReplaceSegment, Replaced
<1>2. CASE first = Returns(FALSE, track)
  BY <1>2 DEF ReplaceInTurn, Returns
<1>3. CASE first = Returns(TRUE, mid)
  <2>1. ReplaceSegment(mid, s2, new2) = Returns(TRUE, Replaced(mid, s2, new2))
    <3>1. mid \in SUBSET Segment /\ ApartFrom(mid \ {s2}, new2)
      BY DEF ApartFrom, Replaced
    <3> HIDE DEF mid
    <3> QED BY <3>1, Fits
  <2> QED BY <1>3, <2>1 DEF ReplaceInTurn, Returns
<1> QED BY <1>1, <1>2, <1>3

\* Outside a segment, what is shifted makes the room for what is inserted.
LEMMA SpliceInFits ==
    ASSUME NEW track, Sound(track), NEW new \in Segment,
           ~\E s \in track : s.start < new.start /\ new.start < End(s)
    PROVE  EditSpliceIn(track, new).ok
<1> DEFINE shifted == RippleShift(track, new.start, new.duration)
<1>1. \A t \in shifted : End(t) <= new.start \/ End(new) <= t.start
  <2>1. ASSUME NEW t \in track, ~(t.start < new.start)
        PROVE  End(new) <= [t EXCEPT !.start = Timecode(t.start + new.duration)].start
    BY <2>1 DEF Timecode, End, Sound, Segment
  <2>2. \A t \in track : t.start < new.start => End(t) <= new.start
    BY DEF End, Sound, Segment
  <2> QED BY <2>1, <2>2 DEF RippleShift
<1>2. shifted \in SUBSET Segment
  BY ShiftTyped DEF Sound, Segment
<1> HIDE DEF shifted
<1>3. ~WouldOverlap(shifted, new)
  BY <1>1, <1>2 DEF WouldOverlap, Overlap, End, Segment
<1>4. AddSegment(shifted, new).ok
  BY <1>3 DEF AddSegment, Returns, Segment
<1> QED BY <1>4 DEF EditSpliceIn, shifted

\* A tail is trimmed without being refused once what follows has been shifted.
LEMMA RippleRightWhole ==
    ASSUME NEW track, Sound(track), NEW s \in track, NEW delta \in Int
    PROVE  Whole(track, TrimRippleRight(track, s, delta))
<1> DEFINE shifted == RippleShift(track, End(s), delta)
           new == [s EXCEPT !.duration = @ + delta]
<1>1. s.duration \in Nat /\ new.duration = s.duration + delta
  BY DEF Sound, Segment
<1>2. CASE new.duration <= 0
  BY <1>2, SingleWhole DEF TrimRippleRight
<1>3. CASE new.duration > 0
  <2>1. new \in Segment /\ ~WouldOverlap(shifted \ {s}, new)
    BY <1>1, <1>3, ShiftedTail
  <2>2. ~(new.duration <= 0)
    BY <2>1 DEF Segment
  <2>3. TrimRippleRight(track, s, delta) = ReplaceSegment(shifted, s, new)
    BY <2>2, Zenon DEF TrimRippleRight
  <2> HIDE DEF shifted, new
  <2> QED BY <1>3, <2>1, <2>3 DEF ReplaceSegment, Returns, Whole
<1> QED BY <1>1, <1>2, <1>3

LEMMA RippleLeftWhole ==
    ASSUME NEW track, NEW s, NEW delta
    PROVE  Whole(track, TrimRippleLeft(track, s, delta))
BY SingleWhole DEF TrimRippleLeft, Whole, Returns

\* Beside two neighbours every segment ends before the first one or starts after
\* the second one, and the first one ends before the second one.
LEMMA Neighbours ==
    ASSUME NEW track, Sound(track), NEW left \in track, NEW right \in track,
           Adjacent(track, left, right)
    PROVE  /\ End(left) <= right.start
           /\ \A t \in track \ {left, right} : End(t) <= left.start \/ End(right) <= t.start
BY DEF Adjacent, End, Sound, Disjoint, Segment

\* A segment whose tail moves, one whose head moves, and one that moves as a whole
Grown(s, delta) == [s EXCEPT !.duration = @ + delta]
HeadMoved(s, delta) == Piece(s.clip, s.sourceIn + delta, s.duration - delta, s.start + delta)
Moved(s, offset) == [s EXCEPT !.start = @ + offset]

\* A roll is refused before anything changes, or both segments are replaced.
LEMMA RollResult ==
    ASSUME NEW track, Sound(track), NEW left \in track, NEW right \in track,
           Adjacent(track, left, right), NEW delta \in Int \ {0}
    PROVE  \/ TrimRoll(track, left, right, delta) = Returns(FALSE, track)
           \/ /\ Grown(left, delta) \in Segment /\ HeadMoved(right, delta) \in Segment
              /\ TrimRoll(track, left, right, delta) =
                    Returns(TRUE, (track \ {left, right}) \cup {Grown(left, delta), HeadMoved(right, delta)})
<1> DEFINE newLeft == [left EXCEPT !.duration = @ + delta]
           newRight == Piece(right.clip, right.sourceIn + delta, right.duration - delta,
                             Timecode(right.start + delta))
           refused == newLeft.duration <= 0 \/ newRight.sourceIn < 0 \/ newRight.duration <= 0
<1>1. CASE refused
  BY <1>1 DEF TrimRoll, Refused
<1>2. CASE ~refused
  <2>1. newLeft \in Segment /\ newLeft.start = left.start /\ End(newLeft) = End(left) + delta
    BY <1>2 DEF End, Sound, Segment
  <2>2. End(left) <= right.start
    BY Neighbours
  <2>3. newRight \in Segment /\ newRight.start = right.start + delta /\ End(newRight) = End(right)
    BY <1>2, <2>1, <2>2 DEF Piece, Timecode, End, Sound, Segment
  <2>4. Apart(newLeft, newRight) /\ Apart(newRight, newLeft)
    BY <2>1, <2>2, <2>3 DEF Apart, End, Sound, Segment
  <2>5. \A t \in track \ {left, right} : Apart(t, newLeft) /\ Apart(t, newRight)
    BY <2>1, <2>2, <2>3, Neighbours DEF Apart, End, Sound, Segment
  <2>6. newLeft = Grown(left, delta) /\ newRight = HeadMoved(right, delta)
    <3>1. Timecode(right.start + delta) = right.start + delta
      BY <2>3 DEF Timecode, Segment, Sound
    <3> QED BY <3>1 DEF Grown, HeadMoved
  <2>7. newLeft # right /\ newRight # left
    BY <2>1, <2>2, <2>3 DEF Adjacent, End, Sound, Segment
  <2>8. \/ TrimRoll(track, left, right, delta) = ReplaceInTurn(track, right, newRight, left, newLeft)
        \/ TrimRoll(track, left, right, delta) = ReplaceInTurn(track, left, newLeft, right, newRight)
    BY <1>2, Zenon DEF TrimRoll
  <2> HIDE DEF newLeft, newRight
  <2>9. /\ track \in SUBSET Segment
        /\ ApartFrom(track \ {left, right}, newRight)
        /\ ApartFrom(track \ {right, left}, newLeft)
    BY <2>5 DEF Sound, ApartFrom
  <2>10. /\ Replaced(Replaced(track, right, newRight), left, newLeft) =
              (track \ {left, right}) \cup {newLeft, newRight}
         /\ Replaced(Replaced(track, left, newLeft), right, newRight) =
              (track \ {left, right}) \cup {newLeft, newRight}
    BY <2>7 DEF Replaced
  <2> DEFINE rolled == (track \ {left, right}) \cup {newLeft, newRight}
             inTurn1 == ReplaceInTurn(track, right, newRight, left, newLeft)
             inTurn2 == ReplaceInTurn(track, left, newLeft, right, newRight)
  <2>11. newLeft \in Segment /\ newRight \in Segment
    BY <2>1, <2>3
  <2>12. inTurn1 = Returns(FALSE, track) \/ inTurn1 = Returns(TRUE, rolled)
    <3>1. \/ inTurn1 = Returns(FALSE, track)
          \/ inTurn1 = Returns(TRUE, Replaced(Replaced(track, right, newRight), left, newLeft))
      BY <2>4, <2>9, <2>11, TwoFit DEF Returns
    <3> HIDE DEF inTurn1
    <3> QED BY <2>10, <3>1
  <2>13. inTurn2 = Returns(FALSE, track) \/ inTurn2 = Returns(TRUE, rolled)
    <3>1. \/ inTurn2 = Returns(FALSE, track)
          \/ inTurn2 = Returns(TRUE, Replaced(Replaced(track, left, newLeft), right, newRight))
      BY <2>4, <2>9, <2>11, TwoFit DEF Returns
    <3> HIDE DEF inTurn2
    <3> QED BY <2>10, <3>1
  <2> QED BY <2>6, <2>8, <2>11, <2>12, <2>13
<1> QED BY <1>1, <1>2

\* Of three replacements that slide the last two fit when all are apart.
LEMMA SlidingFits ==
    ASSUME NEW track, Sound(track), NEW s1 \in track, NEW new1 \in Segment,
           NEW s2 \in track, NEW new2 \in Segment, NEW s3 \in track, NEW new3 \in Segment,
           Apart(new1, new2), Apart(new1, new3), Apart(new2, new3), Apart(s3, new2),
           ApartFrom(track \ {s1, s2, s3}, new2), ApartFrom(track \ {s1, s2, s3}, new3),
           new1 # s2, new1 # s3, new2 # s3
    PROVE  \/ ReplaceSliding(track, s1, new1, s2, new2, s3, new3) = Returns(FALSE, track)
           \/ ReplaceSliding(track, s1, new1, s2, new2, s3, new3) =
                Returns(TRUE, (track \ {s1, s2, s3}) \cup {new1, new2, new3})
<1> DEFINE first == ReplaceInTurn(track, s1, new1, s2, new2)
           mid == Replaced(Replaced(track, s1, new1), s2, new2)
<1>1. first = Returns(FALSE, track) \/ first = Returns(TRUE, mid)
  <2>1. track \in SUBSET Segment /\ ApartFrom(track \ {s1, s2}, new2)
    BY DEF Sound, ApartFrom
  <2> QED BY <2>1, TwoFit DEF Returns
<1>2. CASE first = Returns(FALSE, track)
  BY <1>2 DEF ReplaceSliding, Returns
<1>3. CASE first = Returns(TRUE, mid)
  <2>1. ReplaceSegment(mid, s3, new3) = Returns(TRUE, Replaced(mid, s3, new3))
    <3>1. mid \in SUBSET Segment /\ ApartFrom(mid \ {s3}, new3)
      BY DEF Sound, ApartFrom, Replaced
    <3> HIDE DEF mid
    <3> QED BY <3>1, Fits
  <2>2. Replaced(mid, s3, new3) = (track \ {s1, s2, s3}) \cup {new1, new2, new3}
    BY DEF Replaced
  <2> QED BY <1>3, <2>1, <2>2 DEF ReplaceSliding, Returns
<1> QED BY <1>1, <1>2, <1>3

\* A slide is refused before anything changes, or all three segments are replaced.
LEMMA SlideResult ==
    ASSUME NEW track, Sound(track), NEW prev \in track, NEW curr \in track, NEW next \in track,
           Adjacent(track, prev, curr), Adjacent(track, curr, next), NEW delta \in Int \ {0}
    PROVE  \/ TrimSlide(track, prev, curr, next, delta) = Returns(FALSE, track)
           \/ /\ Grown(prev, delta) \in Segment /\ Moved(curr, delta) \in Segment
              /\ HeadMoved(next, delta) \in Segment
              /\ TrimSlide(track, prev, curr, next, delta) =
                    Returns(TRUE, (track \ {prev, curr, next}) \cup
                                  {Grown(prev, delta), Moved(curr, delta), HeadMoved(next, delta)})
<1> DEFINE newPrev == [prev EXCEPT !.duration = @ + delta]
           newCurr == [curr EXCEPT !.start = @ + delta]
           newNext == Piece(next.clip, next.sourceIn + delta, next.duration - delta,
                            Timecode(next.start + delta))
           refused == \/ newPrev.duration <= 0 \/ newCurr.start < 0
                      \/ newNext.sourceIn < 0 \/ newNext.duration <= 0
<1>1. CASE refused
  BY <1>1 DEF TrimSlide, Refused
<1>2. CASE ~refused
  <2>1. newPrev \in Segment /\ newPrev.start = prev.start /\ End(newPrev) = End(prev) + delta
    BY <1>2 DEF End, Sound, Segment
  <2>2. newCurr \in Segment /\ newCurr.start = curr.start + delta /\ End(newCurr) = End(curr) + delta
    BY <1>2 DEF End, Sound, Segment
  <2>3. End(prev) <= curr.start /\ End(curr) <= next.start
    BY Neighbours
  <2>4. newNext \in Segment /\ newNext.start = next.start + delta /\ End(newNext) = End(next)
    BY <1>2, <2>2, <2>3 DEF Piece, Timecode, End, Sound, Segment
  <2>5. /\ Apart(newPrev, newCurr) /\ Apart(newPrev, newNext) /\ Apart(newCurr, newNext)
        /\ Apart(newCurr, newPrev) /\ Apart(newNext, newPrev) /\ Apart(newNext, newCurr)
    BY <2>1, <2>2, <2>3, <2>4 DEF Apart, End, Sound, Segment
  <2>6. \A t \in track \ {prev, curr, next} : End(t) <= prev.start \/ End(next) <= t.start
    <3>1. \A t \in track \ {prev, curr, next} :
            /\ End(t) <= prev.start \/ End(curr) <= t.start
            /\ End(t) <= curr.start \/ End(next) <= t.start
      BY Neighbours
    <3> QED BY <3>1 DEF End, Sound, Segment
  <2>7. \A t \in track \ {prev, curr, next} :
          Apart(t, newPrev) /\ Apart(t, newCurr) /\ Apart(t, newNext)
    BY <2>1, <2>2, <2>3, <2>4, <2>6 DEF Apart, End, Sound, Segment
  <2>8. /\ delta > 0 => Apart(prev, newCurr)
        /\ ~(delta > 0) => Apart(next, newCurr)
    BY <2>2, <2>3 DEF Apart, End, Sound, Segment
  <2>9. /\ newPrev = Grown(prev, delta) /\ newCurr = Moved(curr, delta)
        /\ newNext = HeadMoved(next, delta)
    <3>1. Timecode(next.start + delta) = next.start + delta
      BY <2>4 DEF Timecode, Segment, Sound
    <3> QED BY <3>1 DEF Grown, Moved, HeadMoved
  <2>10. /\ newPrev # curr /\ newPrev # next
         /\ delta > 0 => newNext # curr /\ newNext # prev /\ newCurr # prev
         /\ ~(delta > 0) => newCurr # next
    BY <2>1, <2>2, <2>3, <2>4 DEF Adjacent, End, Sound, Segment
  <2>11. /\ delta > 0 => TrimSlide(track, prev, curr, next, delta) =
                            ReplaceSliding(track, next, newNext, curr, newCurr, prev, newPrev)
         /\ ~(delta > 0) => TrimSlide(track, prev, curr, next, delta) =
                               ReplaceSliding(track, prev, newPrev, curr, newCurr, next, newNext)
    BY <1>2, Zenon DEF TrimSlide
  <2> HIDE DEF newPrev, newCurr, newNext
  <2> DEFINE slid == (track \ {prev, curr, next}) \cup {newPrev, newCurr, newNext}
  <2>12. CASE delta > 0
    <3>1. /\ ApartFrom(track \ {next, curr, prev}, newCurr)
          /\ ApartFrom(track \ {next, curr, prev}, newPrev)
      BY <2>7 DEF ApartFrom
    <3>2. (track \ {next, curr, prev}) \cup {newNext, newCurr, newPrev} = slid
      OBVIOUS
    <3> HIDE DEF slid
    <3> DEFINE sliding == ReplaceSliding(track, next, newNext, curr, newCurr, prev, newPrev)
    <3>3. sliding = Returns(FALSE, track) \/ sliding = Returns(TRUE, slid)
      <4>1. /\ newNext # curr /\ newNext # prev /\ newCurr # prev
            /\ Apart(newNext, newCurr) /\ Apart(newNext, newPrev) /\ Apart(newCurr, newPrev)
            /\ Apart(prev, newCurr)
        BY <2>5, <2>8, <2>10, <2>12
      <4>2. newPrev \in Segment /\ newCurr \in Segment /\ newNext \in Segment
        BY <2>1, <2>2, <2>4
      <4>3. \/ sliding = Returns(FALSE, track)
            \/ sliding = Returns(TRUE, (track \ {next, curr, prev}) \cup {newNext, newCurr, newPrev})
        BY <3>1, <4>1, <4>2, SlidingFits DEF Returns
      <4> HIDE DEF sliding
      <4> QED BY <3>2, <4>3
    <3>4. TrimSlide(track, prev, curr, next, delta) = sliding
      BY <2>11, <2>12
    <3> HIDE DEF sliding
    <3> QED BY <2>1, <2>2, <2>4, <2>9, <3>3, <3>4 DEF slid
  <2>13. CASE ~(delta > 0)
    <3>1. /\ ApartFrom(track \ {prev, curr, next}, newCurr)
          /\ ApartFrom(track \ {prev, curr, next}, newNext)
      BY <2>7 DEF ApartFrom
    <3> DEFINE sliding == ReplaceSliding(track, prev, newPrev, curr, newCurr, next, newNext)
    <3>2. sliding = Returns(FALSE, track) \/ sliding = Returns(TRUE, slid)
      <4>1. /\ newPrev # curr /\ newPrev # next /\ newCurr # next
            /\ Apart(newPrev, newCurr) /\ Apart(newPrev, newNext) /\ Apart(newCurr, newNext)
            /\ Apart(next, newCurr)
        BY <2>5, <2>8, <2>10, <2>13
      <4>2. newPrev \in Segment /\ newCurr \in Segment /\ newNext \in Segment
        BY <2>1, <2>2, <2>4
      <4> QED BY <3>1, <4>1, <4>2, SlidingFits DEF Returns
    <3>3. TrimSlide(track, prev, curr, next, delta) = sliding
      BY <2>11, <2>13
    <3> HIDE DEF sliding, slid
    <3> QED BY <2>1, <2>2, <2>4, <2>9, <3>2, <3>3 DEF slid
  <2> QED BY <2>12, <2>13
<1> QED BY <1>1, <1>2

\* A call whose result is whole changes nothing when it is refused.
LEMMA CallWhole ==
    ASSUME NEW result, Whole(segments, result), Call(result), ~accepted'
    PROVE  segments' = segments
BY DEF Whole, Call

LEMMA NextWhole ==
    ASSUME "spliceInside" \notin Operations, SoundTrack, Next, ~accepted'
    PROVE  segments' = segments
<1>1. Sound(segments)
  BY DEF SoundTrack, TypeOK, Sound
<1>2. Deltas \subseteq Int \ {0}
  BY InputsAssumption
<1>3. \A clip \in Clips, edit \in ThreePointEdits : NewSegment(clip, edit) \in Segment
  BY EditTyped
<1>4. CASE Add \/ Overwrite \/ Lift
  <2>1. \A new : Whole(segments, AddSegment(segments, new)) /\ Whole(segments, EditOverwrite(segments, new))
    BY SingleWhole DEF EditOverwrite
  <2>2. \A from, to : Whole(segments, IF to <= from THEN Refused(segments) ELSE EditLift(segments, from, to))
    BY SingleWhole DEF EditLift
  <2> QED BY <1>4, <2>1, <2>2, CallWhole DEF Add, Overwrite, Lift
<1>5. CASE RemoveSegment
  <2>1. PICK s \in segments : Call(Returns(TRUE, segments \ {s}))
    BY <1>5 DEF RemoveSegment
  <2> QED BY <2>1 DEF Call, Returns
<1>6. CASE SpliceIn
  <2>1. PICK clip \in Clips, edit \in ThreePointEdits :
          /\ (IF Inside(edit.recordIn) THEN "spliceInside" ELSE "splice") \in Operations
          /\ Call(EditSpliceIn(segments, NewSegment(clip, edit)))
    BY <1>6 DEF SpliceIn
  <2>2. ~Inside(edit.recordIn) /\ NewSegment(clip, edit).start = edit.recordIn
    BY <2>1 DEF NewSegment, Piece
  <2>3. Whole(segments, EditSpliceIn(segments, NewSegment(clip, edit)))
    BY <1>1, <1>3, <2>2, SpliceInFits DEF Inside, Whole
  <2> QED BY <2>1, <2>3, CallWhole
<1>7. CASE Extract
  <2>1. PICK from \in RecordMarks, to \in RecordMarks :
          Call(IF to <= from THEN Refused(segments) ELSE EditExtract(segments, from, to))
    BY <1>7 DEF Extract
  <2>2. Whole(segments, EditLift(segments, from, to))
    BY SingleWhole DEF EditLift
  <2>3. Whole(segments, EditExtract(segments, from, to))
    BY <2>2 DEF EditExtract, Whole, Returns
  <2> QED BY <2>1, <2>3, SingleWhole, CallWhole
<1>8. CASE RippleLeft
  <2>1. PICK s \in segments, delta \in Deltas : Call(TrimRippleLeft(segments, s, delta))
    BY <1>8 DEF RippleLeft
  <2> QED BY <2>1, RippleLeftWhole, CallWhole
<1>9. CASE RippleRight
  <2>1. PICK s \in segments, delta \in Deltas : Call(TrimRippleRight(segments, s, delta))
    BY <1>9 DEF RippleRight
  <2> QED BY <1>1, <1>2, <2>1, RippleRightWhole, CallWhole
<1>10. CASE Roll
  <2>1. PICK left \in segments, right \in segments, delta \in Deltas :
          Adjacent(segments, left, right) /\ Call(TrimRoll(segments, left, right, delta))
    BY <1>10 DEF Roll
  <2> QED BY <1>1, <1>2, <2>1, RollResult, CallWhole DEF Whole, Returns
<1>11. CASE Slip
  <2>1. PICK s \in segments, delta \in Deltas : Call(TrimSlip(segments, s, delta))
    BY <1>11 DEF Slip
  <2>2. Whole(segments, TrimSlip(segments, s, delta))
    BY SingleWhole DEF TrimSlip
  <2> QED BY <2>1, <2>2, CallWhole
<1>12. CASE Slide
  <2>1. PICK prev \in segments, curr \in segments, next \in segments, delta \in Deltas :
          /\ Adjacent(segments, prev, curr) /\ Adjacent(segments, curr, next)
          /\ Call(TrimSlide(segments, prev, curr, next, delta))
    BY <1>12 DEF Slide
  <2> QED BY <1>1, <1>2, <2>1, SlideResult, CallWhole DEF Whole, Returns
<1> QED BY <1>4, <1>5, <1>6, <1>7, <1>8, <1>9, <1>10, <1>11, <1>12 DEF Next

\* A call that is refused leaves the track as it was, for any segments, marks and
\* deltas, unless it splices inside a segment or a head has been shortened: once the
\* first of the replacements of a roll or a slide is made, and once the segments
\* after a trimmed tail are shifted, nothing that follows is refused.
THEOREM RefusedChangesNothingAlways ==
    ASSUME "shortenHead" \notin Operations, "spliceInside" \notin Operations
    PROVE  Spec => RefusedChangesNothing
<1>1. Init => SoundTrack
  BY InputsAssumption DEF Init, SoundTrack, TypeOK, Disjoint
<1>2. SoundTrack /\ [Next]_vars => SoundTrack'
  BY NextKeepsSound
<1>3. SoundTrack /\ [Next]_vars => [~accepted' => segments' = segments]_vars
  BY NextWhole
<1> QED BY <1>1, <1>2, <1>3, PTL DEF Spec, RefusedChangesNothing

-----------------------------------------------------------------------------
(* What a track shows *)

Frames == 0 .. Horizon - 1
Covers(s, f) == s.start <= f /\ f < End(s)
Shown(s, f) == << s.clip, s.sourceIn + (f - s.start) >>

\* What is seen of a track, as Content says it of the segments
Seen(track) ==
    [f \in Frames |->
        IF \E s \in track : Covers(s, f)
        THEN Shown(CHOOSE s \in track : Covers(s, f), f)
        ELSE << >>]

InHorizon(track) == \A s \in track : End(s) <= Horizon

LEMMA ContentSeen == Content = Seen(segments) /\ Content' = Seen(segments')
BY DEF Content, Seen, Covers, Shown, Frames, End

\* A frame shows the one segment that covers it ...
LEMMA Shows ==
    ASSUME NEW track, Sound(track), NEW f \in Frames, NEW s \in track, Covers(s, f)
    PROVE  Seen(track)[f] = Shown(s, f)
<1>1. PICK t \in track : Covers(t, f) /\ t = CHOOSE u \in track : Covers(u, f)
  OBVIOUS
<1>2. t = s
  BY <1>1 DEF Sound, Disjoint, Segment, Covers, End, Frames
<1> QED BY <1>1, <1>2 DEF Seen

\* ... or filler.
LEMMA ShowsFiller ==
    ASSUME NEW track, NEW f \in Frames, \A s \in track : ~Covers(s, f)
    PROVE  Seen(track)[f] = << >>
BY DEF Seen

\* Segments at one frame and segments at another one show the same.
SameAt(track, f, other, g) ==
    /\ \A s \in track : Covers(s, f) =>
          \E t \in other : Covers(t, g) /\ Shown(t, g) = Shown(s, f)
    /\ \A t \in other : Covers(t, g) => \E s \in track : Covers(s, f)

LEMMA SameSeen ==
    ASSUME NEW track, Sound(track), NEW f \in Frames,
           NEW other, Sound(other), NEW g \in Frames, SameAt(track, f, other, g)
    PROVE  Seen(other)[g] = Seen(track)[f]
<1>1. CASE \E s \in track : Covers(s, f)
  BY <1>1, Shows DEF SameAt
<1>2. CASE \A s \in track : ~Covers(s, f)
  BY <1>2, ShowsFiller DEF SameAt
<1> QED BY <1>1, <1>2

\* A segment that is put in or taken out matters to the frames it covers only.
LEMMA AddSeen ==
    ASSUME NEW track, NEW s, Sound(track), Sound(track \cup {s}), NEW f \in Frames, ~Covers(s, f)
    PROVE  Seen(track \cup {s})[f] = Seen(track)[f]
<1>1. SameAt(track, f, track \cup {s}, f)
  BY DEF SameAt
<1> QED BY <1>1, SameSeen

LEMMA WithoutSeen ==
    ASSUME NEW track, NEW s, Sound(track), NEW f \in Frames, ~Covers(s, f)
    PROVE  Sound(track \ {s}) /\ Seen(track \ {s})[f] = Seen(track)[f]
<1>1. SameAt(track, f, track \ {s}, f)
  BY DEF SameAt
<1>2. Sound(track \ {s})
  BY DEF Sound, Disjoint
<1> QED BY <1>1, <1>2, SameSeen

LEMMA LaterShown ==
    ASSUME NEW s \in Segment, NEW f \in Int, NEW n \in Int
    PROVE  /\ Abstract!Later(Shown(s, f), n) = Shown(s, f + n)
           /\ Shown(s, f) # << >>
BY DEF Shown, Segment, Abstract!Later

\* A segment shows a stretch of its clip.
LEMMA Stretch ==
    ASSUME NEW track, Sound(track), InHorizon(track), NEW s \in track,
           NEW from \in Int, NEW to \in Int, s.start <= from, to <= End(s)
    PROVE  Abstract!Continuous(Seen(track), from, to)
<1> SUFFICES ASSUME NEW f \in from .. to - 1
             PROVE  /\ Seen(track)[f] # << >>
                    /\ f > from => Seen(track)[f] = Abstract!Later(Seen(track)[f - 1], 1)
  BY DEF Abstract!Continuous, Abstract!Filler
<1>1. s \in Segment /\ End(s) <= Horizon /\ s.start \in Nat /\ End(s) \in Nat /\ Horizon \in Nat
  BY InputsAssumption DEF Sound, InHorizon, Segment, End
<1>2. f \in Frames /\ Covers(s, f) /\ f \in Int
  BY <1>1 DEF Frames, Covers
<1>3. Seen(track)[f] = Shown(s, f) /\ Shown(s, f) # << >>
  BY <1>1, <1>2, Shows, LaterShown
<1>4. ASSUME f > from
      PROVE  Seen(track)[f] = Abstract!Later(Seen(track)[f - 1], 1)
  <2>1. f - 1 \in Frames /\ Covers(s, f - 1) /\ f - 1 \in Int /\ f - 1 + 1 = f
    BY <1>1, <1>2, <1>4 DEF Frames, Covers
  <2>2. Seen(track)[f - 1] = Shown(s, f - 1)
    BY <2>1, Shows
  <2>3. Abstract!Later(Shown(s, f - 1), 1) = Shown(s, f - 1 + 1)
    BY <1>1, <2>1, LaterShown
  <2> QED BY <1>3, <2>1, <2>2, <2>3
<1> QED BY <1>3, <1>4

-----------------------------------------------------------------------------
(* What a call shows, edit by edit *)

\* The step of the timeline that replaces what a new segment covers
LEMMA OverwriteStep ==
    ASSUME Sound(segments'), InHorizon(segments'), NEW new \in segments',
           \A f \in Frames : ~Covers(new, f) => Content'[f] = Content[f]
    PROVE  Abstract!Next
<1>1. new \in Segment /\ new.start \in Frames /\ End(new) \in new.start + 1 .. Horizon
  BY InputsAssumption DEF Sound, InHorizon, Segment, End, Frames
<1>2. \A f \in Frames \ (new.start .. End(new) - 1) : ~Covers(new, f)
  BY <1>1 DEF Covers, Frames
<1>3. Abstract!Continuous(Seen(segments'), new.start, End(new))
  <2>1. new.start \in Int /\ End(new) \in Int /\ new.start <= new.start /\ End(new) <= End(new)
    BY <1>1 DEF Frames
  <2> QED BY <2>1, Stretch
<1>4. Abstract!Continuous(Content', new.start, End(new))
  BY <1>3, ContentSeen
<1>5. Abstract!Overwrite(new.start, End(new))
  BY <1>2, <1>4 DEF Abstract!Overwrite, Frames, Abstract!Frames
<1>6. new.start \in Abstract!Frames
  BY <1>1 DEF Frames, Abstract!Frames
<1> HIDE DEF Frames
<1> QED BY <1>1, <1>5, <1>6 DEF Abstract!Next

\* The step that blanks a range, whatever of it lies beyond the horizon
LEMMA ClearStep ==
    ASSUME NEW from \in Nat, NEW to \in Nat, from < to,
           \A f \in Frames : Content'[f] = IF from <= f /\ f < to THEN << >> ELSE Content[f]
    PROVE  Abstract!Next \/ Content' = Content
<1>1. CASE from < Horizon
  <2> DEFINE end == IF to < Horizon THEN to ELSE Horizon
  <2>1. from \in Frames /\ end \in from + 1 .. Horizon
    <3>1. Horizon \in Nat
      BY InputsAssumption
    <3>2. CASE to < Horizon
      BY <1>1, <3>1, <3>2 DEF Frames
    <3>3. CASE ~(to < Horizon)
      BY <1>1, <3>1, <3>3 DEF Frames
    <3> QED BY <3>2, <3>3
  <2>2. ASSUME NEW f \in Frames
        PROVE  (f \in from .. end - 1) <=> (from <= f /\ f < to)
    <3>1. f \in Int /\ f < Horizon /\ Horizon \in Int
      BY InputsAssumption DEF Frames
    <3>2. CASE to < Horizon
      BY <3>1, <3>2
    <3>3. CASE ~(to < Horizon)
      BY <3>1, <3>3
    <3> QED BY <3>2, <3>3
  <2> HIDE DEF end
  <2>3. Abstract!Clear(from, end)
    BY <2>2 DEF Abstract!Clear, Frames, Abstract!Frames, Abstract!Filler
  <2> QED BY <2>1, <2>3 DEF Abstract!Next, Frames, Abstract!Frames
<1>2. CASE ~(from < Horizon)
  <2>1. \A f \in Frames : Content'[f] = Content[f]
    BY <1>2, InputsAssumption DEF Frames
  <2> QED BY <2>1, ContentSeen DEF Seen
<1> QED BY <1>1, <1>2

\* The step that removes a range and closes the gap
LEMMA RemoveStep ==
    ASSUME NEW from \in Nat, NEW to \in Nat, from < to,
           \A f \in Frames :
               Content'[f] = IF f < from THEN Content[f] ELSE Abstract!At(Content, f + (to - from))
    PROVE  Abstract!Next \/ Content' = Content
<1>1. CASE from < Horizon
  <2> DEFINE end == IF to < Horizon THEN to ELSE Horizon
  <2>1. from \in Frames /\ end \in from + 1 .. Horizon
    <3>1. Horizon \in Nat
      BY InputsAssumption
    <3>2. CASE to < Horizon
      BY <1>1, <3>1, <3>2 DEF Frames
    <3>3. CASE ~(to < Horizon)
      BY <1>1, <3>1, <3>3 DEF Frames
    <3> QED BY <3>2, <3>3
  <2>2. \A f \in Frames : ~(f < from) => 
           Abstract!At(Content, f + (to - from)) = Abstract!At(Content, f + (end - from))
    <3>1. CASE to < Horizon
      BY <3>1
    <3>2. CASE ~(to < Horizon)
      <4>1. \A f \in Frames : ~(f < from) =>
              f + (to - from) \notin Abstract!Frames /\ f + (Horizon - from) \notin Abstract!Frames
        BY <3>2, InputsAssumption DEF Frames, Abstract!Frames
      <4> QED BY <3>2, <4>1 DEF Abstract!At
    <3> QED BY <3>1, <3>2
  <2> HIDE DEF end
  <2>3. Abstract!Remove(from, end)
    BY <2>2 DEF Abstract!Remove, Frames, Abstract!Frames
  <2> QED BY <2>1, <2>3 DEF Abstract!Next, Frames, Abstract!Frames
<1>2. CASE ~(from < Horizon)
  <2>1. \A f \in Frames : Content'[f] = Content[f]
    BY <1>2, InputsAssumption DEF Frames
  <2> QED BY <2>1, ContentSeen DEF Seen
<1> QED BY <1>1, <1>2

\* The step that pushes what follows to the right
LEMMA InsertStep ==
    ASSUME Sound(segments'), InHorizon(segments'), NEW new \in segments',
           NEW from \in Nat, NEW to \in Nat, from < to, new.start <= from, to <= End(new),
           \A f \in Frames :
               /\ f < from => Content'[f] = Content[f]
               /\ f >= to => Content'[f] = Content[f - (to - from)]
    PROVE  Abstract!Next
<1>1. from \in Frames /\ to \in from + 1 .. Horizon
  BY InputsAssumption DEF Sound, InHorizon, Segment, End, Frames
<1>2. Abstract!Continuous(Seen(segments'), from, to)
  BY Stretch
<1>3. Abstract!Continuous(Content', from, to)
  BY <1>2, ContentSeen
<1>4. Abstract!Insert(from, to)
  BY <1>3 DEF Abstract!Insert, Frames, Abstract!Frames
<1> QED BY <1>1, <1>4 DEF Abstract!Next, Frames, Abstract!Frames

\* Of a call, the segments it leaves are within the horizon.
LEMMA CallLeaves ==
    ASSUME NEW result, Call(result)
    PROVE  segments' = result.track /\ InHorizon(result.track)
BY DEF Call, InHorizon

LEMMA SameContent ==
    ASSUME segments' = segments
    PROVE  Content' = Content
BY ContentSeen

LEMMA RefusedShown ==
    ASSUME NEW result, Call(result), result.track = segments
    PROVE  Content' = Content
BY CallLeaves, SameContent

\* A segment that is added replaces the filler it covers.
LEMMA AddShown ==
    ASSUME Sound(segments), NEW new \in Segment, Call(AddSegment(segments, new))
    PROVE  Abstract!Next \/ Content' = Content
<1>1. CASE AddSegment(segments, new).track = segments
  BY <1>1, RefusedShown
<1>2. CASE AddSegment(segments, new).track = segments \cup {new}
  <2>1. segments' = segments \cup {new} /\ InHorizon(segments') /\ Sound(segments')
    BY <1>2, CallLeaves, AddSound DEF SoundResult
  <2>2. \A f \in Frames : ~Covers(new, f) => Seen(segments')[f] = Seen(segments)[f]
    BY <2>1, AddSeen
  <2> QED BY <2>1, <2>2, ContentSeen, OverwriteStep
<1> QED BY <1>1, <1>2 DEF AddSegment, Returns

\* A segment that is removed leaves filler.
LEMMA RemoveShown ==
    ASSUME Sound(segments), NEW s \in segments, segments' = segments \ {s}
    PROVE  Abstract!Next \/ Content' = Content
<1>1. s \in Segment /\ s.start \in Nat /\ End(s) \in Nat /\ s.start < End(s)
  BY DEF Sound, Segment, End
<1>2. ASSUME NEW f \in Frames
      PROVE  Content'[f] = IF s.start <= f /\ f < End(s) THEN << >> ELSE Content[f]
  <2>1. CASE Covers(s, f)
    <3>1. \A t \in segments \ {s} : ~Covers(t, f)
      BY <2>1, <1>1 DEF Covers, Sound, Disjoint, Segment, End, Frames
    <3>2. Seen(segments')[f] = << >>
      BY <3>1, ShowsFiller
    <3> QED BY <2>1, <3>2, ContentSeen DEF Covers
  <2>2. CASE ~Covers(s, f)
    <3>1. Seen(segments')[f] = Seen(segments)[f]
      BY <2>2, WithoutSeen
    <3> QED BY <2>2, <3>1, ContentSeen DEF Covers
  <2> QED BY <2>1, <2>2
<1> QED BY <1>1, <1>2, ClearStep

\* What is left when a range is carved out shows what it did outside the range.
LEMMA CarveSeen ==
    ASSUME NEW track, Sound(track), NEW from \in Nat, NEW to \in Nat, from < to,
           Sound(CarveOutRange(track, from, to)), NEW f \in Frames
    PROVE  Seen(CarveOutRange(track, from, to))[f] =
               IF from <= f /\ f < to THEN << >> ELSE Seen(track)[f]
<1> DEFINE carved == CarveOutRange(track, from, to)
<1>1. CASE from <= f /\ f < to
  <2>1. \A s \in carved : ~Covers(s, f)
    BY <1>1, CarveOutside DEF Sound, Segment, End, Covers, Frames
  <2> HIDE DEF carved
  <2> QED BY <1>1, <2>1, ShowsFiller DEF carved
<1>2. CASE ~(from <= f /\ f < to)
  <2>1. ASSUME NEW s \in track, Covers(s, f)
        PROVE  \E t \in carved : Covers(t, f) /\ Shown(t, f) = Shown(s, f)
    <3>1. CASE f < from
      <4>1. s \in Segment /\ f \in Int /\ s.start < from
        BY <2>1, <3>1 DEF Covers, Sound, Segment, Frames
      <4>2. CASE End(s) <= from
        <5>1. s \in Before(s, from)
          BY <4>1, <4>2 DEF Before, Segment, End
        <5> QED BY <2>1, <5>1 DEF CarveOutRange
      <4>3. CASE ~(End(s) <= from)
        <5> DEFINE t == [s EXCEPT !.duration = from - s.start]
        <5>1. t \in Before(s, from)
          BY <4>1, <4>3 DEF Before, Segment, End
        <5>2. Covers(t, f) /\ Shown(t, f) = Shown(s, f)
          BY <2>1, <3>1, <4>1 DEF Covers, Shown, Segment, End
        <5> QED BY <5>1, <5>2 DEF CarveOutRange
      <4> QED BY <4>2, <4>3
    <3>2. CASE to <= f
      <4>1. s \in Segment /\ f \in Int /\ to < End(s)
        BY <2>1, <3>2 DEF Covers, Sound, Segment, End, Frames
      <4>2. CASE s.start >= to
        <5>1. s \in After(s, to)
          BY <4>1, <4>2 DEF After, Segment, End
        <5> QED BY <2>1, <5>1 DEF CarveOutRange
      <4>3. CASE ~(s.start >= to)
        <5> DEFINE t == Piece(s.clip, s.sourceIn + (to - s.start), End(s) - to, to)
        <5>1. t \in After(s, to)
          BY <4>1, <4>3 DEF After, Segment, End
        <5>2. Covers(t, f) /\ Shown(t, f) = Shown(s, f)
          BY <2>1, <3>2, <4>1 DEF Covers, Shown, Piece, Segment, End
        <5> QED BY <5>1, <5>2 DEF CarveOutRange
      <4> QED BY <4>2, <4>3
    <3> QED BY <1>2, <3>1, <3>2 DEF Frames
  <2>2. ASSUME NEW t \in carved, Covers(t, f)
        PROVE  \E s \in track : Covers(s, f)
    <3>1. PICK s \in track : t \in Before(s, from) \/ t \in After(s, to)
      BY DEF CarveOutRange
    <3>2. Covers(s, f)
      BY <2>2, <3>1 DEF Before, After, Piece, Covers, Sound, Segment, End, Frames
    <3> QED BY <3>2
  <2>3. SameAt(track, f, carved, f)
    BY <2>1, <2>2 DEF SameAt
  <2> QED BY <1>2, <2>3, SameSeen
<1> QED BY <1>1, <1>2

-----------------------------------------------------------------------------
(* What a shift shows *)

LEMMA MovedShown ==
    ASSUME NEW s \in Segment, NEW offset \in Int, NEW f \in Int
    PROVE  /\ Moved(s, offset).start = s.start + offset
           /\ End(Moved(s, offset)) = End(s) + offset
           /\ Covers(Moved(s, offset), f) <=> Covers(s, f - offset)
           /\ Shown(Moved(s, offset), f) = Shown(s, f - offset)
BY DEF Moved, End, Covers, Shown, Segment

\* The segments after a shift: those before it, and the others moved
LEMMA Shifted ==
    ASSUME NEW track \in SUBSET Segment, NEW from \in Nat, NEW offset \in Int,
           \A s \in track : ~(s.start < from) => 0 <= s.start + offset
    PROVE  /\ \A s \in track :
                (IF s.start < from THEN s ELSE Moved(s, offset)) \in RippleShift(track, from, offset)
           /\ \A t \in RippleShift(track, from, offset) : \E s \in track :
                t = IF s.start < from THEN s ELSE Moved(s, offset)
<1>1. \A s \in track :
        (IF s.start < from THEN s ELSE [s EXCEPT !.start = Timecode(s.start + offset)]) =
        (IF s.start < from THEN s ELSE Moved(s, offset))
  BY DEF Timecode, Moved, Segment
<1> QED BY <1>1 DEF RippleShift

\* A frame before all that moves shows what it did, ...
LEMMA ShiftSeenBefore ==
    ASSUME NEW track, Sound(track), NEW from \in Nat, NEW offset \in Int,
           Sound(RippleShift(track, from, offset)),
           \A s \in track : ~(s.start < from) => 0 <= s.start + offset,
           NEW f \in Frames,
           \A s \in track : ~(s.start < from) => f < s.start /\ f < s.start + offset
    PROVE  Seen(RippleShift(track, from, offset))[f] = Seen(track)[f]
<1> DEFINE shifted == RippleShift(track, from, offset)
<1>1. f \in Int /\ track \in SUBSET Segment
  BY DEF Frames, Sound
<1>2. ASSUME NEW s \in track, Covers(s, f)
      PROVE  \E t \in shifted : Covers(t, f) /\ Shown(t, f) = Shown(s, f)
  <2>1. s.start < from
    BY <1>1, <1>2 DEF Covers, Segment
  <2> QED BY <1>1, <1>2, <2>1, Shifted
<1>3. ASSUME NEW t \in shifted, Covers(t, f)
      PROVE  \E s \in track : Covers(s, f)
  <2>1. PICK s \in track : t = IF s.start < from THEN s ELSE Moved(s, offset)
    BY <1>1, Shifted
  <2>2. CASE s.start < from
    BY <1>3, <2>1, <2>2
  <2>3. CASE ~(s.start < from)
    <3>1. t.start = s.start + offset /\ f < s.start + offset
      BY <1>1, <2>1, <2>3, MovedShown
    <3> QED BY <1>1, <1>3, <3>1 DEF Covers, Segment
  <2> QED BY <2>2, <2>3
<1>4. SameAt(track, f, shifted, f)
  BY <1>2, <1>3 DEF SameAt
<1> QED BY <1>4, SameSeen

\* ... and one after all that stays shows what was seen so many frames away.
LEMMA ShiftSeenAfter ==
    ASSUME NEW track, Sound(track), InHorizon(track), NEW from \in Nat, NEW offset \in Int,
           Sound(RippleShift(track, from, offset)),
           \A s \in track : ~(s.start < from) => 0 <= s.start + offset,
           NEW f \in Frames,
           \A s \in track : s.start < from => End(s) <= f /\ End(s) <= f - offset
    PROVE  Seen(RippleShift(track, from, offset))[f] = Abstract!At(Seen(track), f - offset)
<1> DEFINE shifted == RippleShift(track, from, offset)
<1>1. f \in Int /\ f - offset \in Int /\ track \in SUBSET Segment
  BY DEF Frames, Sound
<1>2. ASSUME NEW s \in track, Covers(s, f - offset)
      PROVE  \E t \in shifted : Covers(t, f) /\ Shown(t, f) = Shown(s, f - offset)
  <2>1. ~(s.start < from)
    BY <1>1, <1>2 DEF Covers, Segment, End
  <2>2. Moved(s, offset) \in shifted
    BY <1>1, <2>1, Shifted
  <2> QED BY <1>1, <1>2, <2>2, MovedShown
<1>3. ASSUME NEW t \in shifted, Covers(t, f)
      PROVE  \E s \in track : Covers(s, f - offset)
  <2>1. PICK s \in track : t = IF s.start < from THEN s ELSE Moved(s, offset)
    BY <1>1, Shifted
  <2>2. CASE s.start < from
    BY <1>1, <1>3, <2>1, <2>2 DEF Covers, Segment, End
  <2>3. CASE ~(s.start < from)
    BY <1>1, <1>3, <2>1, <2>3, MovedShown
  <2> QED BY <2>2, <2>3
<1>4. CASE f - offset \in Frames
  <2>1. SameAt(track, f - offset, shifted, f)
    BY <1>2, <1>3 DEF SameAt
  <2>2. Seen(shifted)[f] = Seen(track)[f - offset]
    BY <1>4, <2>1, SameSeen
  <2> QED BY <1>4, <2>2 DEF Abstract!At, Abstract!Frames, Frames
<1>5. CASE f - offset \notin Frames
  <2>1. \A s \in track : ~Covers(s, f - offset)
    BY <1>1, <1>5, InputsAssumption DEF InHorizon, Covers, Segment, End, Frames
  <2>2. Seen(shifted)[f] = << >>
    BY <1>3, <2>1, ShowsFiller
  <2> QED BY <1>5, <2>2 DEF Abstract!At, Abstract!Frames, Abstract!Filler, Frames
<1> QED BY <1>4, <1>5
-----------------------------------------------------------------------------
(* The edits and the trims of one segment, each as a step of the timeline *)

LEMMA OverwriteShown ==
    ASSUME Sound(segments), NEW new \in Segment, Call(EditOverwrite(segments, new))
    PROVE  Abstract!Next \/ Content' = Content
<1> DEFINE carved == CarveOutRange(segments, new.start, End(new))
<1>1. new.start \in Nat /\ End(new) \in Nat /\ new.start < End(new)
  BY DEF End, Segment
<1>2. CASE EditOverwrite(segments, new).track = segments
  BY <1>2, RefusedShown
<1>3. CASE EditOverwrite(segments, new).track = carved \cup {new}
  <2>1. segments' = carved \cup {new} /\ InHorizon(segments') /\ Sound(segments')
    BY <1>3, CallLeaves, OverwriteSound DEF SoundResult
  <2> HIDE DEF carved
  <2>2. Sound(carved)
    BY <2>1 DEF Sound, Disjoint
  <2>3. ASSUME NEW f \in Frames, ~Covers(new, f)
        PROVE  Seen(segments')[f] = Seen(segments)[f]
    <3>1. Seen(segments')[f] = Seen(carved)[f]
      BY <2>1, <2>2, <2>3, AddSeen
    <3>2. Seen(carved)[f] = Seen(segments)[f]
      BY <1>1, <2>2, <2>3, CarveSeen DEF carved, Covers
    <3> QED BY <3>1, <3>2
  <2> QED BY <2>1, <2>3, ContentSeen, OverwriteStep
<1> QED BY <1>2, <1>3 DEF EditOverwrite, SetSegments, Returns

LEMMA LiftShown ==
    ASSUME Sound(segments), NEW from \in Nat, NEW to \in Nat, from < to,
           Call(EditLift(segments, from, to))
    PROVE  Abstract!Next \/ Content' = Content
<1>1. CASE EditLift(segments, from, to).track = segments
  BY <1>1, RefusedShown
<1>2. CASE EditLift(segments, from, to).track = CarveOutRange(segments, from, to)
  <2>1. segments' = CarveOutRange(segments, from, to) /\ Sound(segments')
    BY <1>2, CallLeaves, LiftSound DEF SoundResult
  <2>2. \A f \in Frames : Content'[f] = IF from <= f /\ f < to THEN << >> ELSE Content[f]
    BY <2>1, CarveSeen, ContentSeen
  <2> QED BY <2>2, ClearStep
<1> QED BY <1>1, <1>2 DEF EditLift, SetSegments, Returns

LEMMA ExtractShown ==
    ASSUME Sound(segments), InHorizon(segments), NEW from \in Nat, NEW to \in Nat, from < to,
           Call(EditExtract(segments, from, to))
    PROVE  Abstract!Next \/ Content' = Content
<1> DEFINE carved == CarveOutRange(segments, from, to)
<1>1. CASE EditExtract(segments, from, to).track = segments
  BY <1>1, RefusedShown
<1>2. CASE /\ EditLift(segments, from, to) = Returns(TRUE, carved)
           /\ EditExtract(segments, from, to) = Returns(TRUE, RippleShift(carved, from, from - to))
  <2>1. /\ segments' = RippleShift(carved, from, from - to) /\ Sound(segments')
        /\ Sound(carved)
    BY <1>2, CallLeaves, LiftSound, ExtractSound DEF SoundResult, Returns
  <2>2. carved \in SUBSET Segment /\ \A s \in carved : End(s) <= from \/ to <= s.start
    BY CarveOutside DEF Sound
  <2>3. InHorizon(carved)
    <3>1. ASSUME NEW s \in segments, NEW t \in Before(s, from) \cup After(s, to)
          PROVE  End(t) <= Horizon
      BY <3>1, InputsAssumption DEF Before, After, Piece, InHorizon, Sound, Segment, End
    <3> QED BY <3>1 DEF InHorizon, CarveOutRange
  <2>4. \A f \in Frames : Seen(carved)[f] = IF from <= f /\ f < to THEN << >> ELSE Seen(segments)[f]
    BY <2>1, CarveSeen
  <2> HIDE DEF carved
  <2>5. ASSUME NEW f \in Frames
        PROVE  Content'[f] = IF f < from THEN Content[f] ELSE Abstract!At(Content, f + (to - from))
    <3>1. /\ from - to \in Int /\ f \in Int
          /\ \A s \in carved : s.start < from => End(s) <= from
          /\ \A s \in carved : ~(s.start < from) => to <= s.start /\ from <= s.start + (from - to)
      BY <2>2 DEF Segment, End, Frames
    <3>2. CASE f < from
      <4>1. /\ \A s \in carved : ~(s.start < from) => 0 <= s.start + (from - to)
            /\ \A s \in carved : ~(s.start < from) => f < s.start /\ f < s.start + (from - to)
        BY <2>2, <3>1, <3>2 DEF Segment
      <4>2. Seen(segments')[f] = Seen(carved)[f]
        BY <2>1, <3>1, <4>1, ShiftSeenBefore
      <4> QED BY <2>4, <3>1, <3>2, <4>2, ContentSeen
    <3>3. CASE ~(f < from)
      <4>1. /\ \A s \in carved : ~(s.start < from) => 0 <= s.start + (from - to)
            /\ \A s \in carved : s.start < from => End(s) <= f /\ End(s) <= f - (from - to)
        BY <2>2, <3>1, <3>3 DEF Segment, End
      <4>2. Seen(segments')[f] = Abstract!At(Seen(carved), f - (from - to))
        BY <2>1, <2>3, <3>1, <4>1, ShiftSeenAfter
      <4>3. f - (from - to) = f + (to - from) /\ ~(f + (to - from) < to)
        BY <3>1, <3>3
      <4>4. Abstract!At(Seen(carved), f + (to - from)) = Abstract!At(Seen(segments), f + (to - from))
        <5>1. f + (to - from) \in Int
          BY <3>1
        <5>2. CASE f + (to - from) \in Frames
          <6>1. Seen(carved)[f + (to - from)] = Seen(segments)[f + (to - from)]
            BY <2>4, <4>3, <5>2
          <6> QED BY <5>2, <6>1 DEF Abstract!At, Abstract!Frames, Frames
        <5>3. CASE f + (to - from) \notin Frames
          BY <5>3 DEF Abstract!At, Abstract!Frames, Frames
        <5> QED BY <5>2, <5>3
      <4>5. Seen(segments')[f] = Abstract!At(Seen(segments), f + (to - from))
        BY <4>2, <4>3, <4>4
      <4>6. Content'[f] = Abstract!At(Content, f + (to - from))
        BY <4>5, ContentSeen
      <4> QED BY <3>3, <4>6
    <3> QED BY <3>2, <3>3
  <2> QED BY <2>5, RemoveStep
<1>3. \/ EditLift(segments, from, to) = Returns(TRUE, carved)
      \/ EditLift(segments, from, to) = Returns(FALSE, segments)
  BY DEF EditLift, SetSegments
<1>4. EditLift(segments, from, to) = Returns(TRUE, carved) =>
        EditExtract(segments, from, to) = Returns(TRUE, RippleShift(carved, from, from - to))
  BY DEF EditExtract, Returns
<1>5. EditLift(segments, from, to) = Returns(FALSE, segments) =>
        EditExtract(segments, from, to).track = segments
  BY DEF EditExtract, Returns
<1> QED BY <1>1, <1>2, <1>3, <1>4, <1>5

\* Outside a segment, a splice pushes what follows to the right.
LEMMA SpliceInShown ==
    ASSUME Sound(segments), InHorizon(segments), NEW new \in Segment,
           ~\E s \in segments : s.start < new.start /\ new.start < End(s),
           Call(EditSpliceIn(segments, new))
    PROVE  Abstract!Next \/ Content' = Content
<1> DEFINE from == new.start
           n == new.duration
           shifted == RippleShift(segments, from, n)
<1>1. from \in Nat /\ n \in Nat /\ n > 0 /\ End(new) = from + n /\ segments \in SUBSET Segment
  BY DEF Segment, End, Sound
<1>2. Sound(shifted)
  BY <1>1, ShiftRightSound
<1>3. EditSpliceIn(segments, new) = Returns(TRUE, shifted \cup {new})
  <2>1. EditSpliceIn(segments, new).ok
    BY SpliceInFits
  <2> QED BY <2>1 DEF EditSpliceIn, AddSegment, Returns
<1>4. segments' = shifted \cup {new} /\ InHorizon(segments') /\ Sound(segments')
  BY <1>3, CallLeaves, SpliceInSound DEF SoundResult, Returns
<1>5. /\ \A s \in segments : s.start < from => End(s) <= from
      /\ \A s \in segments : ~(s.start < from) => from <= s.start /\ from <= s.start + n /\ 0 <= s.start + n
  BY <1>1 DEF Segment, End
<1> HIDE DEF shifted
<1>6. ASSUME NEW f \in Frames
      PROVE  /\ f < from => Content'[f] = Content[f]
             /\ f >= from + n => Content'[f] = Content[f - n]
  <2>1. f \in Int /\ f - n \in Int /\ f \in Nat
    BY <1>1 DEF Frames
  <2>2. CASE f < from
    <3>1. ~Covers(new, f)
      BY <1>1, <2>1, <2>2 DEF Covers
    <3>2. Seen(segments')[f] = Seen(shifted)[f]
      BY <1>2, <1>4, <3>1, AddSeen
    <3>3. \A s \in segments : ~(s.start < from) => f < s.start /\ f < s.start + n
      BY <1>1, <1>5, <2>1, <2>2 DEF Segment
    <3>4. Seen(shifted)[f] = Seen(segments)[f]
      BY <1>1, <1>2, <1>5, <3>3, ShiftSeenBefore DEF shifted
    <3> QED BY <1>1, <2>1, <2>2, <3>2, <3>4, ContentSeen
  <2>3. CASE f >= from + n
    <3>1. ~Covers(new, f)
      BY <1>1, <2>1, <2>3 DEF Covers
    <3>2. Seen(segments')[f] = Seen(shifted)[f]
      BY <1>2, <1>4, <3>1, AddSeen
    <3>3. \A s \in segments : s.start < from => End(s) <= f /\ End(s) <= f - n
      BY <1>1, <1>5, <2>1, <2>3 DEF Segment, End
    <3>4. Seen(shifted)[f] = Abstract!At(Seen(segments), f - n)
      BY <1>1, <1>2, <1>5, <3>3, ShiftSeenAfter DEF shifted
    <3>5. f - n \in Frames
      BY <1>1, <2>1, <2>3, InputsAssumption DEF Frames
    <3> QED BY <1>1, <2>1, <2>3, <3>2, <3>4, <3>5, ContentSeen DEF Abstract!At, Abstract!Frames, Frames
  <2> QED BY <2>2, <2>3
<1>7. from + n \in Nat /\ from < from + n /\ (from + n) - from = n /\ new \in segments'
  BY <1>1, <1>4
<1>8. \A f \in Frames :
        /\ f < from => Content'[f] = Content[f]
        /\ f >= from + n => Content'[f] = Content[f - ((from + n) - from)]
  BY <1>6, <1>7
<1> HIDE DEF from, n
<1>9. new.start <= from /\ from + n <= End(new)
  BY <1>1 DEF from
<1> QED BY <1>1, <1>4, <1>7, <1>8, <1>9, InsertStep
\* A trimmed tail lets what follows move, and shows more of its clip or less.
LEMMA RippleRightShown ==
    ASSUME Sound(segments), InHorizon(segments), NEW s \in segments, NEW delta \in Int \ {0},
           Call(TrimRippleRight(segments, s, delta))
    PROVE  Abstract!Next \/ Content' = Content
<1> DEFINE others == segments \ {s}
           shifted == RippleShift(segments, End(s), delta)
           shiftedOthers == RippleShift(others, End(s), delta)
           new == [s EXCEPT !.duration = @ + delta]
<1>1. s \in Segment /\ End(s) \in Nat /\ s.duration \in Nat /\ s.duration > 0 /\ s.start \in Nat
      /\ new.duration = s.duration + delta /\ End(s) = s.start + s.duration
      /\ new.start = s.start
  BY DEF Sound, Segment, End
<1>2. CASE new.duration <= 0
  BY <1>2, RefusedShown DEF TrimRippleRight, Refused, Returns
<1>3. CASE ~(new.duration <= 0)
  <2>1. new \in Segment /\ End(new) = End(s) + delta /\ End(new) \in Nat /\ s.start < End(new)
    BY <1>1, <1>3 DEF Segment, End
  <2>2. ~WouldOverlap(shifted \ {s}, new) /\ shifted \in SUBSET Segment
    <3>1. delta \in Int /\ s.duration + delta > 0
      BY <1>1, <1>3
    <3> QED BY <3>1, ShiftedTail
  <2>3. TrimRippleRight(segments, s, delta) = Returns(TRUE, (shifted \ {s}) \cup {new})
    <3>1. TrimRippleRight(segments, s, delta) = ReplaceSegment(shifted, s, new)
      BY <1>3, Zenon DEF TrimRippleRight
    <3>2. new.duration > 0
      BY <2>1 DEF Segment
    <3> HIDE DEF shifted, new
    <3> QED BY <2>2, <3>1, <3>2 DEF ReplaceSegment
  <2>4. Sound(others) /\ InHorizon(others)
    BY DEF Sound, Disjoint, InHorizon
  <2>5. \A t \in others : /\ t \in Segment /\ t.start \in Nat /\ End(t) \in Nat
                          /\ t.start < End(t)
                          /\ t.start < End(s) => End(t) <= s.start
                          /\ ~(t.start < End(s)) => End(new) <= t.start + delta /\ 0 <= t.start + delta
    BY <1>1, <2>1 DEF Sound, Disjoint, Segment, End
  <2>6. shifted \ {s} = shiftedOthers
    <3>1. RippleShift({s}, End(s), delta) = {s}
      BY <1>1 DEF RippleShift
    <3>2. shifted = shiftedOthers \cup RippleShift({s}, End(s), delta)
      BY DEF RippleShift
    <3>3. ASSUME s \in shiftedOthers
          PROVE  FALSE
      <4>1. PICK t \in others : s = IF t.start < End(s) THEN t ELSE Moved(t, delta)
        BY <1>1, <2>4, <2>5, <3>3, Shifted DEF Sound
      <4>2. s = Moved(t, delta) /\ ~(t.start < End(s))
        BY <4>1
      <4>3. s.start = t.start + delta
        BY <2>5, <4>2, MovedShown
      <4> QED BY <1>1, <2>1, <2>5, <4>2, <4>3
    <3> QED BY <3>1, <3>2, <3>3
  <2>7. segments' = shiftedOthers \cup {new} /\ InHorizon(segments') /\ Sound(segments')
    <3> HIDE DEF shifted, shiftedOthers, new
    <3>1. TrimRippleRight(segments, s, delta).track = shiftedOthers \cup {new}
      BY <2>3, <2>6 DEF Returns
    <3>2. Sound(TrimRippleRight(segments, s, delta).track)
      BY RippleRightSound DEF SoundResult
    <3> QED BY <3>1, <3>2, CallLeaves
  <2>8. Sound(shiftedOthers)
    BY <2>7 DEF Sound, Disjoint
  <2> HIDE DEF others, shifted, shiftedOthers, new
  <2>9. \A f \in Frames : ~Covers(s, f) => Seen(others)[f] = Seen(segments)[f]
    BY WithoutSeen DEF others
  <2>10. \A f \in Frames : ~Covers(new, f) => Seen(segments')[f] = Seen(shiftedOthers)[f]
    BY <2>7, <2>8, AddSeen
  <2>11. ASSUME NEW f \in Frames, f < End(s), f < End(new)
         PROVE  Content'[f] = Content[f]
    <3>1. f \in Nat
      BY DEF Frames
    <3>2. CASE Covers(s, f)
      <4>1. Covers(new, f) /\ Shown(new, f) = Shown(s, f)
        BY <1>1, <2>1, <2>11, <3>2 DEF Covers, Shown, new, Segment
      <4>2. Seen(segments')[f] = Shown(new, f)
        BY <2>7, <4>1, Shows
      <4>3. Seen(segments)[f] = Shown(s, f)
        BY <3>2, Shows
      <4> QED BY <4>1, <4>2, <4>3, ContentSeen
    <3>3. CASE ~Covers(s, f)
      <4>1. ~Covers(new, f)
        BY <1>1, <2>1, <2>11, <3>1, <3>3 DEF Covers
      <4>2. \A t \in others : ~(t.start < End(s)) =>
              f < t.start /\ f < t.start + delta /\ 0 <= t.start + delta
        BY <1>1, <2>1, <2>5, <2>11, <3>1
      <4>3. Seen(shiftedOthers)[f] = Seen(others)[f]
        BY <1>1, <2>4, <2>8, <4>2, ShiftSeenBefore DEF shiftedOthers
      <4> QED BY <2>9, <2>10, <3>3, <4>1, <4>3, ContentSeen
    <3> QED BY <3>2, <3>3
  <2>12. ASSUME NEW f \in Frames, f >= End(new)
         PROVE  Content'[f] = Abstract!At(Content, f - delta)
    <3>1. f \in Nat /\ f - delta \in Int /\ f - delta >= End(s)
      BY <1>1, <2>1, <2>12 DEF Frames
    <3>2. ~Covers(new, f) /\ ~Covers(s, f - delta)
      BY <1>1, <2>1, <2>12, <3>1 DEF Covers
    <3>3. \A t \in others : t.start < End(s) => End(t) <= f /\ End(t) <= f - delta
      BY <1>1, <2>1, <2>5, <2>12, <3>1
    <3>4. \A t \in others : ~(t.start < End(s)) => 0 <= t.start + delta
      BY <2>5
    <3>5. Seen(shiftedOthers)[f] = Abstract!At(Seen(others), f - delta)
      BY <1>1, <2>4, <2>8, <3>3, <3>4, ShiftSeenAfter DEF shiftedOthers
    <3>6. Abstract!At(Seen(others), f - delta) = Abstract!At(Seen(segments), f - delta)
      BY <2>9, <3>2 DEF Abstract!At, Abstract!Frames, Frames
    <3>7. Seen(segments')[f] = Abstract!At(Seen(segments), f - delta)
      BY <2>10, <3>2, <3>5, <3>6
    <3> QED BY <3>7, ContentSeen
  <2>13. CASE delta > 0
    <3> DEFINE from == End(s)
               to == End(new)
    <3>1. /\ from \in Nat /\ to \in Nat /\ from < to /\ to - from = delta
          /\ new \in segments' /\ new.start <= from /\ to <= End(new)
      BY <1>1, <2>1, <2>7, <2>13 DEF new
    <3>2. ASSUME NEW f \in Frames
          PROVE  /\ f < from => Content'[f] = Content[f]
                 /\ f >= to => Content'[f] = Content[f - (to - from)]
      <4>1. f < from => Content'[f] = Content[f]
        BY <2>11, <3>1 DEF Frames
      <4>2. ASSUME f >= to
            PROVE  Content'[f] = Content[f - (to - from)]
        <5>1. f - delta \in Abstract!Frames
          BY <2>13, <3>1, <4>2, InputsAssumption DEF Frames, Abstract!Frames
        <5> QED BY <2>12, <3>1, <4>2, <5>1 DEF Abstract!At
      <4> QED BY <4>1, <4>2
    <3> HIDE DEF from, to
    <3> QED BY <2>7, <3>1, <3>2, InsertStep
  <2>14. CASE delta < 0
    <3> DEFINE from == End(new)
               to == End(s)
    <3>1. from \in Nat /\ to \in Nat /\ from < to /\ to - from = -delta
      BY <1>1, <2>1, <2>14
    <3>2. ASSUME NEW f \in Frames
          PROVE  Content'[f] = IF f < from THEN Content[f] ELSE Abstract!At(Content, f + (to - from))
      <4>1. CASE f < from
        BY <2>11, <3>1, <4>1 DEF Frames
      <4>2. CASE ~(f < from)
        <5>1. f >= End(new) /\ f - delta = f + (to - from)
          BY <3>1, <4>2 DEF Frames
        <5> HIDE DEF from, to
        <5> QED BY <2>12, <4>2, <5>1
      <4> QED BY <4>1, <4>2
    <3> HIDE DEF from, to
    <3> QED BY <3>1, <3>2, RemoveStep
  <2> QED BY <2>13, <2>14
<1> QED BY <1>2, <1>3
\* An extended head uncovers more of its clip and pushes what is behind.
LEMMA RippleLeftShown ==
    ASSUME Sound(segments), InHorizon(segments), NEW s \in segments, NEW delta \in Int, delta < 0,
           Call(TrimRippleLeft(segments, s, delta))
    PROVE  Abstract!Next \/ Content' = Content
<1> DEFINE n == -delta
           new == Piece(s.clip, s.sourceIn + delta, s.duration - delta, s.start + delta)
           replaced == ReplaceSegment(segments, s, new)
           others == segments \ {s}
           grown == others \cup {new}
           shifted == RippleShift(grown, End(new), n)
<1>1. /\ s \in Segment /\ End(s) \in Nat /\ s.start \in Nat /\ s.start < End(s)
      /\ n \in Nat /\ n > 0 /\ s.start + delta = s.start - n
  BY DEF Sound, Segment, End
<1>2. CASE new.sourceIn < 0 \/ new.start < 0 \/ new.duration <= 0
  BY <1>2, RefusedShown DEF TrimRippleLeft, Refused, Returns
<1>3. CASE ~(new.sourceIn < 0 \/ new.start < 0 \/ new.duration <= 0) /\ ~replaced.ok
  <2>1. TrimRippleLeft(segments, s, delta) = replaced /\ replaced.track = segments
    BY <1>3 DEF TrimRippleLeft, ReplaceSegment, Returns
  <2> QED BY <2>1, RefusedShown
<1>4. CASE ~(new.sourceIn < 0 \/ new.start < 0 \/ new.duration <= 0) /\ replaced.ok
  <2>1. /\ new \in Segment /\ End(new) = End(s) /\ new.start = s.start - n /\ new.start \in Nat
        /\ \A f \in Int : Shown(new, f) = Shown(s, f)
    BY <1>1, <1>4 DEF Piece, Segment, End, Shown
  <2>2. replaced = Returns(TRUE, grown)
    BY <1>4 DEF ReplaceSegment, Returns
  <2>3. TrimRippleLeft(segments, s, delta) = Returns(TRUE, shifted)
    <3>1. TrimRippleLeft(segments, s, delta) = Returns(TRUE, RippleShift(replaced.track, End(new), n))
      BY <1>4, Zenon DEF TrimRippleLeft
    <3>2. replaced.track = grown
      BY <2>2 DEF Returns
    <3> QED BY <3>1, <3>2
  <2>4. Sound(grown)
    <3>1. SoundResult(replaced)
      BY <2>1, ReplaceSound
    <3> HIDE DEF replaced, grown
    <3> QED BY <2>2, <3>1 DEF SoundResult, Returns
  <2> HIDE DEF new, replaced, grown, shifted, n
  <2>5. segments' = shifted /\ InHorizon(segments') /\ Sound(segments')
    BY <2>3, CallLeaves, RippleLeftSound DEF SoundResult, Returns
  <2>6. new \in grown /\ InHorizon(grown)
    BY <2>1 DEF grown, InHorizon
  <2>7. \A t \in grown : /\ t \in Segment /\ t.start \in Nat /\ End(t) \in Nat
                         /\ t.start < End(new) => End(t) <= End(new)
                         /\ ~(t.start < End(new)) => 0 <= t.start + n
    BY <1>1, <2>1, <2>4, <2>6 DEF Sound, Disjoint, Segment, End
  <2>8. /\ \A t \in grown : t.start < End(new) => t \in shifted
        /\ \A t \in shifted : End(t) <= End(new) \/ End(new) + n <= t.start
    <3>1. grown \in SUBSET Segment /\ End(new) \in Nat /\ n \in Int
      BY <1>1, <2>1, <2>4 DEF Sound
    <3>2. \A t \in grown : t.start < End(new) => t \in shifted
      BY <2>7, <3>1, Shifted DEF shifted
    <3>3. \A t \in shifted : \E u \in grown : t = IF u.start < End(new) THEN u ELSE Moved(u, n)
      BY <2>7, <3>1, Shifted DEF shifted
    <3>4. \A u \in grown : ~(u.start < End(new)) => Moved(u, n).start = u.start + n
      BY <2>7, <3>1, MovedShown
    <3>5. \A u \in grown : ~(u.start < End(new)) => End(new) + n <= Moved(u, n).start
      BY <1>1, <2>7, <3>1, <3>4
    <3>6. ASSUME NEW t \in shifted
          PROVE  End(t) <= End(new) \/ End(new) + n <= t.start
      <4>1. PICK u \in grown : t = IF u.start < End(new) THEN u ELSE Moved(u, n)
        BY <3>3
      <4> QED BY <2>7, <3>5, <4>1
    <3> QED BY <3>2, <3>6
  <2>9. Sound(others)
    BY DEF Sound, Disjoint
  <2>10. ASSUME NEW f \in Frames, ~Covers(new, f)
        PROVE  Seen(grown)[f] = Seen(segments)[f]
    <3>1. ~Covers(s, f)
      BY <1>1, <2>1, <2>10 DEF Covers, Frames
    <3>2. Seen(grown)[f] = Seen(others)[f]
      BY <2>4, <2>9, <2>10, AddSeen DEF grown
    <3> QED BY <3>1, <3>2, WithoutSeen
  <2>11. new \in segments'
    <3>1. new.start < End(new)
      BY <1>1, <2>1
    <3> QED BY <2>5, <2>6, <2>8, <3>1
  <2> DEFINE from == new.start
             head == s.start
             to == End(s)
  <2>12. /\ from \in Nat /\ head \in Nat /\ to \in Nat /\ from < head /\ head < to
         /\ head - from = n /\ to <= Horizon /\ from <= head /\ to = End(new)
    BY <1>1, <2>1 DEF InHorizon
  <2>13. ASSUME NEW f \in Frames, f < from \/ f \in head .. to - 1
         PROVE  Content'[f] = Content[f]
    <3>1. f \in Nat /\ f \in Int
      BY DEF Frames
    <3>2. CASE f < from
      <4>1. ~Covers(new, f)
        BY <2>12, <3>1, <3>2 DEF Covers
      <4>2. \A t \in grown : ~(t.start < End(new)) => f < t.start /\ f < t.start + n
        BY <1>1, <2>7, <2>12, <3>1, <3>2
      <4>3. Seen(shifted)[f] = Seen(grown)[f]
        BY <1>1, <2>1, <2>4, <2>5, <2>7, <4>2, ShiftSeenBefore DEF shifted
      <4> QED BY <2>5, <2>10, <4>1, <4>3, ContentSeen
    <3>3. CASE f \in head .. to - 1
      <4>1. Covers(new, f) /\ Covers(s, f)
        BY <2>12, <3>1, <3>3 DEF Covers
      <4>2. Seen(segments')[f] = Shown(new, f)
        BY <2>5, <2>11, <4>1, Shows
      <4>3. Seen(segments)[f] = Shown(s, f)
        BY <4>1, Shows
      <4> QED BY <2>1, <3>1, <4>2, <4>3, ContentSeen
    <3> QED BY <2>13, <3>2, <3>3
  <2>14. ASSUME NEW f \in Frames, f >= to
         PROVE  Content'[f] = IF f < to + n THEN << >> ELSE Content[f - n]
    <3>1. f \in Nat /\ f - n \in Int /\ to + n \in Nat
      BY <1>1, <2>12 DEF Frames
    <3>2. CASE f < to + n
      <4>1. ASSUME NEW t \in shifted, Covers(t, f)
            PROVE  FALSE
        <5>1. t \in Segment /\ End(t) \in Int /\ t.start \in Int
          BY <2>5 DEF Sound, Segment, End
        <5> QED BY <1>1, <2>8, <2>12, <2>14, <3>1, <3>2, <4>1, <5>1 DEF Covers
      <4>2. Seen(segments')[f] = << >>
        BY <2>5, <4>1, ShowsFiller
      <4> QED BY <3>2, <4>2, ContentSeen
    <3>3. CASE ~(f < to + n)
      <4>1. f - n \in Frames /\ f - n >= to
        BY <1>1, <2>12, <2>14, <3>1, <3>3, InputsAssumption DEF Frames
      <4>2. \A t \in grown : t.start < End(new) => End(t) <= f /\ End(t) <= f - n
        BY <2>7, <2>12, <2>14, <3>1, <4>1
      <4>3. Seen(shifted)[f] = Abstract!At(Seen(grown), f - n)
        BY <1>1, <2>1, <2>4, <2>5, <2>6, <2>7, <4>2, ShiftSeenAfter DEF shifted
      <4>4. Abstract!At(Seen(grown), f - n) = Seen(grown)[f - n]
        BY <4>1 DEF Abstract!At, Abstract!Frames, Frames
      <4>5. ~Covers(new, f - n)
        BY <2>12, <3>1, <4>1 DEF Covers
      <4> QED BY <2>5, <2>10, <3>3, <4>1, <4>3, <4>4, <4>5, ContentSeen
    <3> QED BY <3>2, <3>3
  <2>15. Abstract!Continuous(Content', from, head + 1)
    <3>1. from \in Int /\ head + 1 \in Int /\ new.start <= from /\ head + 1 <= End(new)
      BY <2>12
    <3>2. Abstract!Continuous(Seen(segments'), from, head + 1)
      BY <2>5, <2>11, <3>1, Stretch
    <3> QED BY <3>2, ContentSeen
  <2> HIDE DEF from, head, to
  <2>16. Abstract!Uncover(from, head, to)
    <3>1. \A f \in Abstract!Frames : f < from \/ f \in head .. to - 1 => Content'[f] = Content[f]
      BY <2>13 DEF Abstract!Frames, Frames
    <3>2. \A f \in Abstract!Frames : f >= to =>
            Content'[f] = IF f < to + (head - from) THEN Abstract!Filler ELSE Content[f - (head - from)]
      BY <2>12, <2>14 DEF Abstract!Frames, Frames, Abstract!Filler
    <3> QED BY <2>15, <3>1, <3>2 DEF Abstract!Uncover
  <2>17. from \in Abstract!Frames /\ head \in Abstract!Frames /\ to \in head + 1 .. Horizon
    BY <2>12, InputsAssumption DEF Abstract!Frames
  <2> QED BY <2>12, <2>16, <2>17 DEF Abstract!Next
<1> QED BY <1>2, <1>3, <1>4
\* A slipped clip replaces what its segment showed.
LEMMA SlipShown ==
    ASSUME Sound(segments), NEW s \in segments, NEW delta \in Int,
           Call(TrimSlip(segments, s, delta))
    PROVE  Abstract!Next \/ Content' = Content
<1> DEFINE new == [s EXCEPT !.sourceIn = @ + delta]
           others == segments \ {s}
<1>1. CASE TrimSlip(segments, s, delta).track = segments
  BY <1>1, RefusedShown
<1>2. CASE ~(s.sourceIn + delta < 0) /\ TrimSlip(segments, s, delta).track = others \cup {new}
  <2>1. segments' = others \cup {new} /\ InHorizon(segments') /\ Sound(segments')
    BY <1>2, CallLeaves, SlipSound DEF SoundResult
  <2>2. new \in Segment /\ \A f : Covers(new, f) <=> Covers(s, f)
    BY <1>2 DEF Sound, Segment, Covers, End
  <2> HIDE DEF new
  <2>3. ASSUME NEW f \in Frames, ~Covers(new, f)
        PROVE  Content'[f] = Content[f]
    <3>1. Sound(others) /\ Seen(others)[f] = Seen(segments)[f]
      BY <2>2, <2>3, WithoutSeen
    <3> HIDE DEF others
    <3>2. Seen(segments')[f] = Seen(others)[f]
      BY <2>1, <2>3, <3>1, AddSeen
    <3> QED BY <3>1, <3>2, ContentSeen
  <2> QED BY <2>1, <2>3, OverwriteStep
<1>3. TrimSlip(segments, s, delta).track = segments \/
        (~(s.sourceIn + delta < 0) /\ TrimSlip(segments, s, delta).track = others \cup {new})
  BY DEF TrimSlip, ReplaceSegment, Refused, Returns
<1> QED BY <1>1, <1>2, <1>3

-----------------------------------------------------------------------------
(* Rolls and slides move cuts *)

\* So many frames of filler between two segments
LEMMA GapCount ==
    ASSUME NEW outer, IsFiniteSet(outer), NEW a \in Int, NEW b \in Int, a <= b,
           \A f \in outer : ~(a <= f /\ f < b)
    PROVE  /\ IsFiniteSet(outer \cup (a .. b - 1))
           /\ Cardinality(outer \cup (a .. b - 1)) = Cardinality(outer) + (b - a)
<1> DEFINE gap == a .. b - 1
<1>1. IsFiniteSet(gap) /\ Cardinality(gap) = b - a
  <2>1. b - 1 \in Int
    OBVIOUS
  <2>2. IsFiniteSet(gap) /\ Cardinality(gap) = IF a > b - 1 THEN 0 ELSE (b - 1) - a + 1
    BY <2>1, FS_Interval
  <2> HIDE DEF gap
  <2> QED BY <2>2
<1>2. outer \cap gap = {}
  OBVIOUS
<1>3. Cardinality({}) = 0 /\ Cardinality(outer) \in Nat
  BY FS_EmptySet, FS_CardinalityType
<1> HIDE DEF gap
<1>4. /\ IsFiniteSet(outer \cup gap)
      /\ Cardinality(outer \cup gap) = Cardinality(outer) + Cardinality(gap) - Cardinality(outer \cap gap)
  BY <1>1, FS_Union
<1>5. Cardinality(outer \cup gap) = Cardinality(outer) + (b - a)
  BY <1>1, <1>2, <1>3, <1>4
<1> QED BY <1>4, <1>5 DEF gap

\* The filler of a track in and out of a range
OuterFiller(track, from, to) ==
    {f \in Frames : ~(from <= f /\ f < to) /\ Seen(track)[f] = << >>}

LEMMA OuterFinite ==
    ASSUME NEW track, NEW from, NEW to
    PROVE  IsFiniteSet(OuterFiller(track, from, to))
<1>1. IsFiniteSet(Frames)
  BY InputsAssumption, FS_Interval DEF Frames
<1> QED BY <1>1, FS_Subset DEF OuterFiller

\* A timeline counts as FiniteSets does.
LEMMA SameCardinality ==
    ASSUME NEW S
    PROVE  Abstract!Cardinality(S) = Cardinality(S)
BY DEF Abstract!Cardinality, Cardinality

\* The step of the timeline that moves cuts: every frame shows what it did, or what
\* was seen n frames before, or goes on from a frame of its segment beside it.
CutsMoved(n) ==
    \A f \in Frames :
        \/ Content'[f] \in {<< >>, Content[f], Abstract!At(Content, f - n)}
        \/ \E g \in {f - 1, f + 1} \cap Frames : \E t \in segments' : Covers(t, f) /\ Covers(t, g)

LEMMA MoveCutsStep ==
    ASSUME Sound(segments'), NEW n \in -Horizon .. Horizon, CutsMoved(n),
           Cardinality(Abstract!FillerFrames(Content')) = Cardinality(Abstract!FillerFrames(Content))
    PROVE  Abstract!Next
<1>1. ASSUME NEW f \in Frames, NEW g \in Frames, NEW t \in segments', Covers(t, f), Covers(t, g)
      PROVE  Content'[g] # << >> /\ Content'[f] = Abstract!Later(Content'[g], f - g)
  <2>1. f \in Int /\ g \in Int /\ f - g \in Int /\ g + (f - g) = f /\ t \in Segment
    BY DEF Frames, Sound
  <2>2. Seen(segments')[f] = Shown(t, f) /\ Seen(segments')[g] = Shown(t, g)
    BY <1>1, Shows
  <2>3. Abstract!Later(Shown(t, g), f - g) = Shown(t, g + (f - g)) /\ Shown(t, g) # << >>
    BY <2>1, LaterShown
  <2> QED BY <2>1, <2>2, <2>3, ContentSeen
<1>2. \A f \in Abstract!Frames :
        \/ Content'[f] \in {Abstract!Filler, Content[f], Abstract!At(Content, f - n)}
        \/ \E g \in {f - 1, f + 1} \cap Abstract!Frames :
             Content'[g] # Abstract!Filler /\ Content'[f] = Abstract!Later(Content'[g], f - g)
  <2> SUFFICES ASSUME NEW f \in Frames
               PROVE  \/ Content'[f] \in {<< >>, Content[f], Abstract!At(Content, f - n)}
                      \/ \E g \in {f - 1, f + 1} \cap Frames :
                           Content'[g] # << >> /\ Content'[f] = Abstract!Later(Content'[g], f - g)
    BY DEF Abstract!Frames, Frames, Abstract!Filler
  <2>1. CASE Content'[f] \in {<< >>, Content[f], Abstract!At(Content, f - n)}
    BY <2>1
  <2>2. CASE \E g \in {f - 1, f + 1} \cap Frames : \E t \in segments' : Covers(t, f) /\ Covers(t, g)
    BY <1>1, <2>2
  <2> QED BY <2>1, <2>2 DEF CutsMoved
<1>3. Abstract!MoveCuts(n)
  BY <1>2, SameCardinality DEF Abstract!MoveCuts
<1> QED BY <1>3 DEF Abstract!Next
\* The filler between two neighbours, and among three
LEMMA TwoFiller ==
    ASSUME NEW track, Sound(track), InHorizon(track), NEW a \in track, NEW b \in track,
           End(a) <= b.start,
           \A t \in track \ {a, b} : End(t) <= a.start \/ End(b) <= t.start
    PROVE  Cardinality(Abstract!FillerFrames(Seen(track))) =
               Cardinality(OuterFiller(track, a.start, End(b))) + (b.start - End(a))
<1> DEFINE outer == OuterFiller(track, a.start, End(b))
           gap == End(a) .. b.start - 1
<1>1. /\ a \in Segment /\ a.start \in Nat /\ End(a) \in Nat /\ a.start < End(a)
      /\ b \in Segment /\ b.start \in Nat /\ End(b) \in Nat /\ b.start < End(b) /\ End(b) <= Horizon
      /\ Horizon \in Nat
  BY InputsAssumption DEF Sound, InHorizon, Segment, End
<1>2. gap \subseteq Frames
  BY <1>1 DEF Frames
<1>3. ASSUME NEW f \in Frames
      PROVE  Seen(track)[f] = << >> <=> f \in outer \/ f \in gap
  <2>1. f \in Int
    BY DEF Frames
  <2>2. CASE ~(a.start <= f /\ f < End(b))
    BY <1>1, <2>1, <2>2 DEF OuterFiller
  <2>3. CASE a.start <= f /\ f < End(b)
    <3>1. f \notin outer
      BY <2>3 DEF OuterFiller
    <3>2. CASE Covers(a, f) \/ Covers(b, f)
      <4>1. Seen(track)[f] # << >>
        BY <1>1, <2>1, <3>2, Shows, LaterShown
      <4>2. f \notin gap
        BY <1>1, <2>1, <3>2 DEF Covers
      <4> QED BY <3>1, <4>1, <4>2
    <3>3. CASE ~(Covers(a, f) \/ Covers(b, f))
      <4>1. \A t \in track : ~Covers(t, f)
        BY <1>1, <2>1, <2>3, <3>3 DEF Covers, Sound, Segment, End
      <4>2. f \in gap
        BY <1>1, <2>1, <2>3, <3>3 DEF Covers
      <4> QED BY <4>1, <4>2, ShowsFiller
    <3> QED BY <3>2, <3>3
  <2> QED BY <2>2, <2>3
<1>4. outer \subseteq Frames /\ \A f \in outer : ~(End(a) <= f /\ f < b.start)
  BY <1>1 DEF OuterFiller, Frames
<1>5. IsFiniteSet(outer)
  BY OuterFinite
<1> HIDE DEF outer, gap
<1>6. Abstract!FillerFrames(Seen(track)) = outer \cup gap
  BY <1>2, <1>3, <1>4 DEF Abstract!FillerFrames, Abstract!Frames, Abstract!Filler, Frames
<1>7. Cardinality(outer \cup gap) = Cardinality(outer) + (b.start - End(a))
  <2>1. End(a) \in Int /\ b.start \in Int
    BY <1>1
  <2>2. \A f \in outer : ~(End(a) <= f /\ f < b.start)
    BY <1>4
  <2>3. Cardinality(outer \cup (End(a) .. b.start - 1)) = Cardinality(outer) + (b.start - End(a))
    BY <1>5, <2>1, <2>2, GapCount, Zenon
  <2> QED BY <2>3 DEF gap
<1> QED BY <1>6, <1>7 DEF outer

LEMMA ThreeFiller ==
    ASSUME NEW track, Sound(track), InHorizon(track),
           NEW a \in track, NEW b \in track, NEW c \in track,
           End(a) <= b.start, End(b) <= c.start,
           \A t \in track \ {a, b, c} : End(t) <= a.start \/ End(c) <= t.start
    PROVE  Cardinality(Abstract!FillerFrames(Seen(track))) =
               Cardinality(OuterFiller(track, a.start, End(c))) + (b.start - End(a)) + (c.start - End(b))
<1> DEFINE outer == OuterFiller(track, a.start, End(c))
           gap1 == End(a) .. b.start - 1
           gap2 == End(b) .. c.start - 1
<1>1. /\ a \in Segment /\ a.start \in Nat /\ End(a) \in Nat /\ a.start < End(a)
      /\ b \in Segment /\ b.start \in Nat /\ End(b) \in Nat /\ b.start < End(b)
      /\ c \in Segment /\ c.start \in Nat /\ End(c) \in Nat /\ c.start < End(c) /\ End(c) <= Horizon
      /\ Horizon \in Nat
  BY InputsAssumption DEF Sound, InHorizon, Segment, End
<1>2. gap1 \subseteq Frames /\ gap2 \subseteq Frames
  BY <1>1 DEF Frames
<1>3. ASSUME NEW f \in Frames
      PROVE  Seen(track)[f] = << >> <=> f \in outer \/ f \in gap1 \/ f \in gap2
  <2>1. f \in Int
    BY DEF Frames
  <2>2. CASE ~(a.start <= f /\ f < End(c))
    BY <1>1, <2>1, <2>2 DEF OuterFiller
  <2>3. CASE a.start <= f /\ f < End(c)
    <3>1. f \notin outer
      BY <2>3 DEF OuterFiller
    <3>2. CASE Covers(a, f) \/ Covers(b, f) \/ Covers(c, f)
      <4>1. Seen(track)[f] # << >>
        BY <1>1, <2>1, <3>2, Shows, LaterShown
      <4>2. f \notin gap1 /\ f \notin gap2
        BY <1>1, <2>1, <3>2 DEF Covers
      <4> QED BY <3>1, <4>1, <4>2
    <3>3. CASE ~(Covers(a, f) \/ Covers(b, f) \/ Covers(c, f))
      <4>1. \A t \in track : ~Covers(t, f)
        BY <1>1, <2>1, <2>3, <3>3 DEF Covers, Sound, Segment, End
      <4>2. f \in gap1 \/ f \in gap2
        BY <1>1, <2>1, <2>3, <3>3 DEF Covers
      <4> QED BY <4>1, <4>2, ShowsFiller
    <3> QED BY <3>2, <3>3
  <2> QED BY <2>2, <2>3
<1>4. /\ outer \subseteq Frames
      /\ \A f \in outer : ~(End(a) <= f /\ f < b.start)
      /\ \A f \in outer \cup gap1 : ~(End(b) <= f /\ f < c.start)
  BY <1>1, <1>2 DEF OuterFiller, Frames
<1>5. IsFiniteSet(outer)
  BY OuterFinite
<1> HIDE DEF outer, gap1, gap2
<1>6. Abstract!FillerFrames(Seen(track)) = outer \cup gap1 \cup gap2
  BY <1>2, <1>3, <1>4 DEF Abstract!FillerFrames, Abstract!Frames, Abstract!Filler, Frames
<1>7. /\ IsFiniteSet(outer \cup gap1)
      /\ Cardinality(outer \cup gap1) = Cardinality(outer) + (b.start - End(a))
  <2>1. End(a) \in Int /\ b.start \in Int
    BY <1>1
  <2>2. \A f \in outer : ~(End(a) <= f /\ f < b.start)
    BY <1>4
  <2>3. /\ IsFiniteSet(outer \cup (End(a) .. b.start - 1))
        /\ Cardinality(outer \cup (End(a) .. b.start - 1)) = Cardinality(outer) + (b.start - End(a))
    BY <1>5, <2>1, <2>2, GapCount, Zenon
  <2> QED BY <2>3 DEF gap1
<1>8. Cardinality((outer \cup gap1) \cup gap2) = Cardinality(outer \cup gap1) + (c.start - End(b))
  <2> DEFINE inner == outer \cup gap1
  <2>1. End(b) \in Int /\ c.start \in Int
    BY <1>1
  <2>2. IsFiniteSet(inner) /\ \A f \in inner : ~(End(b) <= f /\ f < c.start)
    BY <1>4, <1>7
  <2> HIDE DEF inner
  <2>3. Cardinality(inner \cup (End(b) .. c.start - 1)) = Cardinality(inner) + (c.start - End(b))
    BY <2>1, <2>2, GapCount, Zenon
  <2> QED BY <2>3 DEF gap2, inner
<1> QED BY <1>6, <1>7, <1>8 DEF outer

\* Outside the range whose segments are replaced, everything is as it was.
LEMMA ReplacedOutside ==
    ASSUME NEW track, Sound(track), NEW other, Sound(other), NEW from \in Int, NEW to \in Int,
           \A t \in (track \ other) \cup (other \ track) : from <= t.start /\ End(t) <= to,
           NEW f \in Frames, ~(from <= f /\ f < to)
    PROVE  Seen(other)[f] = Seen(track)[f]
<1>1. \A t \in (track \ other) \cup (other \ track) : ~Covers(t, f)
  BY DEF Sound, Segment, End, Covers, Frames
<1>2. SameAt(track, f, other, f)
  BY <1>1 DEF SameAt
<1> QED BY <1>2, SameSeen

LEMMA GrownShown ==
    ASSUME NEW s \in Segment, NEW delta \in Int
    PROVE  /\ Grown(s, delta).start = s.start /\ End(Grown(s, delta)) = End(s) + delta
           /\ \A f \in Int : Shown(Grown(s, delta), f) = Shown(s, f)
BY DEF Grown, End, Shown, Segment

LEMMA HeadMovedShown ==
    ASSUME NEW s \in Segment, NEW delta \in Int
    PROVE  /\ HeadMoved(s, delta).start = s.start + delta /\ End(HeadMoved(s, delta)) = End(s)
           /\ \A f \in Int : Shown(HeadMoved(s, delta), f) = Shown(s, f)
BY DEF HeadMoved, Piece, End, Shown, Segment
\* A roll moves the cut between two segments.
LEMMA RollShown ==
    ASSUME Sound(segments), InHorizon(segments), NEW left \in segments, NEW right \in segments,
           Adjacent(segments, left, right), NEW delta \in Int \ {0},
           Call(TrimRoll(segments, left, right, delta))
    PROVE  Abstract!Next \/ Content' = Content
<1> DEFINE newLeft == Grown(left, delta)
           newRight == HeadMoved(right, delta)
           others == segments \ {left, right}
<1>1. CASE TrimRoll(segments, left, right, delta) = Returns(FALSE, segments)
  BY <1>1, RefusedShown DEF Returns
<1>2. CASE /\ newLeft \in Segment /\ newRight \in Segment
           /\ TrimRoll(segments, left, right, delta) = Returns(TRUE, others \cup {newLeft, newRight})
  <2>1. segments' = others \cup {newLeft, newRight} /\ InHorizon(segments') /\ Sound(segments')
    <3>1. TrimRoll(segments, left, right, delta).track = others \cup {newLeft, newRight}
      BY <1>2 DEF Returns
    <3>2. Sound(TrimRoll(segments, left, right, delta).track)
      BY RollSound DEF SoundResult
    <3> QED BY <3>1, <3>2, CallLeaves
  <2>2. /\ left \in Segment /\ left.start \in Nat /\ End(left) \in Nat /\ left.start < End(left)
        /\ right \in Segment /\ right.start \in Nat /\ End(right) \in Nat /\ right.start < End(right)
        /\ End(left) <= right.start /\ End(right) <= Horizon /\ Horizon \in Nat
    BY Neighbours, InputsAssumption DEF InHorizon, Sound, Segment, End
  <2>3. /\ newLeft.start = left.start /\ End(newLeft) = End(left) + delta
        /\ newRight.start = right.start + delta /\ End(newRight) = End(right)
        /\ \A f \in Int : Shown(newLeft, f) = Shown(left, f) /\ Shown(newRight, f) = Shown(right, f)
    BY <2>2, GrownShown, HeadMovedShown
  <2>4. newLeft.start < End(newLeft) /\ newRight.start < End(newRight)
    BY <1>2 DEF Segment, End
  <2>5. \A t \in others : End(t) <= left.start \/ End(right) <= t.start
    BY Neighbours
  <2> HIDE DEF newLeft, newRight
  <2>6. \A f \in Frames : ~(left.start <= f /\ f < End(right)) =>
          Seen(segments')[f] = Seen(segments)[f]
    <3>1. \A t \in {left, right, newLeft, newRight} : left.start <= t.start /\ End(t) <= End(right)
      BY <2>2, <2>3, <2>4
    <3>2. (segments \ segments') \cup (segments' \ segments) \subseteq {left, right, newLeft, newRight}
      BY <2>1
    <3> QED BY <2>1, <2>2, <3>1, <3>2, ReplacedOutside
  <2>7. newLeft \in segments' /\ newRight \in segments'
    BY <2>1
  <2>8. \A t \in segments' \ {newLeft, newRight} : End(t) <= newLeft.start \/ End(newRight) <= t.start
    BY <2>1, <2>3, <2>5
  <2>9. Cardinality(Abstract!FillerFrames(Content')) = Cardinality(Abstract!FillerFrames(Content))
    <3>1. OuterFiller(segments', left.start, End(right)) = OuterFiller(segments, left.start, End(right))
      BY <2>6 DEF OuterFiller
    <3>2. Cardinality(Abstract!FillerFrames(Seen(segments))) =
            Cardinality(OuterFiller(segments, left.start, End(right))) + (right.start - End(left))
      BY <2>2, <2>5, TwoFiller
    <3>3. Cardinality(Abstract!FillerFrames(Seen(segments'))) =
            Cardinality(OuterFiller(segments', left.start, End(right))) + (newRight.start - End(newLeft))
      <4>1. End(newLeft) <= newRight.start
        BY <2>2, <2>3
      <4>2. Cardinality(Abstract!FillerFrames(Seen(segments'))) =
              Cardinality(OuterFiller(segments', newLeft.start, End(newRight))) + (newRight.start - End(newLeft))
        BY <2>1, <2>7, <2>8, <4>1, TwoFiller
      <4> QED BY <2>3, <4>2
    <3>4. newRight.start - End(newLeft) = right.start - End(left)
      BY <2>2, <2>3
    <3> QED BY <3>1, <3>2, <3>3, <3>4, ContentSeen
  <2>10. ASSUME NEW f \in Frames
         PROVE  \/ Content'[f] \in {<< >>, Content[f], Abstract!At(Content, f - 0)}
                \/ \E g \in {f - 1, f + 1} \cap Frames : \E t \in segments' : Covers(t, f) /\ Covers(t, g)
    <3>1. f \in Int /\ f \in Nat /\ f < Horizon
      BY <2>2 DEF Frames
    <3>2. CASE ~(left.start <= f /\ f < End(right))
      BY <2>6, <3>2, ContentSeen
    <3>3. CASE left.start <= f /\ f < End(newLeft)
      <4>1. Covers(newLeft, f)
        BY <2>3, <3>3 DEF Covers
      <4>2. CASE f < End(left)
        <5>1. Seen(segments')[f] = Shown(left, f)
          BY <2>1, <2>3, <2>7, <3>1, <4>1, Shows
        <5>2. Seen(segments)[f] = Shown(left, f)
          BY <3>3, <4>2, Shows DEF Covers
        <5> QED BY <5>1, <5>2, ContentSeen
      <4>3. CASE ~(f < End(left))
        <5>1. Covers(newLeft, f - 1) /\ f - 1 \in Frames
          BY <2>2, <2>3, <3>1, <3>3, <4>3 DEF Covers, Frames
        <5> QED BY <2>7, <4>1, <5>1
      <4> QED BY <4>2, <4>3
    <3>4. CASE End(newLeft) <= f /\ f < newRight.start
      <4>1. \A t \in segments' : ~Covers(t, f)
        BY <2>1, <2>2, <2>3, <2>4, <2>8, <3>1, <3>4 DEF Covers, Sound, Segment, End
      <4>2. Content'[f] = << >>
        BY <4>1, ShowsFiller, ContentSeen
      <4> QED BY <4>2
    <3>5. CASE newRight.start <= f /\ f < End(right)
      <4>1. Covers(newRight, f)
        BY <2>3, <3>5 DEF Covers
      <4>2. CASE right.start <= f
        <5>1. Seen(segments')[f] = Shown(right, f)
          BY <2>1, <2>3, <2>7, <3>1, <4>1, Shows
        <5>2. Seen(segments)[f] = Shown(right, f)
          BY <3>5, <4>2, Shows DEF Covers
        <5> QED BY <5>1, <5>2, ContentSeen
      <4>3. CASE ~(right.start <= f)
        <5>1. Covers(newRight, f + 1) /\ f + 1 \in Frames
          BY <2>2, <2>3, <3>1, <3>5, <4>3 DEF Covers, Frames
        <5> QED BY <2>7, <4>1, <5>1
      <4> QED BY <4>2, <4>3
    <3>6. End(newLeft) \in Int /\ newRight.start \in Int
      BY <2>2, <2>3
    <3> QED BY <2>2, <3>1, <3>2, <3>3, <3>4, <3>5, <3>6
  <2>11. 0 \in -Horizon .. Horizon
    BY <2>2
  <2>12. Sound(segments')
    BY <2>1
  <2>13. Abstract!Next
    <3>1. CutsMoved(0)
      BY <2>10 DEF CutsMoved
    <3> QED BY <2>9, <2>11, <2>12, <3>1, MoveCutsStep
  <2> QED BY <2>13
<1> QED BY <1>1, <1>2, RollResult DEF Returns

\* A slide moves a segment, and the cuts on both sides of it.
LEMMA SlideShown ==
    ASSUME Sound(segments), InHorizon(segments),
           NEW prev \in segments, NEW curr \in segments, NEW next \in segments,
           Adjacent(segments, prev, curr), Adjacent(segments, curr, next), NEW delta \in Int \ {0},
           Call(TrimSlide(segments, prev, curr, next, delta))
    PROVE  Abstract!Next \/ Content' = Content
<1> DEFINE newPrev == Grown(prev, delta)
           newCurr == Moved(curr, delta)
           newNext == HeadMoved(next, delta)
           others == segments \ {prev, curr, next}
           slid == others \cup {newPrev, newCurr, newNext}
<1>1. CASE TrimSlide(segments, prev, curr, next, delta) = Returns(FALSE, segments)
  BY <1>1, RefusedShown DEF Returns
<1>2. CASE /\ newPrev \in Segment /\ newCurr \in Segment /\ newNext \in Segment
           /\ TrimSlide(segments, prev, curr, next, delta) = Returns(TRUE, slid)
  <2>1. segments' = slid /\ InHorizon(segments') /\ Sound(segments')
    <3>1. TrimSlide(segments, prev, curr, next, delta).track = slid
      BY <1>2 DEF Returns
    <3>2. Sound(TrimSlide(segments, prev, curr, next, delta).track)
      BY SlideSound DEF SoundResult
    <3> QED BY <3>1, <3>2, CallLeaves
  <2>2. /\ prev \in Segment /\ prev.start \in Nat /\ End(prev) \in Nat /\ prev.start < End(prev)
        /\ curr \in Segment /\ curr.start \in Nat /\ End(curr) \in Nat /\ curr.start < End(curr)
        /\ next \in Segment /\ next.start \in Nat /\ End(next) \in Nat /\ next.start < End(next)
        /\ End(prev) <= curr.start /\ End(curr) <= next.start /\ End(next) <= Horizon /\ Horizon \in Nat
    BY Neighbours, InputsAssumption DEF InHorizon, Sound, Segment, End
  <2>3. /\ newPrev.start = prev.start /\ End(newPrev) = End(prev) + delta
        /\ newNext.start = next.start + delta /\ End(newNext) = End(next)
        /\ \A f \in Int : Shown(newPrev, f) = Shown(prev, f) /\ Shown(newNext, f) = Shown(next, f)
    BY <2>2, GrownShown, HeadMovedShown
  <2>4. /\ newCurr.start = curr.start + delta /\ End(newCurr) = End(curr) + delta
        /\ \A f \in Int : Shown(newCurr, f) = Shown(curr, f - delta)
    BY <2>2, MovedShown DEF Moved, End, Segment
  <2>5. /\ newPrev.start < End(newPrev) /\ newCurr.start < End(newCurr) /\ newNext.start < End(newNext)
        /\ End(newPrev) <= newCurr.start /\ End(newCurr) <= newNext.start
    BY <1>2, <2>2, <2>3, <2>4 DEF Segment, End
  <2>6. \A t \in others : End(t) <= prev.start \/ End(next) <= t.start
    <3>1. \A t \in others : /\ End(t) <= prev.start \/ End(curr) <= t.start
                            /\ End(t) <= curr.start \/ End(next) <= t.start
      BY Neighbours
    <3> QED BY <2>2, <3>1 DEF End, Sound, Segment
  <2> HIDE DEF newPrev, newCurr, newNext
  <2>7. \A f \in Frames : ~(prev.start <= f /\ f < End(next)) =>
          Seen(segments')[f] = Seen(segments)[f]
    <3>1. \A t \in {prev, curr, next, newPrev, newCurr, newNext} :
            prev.start <= t.start /\ End(t) <= End(next)
      BY <2>2, <2>3, <2>4, <2>5
    <3>2. (segments \ segments') \cup (segments' \ segments) \subseteq
            {prev, curr, next, newPrev, newCurr, newNext}
      BY <2>1
    <3>3. \A t \in (segments \ segments') \cup (segments' \ segments) :
            prev.start <= t.start /\ End(t) <= End(next)
      BY <3>1, <3>2
    <3>4. prev.start \in Int /\ End(next) \in Int
      BY <2>2
    <3> HIDE DEF slid
    <3> QED BY <2>1, <3>3, <3>4, ReplacedOutside
  <2>8. newPrev \in segments' /\ newCurr \in segments' /\ newNext \in segments'
    BY <2>1
  <2>9. \A t \in segments' \ {newPrev, newCurr, newNext} :
          End(t) <= newPrev.start \/ End(newNext) <= t.start
    BY <2>1, <2>3, <2>6
  <2>10. Cardinality(Abstract!FillerFrames(Content')) = Cardinality(Abstract!FillerFrames(Content))
    <3>1. OuterFiller(segments', prev.start, End(next)) = OuterFiller(segments, prev.start, End(next))
      BY <2>7 DEF OuterFiller
    <3>2. Cardinality(Abstract!FillerFrames(Seen(segments))) =
            Cardinality(OuterFiller(segments, prev.start, End(next)))
              + (curr.start - End(prev)) + (next.start - End(curr))
      BY <2>2, <2>6, ThreeFiller
    <3>3. Cardinality(Abstract!FillerFrames(Seen(segments'))) =
            Cardinality(OuterFiller(segments', prev.start, End(next)))
              + (newCurr.start - End(newPrev)) + (newNext.start - End(newCurr))
      <4>1. Cardinality(Abstract!FillerFrames(Seen(segments'))) =
              Cardinality(OuterFiller(segments', newPrev.start, End(newNext)))
                + (newCurr.start - End(newPrev)) + (newNext.start - End(newCurr))
        BY <2>1, <2>5, <2>8, <2>9, ThreeFiller
      <4> QED BY <2>3, <4>1
    <3>4. /\ newCurr.start - End(newPrev) = curr.start - End(prev)
          /\ newNext.start - End(newCurr) = next.start - End(curr)
      BY <2>2, <2>3, <2>4
    <3> QED BY <3>1, <3>2, <3>3, <3>4, ContentSeen
  <2>11. ASSUME NEW f \in Frames
         PROVE  \/ Content'[f] \in {<< >>, Content[f], Abstract!At(Content, f - delta)}
                \/ \E g \in {f - 1, f + 1} \cap Frames : \E t \in segments' : Covers(t, f) /\ Covers(t, g)
    <3>1. f \in Int /\ f \in Nat /\ f < Horizon /\ f - delta \in Int
      BY <2>2 DEF Frames
    <3>2. CASE ~(prev.start <= f /\ f < End(next))
      BY <2>7, <3>2, ContentSeen
    <3>3. CASE prev.start <= f /\ f < End(newPrev)
      <4>1. Covers(newPrev, f)
        BY <2>3, <3>3 DEF Covers
      <4>2. CASE f < End(prev)
        <5>1. Seen(segments')[f] = Shown(prev, f)
          BY <2>1, <2>3, <2>8, <3>1, <4>1, Shows
        <5>2. Seen(segments)[f] = Shown(prev, f)
          BY <3>3, <4>2, Shows DEF Covers
        <5> QED BY <5>1, <5>2, ContentSeen
      <4>3. CASE ~(f < End(prev))
        <5>1. Covers(newPrev, f - 1) /\ f - 1 \in Frames
          BY <2>2, <2>3, <3>1, <3>3, <4>3 DEF Covers, Frames
        <5> QED BY <2>8, <4>1, <5>1
      <4> QED BY <4>2, <4>3
    <3>4. CASE Covers(newCurr, f)
      <4>1. Covers(curr, f - delta) /\ f - delta \in Frames
        BY <2>2, <2>4, <3>1, <3>4 DEF Covers, Frames
      <4>2. Seen(segments')[f] = Shown(curr, f - delta)
        BY <2>1, <2>4, <2>8, <3>1, <3>4, Shows
      <4>3. Seen(segments)[f - delta] = Shown(curr, f - delta)
        BY <4>1, Shows
      <4>4. Abstract!At(Seen(segments), f - delta) = Seen(segments)[f - delta]
        BY <4>1 DEF Abstract!At, Abstract!Frames, Frames
      <4> QED BY <4>2, <4>3, <4>4, ContentSeen
    <3>5. CASE newNext.start <= f /\ f < End(next)
      <4>1. Covers(newNext, f)
        BY <2>3, <3>5 DEF Covers
      <4>2. CASE next.start <= f
        <5>1. Seen(segments')[f] = Shown(next, f)
          BY <2>1, <2>3, <2>8, <3>1, <4>1, Shows
        <5>2. Seen(segments)[f] = Shown(next, f)
          BY <3>5, <4>2, Shows DEF Covers
        <5> QED BY <5>1, <5>2, ContentSeen
      <4>3. CASE ~(next.start <= f)
        <5>1. Covers(newNext, f + 1) /\ f + 1 \in Frames
          BY <2>2, <2>3, <3>1, <3>5, <4>3 DEF Covers, Frames
        <5> QED BY <2>8, <4>1, <5>1
      <4> QED BY <4>2, <4>3
    <3>6. CASE /\ prev.start <= f /\ f < End(next) /\ ~(f < End(newPrev))
               /\ ~Covers(newCurr, f) /\ ~(newNext.start <= f)
      <4>1. ~Covers(newPrev, f) /\ ~Covers(newNext, f)
        BY <3>6 DEF Covers
      <4>2. \A t \in segments' \ {newPrev, newCurr, newNext} : ~Covers(t, f)
        BY <2>1, <2>2, <2>3, <2>9, <3>1, <3>6 DEF Covers, Sound, Segment, End
      <4>3. Content'[f] = << >>
        BY <3>6, <4>1, <4>2, ShowsFiller, ContentSeen
      <4> QED BY <4>3
    <3> QED BY <3>2, <3>3, <3>4, <3>5, <3>6
  <2>12. delta \in -Horizon .. Horizon
    BY <2>2, <2>3, <2>5
  <2>13. Sound(segments')
    BY <2>1
  <2>14. Abstract!Next
    <3>1. CutsMoved(delta)
      BY <2>11 DEF CutsMoved
    <3> QED BY <2>10, <2>12, <2>13, <3>1, MoveCutsStep
  <2> QED BY <2>14
<1> QED BY <1>1, <1>2, SlideResult DEF Returns
-----------------------------------------------------------------------------
(* The refinement *)

\* The invariant: a sound track within the horizon
TrackInHorizon == SoundTrack /\ InHorizon(segments)

\* Every call is a step of the timeline, or changes nothing that is seen.
LEMMA NextShown ==
    ASSUME "shortenHead" \notin Operations, "spliceInside" \notin Operations, TrackInHorizon, Next
    PROVE  Abstract!Next \/ Content' = Content
<1>1. Sound(segments) /\ InHorizon(segments)
  BY DEF TrackInHorizon, SoundTrack, TypeOK, Sound
<1>2. Deltas \subseteq Int \ {0} /\ RecordMarks \subseteq Nat
  BY InputsAssumption
<1>3. \A clip \in Clips, edit \in ThreePointEdits : NewSegment(clip, edit) \in Segment
  BY EditTyped
<1>4. CASE Add
  <2>1. PICK clip \in Clips, edit \in ThreePointEdits :
          Call(AddSegment(segments, NewSegment(clip, edit)))
    BY <1>4 DEF Add
  <2> QED BY <1>1, <1>3, <2>1, AddShown
<1>5. CASE RemoveSegment
  <2>1. PICK s \in segments : Call(Returns(TRUE, segments \ {s}))
    BY <1>5 DEF RemoveSegment
  <2>2. segments' = segments \ {s}
    BY <2>1, CallLeaves DEF Returns
  <2> QED BY <1>1, <2>2, RemoveShown
<1>6. CASE Overwrite
  <2>1. PICK clip \in Clips, edit \in ThreePointEdits :
          Call(EditOverwrite(segments, NewSegment(clip, edit)))
    BY <1>6 DEF Overwrite
  <2> QED BY <1>1, <1>3, <2>1, OverwriteShown
<1>7. CASE SpliceIn
  <2>1. PICK clip \in Clips, edit \in ThreePointEdits :
          /\ (IF Inside(edit.recordIn) THEN "spliceInside" ELSE "splice") \in Operations
          /\ Call(EditSpliceIn(segments, NewSegment(clip, edit)))
    BY <1>7 DEF SpliceIn
  <2>2. ~Inside(edit.recordIn) /\ NewSegment(clip, edit).start = edit.recordIn
    BY <2>1 DEF NewSegment, Piece
  <2> QED BY <1>1, <1>3, <2>1, <2>2, SpliceInShown DEF Inside
<1>8. CASE Lift
  <2>1. PICK from \in RecordMarks, to \in RecordMarks :
          Call(IF to <= from THEN Refused(segments) ELSE EditLift(segments, from, to))
    BY <1>8 DEF Lift
  <2>2. CASE to <= from
    BY <2>1, <2>2, RefusedShown DEF Refused, Returns
  <2>3. CASE ~(to <= from)
    BY <1>1, <1>2, <2>1, <2>3, LiftShown
  <2> QED BY <2>2, <2>3
<1>9. CASE Extract
  <2>1. PICK from \in RecordMarks, to \in RecordMarks :
          Call(IF to <= from THEN Refused(segments) ELSE EditExtract(segments, from, to))
    BY <1>9 DEF Extract
  <2>2. CASE to <= from
    BY <2>1, <2>2, RefusedShown DEF Refused, Returns
  <2>3. CASE ~(to <= from)
    BY <1>1, <1>2, <2>1, <2>3, ExtractShown
  <2> QED BY <2>2, <2>3
<1>10. CASE RippleLeft
  <2>1. PICK s \in segments, delta \in Deltas :
          /\ (IF delta < 0 THEN "extendHead" ELSE "shortenHead") \in Operations
          /\ Call(TrimRippleLeft(segments, s, delta))
    BY <1>10 DEF RippleLeft
  <2>2. delta < 0
    BY <2>1
  <2> QED BY <1>1, <1>2, <2>1, <2>2, RippleLeftShown
<1>11. CASE RippleRight
  <2>1. PICK s \in segments, delta \in Deltas : Call(TrimRippleRight(segments, s, delta))
    BY <1>11 DEF RippleRight
  <2> QED BY <1>1, <1>2, <2>1, RippleRightShown
<1>12. CASE Roll
  <2>1. PICK left \in segments, right \in segments, delta \in Deltas :
          Adjacent(segments, left, right) /\ Call(TrimRoll(segments, left, right, delta))
    BY <1>12 DEF Roll
  <2> QED BY <1>1, <1>2, <2>1, RollShown
<1>13. CASE Slip
  <2>1. PICK s \in segments, delta \in Deltas : Call(TrimSlip(segments, s, delta))
    BY <1>13 DEF Slip
  <2> QED BY <1>1, <1>2, <2>1, SlipShown
<1>14. CASE Slide
  <2>1. PICK prev \in segments, curr \in segments, next \in segments, delta \in Deltas :
          /\ Adjacent(segments, prev, curr) /\ Adjacent(segments, curr, next)
          /\ Call(TrimSlide(segments, prev, curr, next, delta))
    BY <1>14 DEF Slide
  <2> QED BY <1>1, <1>2, <2>1, SlideShown
<1> QED
  BY <1>4, <1>5, <1>6, <1>7, <1>8, <1>9, <1>10, <1>11, <1>12, <1>13, <1>14 DEF Next

LEMMA NextInHorizon ==
    ASSUME TrackInHorizon, Next
    PROVE  InHorizon(segments)'
<1>1. \A s \in segments' : End(s) <= Horizon
  BY DEF Next, Add, RemoveSegment, Overwrite, SpliceIn, Lift, Extract, RippleLeft, RippleRight,
         Roll, Slip, Slide, Call
<1> QED BY <1>1 DEF InHorizon, End

LEMMA InitInHorizon == Init => TrackInHorizon
BY InputsAssumption DEF Init, TrackInHorizon, SoundTrack, TypeOK, Disjoint, InHorizon

LEMMA NextKeepsHorizon ==
    ASSUME "shortenHead" \notin Operations, TrackInHorizon, [Next]_vars
    PROVE  TrackInHorizon'
<1>1. SoundTrack'
  BY NextKeepsSound DEF TrackInHorizon
<1>2. CASE Next
  BY <1>1, <1>2, NextInHorizon DEF TrackInHorizon
<1>3. CASE UNCHANGED vars
  BY <1>1, <1>3 DEF vars, TrackInHorizon, InHorizon, End
<1> QED BY <1>2, <1>3

\* The track implements a timeline, for any clips, marks, deltas and horizon: each
\* edit and trim is one of the timeline's steps or changes nothing that is seen,
\* unless a head is shortened or a segment is spliced into another one.
THEOREM TrackIsTimeline ==
    ASSUME "shortenHead" \notin Operations, "spliceInside" \notin Operations
    PROVE  Spec => ImplementsTimeline
<1>1. Init => TrackInHorizon
  BY InitInHorizon
<1>2. TrackInHorizon /\ [Next]_vars => TrackInHorizon'
  BY NextKeepsHorizon
<1>3. Init => Abstract!Init
  BY DEF Init, Content, Abstract!Init, Abstract!Frames, Abstract!Filler
<1>4. TrackInHorizon /\ [Next]_vars => [Abstract!Next]_Content
  <2> SUFFICES ASSUME TrackInHorizon, [Next]_vars
               PROVE  Abstract!Next \/ Content' = Content
    OBVIOUS
  <2>1. CASE Next
    BY <2>1, NextShown
  <2>2. CASE UNCHANGED vars
    BY <2>2, SameContent DEF vars
  <2> QED BY <2>1, <2>2
<1> QED BY <1>1, <1>2, <1>3, <1>4, PTL DEF Spec, ImplementsTimeline, Abstract!Spec

-----------------------------------------------------------------------------
(* The binary searches.  An induction over lengths is an argument about the  *)
(* least length that fails.                                                  *)

\* A set of natural numbers that is not empty has a least element.
LEMMA LeastNatural ==
    ASSUME NEW T, T \subseteq Nat, T # {}
    PROVE  \E n \in T : \A m \in T : n <= m
<1> DEFINE R == OpToRel(<, Nat)
<1>1. R = {p \in Nat \X Nat : p[1] < p[2]}
  BY DEF OpToRel
<1>2. IsWellFoundedOn(R, Nat)
  BY NatLessThanWellFounded
<1> HIDE DEF R
<1>3. PICK n \in T : \A m \in T : << m, n >> \notin R
  BY <1>2, WFMin
<1>4. ASSUME NEW m \in T
      PROVE  n <= m
  <2> DEFINE p == << m, n >>
  <2>1. p \in Nat \X Nat /\ p[1] = m /\ p[2] = n /\ p \notin R
    BY <1>3
  <2> HIDE DEF p
  <2>2. ~(m < n)
    BY <1>1, <2>1
  <2> QED
    BY <2>2
<1> QED
  BY <1>4

\* The loop of lowerBoundByEnd(), as one step of its function
SearchStep(vector, frame, search, lo, hi) ==
    LET mid == lo + (hi - lo) \div 2 IN
    IF lo >= hi THEN lo
    ELSE IF End(vector[mid + 1]) <= frame THEN search[<< mid + 1, hi >>]
    ELSE search[<< lo, mid >>]

Ranges(n) == (0 .. n) \X (0 .. n)

\* A function that is right about the ranges of up to n segments.
SearchesUpTo(vector, frame, n) ==
    \E search \in [Ranges(Len(vector)) -> Int] :
        \A lo, hi \in 0 .. Len(vector) :
            hi - lo <= n => search[<< lo, hi >>] = SearchStep(vector, frame, search, lo, hi)

\* Each step halves the range.
LEMMA Halves ==
    ASSUME NEW lo \in Nat, NEW hi \in Nat, lo < hi
    PROVE  LET mid == lo + (hi - lo) \div 2 IN
           /\ mid \in Nat /\ lo <= mid /\ mid < hi
OBVIOUS

LEMMA SearchesOneMore ==
    ASSUME NEW vector, NEW frame, Len(vector) \in Nat, NEW n \in Nat,
           SearchesUpTo(vector, frame, n)
    PROVE  SearchesUpTo(vector, frame, n + 1)
<1> DEFINE N == Len(vector)
<1>1. PICK f \in [Ranges(N) -> Int] :
         \A lo, hi \in 0 .. N :
            hi - lo <= n => f[<< lo, hi >>] = SearchStep(vector, frame, f, lo, hi)
  BY DEF SearchesUpTo
<1> DEFINE g == [r \in Ranges(N) |-> SearchStep(vector, frame, f, r[1], r[2])]
<1>2. \A lo, hi \in 0 .. N : g[<< lo, hi >>] = SearchStep(vector, frame, f, lo, hi)
  BY DEF Ranges
<1>3. g \in [Ranges(N) -> Int]
  <2>1. \A lo, hi \in 0 .. N : SearchStep(vector, frame, f, lo, hi) \in Int
    BY Halves DEF SearchStep, Ranges
  <2> QED
    BY <2>1 DEF Ranges
<1> HIDE DEF g
<1>4. ASSUME NEW lo \in 0 .. N, NEW hi \in 0 .. N, hi - lo <= n + 1
      PROVE  g[<< lo, hi >>] = SearchStep(vector, frame, g, lo, hi)
  <2>1. CASE lo >= hi
    BY <1>2, <2>1 DEF SearchStep
  <2>2. CASE lo < hi
    <3> DEFINE mid == lo + (hi - lo) \div 2
    <3>1. mid \in Nat /\ lo <= mid /\ mid < hi
      BY <2>2, Halves
    <3>2. g[<< mid + 1, hi >>] = f[<< mid + 1, hi >>] /\ g[<< lo, mid >>] = f[<< lo, mid >>]
      <4> HIDE DEF mid
      <4>1. mid + 1 \in 0 .. N /\ mid \in 0 .. N /\ hi - (mid + 1) <= n /\ mid - lo <= n
        BY <1>4, <3>1
      <4> QED
        BY <1>1, <1>2, <4>1
    <3> QED
      BY <1>2, <3>2 DEF SearchStep
  <2> QED
    BY <2>1, <2>2
<1> QED
  BY <1>3, <1>4 DEF SearchesUpTo

\* So there is one that is right about all.
LEMMA Searches ==
    ASSUME NEW vector, NEW frame, Len(vector) \in Nat, NEW n \in Nat
    PROVE  SearchesUpTo(vector, frame, n)
<1> DEFINE Wrong == {k \in Nat : ~SearchesUpTo(vector, frame, k)}
<1>1. 0 \notin Wrong
  <2> DEFINE N == Len(vector)
             f == [r \in Ranges(N) |-> r[1]]
  <2>1. f \in [Ranges(N) -> Int] /\ \A lo, hi \in 0 .. N : f[<< lo, hi >>] = lo
    BY DEF Ranges
  <2> HIDE DEF f
  <2> QED
    BY <2>1 DEF SearchesUpTo, SearchStep
<1>2. \A k \in Nat : k + 1 \in Wrong => k \in Wrong
  BY SearchesOneMore
<1>3. Wrong = {}
  <2> SUFFICES ASSUME Wrong # {} PROVE FALSE
    OBVIOUS
  <2>1. PICK k \in Wrong : \A m \in Wrong : k <= m
    BY LeastNatural
  <2>2. k # 0 /\ k \in Nat
    BY <1>1, <2>1
  <2>3. k - 1 \in Nat /\ (k - 1) + 1 = k
    BY <2>2
  <2> HIDE DEF Wrong
  <2>4. k - 1 \in Wrong
    BY <1>2, <2>1, <2>3
  <2> QED
    BY <2>1, <2>2, <2>4
<1> QED
  BY <1>3

\* lowerBoundByEnd() is a value of a function that is right about every range.
IsSearch(vector, frame, search) ==
    \A lo, hi \in 0 .. Len(vector) :
        search[<< lo, hi >>] = SearchStep(vector, frame, search, lo, hi)

LEMMA SearchDefined ==
    ASSUME NEW vector, NEW frame, Len(vector) \in Nat
    PROVE  \E search : /\ IsSearch(vector, frame, search)
                       /\ LowerBoundByEnd(vector, frame) = search[<< 0, Len(vector) >>]
<1> DEFINE N == Len(vector)
           D == (0 .. N) \X (0 .. N)
           Body(search) == [range \in D |->
               LET lo == range[1]  hi == range[2]  mid == lo + (hi - lo) \div 2 IN
               IF lo >= hi THEN lo
               ELSE IF End(vector[mid + 1]) <= frame THEN search[<< mid + 1, hi >>]
               ELSE search[<< lo, mid >>]]
           f == CHOOSE search : search = Body(search)
<1>1. PICK g \in [Ranges(N) -> Int] : IsSearch(vector, frame, g)
  <2>1. SearchesUpTo(vector, frame, N)
    BY Searches
  <2>2. \A lo, hi \in 0 .. N : hi - lo <= N
    OBVIOUS
  <2> QED
    BY <2>1, <2>2 DEF SearchesUpTo, IsSearch
<1>2. g = Body(g)
  <2>1. \A r \in D : g[r] = SearchStep(vector, frame, g, r[1], r[2])
    BY <1>1 DEF IsSearch
  <2>2. \A r \in D : Body(g)[r] = SearchStep(vector, frame, g, r[1], r[2])
    BY DEF SearchStep
  <2>3. g \in [D -> Int] /\ Body(g) = [r \in D |-> Body(g)[r]]
    BY <1>1 DEF Ranges
  <2> HIDE DEF Body
  <2> QED
    BY <2>1, <2>2, <2>3
<1>3. f = Body(f)
  BY <1>2
<1>4. \A r \in D : f[r] = SearchStep(vector, frame, f, r[1], r[2])
  <2>1. \A r \in D : Body(f)[r] = SearchStep(vector, frame, f, r[1], r[2])
    BY DEF SearchStep
  <2> HIDE DEF f, Body
  <2> QED
    BY <1>3, <2>1
<1>5. IsSearch(vector, frame, f)
  <2> HIDE DEF f
  <2>1. ASSUME NEW lo \in 0 .. N, NEW hi \in 0 .. N
        PROVE  f[<< lo, hi >>] = SearchStep(vector, frame, f, lo, hi)
    BY <1>4
  <2> QED
    BY <2>1 DEF IsSearch
<1>6. LowerBoundByEnd(vector, frame) = f[<< 0, N >>]
  BY DEF LowerBoundByEnd
<1> HIDE DEF f
<1> QED
  BY <1>5, <1>6

\* What the search returns splits the range: what is just before it ends by the
\* frame, and what is at it does not.
Splits(vector, frame, lo, hi, k) ==
    /\ k \in lo .. hi
    /\ k > lo => End(vector[k]) <= frame
    /\ k < hi => ~(End(vector[k + 1]) <= frame)

LEMMA SearchSplits ==
    ASSUME NEW vector, NEW frame, Len(vector) \in Nat, NEW search,
           IsSearch(vector, frame, search),
           NEW lo \in 0 .. Len(vector), NEW hi \in 0 .. Len(vector), lo <= hi
    PROVE  Splits(vector, frame, lo, hi, search[<< lo, hi >>])
<1> DEFINE N == Len(vector)
           Wrong == {n \in Nat : \E l, h \in 0 .. N :
                       /\ n = h - l /\ ~Splits(vector, frame, l, h, search[<< l, h >>])}
<1>1. Wrong = {}
  <2> SUFFICES ASSUME Wrong # {} PROVE FALSE
    OBVIOUS
  <2>1. PICK n \in Wrong : \A m \in Wrong : n <= m
    BY LeastNatural
  <2>2. PICK l \in 0 .. N, h \in 0 .. N :
            /\ n = h - l /\ n \in Nat /\ ~Splits(vector, frame, l, h, search[<< l, h >>])
    BY <2>1
  <2>3. \A a, b \in 0 .. N :
            a <= b /\ b - a < n => Splits(vector, frame, a, b, search[<< a, b >>])
    <3> SUFFICES ASSUME NEW a \in 0 .. N, NEW b \in 0 .. N, a <= b, b - a < n,
                        ~Splits(vector, frame, a, b, search[<< a, b >>])
                 PROVE  FALSE
      OBVIOUS
    <3>1. b - a \in Nat
      OBVIOUS
    <3>2. b - a \in Wrong
      BY <3>1, Zenon
    <3>3. n <= b - a
      BY <2>1, <3>2
    <3> HIDE DEF Wrong
    <3> QED
      BY <2>2, <3>1, <3>3
  <2>4. search[<< l, h >>] = SearchStep(vector, frame, search, l, h)
    BY DEF IsSearch
  <2>5. CASE l >= h
    BY <2>2, <2>4, <2>5 DEF SearchStep, Splits
  <2>6. CASE l < h
    <3> DEFINE mid == l + (h - l) \div 2
    <3>1. mid \in Nat /\ l <= mid /\ mid < h
      BY <2>6, Halves
    <3>2. search[<< l, h >>] = IF End(vector[mid + 1]) <= frame THEN search[<< mid + 1, h >>]
                               ELSE search[<< l, mid >>]
      BY <2>4, <2>6 DEF SearchStep
    <3> HIDE DEF mid
    <3>3. mid + 1 \in 0 .. N /\ mid \in 0 .. N
      BY <3>1
    <3>4. CASE End(vector[mid + 1]) <= frame
      <4>1. Splits(vector, frame, mid + 1, h, search[<< mid + 1, h >>])
        BY <2>2, <2>3, <3>1, <3>3
      <4> QED
        BY <2>2, <3>1, <3>2, <3>4, <4>1 DEF Splits
    <3>5. CASE ~(End(vector[mid + 1]) <= frame)
      <4>1. Splits(vector, frame, l, mid, search[<< l, mid >>])
        BY <2>2, <2>3, <3>1, <3>3
      <4> QED
        BY <2>2, <3>1, <3>2, <3>5, <4>1 DEF Splits
    <3> QED
      BY <3>4, <3>5
  <2> QED
    BY <2>2, <2>5, <2>6
<1>2. hi - lo \in Nat
  OBVIOUS
<1>3. hi - lo \notin Wrong
  BY <1>1
<1>4. \A n \in Nat : n \notin Wrong =>
            \A l, h \in 0 .. N : n = h - l => Splits(vector, frame, l, h, search[<< l, h >>])
  BY Zenon
<1> HIDE DEF Wrong
<1> QED
  BY <1>2, <1>3, <1>4, Zenon

LEMMA LowerBoundSplits ==
    ASSUME NEW vector, NEW frame, Len(vector) \in Nat
    PROVE  Splits(vector, frame, 0, Len(vector), LowerBoundByEnd(vector, frame))
<1>1. PICK search : /\ IsSearch(vector, frame, search)
                    /\ LowerBoundByEnd(vector, frame) = search[<< 0, Len(vector) >>]
  BY SearchDefined
<1>2. 0 \in 0 .. Len(vector) /\ Len(vector) \in 0 .. Len(vector) /\ 0 <= Len(vector)
  OBVIOUS
<1>3. Splits(vector, frame, 0, Len(vector), search[<< 0, Len(vector) >>])
  BY <1>1, <1>2, SearchSplits, Zenon
<1> QED
  BY <1>1, <1>3

-----------------------------------------------------------------------------
(* The sorted vector *)

\* A finite set of segments that begin at different frames has a sorted vector.
Sortable(track) ==
    /\ IsFiniteSet(track)
    /\ track \in SUBSET Segment
    /\ \A s, t \in track : s.start = t.start => s = t

\* The ranks are different, and below the number of segments.
LEMMA RanksOrdered ==
    ASSUME NEW track, Sortable(track)
    PROVE  /\ Cardinality(track) \in Nat
           /\ \A s \in track : Rank(track, s) \in 0 .. Cardinality(track) - 1
           /\ \A s, t \in track : s.start < t.start => Rank(track, s) < Rank(track, t)
<1> DEFINE Earlier(s) == {t \in track : t.start < s.start}
<1>1. \A s \in track : s.start \in Nat
  BY DEF Sortable, Segment
<1>2. Cardinality(track) \in Nat
  BY FS_CardinalityType DEF Sortable
<1>3. \A s \in track : IsFiniteSet(Earlier(s)) /\ Cardinality(Earlier(s)) \in Nat
  <2> SUFFICES ASSUME NEW s \in track
               PROVE  IsFiniteSet(Earlier(s)) /\ Cardinality(Earlier(s)) \in Nat
    OBVIOUS
  <2>1. Earlier(s) \in SUBSET track
    OBVIOUS
  <2> HIDE DEF Earlier
  <2>2. IsFiniteSet(Earlier(s))
    BY <2>1, FS_Subset DEF Sortable
  <2> QED
    BY <2>2, FS_CardinalityType
<1>4. ASSUME NEW S, NEW T \in SUBSET S, IsFiniteSet(S), T # S,
             Cardinality(S) \in Nat, Cardinality(T) \in Nat
      PROVE  Cardinality(T) < Cardinality(S)
  <2>1. Cardinality(T) <= Cardinality(S) /\ (Cardinality(S) = Cardinality(T) => S = T)
    BY <1>4, FS_Subset
  <2> QED
    BY <1>4, <2>1
<1>5. \A s \in track : Rank(track, s) = Cardinality(Earlier(s))
  BY DEF Rank
<1>6. ASSUME NEW s \in track
      PROVE  Rank(track, s) \in 0 .. Cardinality(track) - 1
  <2>1. Earlier(s) \in SUBSET track /\ s \notin Earlier(s) /\ IsFiniteSet(track)
    BY <1>1 DEF Sortable
  <2> HIDE DEF Earlier
  <2>2. Cardinality(Earlier(s)) < Cardinality(track)
    BY <1>2, <1>3, <1>4, <2>1
  <2> QED
    BY <1>2, <1>3, <1>5, <2>2
<1>7. ASSUME NEW s \in track, NEW t \in track, s.start < t.start
      PROVE  Rank(track, s) < Rank(track, t)
  <2>1. Earlier(s) \in SUBSET Earlier(t) /\ s \notin Earlier(s) /\ s \in Earlier(t)
    BY <1>1, <1>7
  <2> HIDE DEF Earlier
  <2>2. Cardinality(Earlier(s)) < Cardinality(Earlier(t))
    BY <1>3, <1>4, <2>1
  <2> QED
    BY <1>5, <2>2
<1> QED
  BY <1>2, <1>6, <1>7

\* Each place of the vector holds the segment of its rank, and each segment has one.
LEMMA VectorSorted ==
    ASSUME NEW track, Sortable(track)
    PROVE  LET vector == Vector(track) IN
           /\ Len(vector) = Cardinality(track) /\ Len(vector) \in Nat
           /\ \A i \in 1 .. Len(vector) : vector[i] \in track
           /\ \A s \in track : \E i \in 1 .. Len(vector) : vector[i] = s
           /\ \A i, j \in 1 .. Len(vector) : i < j <=> vector[i].start < vector[j].start
<1> DEFINE n == Cardinality(track)
           rank == [s \in track |-> Rank(track, s)]
           vector == Vector(track)
<1>1. /\ n \in Nat
      /\ \A s \in track : rank[s] \in 0 .. n - 1
      /\ \A s, t \in track : s.start < t.start => rank[s] < rank[t]
  BY RanksOrdered
<1>2. \A s \in track : s.start \in Nat
  BY DEF Sortable, Segment
<1>3. \A s, t \in track : rank[s] = rank[t] => s = t
  <2> SUFFICES ASSUME NEW s \in track, NEW t \in track, rank[s] = rank[t], s # t
               PROVE  FALSE
    OBVIOUS
  <2>1. s.start < t.start \/ t.start < s.start
    BY <1>2 DEF Sortable
  <2> HIDE DEF rank
  <2> QED
    BY <1>1, <2>1
<1>4. rank \in [track -> 0 .. n - 1]
  BY <1>1
<1>5. \A s \in track : rank[s] = Rank(track, s)
  OBVIOUS
<1> HIDE DEF rank
<1>6. rank \in Injection(track, 0 .. n - 1)
  BY <1>3, <1>4 DEF Injection, IsInjective
<1>7. IsFiniteSet(0 .. n - 1) /\ Cardinality(0 .. n - 1) = n
  <2>1. 0 \in Int /\ n - 1 \in Int
    BY <1>1
  <2>2. /\ IsFiniteSet(0 .. n - 1)
        /\ Cardinality(0 .. n - 1) = IF 0 > n - 1 THEN 0 ELSE (n - 1) - 0 + 1
    BY <2>1, FS_Interval
  <2> QED
    BY <1>1, <2>2
<1>8. \A r \in 0 .. n - 1 : \E s \in track : rank[s] = r
  <2>1. rank \in Surjection(track, 0 .. n - 1)
    BY <1>6, <1>7, FS_Injection
  <2> QED
    BY <2>1 DEF Surjection
<1>9. Len(vector) = n /\ \A i \in 1 .. n : vector[i] = CHOOSE s \in track : Rank(track, s) = i - 1
  BY <1>1 DEF Vector
<1> HIDE DEF vector
<1>10. \A i \in 1 .. n : vector[i] \in track /\ rank[vector[i]] = i - 1
  <2> SUFFICES ASSUME NEW i \in 1 .. n
               PROVE  vector[i] \in track /\ rank[vector[i]] = i - 1
    OBVIOUS
  <2>1. i - 1 \in 0 .. n - 1
    BY <1>1
  <2>2. \E s \in track : Rank(track, s) = i - 1
    BY <1>5, <1>8, <2>1
  <2>3. vector[i] \in track /\ Rank(track, vector[i]) = i - 1
    BY <1>9, <2>2
  <2> QED
    BY <1>5, <2>3
<1>11. ASSUME NEW s \in track
       PROVE  \E i \in 1 .. n : vector[i] = s
  <2> DEFINE i == rank[s] + 1
  <2>1. i \in 1 .. n /\ i - 1 = rank[s]
    BY <1>1
  <2> HIDE DEF i
  <2>2. rank[vector[i]] = rank[s] /\ vector[i] \in track
    BY <1>10, <2>1
  <2> QED
    BY <1>3, <2>1, <2>2
<1>12. ASSUME NEW i \in 1 .. n, NEW j \in 1 .. n
       PROVE  i < j <=> vector[i].start < vector[j].start
  <2>1. vector[i] \in track /\ vector[j] \in track
    BY <1>10
  <2>2. rank[vector[i]] = i - 1 /\ rank[vector[j]] = j - 1
    BY <1>10
  <2>3. vector[i].start < vector[j].start => i < j
    BY <1>1, <2>1, <2>2
  <2>4. vector[j].start < vector[i].start => j < i
    BY <1>1, <2>1, <2>2
  <2>5. vector[i].start = vector[j].start => i = j
    BY <1>1, <2>1, <2>2 DEF Sortable
  <2>6. vector[i].start \in Nat /\ vector[j].start \in Nat
    BY <1>2, <2>1
  <2> QED
    BY <2>3, <2>4, <2>5, <2>6
<1> QED
  BY <1>1, <1>9, <1>10, <1>11, <1>12 DEF vector

-----------------------------------------------------------------------------
(* What the searches find *)

\* The search for an overlap needs the ends in order only around the frame where s
\* begins: a segment that ends after it never lies before one that does not.
LEMMA SearchFinds ==
    ASSUME NEW track, Sortable(track), NEW s, s.start \in Int, End(s) \in Int, NEW excluded,
           \A t, u \in track : t.start < u.start /\ End(u) <= s.start => End(t) <= s.start
    PROVE  SearchOverlap(Vector(track), s, excluded) = WouldOverlap(track \ excluded, s)
<1> DEFINE vector == Vector(track)
           k == LowerBoundByEnd(vector, s.start)
<1>1. /\ Len(vector) \in Nat
      /\ \A i \in 1 .. Len(vector) : vector[i] \in track
      /\ \A t \in track : \E i \in 1 .. Len(vector) : vector[i] = t
      /\ \A i, j \in 1 .. Len(vector) : i < j <=> vector[i].start < vector[j].start
  BY VectorSorted
<1>2. \A t \in track : t.start \in Int /\ End(t) \in Int
  BY DEF Sortable, Segment, End
<1> HIDE DEF vector
<1>3. Splits(vector, s.start, 0, Len(vector), k)
  BY <1>1, LowerBoundSplits
<1>4. SearchOverlap(vector, s, excluded) =
        \E i \in k + 1 .. Len(vector) :
            /\ vector[i] \notin excluded /\ Overlap(s, vector[i])
            /\ \A j \in k + 1 .. i - 1 : vector[j] \in excluded \/ vector[j].start < End(s)
  BY DEF SearchOverlap
<1> HIDE DEF k
<1>5. k \in 0 .. Len(vector)
  BY <1>3 DEF Splits
<1>6. ASSUME SearchOverlap(vector, s, excluded)
      PROVE  WouldOverlap(track \ excluded, s)
  <2>1. PICK i \in k + 1 .. Len(vector) : vector[i] \notin excluded /\ Overlap(s, vector[i])
    BY <1>4, <1>6
  <2>2. vector[i] \in track
    BY <1>1, <1>5
  <2> QED
    BY <2>1, <2>2 DEF WouldOverlap
<1>7. ASSUME WouldOverlap(track \ excluded, s)
      PROVE  SearchOverlap(vector, s, excluded)
  <2>1. PICK t \in track : t \notin excluded /\ Overlap(s, t)
    BY <1>7 DEF WouldOverlap
  <2>2. PICK i \in 1 .. Len(vector) : vector[i] = t
    BY <1>1
  <2>3. s.start < End(t) /\ t.start < End(s)
    BY <2>1 DEF Overlap
  <2>4. k < i
    <3> SUFFICES ASSUME i <= k PROVE FALSE
      BY <1>5
    <3>1. k \in 1 .. Len(vector) /\ End(vector[k]) <= s.start /\ vector[k] \in track
      BY <1>1, <1>3, <1>5 DEF Splits
    <3>2. CASE i = k
      BY <1>2, <2>2, <2>3, <3>1, <3>2
    <3>3. CASE i < k
      <4>1. t.start < vector[k].start
        BY <1>1, <2>2, <3>1, <3>3
      <4>2. End(t) <= s.start
        BY <3>1, <4>1
      <4> QED
        BY <1>2, <2>3, <4>2
    <3> QED
      BY <1>5, <3>2, <3>3
  <2>5. ASSUME NEW j \in k + 1 .. i - 1
        PROVE  vector[j].start < End(s)
    <3>1. j \in 1 .. Len(vector) /\ j < i
      BY <1>1, <1>5
    <3>2. vector[j].start < t.start /\ vector[j] \in track
      BY <1>1, <2>2, <3>1
    <3> QED
      BY <1>2, <2>3, <3>2
  <2>6. i \in k + 1 .. Len(vector)
    BY <1>1, <1>5, <2>4
  <2> QED
    BY <1>4, <2>1, <2>2, <2>5, <2>6
<1>8. /\ SearchOverlap(vector, s, excluded) \in BOOLEAN
      /\ WouldOverlap(track \ excluded, s) \in BOOLEAN
  BY DEF SearchOverlap, WouldOverlap
<1>9. SearchOverlap(vector, s, excluded) = WouldOverlap(track \ excluded, s)
  BY <1>6, <1>7, <1>8
<1> QED
  BY <1>9 DEF vector

\* The frame is looked up among segments that do not overlap.
LEMMA IndexFinds ==
    ASSUME NEW track, Sortable(track), Disjoint(track), NEW frame \in Nat
    PROVE  LET i == SegmentIndexAt(Vector(track), frame)
               holding == {s \in track : s.start <= frame /\ frame < End(s)}
           IN holding = IF i = -1 THEN {} ELSE {Vector(track)[i + 1]}
<1> DEFINE vector == Vector(track)
           begun == {i \in 1 .. Len(vector) : vector[i].start <= frame}
           last == Cardinality(begun)
           holding == {s \in track : s.start <= frame /\ frame < End(s)}
           i == SegmentIndexAt(vector, frame)
<1>1. /\ Len(vector) \in Nat
      /\ \A j \in 1 .. Len(vector) : vector[j] \in track
      /\ \A t \in track : \E j \in 1 .. Len(vector) : vector[j] = t
      /\ \A h, j \in 1 .. Len(vector) : h < j <=> vector[h].start < vector[j].start
  BY VectorSorted
<1>2. \A t \in track : t.start \in Nat /\ End(t) \in Nat /\ t.start < End(t)
  BY DEF Sortable, Segment, End
<1> HIDE DEF vector
<1>3. begun = 1 .. last /\ last \in 0 .. Len(vector)
  <2>1. IsFiniteSet(begun) /\ last \in Nat
    <3>1. IsFiniteSet(1 .. Len(vector))
      BY <1>1, FS_Interval
    <3>2. begun \in SUBSET (1 .. Len(vector))
      OBVIOUS
    <3> HIDE DEF begun
    <3>3. IsFiniteSet(begun)
      BY <3>1, <3>2, FS_Subset
    <3> QED
      BY <3>3, FS_CardinalityType
  <2>2. \E n \in 0 .. Len(vector) : begun = 1 .. n
    <3> DEFINE Late == {j \in Nat : j + 1 \in 1 .. Len(vector) => j + 1 \notin begun}
    <3>1. Len(vector) \in Late
      BY <1>1
    <3>2. PICK n \in Late : \A m \in Late : n <= m
      <4>1. Late \subseteq Nat /\ Late # {}
        BY <3>1
      <4> HIDE DEF Late
      <4> QED
        BY <4>1, LeastNatural
    <3>3. n \in 0 .. Len(vector)
      BY <1>1, <3>1, <3>2
    <3>4. ASSUME NEW j \in 1 .. n
          PROVE  j \in begun
      <4>1. j - 1 \in Nat /\ j - 1 < n /\ (j - 1) + 1 = j
        BY <3>3
      <4>2. j - 1 \notin Late
        <5> HIDE DEF Late
        <5> QED
          BY <3>2, <3>3, <4>1
      <4> HIDE DEF begun
      <4> QED
        BY <4>1, <4>2
    <3>5. ASSUME NEW j \in begun
          PROVE  j \in 1 .. n
      <4>1. j \in 1 .. Len(vector) /\ vector[j].start <= frame
        OBVIOUS
      <4> SUFFICES ASSUME n < j PROVE FALSE
        BY <3>3, <4>1
      <4>2. n + 1 \in 1 .. Len(vector) /\ n + 1 <= j
        BY <1>1, <3>3, <4>1
      <4>3. ~(vector[n + 1].start <= frame)
        BY <3>2, <4>2
      <4>4. n + 1 # j
        BY <4>1, <4>3
      <4>5. vector[n + 1].start < vector[j].start
        BY <1>1, <3>3, <4>1, <4>2, <4>4
      <4>6. vector[n + 1].start \in Nat /\ vector[j].start \in Nat
        BY <1>1, <1>2, <4>1, <4>2
      <4> QED
        BY <4>1, <4>3, <4>5, <4>6
    <3> HIDE DEF begun
    <3>6. begun = 1 .. n
      BY <3>4, <3>5
    <3> QED
      BY <3>3, <3>6
  <2>3. PICK n \in 0 .. Len(vector) : begun = 1 .. n
    BY <2>2
  <2>4. Cardinality(1 .. n) = n
    <3>1. 1 \in Int /\ n \in Int
      BY <1>1
    <3>2. Cardinality(1 .. n) = IF 1 > n THEN 0 ELSE n - 1 + 1
      BY <3>1, FS_Interval
    <3> QED
      BY <1>1, <3>2
  <2> HIDE DEF begun
  <2> QED
    BY <2>3, <2>4
<1>4. i = IF begun # {} /\ frame < End(vector[last]) THEN last - 1 ELSE -1
  BY DEF SegmentIndexAt
<1>5. \A j \in 1 .. Len(vector) : vector[j].start <= frame <=> j <= last
  <2>1. \A j \in 1 .. Len(vector) : vector[j].start <= frame <=> j \in 1 .. last
    BY <1>3
  <2> HIDE DEF last
  <2> QED
    BY <1>3, <2>1
<1> HIDE DEF begun, last, i
<1>6. \A j \in 1 .. Len(vector) : j < last => ~(frame < End(vector[j]))
  <2> SUFFICES ASSUME NEW j \in 1 .. Len(vector), j < last PROVE ~(frame < End(vector[j]))
    OBVIOUS
  <2>1. last \in 1 .. Len(vector)
    BY <1>3
  <2>2. vector[j] \in track /\ vector[last] \in track /\ vector[j].start < vector[last].start
    BY <1>1, <2>1
  <2>3. vector[last].start <= frame
    BY <1>3, <1>5, <2>1
  <2>4. End(vector[j]) <= vector[last].start
    BY <1>2, <2>2 DEF Disjoint
  <2> QED
    BY <1>2, <2>2, <2>3, <2>4
<1>7. ASSUME begun # {}, frame < End(vector[last])
      PROVE  holding = IF i = -1 THEN {} ELSE {vector[i + 1]}
  <2>1. last \in 1 .. Len(vector)
    BY <1>3, <1>7
  <2>2. i # -1 /\ i + 1 = last
    BY <1>4, <1>7, <2>1
  <2>3. vector[last] \in holding
    BY <1>1, <1>3, <1>5, <1>7, <2>1
  <2>4. ASSUME NEW s \in holding
        PROVE  s = vector[last]
    <3>1. PICK j \in 1 .. Len(vector) : vector[j] = s
      BY <1>1
    <3>2. j <= last /\ ~(j < last)
      BY <1>5, <1>6, <3>1
    <3> QED
      BY <2>1, <3>1, <3>2
  <2> HIDE DEF holding
  <2> QED
    BY <2>2, <2>3, <2>4
<1>8. ASSUME ~(begun # {} /\ frame < End(vector[last]))
      PROVE  holding = IF i = -1 THEN {} ELSE {vector[i + 1]}
  <2>1. i = -1
    BY <1>4, <1>8
  <2>2. ASSUME NEW s \in holding
        PROVE  FALSE
    <3>1. PICK j \in 1 .. Len(vector) : vector[j] = s
      BY <1>1
    <3>2. j <= last /\ ~(j < last)
      BY <1>5, <1>6, <3>1
    <3>3. j = last /\ last \in 1 .. last
      BY <1>3, <3>2
    <3> QED
      BY <1>3, <1>8, <3>1, <3>3
  <2>3. holding = {}
    BY <2>2
  <2> HIDE DEF holding
  <2> QED
    BY <2>1, <2>3
<1> HIDE DEF holding
<1>9. holding = IF i = -1 THEN {} ELSE {vector[i + 1]}
  BY <1>7, <1>8
<1> QED
  BY <1>9 DEF i, vector, holding

-----------------------------------------------------------------------------
(* The tracks that are searched *)

\* Segments that do not overlap begin at different frames, and those of a track
\* that ends by some frame are finitely many.
LEMMA SoundSortable ==
    ASSUME NEW track, Sound(track), NEW bound \in Nat, \A s \in track : End(s) <= bound
    PROVE  Sortable(track)
<1>1. \A s, t \in track : s.start = t.start => s = t
  BY DEF Sound, Disjoint, Segment, End
<1>2. \A s \in track : s.start \in 0 .. bound
  BY DEF Sound, Segment, End
<1> DEFINE starts == [s \in track |-> s.start]
<1>3. starts \in Injection(track, 0 .. bound)
  BY <1>1, <1>2 DEF Injection, IsInjective
<1>4. IsFiniteSet(0 .. bound)
  BY FS_Interval
<1>5. IsFiniteSet(track)
  BY <1>3, <1>4, FS_Injection
<1> QED
  BY <1>1, <1>5 DEF Sortable, Sound

\* A sound track can be searched for any segment, whatever is left out.
LEMMA TrackProbed ==
    ASSUME NEW track, Sound(track), Sortable(track), NEW s,
           s.start \in Int, End(s) \in Int, NEW excluded
    PROVE  SearchOverlap(Vector(track), s, excluded) = WouldOverlap(track \ excluded, s)
<1>1. \A t, u \in track : t.start < u.start /\ End(u) <= s.start => End(t) <= s.start
  BY DEF Sound, Disjoint, Segment, End
<1> QED
  BY <1>1, SearchFinds

\* A ripple trim moves what follows a segment to where the segment will end; the
\* segment itself and what is before it stay, in an order in which they still end
\* before or after the frame where the segment begins.
LEMMA ShiftedProbed ==
    ASSUME NEW track, Sound(track), Sortable(track), NEW s \in track,
           NEW d \in Int, s.duration + d > 0, NEW excluded
    PROVE  LET shifted == RippleShift(track, End(s), d)
               new == [s EXCEPT !.duration = @ + d]
           IN SearchOverlap(Vector(shifted), new, excluded) = WouldOverlap(shifted \ excluded, new)
<1> DEFINE shifted == RippleShift(track, End(s), d)
           new == [s EXCEPT !.duration = @ + d]
           Pushed(t) == IF t.start < End(s) THEN t
                        ELSE [t EXCEPT !.start = Timecode(t.start + d)]
<1>1. \A t \in track : /\ t.start \in Nat /\ t.duration \in Nat \ {0}
                       /\ End(t) \in Nat /\ t.start < End(t)
  BY DEF Sound, Segment, End
<1>2. \A t \in track : t.start < End(s) => t.start <= s.start
  BY <1>1 DEF Sound, Disjoint
<1>3. \A t \in track : t.start >= End(s) =>
        /\ Timecode(t.start + d) = t.start + d
        /\ s.start < t.start + d
  BY <1>1 DEF Timecode, End
<1>4. \A t \in track :
        /\ Pushed(t) \in Segment
        /\ Pushed(t).start = IF t.start < End(s) THEN t.start ELSE t.start + d
        /\ Pushed(t).start <= s.start => Pushed(t) = t
        /\ t.start < End(s) => Pushed(t).start <= s.start
        /\ ~(t.start < End(s)) => s.start < Pushed(t).start
  <2>1. ASSUME NEW t \in track, t.start < End(s)
        PROVE  Pushed(t) = t /\ t \in Segment
    BY <2>1 DEF Sound
  <2>2. ASSUME NEW t \in track, ~(t.start < End(s))
        PROVE  Pushed(t) \in Segment /\ Pushed(t).start = t.start + d /\ t.start + d \in Nat
    BY <1>1, <1>3, <2>2 DEF Sound, Segment
  <2> HIDE DEF Pushed
  <2> QED
    BY <1>1, <1>2, <1>3, <2>1, <2>2
<1>5. shifted = {Pushed(t) : t \in track}
  BY DEF RippleShift
<1> HIDE DEF Pushed, shifted
<1>6. \A t, u \in track : Pushed(t).start = Pushed(u).start => Pushed(t) = Pushed(u)
  <2> SUFFICES ASSUME NEW t \in track, NEW u \in track, Pushed(t).start = Pushed(u).start
               PROVE  t = u
    OBVIOUS
  <2>1. t.start = u.start
    BY <1>1, <1>4
  <2> QED
    BY <2>1 DEF Sortable
<1>7. Sortable(shifted)
  <2> DEFINE f == [t \in track |-> Pushed(t)]
  <2>1. f \in Surjection(track, shifted)
    BY <1>5 DEF Surjection
  <2>2. IsFiniteSet(shifted)
    BY <2>1, FS_Surjection DEF Sortable
  <2> QED
    BY <1>4, <1>5, <1>6, <2>2 DEF Sortable
<1>8. new.start = s.start /\ new.start \in Int /\ End(new) \in Int
  BY <1>1 DEF End, Sound, Segment
<1> HIDE DEF new
<1>9. ASSUME NEW t \in shifted, NEW u \in shifted, t.start < u.start, End(u) <= s.start
      PROVE  End(t) <= s.start
  <2>1. PICK t1 \in track : t = Pushed(t1)
    BY <1>5
  <2>2. PICK u1 \in track : u = Pushed(u1)
    BY <1>5
  <2>3. u.start \in Nat /\ u.start < End(u) /\ End(u) \in Nat /\ t.start \in Nat
    BY <1>4, <2>1, <2>2 DEF Segment, End
  <2>4. u.start <= s.start /\ t.start <= s.start
    BY <1>1, <1>9, <2>3
  <2>5. t \in track /\ u \in track
    BY <1>4, <2>1, <2>2, <2>4
  <2>6. End(t) <= u.start
    BY <1>1, <1>9, <2>5 DEF Sound, Disjoint
  <2> QED
    BY <1>1, <2>3, <2>4, <2>5, <2>6
<1>10. SearchOverlap(Vector(shifted), new, excluded) = WouldOverlap(shifted \ excluded, new)
  BY <1>7, <1>8, <1>9, SearchFinds
<1> QED
  BY <1>10 DEF shifted, new

\* In a track that is sound and ends by the horizon every search finds its answer.
LEMMA InvariantSearches ==
    ASSUME TrackInHorizon
    PROVE  SearchAgrees
<1>1. Sound(segments) /\ Disjoint(segments)
  BY DEF TrackInHorizon, SoundTrack, TypeOK, Sound
<1>2. Horizon \in Nat /\ Deltas \subseteq Int
  BY InputsAssumption
<1>3. Sortable(segments)
  BY <1>1, <1>2, SoundSortable DEF TrackInHorizon, InHorizon
<1> DEFINE Agrees(p) ==
        SearchOverlap(Vector(p.track), p.s, p.excluded) = WouldOverlap(p.track \ p.excluded, p.s)
<1>4. ASSUME NEW p \in TrackProbes
      PROVE  Agrees(p)
  <2> DEFINE Excluded == {{s} : s \in segments} \cup {{}}
  <2>1. TrackProbes = {Probe(segments, [s EXCEPT !.start = @ + d], excluded) :
                          s \in segments, d \in Deltas, excluded \in Excluded}
    BY DEF TrackProbes
  <2> HIDE DEF Excluded
  <2>2. PICK s \in segments, d \in Deltas, excluded \in Excluded :
          p = Probe(segments, [s EXCEPT !.start = @ + d], excluded)
    BY <1>4, <2>1
  <2> DEFINE moved == [s EXCEPT !.start = @ + d]
  <2>3. moved.start \in Int /\ End(moved) \in Int
    BY <1>1, <1>2 DEF Sound, Segment, End
  <2> HIDE DEF moved
  <2>4. SearchOverlap(Vector(segments), moved, excluded) = WouldOverlap(segments \ excluded, moved)
    BY <1>1, <1>3, <2>3, TrackProbed
  <2>5. p.track = segments /\ p.s = moved /\ p.excluded = excluded
    BY <2>2 DEF Probe, moved
  <2> QED
    BY <2>4, <2>5
<1>5. ASSUME NEW s \in segments, NEW p \in ShiftedProbes(s)
      PROVE  Agrees(p)
  <2>1. PICK d \in Deltas :
          /\ s.duration + d > 0
          /\ p = Probe(RippleShift(segments, End(s), d), [s EXCEPT !.duration = @ + d], {s})
    BY <1>5 DEF ShiftedProbes
  <2> DEFINE shifted == RippleShift(segments, End(s), d)
             new == [s EXCEPT !.duration = @ + d]
  <2>2. SearchOverlap(Vector(shifted), new, {s}) = WouldOverlap(shifted \ {s}, new)
    BY <1>1, <1>2, <1>3, <2>1, ShiftedProbed
  <2> HIDE DEF shifted, new
  <2>3. p.track = shifted /\ p.s = new /\ p.excluded = {s}
    BY <2>1 DEF Probe, shifted, new
  <2> QED
    BY <2>2, <2>3
<1>6. \A p \in Probes : Agrees(p)
  BY <1>4, <1>5 DEF Probes
<1>7. \A frame \in 0 .. Horizon :
        LET i == SegmentIndexAt(Vector(segments), frame)
            holding == {s \in segments : s.start <= frame /\ frame < End(s)}
        IN holding = IF i = -1 THEN {} ELSE {Vector(segments)[i + 1]}
  BY <1>1, <1>2, <1>3, IndexFinds
<1> QED
  BY <1>6, <1>7 DEF SearchAgrees

\* Unless a head is shortened, the binary searches find an overlap exactly when
\* there is one, in the track and in the middle of a ripple trim, and the segment
\* that holds a frame.
THEOREM SearchAgreesAlways ==
    ASSUME "shortenHead" \notin Operations
    PROVE  Spec => []SearchAgrees
<1>1. Init => TrackInHorizon
  BY InitInHorizon
<1>2. TrackInHorizon /\ [Next]_vars => TrackInHorizon'
  BY NextKeepsHorizon
<1>3. TrackInHorizon => SearchAgrees
  BY InvariantSearches
<1> QED BY <1>1, <1>2, <1>3, PTL DEF Spec

-----------------------------------------------------------------------------
(* Division *)

\* Quotient and remainder
LEMMA DivMod ==
    ASSUME NEW a \in Nat, NEW b \in Nat \ {0}
    PROVE  /\ a \div b \in Nat
           /\ a % b \in Nat
           /\ a % b < b
           /\ a = b * (a \div b) + (a % b)
OBVIOUS

\* There is no other quotient and remainder.
LEMMA DivUnique ==
    ASSUME NEW a \in Nat, NEW b \in Nat \ {0}, NEW q \in Nat, NEW r \in Nat,
           r < b, a = b * q + r
    PROVE  a \div b = q /\ a % b = r
OBVIOUS

\* One more either stays below the divisor or begins the next multiple.
LEMMA DivStep ==
    ASSUME NEW a \in Nat, NEW b \in Nat \ {0}
    PROVE  IF (a % b) + 1 < b
           THEN (a + 1) \div b = a \div b /\ (a + 1) % b = (a % b) + 1
           ELSE (a + 1) \div b = (a \div b) + 1 /\ (a + 1) % b = 0
<1> DEFINE q == a \div b  r == a % b
<1>1. q \in Nat /\ r \in Nat /\ r < b /\ a = b * q + r
  BY DivMod
<1> HIDE DEF q, r
<1>2. CASE r + 1 < b
  <2>1. a + 1 = b * q + (r + 1)
    BY <1>1
  <2>2. (a + 1) \div b = q /\ (a + 1) % b = r + 1
    BY <1>1, <1>2, <2>1, DivUnique
  <2> QED BY <1>2, <2>2 DEF q, r
<1>3. CASE ~(r + 1 < b)
  <2>1. a + 1 = b * (q + 1) + 0
    BY <1>1, <1>3
  <2>2. (a + 1) \div b = q + 1 /\ (a + 1) % b = 0
    BY <1>1, <2>1, DivUnique
  <2> QED BY <1>3, <2>2 DEF q, r
<1> QED BY <1>2, <1>3

-----------------------------------------------------------------------------
(* Labels that drop frames *)

RateParameters(fps, dropped) == fps \in Nat \ {0} /\ dropped \in Nat /\ dropped < fps

\* Where the n-th frame is in its ten minutes
LEMMA Position ==
    ASSUME NEW fps, NEW dropped, RateParameters(fps, dropped), NEW n \in Nat
    PROVE  /\ fps * 60 \in Nat
           /\ FramesPerMinute(fps, dropped) \in Nat \ {0}
           /\ FramesPerTenMinutes(fps, dropped) \in Nat \ {0}
           /\ FramesPerMinute(fps, dropped) = fps * 60 - dropped
           /\ FramesPerTenMinutes(fps, dropped) = fps * 60 + 9 * FramesPerMinute(fps, dropped)
           /\ n % FramesPerTenMinutes(fps, dropped) \in Nat
           /\ n % FramesPerTenMinutes(fps, dropped) < FramesPerTenMinutes(fps, dropped)
           /\ n \div FramesPerTenMinutes(fps, dropped) \in Nat
<1>1. /\ fps * 60 \in Nat
      /\ FramesPerMinute(fps, dropped) \in Nat \ {0}
      /\ FramesPerMinute(fps, dropped) = fps * 60 - dropped
      /\ FramesPerTenMinutes(fps, dropped) = fps * 60 + 9 * FramesPerMinute(fps, dropped)
  BY DEF RateParameters, FramesPerMinute, FramesPerTenMinutes
<1>2. FramesPerTenMinutes(fps, dropped) \in Nat \ {0}
  BY <1>1
<1> QED BY <1>1, <1>2, DivMod

\* The frames of the first minute of a ten
LEMMA EarlyPosition ==
    ASSUME NEW fps, NEW dropped, RateParameters(fps, dropped), NEW n \in Nat,
           n % FramesPerTenMinutes(fps, dropped) < fps * 60
    PROVE  /\ MinuteOf(n, fps, dropped) = 10 * (n \div FramesPerTenMinutes(fps, dropped))
           /\ InMinute(n, fps, dropped) = n % FramesPerTenMinutes(fps, dropped)
<1>1. ~PastFirstMinute(n % FramesPerTenMinutes(fps, dropped), fps)
  BY Position DEF PastFirstMinute
<1>2. n \div FramesPerTenMinutes(fps, dropped) \in Nat
  BY Position
<1> QED BY <1>1, <1>2 DEF MinuteOf, InMinute

\* and those after it
Later(n, fps, dropped) == (n % FramesPerTenMinutes(fps, dropped)) - fps * 60

\* The minute of such a frame, and its place in it
LEMMA LatePosition ==
    ASSUME NEW fps, NEW dropped, RateParameters(fps, dropped), NEW n \in Nat,
           ~(n % FramesPerTenMinutes(fps, dropped) < fps * 60),
           NEW later, later = Later(n, fps, dropped),
           NEW perMinute, perMinute = FramesPerMinute(fps, dropped)
    PROVE  /\ later \in Nat /\ later < 9 * perMinute
           /\ MinuteOf(n, fps, dropped) =
                10 * (n \div FramesPerTenMinutes(fps, dropped)) + ((later \div perMinute) + 1)
           /\ InMinute(n, fps, dropped) = (later % perMinute) + dropped
           /\ later \div perMinute \in 0 .. 8
           /\ later % perMinute \in Nat /\ later % perMinute < perMinute
           /\ later = perMinute * (later \div perMinute) + (later % perMinute)
<1> DEFINE inTen == n % FramesPerTenMinutes(fps, dropped)
           first == fps * 60
<1>0. /\ first \in Nat /\ inTen \in Nat /\ perMinute \in Nat \ {0}
      /\ ~(inTen < first) /\ inTen < first + 9 * perMinute /\ later = inTen - first
  BY Position DEF Later
<1> HIDE DEF inTen, first
<1>1. later \in Nat /\ later < 9 * perMinute /\ perMinute \in Nat \ {0}
  BY <1>0
<1>2. /\ later \div perMinute \in Nat /\ later % perMinute \in Nat /\ later % perMinute < perMinute
      /\ later = perMinute * (later \div perMinute) + (later % perMinute)
  BY <1>1, DivMod
<1>3. ASSUME NEW q \in Nat, NEW r \in Nat, later = perMinute * q + r
      PROVE  q <= 8
  <2>1. CASE q >= 9
    <3>1. perMinute * q >= perMinute * 9
      BY <1>1, <2>1
    <3> QED BY <1>1, <1>3, <3>1
  <2> QED BY <2>1
<1>4. later \div perMinute \in 0 .. 8
  BY <1>2, <1>3
<1>5. PastFirstMinute(n % FramesPerTenMinutes(fps, dropped), fps)
  BY <1>0 DEF PastFirstMinute, inTen, first
<1>6. /\ MinuteOf(n, fps, dropped) =
            10 * (n \div FramesPerTenMinutes(fps, dropped)) + (later \div perMinute + 1)
      /\ InMinute(n, fps, dropped) = (later % perMinute) + dropped
  BY <1>5 DEF MinuteOf, InMinute, Later
<1> QED BY <1>1, <1>2, <1>4, <1>6

\* The same, without names for the parts
LEMMA LateLabel ==
    ASSUME NEW fps, NEW dropped, RateParameters(fps, dropped), NEW n \in Nat,
           ~(n % FramesPerTenMinutes(fps, dropped) < fps * 60)
    PROVE  /\ MinuteOf(n, fps, dropped) =
                10 * (n \div FramesPerTenMinutes(fps, dropped))
                + ((Later(n, fps, dropped) \div FramesPerMinute(fps, dropped)) + 1)
           /\ InMinute(n, fps, dropped) =
                (Later(n, fps, dropped) % FramesPerMinute(fps, dropped)) + dropped
BY LatePosition

\* A minute is some tens and a rest.
LEMMA Tens ==
    ASSUME NEW t \in Nat, NEW u \in 0 .. 9
    PROVE  (10 * t + u) \div 10 = t /\ (10 * t + u) % 10 = u
OBVIOUS

\* One frame on: the next one of the minute, or the first label of the next minute
\* that is not dropped.
NextInMinute(n, fps, dropped) ==
    /\ MinuteOf(n + 1, fps, dropped) = MinuteOf(n, fps, dropped)
    /\ InMinute(n + 1, fps, dropped) = InMinute(n, fps, dropped) + 1
    /\ InMinute(n, fps, dropped) + 1 < fps * 60

NextMinute(n, fps, dropped) ==
    /\ MinuteOf(n + 1, fps, dropped) = MinuteOf(n, fps, dropped) + 1
    /\ InMinute(n + 1, fps, dropped) =
         IF (MinuteOf(n, fps, dropped) + 1) % 10 = 0 THEN 0 ELSE dropped
    /\ InMinute(n, fps, dropped) + 1 = fps * 60

\* One of the two it is.
LEMMA MinuteStep ==
    ASSUME NEW fps, NEW dropped, RateParameters(fps, dropped), NEW n \in Nat
    PROVE  /\ MinuteOf(n, fps, dropped) \in Nat /\ InMinute(n, fps, dropped) \in Nat
           /\ NextInMinute(n, fps, dropped) \/ NextMinute(n, fps, dropped)
<1> DEFINE perTen == FramesPerTenMinutes(fps, dropped)
           perMinute == FramesPerMinute(fps, dropped)
           first == fps * 60
           ten == n \div perTen
           inTen == n % perTen
           later == Later(n, fps, dropped)
           k == later \div perMinute
           l == later % perMinute
           minute == MinuteOf(n, fps, dropped)
           inMinute == InMinute(n, fps, dropped)
           minute1 == MinuteOf(n + 1, fps, dropped)
           inMinute1 == InMinute(n + 1, fps, dropped)
<1> USE DEF NextInMinute, NextMinute
<1>0. /\ fps \in Nat \ {0} /\ dropped \in Nat /\ n + 1 \in Nat
      /\ first \in Nat /\ first >= 1 /\ perMinute \in Nat \ {0} /\ perTen \in Nat \ {0}
      /\ perMinute = first - dropped /\ perTen = first + 9 * perMinute
      /\ inTen \in Nat /\ inTen < perTen /\ ten \in Nat
  BY Position DEF RateParameters
<1>1. IF inTen + 1 < perTen
      THEN (n + 1) \div perTen = ten /\ (n + 1) % perTen = inTen + 1
      ELSE (n + 1) \div perTen = ten + 1 /\ (n + 1) % perTen = 0
  BY <1>0, DivStep
<1>2. CASE inTen < first
  <2>1. minute = 10 * ten /\ inMinute = inTen
    BY <1>2, EarlyPosition
  <2>2. (n + 1) \div perTen = ten /\ (n + 1) % perTen = inTen + 1
    <3> HIDE DEF perTen, perMinute, first, ten, inTen
    <3> QED BY <1>0, <1>1, <1>2
  <2>3. CASE inTen + 1 < first
    <3>1. minute1 = 10 * ten /\ inMinute1 = inTen + 1
      BY <1>0, <2>2, <2>3, EarlyPosition
    <3> HIDE DEF minute, inMinute, minute1, inMinute1, ten, inTen, first
    <3>2. minute \in Nat /\ inMinute \in Nat /\ minute1 = minute /\ inMinute1 = inMinute + 1
          /\ inMinute + 1 < first
      BY <1>0, <2>1, <2>3, <3>1
    <3> QED BY <3>2 DEF minute, inMinute, minute1, inMinute1, first
  <2>4. CASE ~(inTen + 1 < first)
    <3>1. inTen + 1 = first
      <4> HIDE DEF inTen, first
      <4> QED BY <1>0, <1>2, <2>4
    <3>2. Later(n + 1, fps, dropped) = 0
      <4> HIDE DEF first, inTen
      <4>1. ((n + 1) % perTen) - first = 0
        BY <1>0, <2>2, <3>1
      <4> QED BY <4>1 DEF Later, first
    <3>3. 0 \div perMinute = 0 /\ 0 % perMinute = 0
      BY <1>0, DivUnique
    <3>4. minute1 = 10 * ten + 1 /\ inMinute1 = dropped
      <4>1. ~((n + 1) % perTen < first)
        <5> HIDE DEF inTen, first, perTen
        <5> QED BY <1>0, <2>2, <3>1
      <4>2. /\ minute1 = 10 * ((n + 1) \div perTen) + ((Later(n + 1, fps, dropped) \div perMinute) + 1)
            /\ inMinute1 = (Later(n + 1, fps, dropped) % perMinute) + dropped
        <5>1. n + 1 \in Nat /\ ~((n + 1) % FramesPerTenMinutes(fps, dropped) < fps * 60)
          BY <1>0, <4>1
        <5> QED BY <5>1, LateLabel
      <4> HIDE DEF minute1, inMinute1, perTen, perMinute, ten, inTen
      <4> QED BY <1>0, <2>2, <3>2, <3>3, <4>2
    <3> HIDE DEF minute, inMinute, minute1, inMinute1, ten, inTen, first
    <3>5. (minute + 1) % 10 = 1
      BY <1>0, <2>1, Tens
    <3>6. minute \in Nat /\ inMinute \in Nat /\ minute1 = minute + 1 /\ inMinute1 = dropped
          /\ inMinute + 1 = first
      BY <1>0, <2>1, <3>1, <3>4
    <3> QED BY <3>5, <3>6 DEF minute, inMinute, minute1, inMinute1, first
  <2> QED BY <2>3, <2>4
<1>3. CASE ~(inTen < first)
  <2>1. /\ later \in Nat /\ later < 9 * perMinute /\ later = inTen - first
        /\ minute = 10 * ten + (k + 1) /\ inMinute = l + dropped
        /\ k \in 0 .. 8 /\ l \in Nat /\ l < perMinute /\ later = perMinute * k + l
    BY <1>3, LatePosition DEF Later
  <2>2. minute \in Nat /\ inMinute \in Nat
    <3> HIDE DEF minute, inMinute, ten, k, l
    <3> QED BY <1>0, <2>1
  <2>3. CASE later + 1 < 9 * perMinute
    <3>1. (n + 1) \div perTen = ten /\ (n + 1) % perTen = inTen + 1 /\ ~(inTen + 1 < first)
      <4> HIDE DEF perTen, perMinute, first, ten, inTen, later
      <4> QED BY <1>0, <1>1, <1>3, <2>1, <2>3
    <3>2. Later(n + 1, fps, dropped) = later + 1
      <4>1. Later(n + 1, fps, dropped) = (inTen + 1) - first
        BY <3>1 DEF Later
      <4> HIDE DEF perTen, first, inTen, later
      <4> QED BY <1>0, <2>1, <4>1
    <3>3. /\ minute1 = 10 * ten + (((later + 1) \div perMinute) + 1)
          /\ inMinute1 = ((later + 1) % perMinute) + dropped
          /\ (later + 1) \div perMinute \in 0 .. 8
      BY <1>0, <3>1, <3>2, LatePosition
    <3>4. IF l + 1 < perMinute
          THEN (later + 1) \div perMinute = k /\ (later + 1) % perMinute = l + 1
          ELSE (later + 1) \div perMinute = k + 1 /\ (later + 1) % perMinute = 0
      BY <1>0, <2>1, DivStep
    <3> HIDE DEF minute, inMinute, minute1, inMinute1, ten, inTen, first, k, l, later, perMinute, perTen
    <3>5. CASE l + 1 < perMinute
      <4>1. minute1 = minute /\ inMinute1 = inMinute + 1 /\ inMinute + 1 < first
        BY <1>0, <2>1, <3>3, <3>4, <3>5
      <4> QED BY <2>2, <4>1 DEF minute, inMinute, minute1, inMinute1, first
    <3>6. CASE ~(l + 1 < perMinute)
      <4>1. minute1 = minute + 1 /\ inMinute1 = dropped /\ inMinute + 1 = first /\ k + 2 \in 1 .. 9
        BY <1>0, <2>1, <3>3, <3>4, <3>6
      <4>2. minute + 1 = 10 * ten + (k + 2)
        BY <1>0, <2>1
      <4>3. (minute + 1) % 10 = k + 2
        BY <1>0, <2>1, <4>1, <4>2, Tens
      <4>4. (minute + 1) % 10 # 0
        BY <4>1, <4>3
      <4> QED BY <2>2, <4>1, <4>4 DEF minute, inMinute, minute1, inMinute1, first
    <3> QED BY <3>5, <3>6
  <2>4. CASE ~(later + 1 < 9 * perMinute)
    <3>1. k = 8 /\ l + 1 = perMinute
      <4> HIDE DEF perMinute, later, k, l
      <4>1. /\ later = perMinute * 8 + (perMinute - 1)
            /\ perMinute - 1 \in Nat /\ perMinute - 1 < perMinute /\ 8 \in Nat
        BY <1>0, <2>1, <2>4
      <4>2. later \div perMinute = 8 /\ later % perMinute = perMinute - 1
        <5>1. /\ perMinute \in Nat \ {0}
              /\ 9 \in Nat /\ later \in Nat /\ 8 \in Nat /\ perMinute - 1 \in Nat
              /\ perMinute - 1 < perMinute
              /\ later = perMinute * 8 + (perMinute - 1)
          BY <1>0, <2>1, <4>1
        <5> HIDE DEF perMinute, later
        <5> QED BY ONLY <5>1, DivUnique
      <4> QED BY <1>0, <4>2 DEF k, l
    <3>2. (n + 1) \div perTen = ten + 1 /\ (n + 1) % perTen = 0
      <4> HIDE DEF perTen, perMinute, first, ten, inTen, later
      <4> QED BY <1>0, <1>1, <2>1, <2>4
    <3>3. minute1 = 10 * (ten + 1) /\ inMinute1 = 0
      <4>1. (n + 1) % perTen < first
        BY <1>0, <3>2
      <4> QED BY <1>0, <3>2, <4>1, EarlyPosition
    <3> HIDE DEF minute, inMinute, minute1, inMinute1, ten, inTen, first, k, l, later, perMinute, perTen
    <3>4. minute + 1 = 10 * (ten + 1) + 0
      BY <1>0, <2>1, <3>1
    <3>5. (minute + 1) % 10 = 0
      BY <1>0, <3>4, Tens
    <3>6. minute1 = minute + 1 /\ inMinute1 = 0 /\ inMinute + 1 = first
      BY <1>0, <2>1, <3>1, <3>3, <3>4
    <3> QED BY <2>2, <3>5, <3>6 DEF minute, inMinute, minute1, inMinute1, first
  <2> QED BY <2>3, <2>4
<1> QED BY <1>2, <1>3

\* One minute on, in hours, minutes and the ten minutes' first
LEMMA MinuteNumbers ==
    ASSUME NEW minute \in Nat
    PROVE  /\ (minute + 1) \div 60 = (minute \div 60) + (((minute % 60) + 1) \div 60)
           /\ (minute + 1) % 60 = ((minute % 60) + 1) % 60
           /\ (((minute % 60) + 1) % 60) % 10 = (minute + 1) % 10
OBVIOUS

\* The last frame of a minute
LEMMA MinuteEnd ==
    ASSUME NEW fps \in Nat \ {0}, NEW inMinute \in Nat, inMinute + 1 = fps * 60
    PROVE  inMinute \div fps = 59 /\ inMinute % fps = fps - 1
<1>1. /\ inMinute = fps * 59 + (fps - 1)
      /\ 59 \in Nat /\ fps - 1 \in Nat /\ fps - 1 < fps
  OBVIOUS
<1> QED BY ONLY <1>1, DivUnique, fps \in Nat \ {0}, inMinute \in Nat

\* The frames of the first second
LEMMA BelowDivisor ==
    ASSUME NEW fps \in Nat \ {0}, NEW f \in Nat, f < fps
    PROVE  f \div fps = 0 /\ f % fps = f
<1>1. 0 \in Nat /\ f = fps * 0 + f
  OBVIOUS
<1> QED BY <1>1, DivUnique

\* A second that is not the minute's last
LEMMA MinuteInside ==
    ASSUME NEW fps \in Nat \ {0}, NEW s \in Nat, fps * s + fps < fps * 60
    PROVE  s < 59
<1>1. CASE s >= 59
  <2>1. PICK k \in Nat : s = 59 + k
    BY <1>1, s - 59 \in Nat
  <2>2. fps * s = fps * 59 + fps * k /\ fps * k >= 0
    BY <2>1
  <2> QED BY <2>2
<1> QED BY <1>1

\* The next label, from the minute and the frame in the minute
LEMMA LabelStep ==
    ASSUME NEW rate \in FrameRates, NEW fps, fps = NominalFps(rate),
           NEW dropped, dropped = DroppedFramesPerMinute(rate), RateParameters(fps, dropped),
           NEW minute \in Nat, NEW inMinute \in Nat, NEW minute1 \in Nat, NEW inMinute1 \in Nat,
           \/ minute1 = minute /\ inMinute1 = inMinute + 1 /\ inMinute + 1 < fps * 60
           \/ /\ minute1 = minute + 1 /\ inMinute + 1 = fps * 60
              /\ inMinute1 = IF (minute + 1) % 10 = 0 THEN 0 ELSE dropped
    PROVE  Label(minute1 \div 60, minute1 % 60, inMinute1 \div fps, inMinute1 % fps) =
           Following(Label(minute \div 60, minute % 60, inMinute \div fps, inMinute % fps), rate)
<1> DEFINE s == inMinute \div fps
           f == inMinute % fps
           label == Label(minute \div 60, minute % 60, s, f)
           next == Label(minute1 \div 60, minute1 % 60, inMinute1 \div fps, inMinute1 % fps)
<1>0. /\ fps \in Nat \ {0} /\ dropped \in Nat /\ dropped < fps
      /\ s \in Nat /\ f \in Nat /\ f < fps /\ inMinute = fps * s + f
  BY DivMod DEF RateParameters
<1>1. /\ label.hours = minute \div 60 /\ label.minutes = minute % 60
      /\ label.seconds = s /\ label.frames = f
  BY DEF Label
<1>2. IF f + 1 < fps
      THEN (inMinute + 1) \div fps = s /\ (inMinute + 1) % fps = f + 1
      ELSE (inMinute + 1) \div fps = s + 1 /\ (inMinute + 1) % fps = 0
  BY <1>0, DivStep
<1>3. CASE minute1 = minute /\ inMinute1 = inMinute + 1 /\ inMinute + 1 < fps * 60
  <2>1. CASE f + 1 < fps
    <3>1. Following(label, rate) = Label(minute \div 60, minute % 60, s, f + 1)
      BY <1>1, <2>1 DEF Following
    <3> QED BY <1>2, <1>3, <2>1, <3>1
  <2>2. CASE ~(f + 1 < fps)
    <3>1. fps * s + fps < fps * 60
      BY <1>0, <1>3, <2>2
    <3>2. s < 59
      BY <1>0, <3>1, MinuteInside
    <3>3. Following(label, rate) = Label(minute \div 60, minute % 60, s + 1, 0)
      BY <1>1, <2>2, <3>2 DEF Following
    <3> QED BY <1>2, <1>3, <2>2, <3>3
  <2> QED BY <2>1, <2>2
<1>4. CASE /\ minute1 = minute + 1 /\ inMinute + 1 = fps * 60
           /\ inMinute1 = IF (minute + 1) % 10 = 0 THEN 0 ELSE dropped
  <2>1. s = 59 /\ f = fps - 1
    BY <1>0, <1>4, MinuteEnd
  <2>2. Following(label, rate) = MinuteAfter(label, rate)
    <3> HIDE DEF s, f, label
    <3> QED BY <1>0, <1>1, <2>1 DEF Following
  <2>3. inMinute1 \div fps = 0 /\ inMinute1 % fps = inMinute1
    <3>1. inMinute1 < fps
      <4> HIDE DEF s, f
      <4> QED BY <1>0, <1>4
    <3> QED BY <1>0, <3>1, BelowDivisor
  <2>4. MinuteAfter(label, rate) =
            Label((minute \div 60) + (((minute % 60) + 1) \div 60), ((minute % 60) + 1) % 60, 0,
                  IF (((minute % 60) + 1) % 60) % 10 = 0 THEN 0 ELSE dropped)
    BY <1>1 DEF MinuteAfter
  <2>5. MinuteAfter(label, rate) =
            Label((minute + 1) \div 60, (minute + 1) % 60, 0, inMinute1)
    BY <1>4, <2>4, MinuteNumbers
  <2> QED BY <1>4, <2>2, <2>3, <2>5
<1> QED BY <1>3, <1>4

-----------------------------------------------------------------------------
(* The rates *)

\* What the rates' numbers can be
LEMMA Rates ==
    ASSUME NEW rate \in FrameRates
    PROVE  /\ NominalFps(rate) \in {24, 25, 30, 50, 60}
           /\ Milli(rate) \in {2000, 2002}
           /\ \/ DroppedFramesPerMinute(rate) = 0
              \/ NominalFps(rate) = 30 /\ DroppedFramesPerMinute(rate) = 2
              \/ NominalFps(rate) = 60 /\ DroppedFramesPerMinute(rate) = 4
           /\ RateParameters(NominalFps(rate), DroppedFramesPerMinute(rate))
BY DEF FrameRates, NominalFps, DroppedFramesPerMinute, Milli, RateParameters

\* Labels that drop frames count on as a counter that leaves them out.
LEMMA DropLabelsCountOn ==
    ASSUME NEW rate \in FrameRates, DroppedFramesPerMinute(rate) # 0, NEW n \in Nat
    PROVE  CountsOn(n, rate)
<1> DEFINE fps == NominalFps(rate)
           dropped == DroppedFramesPerMinute(rate)
<1>1. RateParameters(fps, dropped) /\ n + 1 \in Nat
  BY Rates
<1>2. /\ ToSmpte(n, rate) = DropLabel(n, fps, dropped)
      /\ ToSmpte(n + 1, rate) = DropLabel(n + 1, fps, dropped)
  BY DEF ToSmpte
<1> HIDE DEF fps, dropped
<1>3. /\ MinuteOf(n, fps, dropped) \in Nat /\ InMinute(n, fps, dropped) \in Nat
      /\ MinuteOf(n + 1, fps, dropped) \in Nat /\ InMinute(n + 1, fps, dropped) \in Nat
      /\ NextInMinute(n, fps, dropped) \/ NextMinute(n, fps, dropped)
  BY <1>1, MinuteStep
<1>4. DropLabel(n + 1, fps, dropped) = Following(DropLabel(n, fps, dropped), rate)
  BY <1>1, <1>3, LabelStep DEF DropLabel, NextInMinute, NextMinute, fps, dropped
<1> QED BY <1>2, <1>4 DEF CountsOn

\* Without dropped labels the second of a frame takes the place of its minute.
LEMMA PlainLabelsCountOn ==
    ASSUME NEW rate \in FrameRates, DroppedFramesPerMinute(rate) = 0, NEW n \in Nat
    PROVE  CountsOn(n, rate)
<1> DEFINE fps == NominalFps(rate)
           second == n \div fps
           f == n % fps
           second1 == (n + 1) \div fps
           f1 == (n + 1) % fps
           minute == second \div 60
           s == second % 60
           label == Label(minute \div 60, minute % 60, s, f)
<1>1. fps \in Nat \ {0} /\ n + 1 \in Nat
  BY Rates
<1>2. /\ ToSmpte(n, rate) = label
      /\ ToSmpte(n + 1, rate) =
            Label((second1 \div 60) \div 60, (second1 \div 60) % 60, second1 % 60, f1)
  BY DEF ToSmpte, PlainLabel
<1>3. /\ second \in Nat /\ f \in Nat /\ f < fps
      /\ IF f + 1 < fps THEN second1 = second /\ f1 = f + 1
                        ELSE second1 = second + 1 /\ f1 = 0
  <2> HIDE DEF fps
  <2> QED BY <1>1, DivMod, DivStep
<1> HIDE DEF second, f, second1, f1
<1>4. /\ minute \in Nat /\ s \in 0 .. 59
      /\ IF s < 59 THEN (second + 1) \div 60 = minute /\ (second + 1) % 60 = s + 1
                   ELSE (second + 1) \div 60 = minute + 1 /\ (second + 1) % 60 = 0
  BY <1>3
<1>5. /\ label.hours = minute \div 60 /\ label.minutes = minute % 60
      /\ label.seconds = s /\ label.frames = f
  BY DEF Label
<1>6. CASE f + 1 < fps
  <2>1. Following(label, rate) = Label(minute \div 60, minute % 60, s, f + 1)
    BY <1>5, <1>6 DEF Following
  <2> QED BY <1>2, <1>3, <1>6, <2>1 DEF CountsOn
<1>7. CASE ~(f + 1 < fps) /\ s < 59
  <2>1. Following(label, rate) = Label(minute \div 60, minute % 60, s + 1, 0)
    BY <1>5, <1>7 DEF Following
  <2>2. ToSmpte(n + 1, rate) = Label(minute \div 60, minute % 60, s + 1, 0)
    BY <1>2, <1>3, <1>4, <1>7
  <2> QED BY <1>2, <2>1, <2>2 DEF CountsOn
<1>8. CASE ~(f + 1 < fps) /\ ~(s < 59)
  <2>1. Following(label, rate) = MinuteAfter(label, rate)
    BY <1>5, <1>8 DEF Following
  <2>2. MinuteAfter(label, rate) =
            Label((minute \div 60) + (((minute % 60) + 1) \div 60), ((minute % 60) + 1) % 60, 0, 0)
    BY <1>5 DEF MinuteAfter
  <2>3. MinuteAfter(label, rate) = Label((minute + 1) \div 60, (minute + 1) % 60, 0, 0)
    BY <1>4, <2>2, MinuteNumbers
  <2>4. ToSmpte(n + 1, rate) = Label((minute + 1) \div 60, (minute + 1) % 60, 0, 0)
    BY <1>2, <1>3, <1>4, <1>8
  <2> QED BY <1>2, <2>1, <2>3, <2>4 DEF CountsOn
<1> QED BY <1>6, <1>7, <1>8

-----------------------------------------------------------------------------
(* Reading a label back *)

\* What fromSmpte() makes of a label whose numbers are in range
LEMMA FromNumbers ==
    ASSUME NEW rate \in FrameRates, NEW minute \in Nat, NEW s \in 0 .. 59, NEW f \in Nat,
           f < NominalFps(rate)
    PROVE  FromSmpte(Label(minute \div 60, minute % 60, s, f), rate) =
             (minute * 60 + s) * NominalFps(rate) + f
             - DroppedFramesPerMinute(rate) * (minute - minute \div 10)
<1> DEFINE label == Label(minute \div 60, minute % 60, s, f)
<1>1. /\ label.hours = minute \div 60 /\ label.minutes = minute % 60
      /\ label.seconds = s /\ label.frames = f
  BY DEF Label
<1>2. /\ ~(minute \div 60 < 0) /\ (minute \div 60) * 60 + (minute % 60) = minute
      /\ minute % 60 \in 0 .. 59
  OBVIOUS
<1>3. /\ Clamped(minute % 60, 59) = minute % 60 /\ Clamped(s, 59) = s
      /\ Clamped(f, NominalFps(rate) - 1) = f
  BY <1>2, Rates DEF Clamped
<1> QED BY <1>1, <1>2, <1>3 DEF FromSmpte

\* fromSmpte() undoes toSmpte() where no label is dropped,
LEMMA PlainLabelsReadBack ==
    ASSUME NEW rate \in FrameRates, DroppedFramesPerMinute(rate) = 0, NEW n \in Nat
    PROVE  ReadsBack(n, rate)
<1> DEFINE fps == NominalFps(rate)
           second == n \div fps
           f == n % fps
           minute == second \div 60
           s == second % 60
<1>1. fps \in Nat \ {0}
  BY Rates
<1>2. second \in Nat /\ f \in Nat /\ f < fps /\ n = fps * second + f
  <2> HIDE DEF fps
  <2> QED BY <1>1, DivMod
<1>3. ToSmpte(n, rate) = Label(minute \div 60, minute % 60, s, f)
  BY DEF ToSmpte, PlainLabel
<1> HIDE DEF second, f
<1>4. minute \in Nat /\ s \in 0 .. 59 /\ minute * 60 + s = second
  BY <1>2
<1> HIDE DEF minute, s
<1>5. FromSmpte(ToSmpte(n, rate), rate) = (minute * 60 + s) * fps + f
                - DroppedFramesPerMinute(rate) * (minute - minute \div 10)
  <2>1. rate \in FrameRates /\ minute \in Nat /\ s \in 0 .. 59 /\ f \in Nat /\ f < NominalFps(rate)
    BY <1>2, <1>4
  <2>2. FromSmpte(Label(minute \div 60, minute % 60, s, f), rate) =
             (minute * 60 + s) * NominalFps(rate) + f
             - DroppedFramesPerMinute(rate) * (minute - minute \div 10)
    BY ONLY <2>1, FromNumbers
  <2> QED BY <1>3, <2>2
<1>6. FromSmpte(ToSmpte(n, rate), rate) = second * fps + f
  <2> HIDE DEF fps
  <2>1. DroppedFramesPerMinute(rate) * (minute - minute \div 10) = 0
    BY <1>4
  <2> QED BY <1>1, <1>2, <1>4, <1>5, <2>1
<1> HIDE DEF fps
<1> QED BY <1>1, <1>2, <1>6 DEF ReadsBack

DropRate(fps, dropped) == <<fps, dropped>> \in {<<30, 2>>, <<60, 4>>}

\* The frame from its minute and its place in it
LEMMA FrameOf ==
    ASSUME NEW fps, NEW dropped, DropRate(fps, dropped), NEW n \in Nat
    PROVE  LET minute == MinuteOf(n, fps, dropped)
           IN n = minute * (60 * fps) + InMinute(n, fps, dropped)
                  - dropped * (minute - minute \div 10)
<1> DEFINE perTen == FramesPerTenMinutes(fps, dropped)
           perMinute == FramesPerMinute(fps, dropped)
           ten == n \div perTen
           inTen == n % perTen
           later == Later(n, fps, dropped)
           k == later \div perMinute
           l == later % perMinute
           minute == MinuteOf(n, fps, dropped)
           inMinute == InMinute(n, fps, dropped)
<1>1. RateParameters(fps, dropped)
  BY DEF RateParameters, DropRate
<1>2. /\ perMinute = fps * 60 - dropped /\ perTen = fps * 60 + 9 * perMinute
      /\ perTen \in Nat \ {0}
  BY <1>1, Position
<1>3. ten \in Nat /\ inTen \in Nat /\ n = perTen * ten + inTen
  <2> HIDE DEF perTen
  <2> QED BY <1>2, DivMod
<1>4. \/ fps = 30 /\ dropped = 2 /\ perMinute = 1798 /\ perTen = 17982
      \/ fps = 60 /\ dropped = 4 /\ perMinute = 3596 /\ perTen = 35964
  <2> HIDE DEF perTen, perMinute
  <2> QED BY <1>2 DEF DropRate
<1>5. CASE inTen < fps * 60
  <2>1. minute = 10 * ten + 0 /\ inMinute = inTen
    <3>1. minute = 10 * ten /\ inMinute = inTen
      BY <1>1, <1>5, EarlyPosition
    <3> HIDE DEF ten
    <3> QED BY <1>3, <3>1
  <2> HIDE DEF minute, inMinute, ten, inTen, perTen, perMinute
  <2>2. minute \div 10 = ten
    BY <1>3, <2>1, Tens
  <2>3. n = minute * (60 * fps) + inMinute - dropped * (minute - minute \div 10)
    BY <1>3, <1>4, <2>1, <2>2
  <2> QED BY <2>3 DEF minute, inMinute
<1>6. CASE ~(inTen < fps * 60)
  <2>1. /\ later \in Nat /\ later = inTen - fps * 60
        /\ minute = 10 * ten + (k + 1) /\ inMinute = l + dropped
        /\ k \in 0 .. 8 /\ l \in Nat /\ later = perMinute * k + l
    BY <1>1, <1>6, LatePosition DEF Later
  <2> HIDE DEF minute, inMinute, ten, inTen, perTen, perMinute, later, k, l
  <2>2. minute \div 10 = ten
    BY <1>3, <2>1, k + 1 \in 0 .. 9, Tens
  <2>3. n = perTen * ten + (fps * 60 + (perMinute * k + l))
    BY <1>3, <1>4, <2>1
  <2>4. n = minute * (60 * fps) + inMinute - dropped * (minute - minute \div 10)
    <3>1. CASE fps = 30 /\ dropped = 2 /\ perMinute = 1798 /\ perTen = 17982
      BY <1>3, <2>1, <2>2, <2>3, <3>1
    <3>2. CASE fps = 60 /\ dropped = 4 /\ perMinute = 3596 /\ perTen = 35964
      BY <1>3, <2>1, <2>2, <2>3, <3>2
    <3> QED BY <1>4, <3>1, <3>2
  <2> QED BY <2>4 DEF minute, inMinute
<1> QED BY <1>5, <1>6

\* and where labels are.
LEMMA DropLabelsReadBack ==
    ASSUME NEW rate \in FrameRates, DroppedFramesPerMinute(rate) # 0, NEW n \in Nat
    PROVE  ReadsBack(n, rate)
<1> DEFINE fps == NominalFps(rate)
           dropped == DroppedFramesPerMinute(rate)
           minute == MinuteOf(n, fps, dropped)
           inMinute == InMinute(n, fps, dropped)
           s == inMinute \div fps
           f == inMinute % fps
<1>1. RateParameters(fps, dropped) /\ DropRate(fps, dropped)
  BY Rates DEF DropRate
<1>2. ToSmpte(n, rate) = Label(minute \div 60, minute % 60, s, f)
  BY DEF ToSmpte, DropLabel
<1> HIDE DEF fps, dropped
<1>3. minute \in Nat /\ inMinute \in Nat /\ inMinute < 60 * fps
  <2>1. /\ minute \in Nat /\ inMinute \in Nat
        /\ NextInMinute(n, fps, dropped) \/ NextMinute(n, fps, dropped)
    BY <1>1, MinuteStep
  <2> HIDE DEF minute, inMinute
  <2>2. inMinute + 1 <= fps * 60
    BY <1>1, <2>1 DEF NextInMinute, NextMinute, minute, inMinute, RateParameters
  <2> QED BY <1>1, <2>1, <2>2 DEF RateParameters
<1>4. n = minute * (60 * fps) + inMinute - dropped * (minute - minute \div 10)
  BY <1>1, FrameOf
<1> HIDE DEF minute, inMinute
<1>5. fps \in {30, 60} /\ dropped \in Nat
  BY <1>1 DEF DropRate
<1>6. s \in 0 .. 59 /\ f \in Nat /\ f < fps /\ inMinute = fps * s + f
  BY <1>3, <1>5
<1> HIDE DEF s, f
<1>7. FromSmpte(Label(minute \div 60, minute % 60, s, f), rate) =
          (minute * 60 + s) * fps + f - dropped * (minute - minute \div 10)
  <2>1. f < NominalFps(rate)
    BY <1>6 DEF fps
  <2>2. FromSmpte(Label(minute \div 60, minute % 60, s, f), rate) =
          (minute * 60 + s) * NominalFps(rate) + f
          - DroppedFramesPerMinute(rate) * (minute - minute \div 10)
    BY <1>3, <1>6, <2>1, FromNumbers
  <2> QED BY <2>2 DEF fps, dropped
<1>8. (minute * 60 + s) * fps + f = minute * (60 * fps) + inMinute
  BY <1>3, <1>5, <1>6
<1>9. minute \div 10 \in Nat
  BY <1>3
<1>10. dropped * (minute - minute \div 10) \in Int
  BY <1>3, <1>5, <1>9
<1> HIDE DEF fps, dropped
<1>11. FromSmpte(ToSmpte(n, rate), rate) = n
  BY <1>2, <1>3, <1>4, <1>5, <1>6, <1>7, <1>8, <1>10
<1> QED BY <1>11 DEF ReadsBack

-----------------------------------------------------------------------------
(* Milliseconds and back *)

\* A millisecond is less than a frame, so rounding to it and back loses nothing.
LEMMA MillisecondsAreFine ==
    ASSUME NEW rate \in FrameRates, NEW n \in Nat
    PROVE  SurvivesMilliseconds(n, rate)
<1> DEFINE fps == NominalFps(rate)
           milli == Milli(rate)
<1>1. fps \in {24, 25, 30, 50, 60} /\ milli \in {2000, 2002}
  BY Rates
<1>2. SUFFICES ASSUME NEW ms \in Int, IsMilliseconds(ms, n, rate),
                      NEW other \in Int, IsFrames(other, ms, rate)
               PROVE  other = n
  <2> DEFINE below == (milli * n) \div (2 * fps)
  <2>1. below \in Int
    <3>1. milli * n \in Int /\ 2 * fps \in Nat \ {0}
      BY <1>1
    <3> HIDE DEF milli, fps
    <3> QED BY <3>1
  <2> HIDE DEF below
  <2>2. {below, below + 1} \subseteq Int
    BY <2>1
  <2> QED BY <1>2, <2>2 DEF SurvivesMilliseconds, below
<1>3. /\ Distance(2 * fps * ms, milli * n) <= fps
      /\ 2 * Distance(2 * fps * ms, milli * other) <= milli
  BY <1>2 DEF IsMilliseconds, IsFrames
<1> HIDE DEF fps, milli
<1> QED BY <1>1, <1>3 DEF Distance

-----------------------------------------------------------------------------
\* At every frame rate, toSmpte() counts the frames as SMPTE labels are counted, and
\* neither a label nor a number of milliseconds loses the frame it was made from.
THEOREM LabelsCountFramesAlways == LabelsCountFrames
<1>1. ASSUME NEW rate \in FrameRates
      PROVE  ToSmpte(0, rate) = Label(0, 0, 0, 0)
  <2> DEFINE fps == NominalFps(rate)
             dropped == DroppedFramesPerMinute(rate)
  <2>1. RateParameters(fps, dropped) /\ fps \in Nat \ {0}
    BY Rates DEF RateParameters
  <2>2. 0 \div fps = 0 /\ 0 % fps = 0
    <3> HIDE DEF fps
    <3> QED BY <2>1, BelowDivisor
  <2>3. PlainLabel(0, fps) = Label(0, 0, 0, 0)
    <3> HIDE DEF fps
    <3> QED BY <2>2 DEF PlainLabel
  <2>4. DropLabel(0, fps, dropped) = Label(0, 0, 0, 0)
    <3> HIDE DEF fps, dropped
    <3>1. 0 % FramesPerTenMinutes(fps, dropped) = 0 /\ 0 \div FramesPerTenMinutes(fps, dropped) = 0
      BY <2>1, Position, BelowDivisor
    <3>2. MinuteOf(0, fps, dropped) = 0 /\ InMinute(0, fps, dropped) = 0
      BY <2>1, <3>1, EarlyPosition
    <3> QED BY <2>2, <3>2 DEF DropLabel
  <2> QED BY <2>3, <2>4 DEF ToSmpte
<1>2. ASSUME NEW rate \in FrameRates, NEW n \in LabelledFrames
      PROVE  CountsOn(n, rate) /\ ReadsBack(n, rate) /\ SurvivesMilliseconds(n, rate)
  <2>1. n \in Nat
    BY LabelledFramesAssumption
  <2> QED BY <2>1, DropLabelsCountOn, PlainLabelsCountOn, DropLabelsReadBack,
             PlainLabelsReadBack, MillisecondsAreFine
<1> QED BY <1>1, <1>2 DEF LabelsCountFrames

=============================================================================
