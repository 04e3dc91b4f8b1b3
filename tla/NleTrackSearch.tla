--------------------------- MODULE NleTrackSearch ---------------------------
(***************************************************************************)
(* The binary searches of Track on the sorted vector of segments, and that *)
(* they find what they look for.                                           *)
(***************************************************************************)
EXTENDS NleTrack, Sequences, FiniteSets

\* Sorted by their starts, the segments have their ranks as indices.
Rank(track, s) == Cardinality({t \in track : t.start < s.start})
Vector(track) ==
    [i \in 1 .. Cardinality(track) |-> CHOOSE s \in track : Rank(track, s) = i - 1]

\* A plausible bug: the starts are searched.
LowerBoundByEnd_ByStart(vector, frame) ==
    LET search[range \in (0 .. Len(vector)) \X (0 .. Len(vector))] ==
        LET lo == range[1]  hi == range[2]  mid == lo + (hi - lo) \div 2 IN
        IF lo >= hi THEN lo
        ELSE IF vector[mid + 1].start <= frame THEN search[<< mid + 1, hi >>]
        ELSE search[<< lo, mid >>]
    IN search[<< 0, Len(vector) >>]

\* The index, from 0, of the first segment that ends after the frame
LowerBoundByEnd(vector, frame) ==
    LET search[range \in (0 .. Len(vector)) \X (0 .. Len(vector))] ==
        LET lo == range[1]  hi == range[2]  mid == lo + (hi - lo) \div 2 IN
        IF lo >= hi THEN lo
        ELSE IF End(vector[mid + 1]) <= frame THEN search[<< mid + 1, hi >>]
        ELSE search[<< lo, mid >>]
    IN search[<< 0, Len(vector) >>]

\* wouldOverlap(): from the first segment that ends after s begins to the first one
\* that begins after it ends; the segment that is replaced is skipped.
SearchOverlap(vector, s, excluded) ==
    LET first == LowerBoundByEnd(vector, s.start) + 1 IN
    \E i \in first .. Len(vector) :
        /\ vector[i] \notin excluded /\ Overlap(s, vector[i])
        /\ \A j \in first .. i - 1 : vector[j] \in excluded \/ vector[j].start < End(s)

\* segmentIndexAt(): the last segment that does not begin after the frame, if it
\* holds it; -1 stands for none.
SegmentIndexAt(vector, frame) ==
    LET begun == {i \in 1 .. Len(vector) : vector[i].start <= frame}
        last == Cardinality(begun)
    IN IF begun # {} /\ frame < End(vector[last]) THEN last - 1 ELSE -1

\* The tracks that wouldOverlap() searches, with what is compared and what is left
\* out: the track itself, and the one a ripple trim has already shifted, whose
\* segments may begin and end before the one that is about to shrink ends.
Probe(track, s, excluded) == [track |-> track, s |-> s, excluded |-> excluded]
TrackProbes ==
    {Probe(segments, [s EXCEPT !.start = @ + d], excluded) :
        s \in segments, d \in Deltas, excluded \in {{s} : s \in segments} \cup {{}}}
ShiftedProbes(s) ==
    {Probe(RippleShift(segments, End(s), d), [s EXCEPT !.duration = @ + d], {s}) :
        d \in {d \in Deltas : s.duration + d > 0}}
Probes == TrackProbes \cup UNION {ShiftedProbes(s) : s \in segments}

\* The binary search finds an overlap exactly when there is one, also while the
\* ends are out of order in the middle of a ripple trim, and the look-up of a frame
\* finds the segment that holds it.
SearchAgrees ==
    /\ \A p \in Probes :
        SearchOverlap(Vector(p.track), p.s, p.excluded) = WouldOverlap(p.track \ p.excluded, p.s)
    /\ \A frame \in 0 .. Horizon :
        LET i == SegmentIndexAt(Vector(segments), frame)
            holding == {s \in segments : s.start <= frame /\ frame < End(s)}
        IN holding = IF i = -1 THEN {} ELSE {Vector(segments)[i + 1]}
=============================================================================
