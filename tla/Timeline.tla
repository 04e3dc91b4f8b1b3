------------------------------ MODULE Timeline ------------------------------
(***************************************************************************)
(* What a track of the NLE promises its editor: a timeline that shows, at  *)
(* each of its frames, one frame of a clip or nothing (filler).  An edit   *)
(* changes the frames it is about and moves the others together.           *)
(***************************************************************************)
EXTENDS Integers, FiniteSets

CONSTANT Horizon   \* the number of frames that are looked at

VARIABLE content   \* what is seen at each frame: << clip, frame of the clip >>

Frames == 0 .. Horizon - 1
Filler == << >>

Init == content = [f \in Frames |-> Filler]

At(c, f) == IF f \in Frames THEN c[f] ELSE Filler
Later(seen, n) == << seen[1], seen[2] + n >>

\* From one frame to another a stretch of a single clip is seen.
Continuous(c, from, to) ==
    \A f \in from .. to - 1 :
        c[f] # Filler /\ (f > from => c[f] = Later(c[f - 1], 1))

\* A stretch of a clip replaces whatever was there.
Overwrite(from, to) ==
    /\ \A f \in Frames \ (from .. to - 1) : content'[f] = content[f]
    /\ Continuous(content', from, to)

\* A stretch of a clip pushes what follows to the right.
Insert(from, to) ==
    /\ \A f \in Frames : f < from => content'[f] = content[f]
    /\ \A f \in Frames : f >= to => content'[f] = content[f - (to - from)]
    /\ Continuous(content', from, to)

\* A stretch is blanked, ...
Clear(from, to) ==
    \A f \in Frames : content'[f] = IF f \in from .. to - 1 THEN Filler ELSE content[f]

\* ... or removed, and what follows closes the gap.
Remove(from, to) ==
    \A f \in Frames :
        content'[f] = IF f < from THEN content[f] ELSE At(content, f + (to - from))

\* The head of a stretch that ends at the last of these frames is uncovered, and
\* what follows the stretch is pushed by as much.
Uncover(from, head, to) ==
    /\ \A f \in Frames : f < from \/ f \in head .. to - 1 => content'[f] = content[f]
    /\ Continuous(content', from, head + 1)
    /\ \A f \in Frames : f >= to =>
        content'[f] = IF f < to + (head - from) THEN Filler ELSE content[f - (head - from)]

\* Cuts are moved: every frame shows what it showed, or what moved there from n
\* frames before, or goes on from a frame beside it; there is as much filler as
\* there was.
FillerFrames(c) == {f \in Frames : c[f] = Filler}

MoveCuts(n) ==
    /\ \A f \in Frames :
        \/ content'[f] \in {Filler, content[f], At(content, f - n)}
        \/ \E g \in {f - 1, f + 1} \cap Frames :
             content'[g] # Filler /\ content'[f] = Later(content'[g], f - g)
    /\ Cardinality(FillerFrames(content')) = Cardinality(FillerFrames(content))

Next ==
    \/ \E from \in Frames : \E to \in from + 1 .. Horizon :
         Overwrite(from, to) \/ Insert(from, to) \/ Clear(from, to) \/ Remove(from, to)
    \/ \E from, head \in Frames : \E to \in head + 1 .. Horizon :
         from < head /\ Uncover(from, head, to)
    \/ \E n \in -Horizon .. Horizon : MoveCuts(n)

Spec == Init /\ [][Next]_content
=============================================================================
