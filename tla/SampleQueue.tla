---------------------------- MODULE SampleQueue ----------------------------
(***************************************************************************)
(* What the captured audio of ofxVlc4 is for its consumers: a bounded      *)
(* first-in first-out queue of samples.  Samples are numbered in the order *)
(* in which they are accepted, so the queue's contents are the numbers     *)
(* between two counters.                                                   *)
(***************************************************************************)
EXTENDS Naturals

CONSTANT Capacity

VARIABLES
    accepted,   \* number of samples accepted so far
    delivered,  \* number of samples delivered or dropped so far
    heard       \* the block of samples delivered last

Init == accepted = 0 /\ delivered = 0 /\ heard = << >>

\* A block is accepted as far as there is room for it.
Put ==
    \E n \in 1 .. Capacity :
        /\ accepted + n <= delivered + Capacity
        /\ accepted' = accepted + n
        /\ UNCHANGED << delivered, heard >>

\* The oldest samples are delivered, each of them once and in order.
Take ==
    \E n \in 0 .. accepted - delivered :
        /\ heard' = [i \in 1 .. n |-> delivered + i]
        /\ delivered' = delivered + n
        /\ UNCHANGED accepted

\* A reset drops what has not been delivered.
Drop == delivered' = accepted /\ UNCHANGED << accepted, heard >>

Next == Put \/ Take \/ Drop

Spec == Init /\ [][Next]_<< accepted, delivered, heard >>
=============================================================================
