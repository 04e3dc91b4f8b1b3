--------------------------- MODULE MCVideoOutput ---------------------------
(* Instances of VideoOutput for TLC. *)
EXTENDS VideoOutput

Plan(user, frames, most, ends, calm, fails, hung) ==
    [user |-> user, frames |-> frames, resizes |-> most, sessions |-> ends,
     calm |-> calm, fails |-> fails, hung |-> hung]

MCPlans ==
    {Plan("texture", 3, 2, 1, TRUE, FALSE, FALSE),
     Plan("draw", 3, 2, 1, FALSE, FALSE, FALSE),
     Plan("shader", 3, 2, 1, TRUE, TRUE, FALSE),
     Plan("texture", 2, 2, 1, FALSE, FALSE, TRUE),
     Plan("draw", 2, 2, 1, FALSE, FALSE, TRUE)}
=============================================================================
