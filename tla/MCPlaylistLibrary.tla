------------------------- MODULE MCPlaylistLibrary -------------------------
(* Instances of PlaylistLibrary for TLC: four entries, the first and the third of one path. *)
EXTENDS PlaylistLibrary

MCPathOf == << 1, 2, 1, 3 >>

Plan(kinds, most, mode, calm) == [kinds |-> kinds, calls |-> most, mode |-> mode, calm |-> calm]

MCPlans ==
    {Plan(Kinds \ {"metadata"}, 4, "Loop", FALSE),
     Plan({"addFolder", "playIndex", "next", "shuffle", "move"}, 5, "Default", FALSE),
     Plan({"addFolder", "playIndex", "metadata", "remove", "stop"}, 6, "Repeat", TRUE)}
=============================================================================
