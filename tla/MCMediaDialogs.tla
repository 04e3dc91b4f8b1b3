--------------------------- MODULE MCMediaDialogs ---------------------------
(***************************************************************************)
(* MediaDialogs for TLC: two addresses, three dialogs, one teardown.       *)
(***************************************************************************)
EXTENDS MediaDialogs, TLC

MCIds == {"address1", "address2"}
====
