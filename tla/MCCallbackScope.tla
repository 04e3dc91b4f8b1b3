-------------------------- MODULE MCCallbackScope --------------------------
(* Instance of CallbackScope for TLC: one audio callback thread, two event  *)
(* threads and up to three sessions, so that a teardown may be followed by  *)
(* a session whose callbacks overlap stale ones.                            *)
EXTENDS CallbackScope

CONSTANTS audio, event1, event2

MCOutputCallbacks == {audio}
MCRouterCallbacks == {event1, event2}
=============================================================================
