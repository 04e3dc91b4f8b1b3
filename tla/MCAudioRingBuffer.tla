------------------------- MODULE MCAudioRingBuffer -------------------------
(* Instances of AudioRingBuffer for TLC. *)
EXTENDS AudioRingBuffer

MCMainCalls == {"reset", "silence"}
=============================================================================
