----------------------------- MODULE MCWaveform -----------------------------
(***************************************************************************)
(* Two loops, one of them longer.                                          *)
(***************************************************************************)
EXTENDS Waveform

CONSTANT Long   \* the longer loop

LoopLength == [l \in Loop |-> IF l = Long THEN 4 ELSE 3]
=============================================================================
