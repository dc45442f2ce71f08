-------------------------- MODULE MCWaveformFrame ---------------------------
(***************************************************************************)
(* Loops of one bar and of two, with three samples and with four.          *)
(***************************************************************************)
EXTENDS WaveformFrame

LoopShapes == {[length |-> 3, bars |-> 1], [length |-> 4, bars |-> 2]}
=============================================================================
