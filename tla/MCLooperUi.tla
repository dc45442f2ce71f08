----------------------------- MODULE MCLooperUi -----------------------------
(***************************************************************************)
(* The metronome and one chip of three values.                             *)
(***************************************************************************)
EXTENDS LooperUi

Sizes == [f \in Fields |-> IF f = Metronome THEN 2 ELSE 3]
=============================================================================
