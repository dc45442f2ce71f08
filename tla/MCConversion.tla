---------------------------- MODULE MCConversion ----------------------------
(* Rates stand for 24, 42, 48 and 96 kHz; a chunk has 3 samples. *)
EXTENDS Conversion

Requests == [length : {8}, rate : {8}, timbre : {1}]
              \union [length : {13}, rate : {16}, timbre : {0}]
              \union [length : {2}, rate : {8}, timbre : {0}]
=============================================================================
