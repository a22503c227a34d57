--------------------------- MODULE MCDrDistRestart ---------------------------
(* Instances of DrDistRestart for TLC: each run may get another input.     *)
EXTENDS DrDistRestart

CONSTANTS d1, d2

MCDoc == {d1, d2}
MCInputs == {<<>>, <<d1>>, <<d2, d2, d1>>}
=============================================================================
