------------------------------ MODULE MCDrDist ------------------------------
(* Instances of DrDist and DrDistRestart for TLC.                          *)
EXTENDS DrDist

CONSTANTS d1, d2, bad

MCDoc == {d1, d2, bad}
MCReadable == {d1, d2}
MCInputs == {<<>>, <<d1, d2, d2, d1>>, <<d1, bad, d2>>}
=============================================================================
