---------------------------- MODULE MCModbusLink ---------------------------
(* Connections are alike, and so are the masters.                          *)
EXTENDS ModbusLink, TLC

Symmetry == Permutations(Connections) \cup Permutations(Masters)
=============================================================================
