--------------------------- MODULE MCModbusStream ---------------------------
(* ModbusStream for TLC.                                                   *)
EXTENDS ModbusStream
=============================================================================
