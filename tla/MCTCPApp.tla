------------------------------ MODULE MCTCPApp ------------------------------
(* TCPApp for TLC: its instances differ only in the constants.             *)
EXTENDS TCPApp
=============================================================================
