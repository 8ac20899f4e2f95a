------------------------------ MODULE MCUDPApp ------------------------------
(* UDPApp for TLC: an instance only differs in the constants.              *)
EXTENDS UDPApp
=============================================================================
