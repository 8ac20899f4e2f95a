------------------------------ MODULE MCSSGate ------------------------------
(***************************************************************************)
(* Constants for model checking SSGate: one or two proxies, each for a     *)
(* device of its own, and a device that no proxy stands for.               *)
(***************************************************************************)
EXTENDS SSGate, TLC

CONSTANTS p1, p2, a1, a2, t1, other

OneDevice  == p1 :> a1
TwoDevices == p1 :> a1 @@ p2 :> a2
=============================================================================
