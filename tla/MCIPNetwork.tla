---------------------------- MODULE MCIPNetwork ----------------------------
(***************************************************************************)
(* Two systems.  The first has two gateways behind two core routers; its   *)
(* edge eA1 hangs on both gateways, so that its default route is not the   *)
(* shortest way to h2.                                                     *)
(***************************************************************************)
EXTENDS IPNetwork, TLC

CONSTANTS cA1, cA2, gA1, gA2, eA1, eA2, h1, h2, cB, gB, eB, h3, corporate, field

Names == [n \in {cA1, cA2, cB} |-> "core"] @@ [n \in {gA1, gA2, gB} |-> "gw"]
        @@ [n \in {eA1, eA2, eB} |-> "edge"] @@ [n \in {h1, h2, h3} |-> "host"]
Where == [n \in {cA1, cA2, gA1, gA2, eA1, eA2, h1, h2} |-> corporate]
         @@ [n \in {cB, gB, eB, h3} |-> field]
Order == <<cA1, cA2, gA1, gA2, eA1, eA2, h1, h2, cB, gB, eB, h3>>
Id == [n \in {Order[i] : i \in DOMAIN Order} |-> CHOOSE i \in DOMAIN Order : Order[i] = n]
Neighbours ==
  cA1 :> <<cB, cA2, gA1>> @@ cA2 :> <<cA1, gA2>> @@ gA1 :> <<cA1, eA1>>
  @@ gA2 :> <<cA2, eA1, eA2>> @@ eA1 :> <<gA1, gA2, h1>> @@ eA2 :> <<gA2, h2>>
  @@ h1 :> <<eA1>> @@ h2 :> <<eA2>>
  @@ cB :> <<cA1, gB>> @@ gB :> <<cB, eB>> @@ eB :> <<gB, h3>> @@ h3 :> <<eB>>
Talks == h1 :> "TCP" @@ h2 :> "UDP" @@ h3 :> "ICMP"
Systems == <<corporate, field>>
ASNames == corporate :> [letters |-> 9, number |-> 0] @@ field :> [letters |-> 5, number |-> 0]
=============================================================================
