---------------------------- MODULE MCInetUsers ----------------------------
(***************************************************************************)
(* Two systems with a web server each; name server and ping target of one  *)
(* system serve both, and interactive traffic has no server at all.        *)
(* u1 draws its profiles, u2 always browses, u3 always asks for names and  *)
(* is in the system of the name server, where a foreign draw finds none.   *)
(***************************************************************************)
EXTENDS InetUsers, TLC

CONSTANTS n1, n2, u1, u2, u3, web1, web2, dns1, echo

Where == u1 :> n1 @@ u2 :> n2 @@ u3 :> n2 @@ web1 :> n1 @@ web2 :> n2
         @@ dns1 :> n2 @@ echo :> n2
Fixed == u1 :> 0 @@ u2 :> 3 @@ u3 :> 11
Offered == web1 :> [profile |-> 3, port |-> 80] @@ web2 :> [profile |-> 3, port |-> 80]
           @@ dns1 :> [profile |-> 11, port |-> 53] @@ echo :> [profile |-> 21, port |-> -1]
Entry(id, labelled, wan) == [id |-> id, labelled |-> labelled, wan |-> wan]
Configured == { Entry(2, TRUE, BOOLEAN), Entry(3, TRUE, BOOLEAN), Entry(11, TRUE, BOOLEAN),
                Entry(21, TRUE, {FALSE}), Entry(4, FALSE, {FALSE}), Entry(-1, TRUE, {TRUE}) }

(* Only interactive traffic has none, whatever the topology.               *)
ASSUME UnservedAssumption == OneUnserved(FALSE) /\ Attempts >= 3
=============================================================================
