------------------------------- MODULE Routes -------------------------------
(***************************************************************************)
(* src/networklayer/autorouting: the addresses and the static routes that  *)
(* TGMNetworkConfigurator gives the nodes before the simulation starts.    *)
(*                                                                         *)
(* A topology consists of autonomous systems; in a system, end systems     *)
(* hang on edge routers, these on gateways, and these on core routers,     *)
(* which link the systems.  Interfaces are point to point: an interface is *)
(* named by the neighbour it leads to, and all interfaces of a node have   *)
(* one address.                                                            *)
(***************************************************************************)
EXTENDS Naturals, FiniteSets, Sequences

CONSTANTS
  Nodes,
  Word,        (* the word in a node's name that tells its level            *)
  moduleId,
  Interfaces,  (* neighbours of a node, in the order of its interfaces      *)
  ASOf,
  asNodeVec,   (* sequence of the autonomous systems                        *)
  ASName,      (* a system's name: the length of its word, and its number   *)
  NetSize,     (* addresses in a prefix: 2^16 in the code                   *)
  NONE

ASSUME RoutesAssumption ==
  /\ IsFiniteSet(Nodes) /\ NONE \notin Nodes
  /\ Word \in [Nodes -> {"core", "gw", "edge", "host", "Server"}]
  /\ moduleId \in [Nodes -> Nat]
  /\ \A m, n \in Nodes : moduleId[m] = moduleId[n] => m = n
  /\ Interfaces \in [Nodes -> Seq(Nodes)] /\ NetSize \in Nat \ {0}
  /\ asNodeVec \in Seq({asNodeVec[i] : i \in DOMAIN asNodeVec})
  /\ \A n \in Nodes : ASOf[n] \in {asNodeVec[i] : i \in DOMAIN asNodeVec}

(* nodeInfoRL; any other name ends the configuration.                      *)
routerType == [n \in Nodes |->
  CASE Word[n] = "core" -> "CORE" [] Word[n] = "gw" -> "GW" [] Word[n] = "edge" -> "EDGE"
    [] Word[n] \in {"host", "Server"} -> "ENDSYS"]

Links == {l \in Nodes \X Nodes : \E i \in DOMAIN Interfaces[l[1]] : Interfaces[l[1]][i] = l[2]}

(* An end system hangs on one edge router of its system, and every link    *)
(* has one back (simulations/topology_scada.ned.old:163-174).              *)
ASSUME LinksAssumption ==
  /\ \A n \in Nodes : routerType[n] = "ENDSYS" =>
       \E e \in Nodes : routerType[e] = "EDGE" /\ ASOf[e] = ASOf[n] /\ Interfaces[n] = <<e>>
  /\ \A l \in Links : <<l[2], l[1]>> \in Links

(* extractTopology: the router-level topology of a system, and its links.  *)
rlTopology(a) == {n \in Nodes : ASOf[n] = a}
rlLinks(a) == {l \in Links : l[1] \in rlTopology(a) /\ l[2] \in rlTopology(a)}

(* The core routers of all systems.                                        *)
asTopology == {n \in Nodes : routerType[n] = "CORE"}

(* nodeInfoAS: the identity of a system, the digits three characters after *)
(* the begin of its word, 0 if there are none.  The words are corporate,   *)
(* remote and field.                                                       *)
id(a) == IF ASName[a].letters = 3 THEN ASName[a].number ELSE 0

(* nodeInfoRL reads it again from the name of the node, which contains the *)
(* name of its system.                                                     *)
asId(n) == id(ASOf[n])

-----------------------------------------------------------------------------
(* Addresses.                                                              *)

(* Fault: all systems have the prefix of the first.                        *)
prefix_Same(a) == NetSize

(* The i-th system has the prefix i.                                       *)
prefix(a) ==
  NetSize * (CHOOSE i \in DOMAIN asNodeVec : asNodeVec[i] = a)

(* Nodes are numbered from 1 in the order of their module ids.             *)
addr == [n \in Nodes |->
  prefix(ASOf[n])
    + Cardinality({m \in rlTopology(ASOf[n]) : moduleId[m] <= moduleId[n]})]

(* initialize refuses a larger system: "to many nodes in current topology". *)
Fits(a) == Cardinality(rlTopology(a)) <= NetSize - 1

ASSUME FitsAssumption == \A n \in Nodes : Fits(ASOf[n])

-----------------------------------------------------------------------------
(* Shortest paths (cTopology).                                             *)

(* The nodes of s and those with a link to one of them.                    *)
Further(links, s) == s \cup {l[1] : l \in {l \in links : l[2] \in s}}

(* Entry k: the nodes with a path of less than k links to d.               *)
Within(links, d) ==
  LET w[k \in 1..(Cardinality(Nodes) + 1)] ==
        IF k = 1 THEN {d} ELSE Further(links, w[k - 1])
  IN  w

(* calculateUnweightedSingleShortestPathsTo, for every node, in its system *)
(* and between the core routers.                                           *)
rlPaths == [d \in Nodes |-> Within(rlLinks(ASOf[d]), d)]

(* disableStubLinks disables links of the router-level topologies;         *)
(* asTopology has links of its own, which all stay enabled.                *)
enabledLinks == {l \in Links : l[1] \in asTopology /\ l[2] \in asTopology}
asPaths == [d \in asTopology |-> Within(enabledLinks, d)]

(* getPath(0): where the first link of a shortest path from n leads; w is  *)
(* calculated to another node.                                             *)
firstHop(links, w, n) ==
  LET far == {k \in DOMAIN w : n \notin w[k]}
      next == {m \in Nodes : <<n, m>> \in links /\ m \in w[Cardinality(far)]}
  IN  IF far = DOMAIN w THEN NONE ELSE CHOOSE m \in next : TRUE

-----------------------------------------------------------------------------
(* Routing tables: sets of routes.                                         *)

Upper(t) == CASE t = "ENDSYS" -> "EDGE" [] t = "EDGE" -> "GW" [] t = "GW" -> "CORE"

(* The first interface to a node of the next level; core routers have no   *)
(* default route.                                                          *)
defaultRouteIE(n) ==
  LET up == {i \in DOMAIN Interfaces[n] :
               routerType[Interfaces[n][i]] = Upper(routerType[n])}
  IN  IF routerType[n] = "CORE" \/ up = {} THEN NONE
      ELSE Interfaces[n][CHOOSE i \in up : \A j \in up : i <= j]

Route(mask, host, interface) == [mask |-> mask, host |-> host, interface |-> interface]

assignAddressAndSetDefaultRoutes(n) ==
  IF routerType[n] = "CORE" THEN {} ELSE {Route("all", 0, defaultRouteIE(n))}

(* Fault: nodes keep to the default route.                                 *)
setIntraASRoutes_Default(n) == {}

(* A route to every node of the system that is not on the way of the       *)
(* default route; end systems have the default route only.                 *)
setIntraASRoutes(n) ==
  LET first(d) == firstHop(rlLinks(ASOf[n]), rlPaths[d], n)
      others == {d \in rlTopology(ASOf[n]) \ {n} : first(d) \notin {NONE, defaultRouteIE(n)}}
  IN  IF routerType[n] = "ENDSYS" THEN {}
      ELSE {Route("host", addr[d], first(d)) : d \in others}

(* From a core router to the prefix of every core router with another id.  *)
createInterASPaths(n) ==
  IF routerType[n] # "CORE" THEN {}
  ELSE {Route("net", prefix(ASOf[d]), firstHop(enabledLinks, asPaths[d], n)) :
          d \in {d \in asTopology : asId(d) # asId(n)}}

(* initialize.                                                             *)
routingTable ==
  [n \in Nodes |-> assignAddressAndSetDefaultRoutes(n) \cup setIntraASRoutes(n)
                   \cup createInterASPaths(n)]

(* The interface of the best match, as IP looks it up.                     *)
getInterfaceForDestAddr(n, dest) ==
  LET match(mask) == {r \in routingTable[n] : r.mask = mask /\
        CASE mask = "host" -> r.host = dest
          [] mask = "net" -> r.host = NetSize * (dest \div NetSize)
          [] mask = "all" -> TRUE}
      best == IF match("host") # {} THEN match("host")
              ELSE IF match("net") # {} THEN match("net") ELSE match("all")
  IN  IF best = {} THEN NONE ELSE (CHOOSE r \in best : TRUE).interface
=============================================================================
