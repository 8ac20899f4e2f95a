----------------------------- MODULE IPNetwork -----------------------------
(***************************************************************************)
(* src/networklayer/ipv4/IP_hack and queue/DropTailTraceQueue: packets     *)
(* travel along the routes of the configurator, through drop-tail queues,  *)
(* and routers with tracing count them.                                    *)
(*                                                                         *)
(* A step is one event: a node sends a packet, a link ends the             *)
(* transmission of one and the next node handles it, or a trace timer      *)
(* fires.  Links lose nothing, and the ICMP errors that IP sends back for  *)
(* a packet it drops are left out.                                         *)
(***************************************************************************)
EXTENDS Routes

CONSTANTS
  Hosts,          (* nodes whose users send packets                         *)
  Traced,         (* nodes with tracingOn                                   *)
  protocolOf,     (* the protocol a host talks                              *)
  Capacities,     (* values of the queues' frameCapacity; 0: no limit       *)
  HopLimit,       (* time to live of a new packet                           *)
  MaxPackets      (* bound: packets sent                                    *)

ASSUME IPNetworkAssumption ==
  /\ Hosts \subseteq Nodes /\ Traced \subseteq Nodes
  /\ protocolOf \in [Hosts -> {"ICMP", "TCP", "UDP"}]
  /\ Capacities \subseteq Nat /\ HopLimit \in Nat \ {0} /\ MaxPackets \in Nat

(* Hosts of a system are connected, in no more than HopLimit links.        *)
ASSUME HopLimitAssumption ==
  \A m, n \in Hosts : ASOf[m] = ASOf[n] =>
    \E k \in DOMAIN rlPaths[n] : k <= HopLimit + 1 /\ m \in rlPaths[n][k]

VARIABLES
  frameCapacity,  (* of every queue                                         *)
  line,       (* link: the packet on the wire, and the queue behind it      *)
  sent,       (* number of packets sent                                     *)
  delivered,  (* packets a node has delivered to its transport layer        *)
  dropped,    (* packets dropped by a queue                                 *)
  unroutable, (* packets IP dropped                                         *)
  startTrace, (* nodes whose trace has started                              *)
  trace,      (* counters of the current interval                           *)
  packets,    (* counters of the whole run                                  *)
  unwritten,  (* the counters that the start of the trace has reset         *)
  written     (* sum of the counters of the past intervals                  *)

vars == <<frameCapacity, line, sent, delivered, dropped, unroutable,
          startTrace, trace, packets, unwritten, written>>
counters == <<startTrace, trace, packets, unwritten, written>>

Protocols == {"ICMP", "TCP", "UDP"}
Packet == [id : 1..MaxPackets, from : Hosts, to : Hosts, src : Nat, dest : Nat,
           protocol : Protocols, ttl : Nat]

Counters == {"total"} \cup Protocols
Zero == [c \in Counters |-> 0]

(* The queues, and the links they are for.                                 *)
initializeQueues ==
  frameCapacity \in Capacities /\ line = [l \in Links |-> <<>>]

Init ==
  /\ initializeQueues /\ sent = 0
  /\ delivered = [n \in Nodes |-> <<>>] /\ dropped = {} /\ unroutable = {}
  /\ startTrace = {}
  /\ trace = [n \in Traced |-> Zero] /\ packets = trace
  /\ unwritten = trace /\ written = trace

full(queue) == frameCapacity > 0 /\ Len(queue) >= frameCapacity

(* A packet for link l: sent if the link is idle, else queued or dropped.  *)
enqueue(lines, l, p) ==
  IF lines[l] # <<>> /\ full(Tail(lines[l]))
  THEN /\ dropped' = dropped \cup {p} /\ line' = lines
  ELSE /\ line' = [lines EXCEPT ![l] = Append(@, p)] /\ UNCHANGED dropped

(* routePacket: delivered here, dropped, or to the interface of the route; *)
(* end systems do not forward.                                             *)
routePacket(lines, n, p, fromHL) ==
  LET interface == getInterfaceForDestAddr(n, p.dest) IN
  \/ /\ p.dest = addr[n]
     /\ delivered' = [delivered EXCEPT ![n] = Append(@, p)]
     /\ line' = lines
     /\ UNCHANGED <<dropped, unroutable>>
  \/ /\ p.dest # addr[n]
     /\ interface = NONE \/ p.ttl = 0 \/ (~fromHL /\ routerType[n] = "ENDSYS")
     /\ unroutable' = unroutable \cup {p}
     /\ line' = lines
     /\ UNCHANGED <<delivered, dropped>>
  \/ /\ p.dest # addr[n]
     /\ interface # NONE /\ p.ttl > 0 /\ (fromHL \/ routerType[n] # "ENDSYS")
     /\ enqueue(lines, <<n, interface>>, p)
     /\ UNCHANGED <<delivered, unroutable>>

(* Fault: packets are numbered from 0.                                     *)
datagram_Zero(from, to) ==
  [id |-> sent, from |-> from, to |-> to, src |-> addr[from], dest |-> addr[to],
   protocol |-> protocolOf[from], ttl |-> HopLimit]

(* encapsulate.                                                            *)
datagram(from, to) ==
  [id |-> sent + 1, from |-> from, to |-> to, src |-> addr[from], dest |-> addr[to],
   protocol |-> protocolOf[from], ttl |-> HopLimit]

(* handleMessageFromHL.                                                    *)
handleMessageFromHL(h) ==
  /\ sent < MaxPackets /\ sent' = sent + 1
  /\ \E to \in Hosts \ {h} : routePacket(line, h, datagram(h, to), TRUE)
  /\ UNCHANGED <<frameCapacity, counters>>

count(c, protocol) == [c EXCEPT !.total = @ + 1, ![protocol] = @ + 1]

(* Fault: the link sends its last packet first.                            *)
dequeue_Last(queue) ==
  IF Len(queue) < 3 THEN Tail(queue)
  ELSE <<queue[Len(queue)]>> \o SubSeq(queue, 2, Len(queue) - 1)

(* dequeue, when the packet on the wire has gone.                          *)
dequeue(queue) == Tail(queue)

(* Fault: what a router does not trace it does not route either.           *)
handlePacketFromNetwork_Lost(l) ==
  /\ line[l] # <<>>
  /\ LET n == l[2]
         p == [Head(line[l]) EXCEPT !.ttl = @ - 1]
     IN  IF n \in Traced \/ routerType[n] = "ENDSYS"
         THEN /\ routePacket([line EXCEPT ![l] = dequeue(@)], n, p, FALSE)
              /\ trace' = trace /\ packets' = packets
         ELSE /\ line' = [line EXCEPT ![l] = dequeue(@)]
              /\ UNCHANGED <<delivered, dropped, unroutable, trace, packets>>
  /\ UNCHANGED <<frameCapacity, sent, startTrace, unwritten, written>>

(* handlePacketFromNetwork: link l ends a transmission.                    *)
handlePacketFromNetwork(l) ==
  /\ line[l] # <<>>
  /\ LET n == l[2]
         p == [Head(line[l]) EXCEPT !.ttl = @ - 1]
     IN  /\ routePacket([line EXCEPT ![l] = dequeue(@)], n, p, FALSE)
         /\ IF n \in Traced
            THEN /\ trace' = [trace EXCEPT ![n] = count(@, p.protocol)]
                 /\ packets' = [packets EXCEPT ![n] = count(@, p.protocol)]
            ELSE UNCHANGED <<trace, packets>>
  /\ UNCHANGED <<frameCapacity, sent, startTrace, unwritten, written>>

(* Fault: the counters go on.                                              *)
nextInterval_Keep(c) == c

nextInterval(c) == Zero

(* handleMessage: the trace timer.  The first one only starts the trace    *)
(* and writes nothing; intervals without a packet are left out.            *)
traceOut(n) ==
  /\ trace[n] # Zero \/ n \notin startTrace
  /\ startTrace' = startTrace \cup {n}
  /\ LET add(sum) == [sum EXCEPT ![n] = [c \in Counters |-> @[c] + trace[n][c]]] IN
     \/ n \in startTrace /\ written' = add(written) /\ UNCHANGED unwritten
     \/ n \notin startTrace /\ unwritten' = add(unwritten) /\ UNCHANGED written
  /\ trace' = [trace EXCEPT ![n] = nextInterval(@)]
  /\ UNCHANGED <<frameCapacity, line, sent, delivered, dropped, unroutable, packets>>

Next ==
  \/ \E h \in Hosts : handleMessageFromHL(h)
  \/ \E l \in Links : handlePacketFromNetwork(l)
  \/ \E n \in Traced : traceOut(n)

Spec == Init /\ [][Next]_vars

(* The kernel handles the end of every transmission.                       *)
FairSpec == Spec /\ WF_vars(\E l \in Links : handlePacketFromNetwork(l))

-----------------------------------------------------------------------------
(* Properties.                                                             *)

TypeOK ==
  /\ frameCapacity \in Capacities /\ sent \in 0..MaxPackets
  /\ \A l \in Links : \A i \in DOMAIN line[l] : line[l][i] \in Packet
  /\ dropped \subseteq Packet /\ unroutable \subseteq Packet
  /\ startTrace \subseteq Traced
  /\ trace \in [Traced -> [Counters -> Nat]]

SameAS(p) == ASOf[p.from] = ASOf[p.to]

(* TGMNetworkConfigurator.cc:290-389: default routes and host routes fit   *)
(* together: between nodes of a system no packet is unroutable or runs in  *)
(* a circle until its time to live ends.                                   *)
IntraASRoutes == \A p \in unroutable : ~SameAS(p)

(* TGMNetworkConfigurator.cc:212-223,290-311: the numbering of prefixes    *)
(* and nodes gives no two nodes the same address: a packet only reaches    *)
(* the node it is for.                                                     *)
DeliveredToAddressee ==
  \A n \in Nodes : \A i \in DOMAIN delivered[n] : delivered[n][i].to = n

(* IP_hack.cc:65-101,233-255: every packet after the start of the trace is *)
(* in exactly one interval, and in the counter of its protocol.            *)
TraceAddsUp ==
  \A n \in Traced :
    /\ \A c \in Counters : packets[n][c] = unwritten[n][c] + written[n][c] + trace[n][c]
    /\ packets[n].total = packets[n].ICMP + packets[n].TCP + packets[n].UDP

(* DropTailTraceQueue.cc:42-70: static routes and FIFO queues: packets     *)
(* between two nodes never overtake.  The TCP of these hosts is modelled   *)
(* on a network that does not reorder.                                     *)
InOrder ==
  \A n \in Nodes : \A i, j \in DOMAIN delivered[n] :
    i < j /\ delivered[n][i].from = delivered[n][j].from =>
      delivered[n][i].id < delivered[n][j].id

(* IP_hack.cc:233-334: no packet stays in a queue for ever or is lost      *)
(* without a trace: in the end it was delivered, dropped by a full queue,  *)
(* or found no route.  (IntraASRoutes: within its system it finds one.)    *)
Arrives ==
  \A k \in 1..MaxPackets : (sent >= k) ~>
    \/ \E p \in dropped \cup unroutable : p.id = k
    \/ \E n \in Nodes : \E i \in DOMAIN delivered[n] : delivered[n][i].id = k

(* TGMNetworkConfigurator.cc:90-96: "Calculate all Inter-AS. This is       *)
(* achieved by calculating all shortest paths between all core routers of  *)
(* the whole topology": packets between systems find their way.            *)
InterASRoutes == \A p \in unroutable : SameAS(p)
=============================================================================
