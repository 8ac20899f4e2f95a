------------------------------- MODULE UDPApp -------------------------------
(***************************************************************************)
(* src/applications/udpApp: GenericUDPApplication with its client and      *)
(* server threads, on top of UDP_hack (src/transport/udp).                 *)
(*                                                                         *)
(* Every application has a welcome socket and a map from sockets to the    *)
(* threads that use them.  A client thread sends a session's requests, in  *)
(* fragments, on a static timer; the fragment with number 1 starts a       *)
(* server thread at the other side.  The network may lose and reorder      *)
(* packets, or bounce one as an ICMP error to the socket that sent it.     *)
(* Every thread always has one timer pending, which may fire at any time.  *)
(***************************************************************************)
EXTENDS Integers, FiniteSets

CONSTANTS
  Clients, Server,   (* one application each                               *)
  Sockets,           (* bound: the socket identifiers                      *)
  MaxThreads,        (* noThreads of the server                            *)
  Fragments,         (* packetsPerRequest                                  *)
  RequestsPerSession,   (* the values this profile entry takes             *)
  MaxReplies,        (* bound: replies to a request                        *)
  MaxPackets,        (* bound: packets under way, the rest are lost        *)
  NULL

Apps == Clients \cup {Server}

ASSUME UDPAppAssumption ==
  /\ Server \notin Clients /\ IsFiniteSet(Sockets)
  /\ {MaxThreads, Fragments} \subseteq Nat \ {0}
  /\ {MaxReplies, MaxPackets} \subseteq Nat /\ RequestsPerSession \subseteq Nat

VARIABLES
  thread,       (* threadMap of all applications: the thread of a socket   *)
  endpoint,     (* the sockets the UDP layer knows: whose, to whom, role   *)
  welcome,      (* is mySocket bound?                                      *)
  threadCount,
  busy,         (* clients whose InetUser waits for transmissionDone       *)
  net,          (* packets under way                                       *)
  aborted       (* opp_error has ended the simulation                      *)

vars == <<thread, endpoint, welcome, threadCount, busy, net, aborted>>

Endpoint == [app : Apps, peer : Apps, isServer : BOOLEAN]

Thread ==
  [app : Apps, peer : Apps, isServer : BOOLEAN,
   state : {"CONNECTED", "DISCONNECTED", "FINISH"}, left : Int, sent : Nat]

(* number is packetNumber; isReply tells the two message names apart, tag  *)
(* the requests of a session.                                              *)
Packet ==
  [from : Apps, to : Apps, isReply : BOOLEAN, number : Nat, replies : Nat, tag : Int]

ASSUME NullAssumption == NULL \notin Thread \cup Endpoint

(* A server limits its threads, a host (noThreads not read) does not.      *)
maxThreadCount(a, n) == a = Server /\ n = MaxThreads

FreeSocket(s) == thread[s] = NULL /\ endpoint[s] = NULL

Init ==
  /\ thread = [s \in Sockets |-> NULL] /\ endpoint = [s \in Sockets |-> NULL]
  /\ welcome = [a \in Apps |-> TRUE] /\ threadCount = [a \in Apps |-> 0]
  /\ busy = {} /\ net = {} /\ aborted = FALSE

(* A new client thread, its first request not yet sent.                    *)
startThread(c, threads, endpoints) ==
  \E s \in Sockets, requests \in RequestsPerSession :
    /\ FreeSocket(s)
    /\ endpoint' = [endpoints EXCEPT ![s] =
         [app |-> c, peer |-> Server, isServer |-> FALSE]]
    /\ thread' = [threads EXCEPT ![s] =
         [app |-> c, peer |-> Server, isServer |-> FALSE,
          state |-> "CONNECTED", left |-> requests, sent |-> 0]]

(* InetUser, idle or done with another application, asks for a             *)
(* transmission; only servers register as targets.                         *)
transmissionStart(c) ==
  /\ c \notin busy
  /\ startThread(c, thread, endpoint)
  /\ threadCount' = [threadCount EXCEPT ![c] = @ + 1]
  /\ busy' = busy \cup {c}
  /\ UNCHANGED <<welcome, net, aborted>>

(* Fault: the welcome socket stays closed after an overload.               *)
rebind_Never(a) == UNCHANGED welcome

(* Fault: every thread that ends reopens it.                               *)
rebind_Always(a) == welcome' = [welcome EXCEPT ![a] = TRUE]

(* removeThread reopens the welcome socket when the limit is just left.    *)
rebind(a) ==
  welcome' = IF maxThreadCount(a, threadCount[a])
             THEN [welcome EXCEPT ![a] = TRUE] ELSE welcome

(* removeThread of a server thread; sockets is what the UDP layer knows    *)
(* when it is called.                                                      *)
removeThread(s, sockets) ==
  /\ thread' = [thread EXCEPT ![s] = NULL] /\ endpoint' = sockets
  /\ threadCount' = [threadCount EXCEPT ![thread[s].app] = @ - 1]
  /\ rebind(thread[s].app)
  /\ UNCHANGED busy

(* Fault: InetUser is not told that the transmission is over.              *)
transmissionDone_Lost(s, sockets) == removeThread(s, sockets)

(* removeThread of a client thread tells InetUser, which at once turns to  *)
(* another application (or has no port) or starts the next thread here.    *)
transmissionDone(s, sockets) ==
  \/ /\ thread' = [thread EXCEPT ![s] = NULL] /\ endpoint' = sockets
     /\ threadCount' = [threadCount EXCEPT ![thread[s].app] = @ - 1]
     /\ rebind(thread[s].app)
     /\ busy' = busy \ {thread[s].app}
  \/ /\ startThread(thread[s].app, [thread EXCEPT ![s] = NULL], sockets)
     /\ rebind(thread[s].app)
     /\ UNCHANGED <<threadCount, busy>>

(* socket->send: the network may lose any of the packets.                  *)
transmit(packets) ==
  \E kept \in SUBSET packets :
    /\ Cardinality(net \cup kept) <= MaxPackets
    /\ net' = net \cup kept

(* sendRequest: all fragments of one request, numbered down to 1.          *)
sendRequest(s) ==
  LET t == thread[s] IN
  /\ thread' = [thread EXCEPT
       ![s].left = @ - 1,
       ![s].state = IF t.left - 1 <= 0 THEN "DISCONNECTED" ELSE @]
  /\ \E r \in 0..MaxReplies :
       transmit({[from |-> t.app, to |-> t.peer, isReply |-> FALSE, number |-> i,
                  replies |-> r, tag |-> t.left] : i \in 1..Fragments})

(* Fault: after the last request no timer is set.                          *)
clientTimer_NoSchedule(s) ==
  /\ thread[s] # NULL /\ ~thread[s].isServer /\ thread[s].state = "CONNECTED"
  /\ sendRequest(s)
  /\ UNCHANGED <<endpoint, welcome, threadCount, busy, aborted>>

(* timerExpired of a client thread.                                        *)
clientTimer(s) ==
  /\ thread[s] # NULL /\ ~thread[s].isServer
  /\ \/ /\ thread[s].state = "CONNECTED"
        /\ sendRequest(s)
        /\ UNCHANGED <<endpoint, welcome, threadCount, busy>>
     \/ /\ thread[s].state = "DISCONNECTED"
        /\ thread' = [thread EXCEPT ![s].state = "FINISH"]
        /\ UNCHANGED <<endpoint, welcome, threadCount, busy, net>>
     \/ /\ thread[s].state = "FINISH"
        /\ transmissionDone(s, [endpoint EXCEPT ![s] = NULL])
        /\ UNCHANGED net
  /\ UNCHANGED aborted

(* sendReply: numbered on from the request, never marked as the last one.  *)
sendReply(s) ==
  LET t == thread[s] IN
  /\ thread' = [thread EXCEPT
       ![s].left = @ - 1, ![s].sent = @ + 1,
       ![s].state = IF t.left - 1 <= 0 THEN "DISCONNECTED" ELSE @]
  /\ transmit({[from |-> t.app, to |-> t.peer, isReply |-> TRUE,
                number |-> t.sent + 1, replies |-> 0, tag |-> t.left]})

(* timerExpired of a server thread.                                        *)
serverTimer(s) ==
  /\ thread[s] # NULL /\ thread[s].isServer
  /\ \/ /\ thread[s].state = "CONNECTED"
        /\ sendReply(s)
        /\ UNCHANGED <<endpoint, welcome, threadCount, busy>>
     \/ /\ thread[s].state = "DISCONNECTED"
        /\ removeThread(s, [endpoint EXCEPT ![s] = NULL])
        /\ UNCHANGED net
  /\ UNCHANGED aborted

(* Fault: the server thread numbers its replies from 1.                    *)
newServerThread_Renumber(s, p) ==
  [thread EXCEPT ![s] =
     [app |-> p.to, peer |-> p.from, isServer |-> TRUE,
      state |-> "CONNECTED", left |-> p.replies, sent |-> 0]]

(* socketDatagramArrived of a new server thread.                           *)
newServerThread(s, p) ==
  [thread EXCEPT ![s] =
     [app |-> p.to, peer |-> p.from, isServer |-> TRUE,
      state |-> "CONNECTED", left |-> p.replies, sent |-> p.number]]

(* A socket of the application takes the packet: a request goes to the     *)
(* server's port, a reply to the client thread's.                          *)
Reachable(p) ==
  \/ ~p.isReply /\ welcome[p.to]
  \/ \E s \in Sockets :
       endpoint[s] = [app |-> p.to, peer |-> p.from, isServer |-> ~p.isReply]

(* Fault: the new thread is not counted.                                   *)
startServer_NotCounted(p) ==
  /\ Reachable(p) /\ p.number = 1
  /\ \E s \in Sockets :
       /\ FreeSocket(s)
       /\ endpoint' = [endpoint EXCEPT ![s] =
            [app |-> p.to, peer |-> p.from, isServer |-> TRUE]]
       /\ thread' = newServerThread(s, p)
  /\ net' = net \ {p}
  /\ UNCHANGED <<welcome, threadCount, busy, aborted>>

(* handleMessage: packet number 1 starts a server thread.                  *)
startServer(p) ==
  /\ Reachable(p) /\ p.number = 1
  /\ \E s \in Sockets :
       /\ FreeSocket(s)
       /\ endpoint' = [endpoint EXCEPT ![s] =
            [app |-> p.to, peer |-> p.from, isServer |-> TRUE]]
       /\ thread' = newServerThread(s, p)
  /\ threadCount' = [threadCount EXCEPT ![p.to] = @ + 1]
  /\ welcome' = IF maxThreadCount(p.to, threadCount[p.to] + 1)
                THEN [welcome EXCEPT ![p.to] = FALSE] ELSE welcome
  /\ net' = net \ {p}
  /\ UNCHANGED <<busy, aborted>>

(* A packet of an application that no socket takes is silently discarded.  *)
processUndeliverablePacket(p) ==
  /\ ~Reachable(p)
  /\ net' = net \ {p}
  /\ UNCHANGED <<thread, endpoint, welcome, threadCount, busy, aborted>>

(* The packet is lost on its way, or handleMessage discards it because of  *)
(* its number.                                                             *)
discard(p) ==
  /\ net' = net \ {p}
  /\ UNCHANGED <<thread, endpoint, welcome, threadCount, busy, aborted>>

(* UDP_I_ERROR for a socket the UDP layer knows.  The thread is removed,   *)
(* its socket is deleted but not closed.                                   *)
errorArrives(p) ==
  \E s \in Sockets :
    /\ endpoint[s] = [app |-> p.from, peer |-> p.to, isServer |-> p.isReply]
    /\ net' = net \ {p}
    /\ \/ /\ thread[s] # NULL
          /\ \/ thread[s].isServer /\ removeThread(s, endpoint)
             \/ ~thread[s].isServer /\ transmissionDone(s, endpoint)
          /\ UNCHANGED aborted
       \/ /\ thread[s] = NULL
          /\ aborted' = TRUE
          /\ UNCHANGED <<thread, endpoint, welcome, threadCount, busy>>

Network ==
  \E p \in net : \/ startServer(p) \/ discard(p)
                 \/ processUndeliverablePacket(p) \/ errorArrives(p)

Next ==
  /\ ~aborted
  /\ \/ \E c \in Clients : transmissionStart(c)
     \/ \E s \in Sockets : clientTimer(s) \/ serverTimer(s)
     \/ Network

Spec == Init /\ [][Next]_vars

(* Timers fire; nothing is assumed of the network and of InetUser.         *)
Fairness ==
  \A s \in Sockets : /\ WF_vars(~aborted /\ clientTimer(s))
                     /\ WF_vars(~aborted /\ serverTimer(s))

FairSpec == Spec /\ Fairness

-----------------------------------------------------------------------------
(* Properties.                                                             *)

ThreadsOf(a) == {s \in Sockets : thread[s] # NULL /\ thread[s].app = a}

TypeOK ==
  /\ thread \in [Sockets -> Thread \cup {NULL}]
  /\ endpoint \in [Sockets -> Endpoint \cup {NULL}]
  /\ welcome \in [Apps -> BOOLEAN] /\ threadCount \in [Apps -> Nat]
  /\ busy \subseteq Clients /\ net \subseteq Packet /\ aborted \in BOOLEAN

(* GenericUDPApplication.cc:94-101,305-316: whatever ended the threads -   *)
(* timers or errors - the counter is the number of threads and the welcome *)
(* socket is closed exactly while the server is overloaded.                *)
Admission ==
  \A a \in Apps :
    /\ threadCount[a] = Cardinality(ThreadsOf(a))
    /\ welcome[a] <=> (a = Server => threadCount[a] < MaxThreads)

(* GenericUDPApplication.cc:112-122: InetUser waits for a client exactly   *)
(* while that client has its one client thread.                            *)
OneThreadPerTransmission ==
  \A c \in Clients :
    LET own == {s \in ThreadsOf(c) : ~thread[s].isServer}
    IN  Cardinality(own) = IF c \in busy THEN 1 ELSE 0

(* GenericUDPApplication.cc:274-275: "the server must not number the reply *)
(* (otherwise the client will start a new server and so on...)": whatever  *)
(* a reply meets, its arrival starts no thread.                            *)
RepliesStartNothing ==
  [][\A p \in net : p.isReply => ~startServer(p)]_vars

(* GenericUDPApplicationClientThread.cc:88-108: whatever the network loses *)
(* or sends back as an error, every client thread ends and InetUser is     *)
(* told, unless the simulation is aborted.                                 *)
TransmissionDone ==
  \A s \in Sockets :
    (thread[s] # NULL /\ ~thread[s].isServer) ~> (thread[s] = NULL \/ aborted)

(* GenericUDPApplication.cc:276-316: packets that reach a server thread's  *)
(* own socket pass the closed welcome socket, so the limit can be exceeded *)
(* by clients the server knows, but by no other.                           *)
Known(c) ==
  \E s \in Sockets : endpoint[s] = [app |-> Server, peer |-> c, isServer |-> TRUE]

StrangersTurnedAway ==
  [][\A c \in Clients :
       threadCount[Server] >= MaxThreads /\ ~Known(c) => ~Known(c)']_vars
=============================================================================
