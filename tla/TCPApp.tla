------------------------------- MODULE TCPApp -------------------------------
(***************************************************************************)
(* src/applications/tcpApp: GenericTCPApplication with its client and      *)
(* server threads, on top of TCP_hack (src/transport/tcp), which limits    *)
(* the connections a server host accepts.                                  *)
(*                                                                         *)
(* A connection has a client end "c" and a server end "s".  A step takes   *)
(* one segment or one timer and runs to completion: the state machine, the *)
(* callback of the thread, its commands and the segments they send         *)
(* (messages within a host take no simulated time).  Segments may be       *)
(* delayed for any time, so the timeouts of TCP may fire at any time while *)
(* a connection is set up.                                                 *)
(***************************************************************************)
EXTENDS TCPConnection, FiniteSets

CONSTANTS
  Clients,            (* client applications; there is one server           *)
  Conns,              (* bound: connections at a time                       *)
  MaxThreads,         (* noThreads of the server application                *)
  MaxConnections,     (* the values of TCP_hack's parameter; 0: no limit    *)
  RequestsPerSession, (* the values this profile entry takes                *)
  ReplyLengths,       (* the values it is drawn from for each request; 0 asks *)
                      (* for no reply                                       *)
  NULL

ASSUME TCPAppAssumption ==
  /\ IsFiniteSet(Conns) /\ NULL \notin Clients
  /\ MaxThreads \in Nat \ {0} /\ MaxConnections \subseteq Nat
  /\ RequestsPerSession \subseteq Nat /\ ReplyLengths \subseteq Nat

VARIABLES
  tcp,          (* state of both ends of a connection                      *)
  wire,         (* segments on their way to an end                         *)
  client,       (* client thread of a connection                           *)
  server,       (* server thread of a connection                           *)
  threadCount,  (* of the server application                               *)
  maxThreadCount,          (* of the server's TCP_hack                     *)
  currentConnectionCount,  (* of the server's TCP_hack                     *)
  killed,       (* connections closed at the limit; only properties read it *)
  aborted       (* opp_error has ended the simulation                      *)

vars == <<tcp, wire, client, server, threadCount, maxThreadCount,
          currentConnectionCount, killed, aborted>>

Ends == {"c", "s"}
Other(e) == IF e = "c" THEN "s" ELSE "c"

(* A request says whether it is the last one, whether its reply is to be   *)
(* delayed (timeToRespond) and whether its replyLength is 0; other segments *)
(* and replies say none of it.                                             *)
Segment == [kind : {"SYN", "SYN_ACK", "ACK", "DATA", "FIN", "FIN_ACKED", "RST"},
            last : BOOLEAN, delayed : BOOLEAN, empty : BOOLEAN]
Plain(kind) == [kind |-> kind, last |-> FALSE, delayed |-> FALSE, empty |-> FALSE]
Reply == Plain("DATA")

SocketStates == {"NOT_BOUND", "CONNECTED", "PEER_CLOSED", "LOCALLY_CLOSED", "CLOSED"}

(* empty: the last request asks for no reply; only properties read it.     *)
ClientThread ==
  [app : Clients, state : {"WAITING", "CONNECTED", "DISCONNECTED", "FINISH"},
   left : Nat, sent : Nat, received : Nat, delayed : BOOLEAN, empty : BOOLEAN,
   timer : BOOLEAN, socket : SocketStates]

ServerThread ==
  [doClose : BOOLEAN, replies : Nat, timer : BOOLEAN, socket : SocketStates]

ASSUME NullAssumption == NULL \notin ClientThread \cup ServerThread

(* TCP_hack of the server.                                                 *)
initializeTCP == maxThreadCount \in MaxConnections /\ currentConnectionCount = 0

Init ==
  /\ tcp = [k \in Conns |-> [e \in Ends |-> "CLOSED"]]
  /\ wire = [k \in Conns |-> [e \in Ends |-> <<>>]]
  /\ client = [k \in Conns |-> NULL] /\ server = [k \in Conns |-> NULL]
  /\ initializeTCP /\ threadCount = 0
  /\ killed = {} /\ aborted = FALSE

-----------------------------------------------------------------------------
(* TCPSocket.                                                              *)

closedSocket(s) ==
  IF s \in {"CONNECTED", "LOCALLY_CLOSED"} THEN "LOCALLY_CLOSED" ELSE "CLOSED"
peerClosedSocket(s) == IF s = "CONNECTED" THEN "PEER_CLOSED" ELSE "CLOSED"

(* Fault: a socket that the peer has closed is not closed here.            *)
closing_Half(s) == IF s = "CONNECTED" THEN {"CLOSE"} ELSE {}

(* The threads close a socket unless they have already closed it.          *)
closing(s) == IF s = "LOCALLY_CLOSED" THEN {} ELSE {"CLOSE"}

(* TCP_hack.                                                               *)

acceptAnotherConnection ==
  maxThreadCount > 0 => maxThreadCount > currentConnectionCount

(* Fault: a deleted connection goes on counting.                           *)
canceledHalfOpenConnection_Kept(before, after) ==
  UNCHANGED currentConnectionCount

(* The destructor of a worker of the server host.                          *)
canceledHalfOpenConnection(before, after) ==
  currentConnectionCount' =
    IF before # "CLOSED" /\ after = "CLOSED" /\ currentConnectionCount > 0
    THEN currentConnectionCount - 1 ELSE currentConnectionCount

(* End e of k is in state s, has taken what inbox no longer holds, and     *)
(* answers; then its application SENDs data, CLOSEs, or both.              *)
proceed(k, e, s, inbox, answer, commands, data) ==
  LET sends == IF "SEND" \in commands /\ command(s, "SEND") # <<>> THEN <<data>> ELSE <<>>
      closes == IF "CLOSE" \in commands THEN command(s, "CLOSE") ELSE <<>>
      end == IF closes = <<>> THEN s ELSE performStateTransition(s, "CLOSE")
      out == [i \in DOMAIN answer |-> Plain(answer[i])] \o sends
             \o [i \in DOMAIN closes |-> Plain(closes[i])]
  IN  /\ tcp' = [tcp EXCEPT ![k][e] = end]
      /\ wire' = [wire EXCEPT ![k] =
           [d \in Ends |-> IF d = e THEN inbox ELSE @[d] \o out]]
      /\ IF e = "s" THEN canceledHalfOpenConnection(tcp[k].s, end)
                    ELSE UNCHANGED currentConnectionCount

(* The end takes its next segment.                                         *)
arrive(k, e, commands, data) ==
  LET segment == Head(wire[k][e])
      s == performStateTransition(tcp[k][e], eventOf(tcp[k][e], segment.kind))
  IN  proceed(k, e, s, Tail(wire[k][e]), response(tcp[k][e], segment.kind),
              commands, data)

(* The application acts on its own.                                        *)
act(k, e, commands, data) ==
  proceed(k, e, tcp[k][e], wire[k][e], <<>>, commands, data)

-----------------------------------------------------------------------------
(* Client.                                                                 *)

(* Both ends have forgotten the connection.                                *)
FreeConns ==
  {k \in Conns : /\ client[k] = NULL /\ server[k] = NULL
                 /\ \A e \in Ends : tcp[k][e] = "CLOSED" /\ wire[k][e] = <<>>}

newClientThread(a, requests, delayed) ==
  [app |-> a, state |-> "WAITING", left |-> requests, sent |-> 0, received |-> 0,
   delayed |-> delayed, empty |-> FALSE, timer |-> TRUE, socket |-> "NOT_BOUND"]

(* InetUser starts a transmission: a client has one at a time.             *)
transmissionStart(a) ==
  /\ \A k \in Conns : client[k] # NULL => client[k].app # a
  /\ \E k \in FreeConns, requests \in RequestsPerSession, delayed \in BOOLEAN :
       /\ client' = [client EXCEPT ![k] = newClientThread(a, requests, delayed)]
       /\ killed' = killed \ {k}
  /\ UNCHANGED <<tcp, wire, server, threadCount, currentConnectionCount, aborted>>

(* Fault: the session ends one request early.                              *)
afterRequest_Early(t, length) ==
  [t EXCEPT !.left = @ - 1, !.sent = @ + 1, !.empty = length = 0,
            !.state = IF t.left - 1 <= 1 THEN "DISCONNECTED" ELSE @]

(* sendRequest, length being the reply length it draws: the thread         *)
(* afterwards...                                                           *)
afterRequest(t, length) ==
  [t EXCEPT !.left = @ - 1, !.sent = @ + 1, !.empty = length = 0,
            !.state = IF t.left - 1 <= 0 THEN "DISCONNECTED" ELSE @]
(* Fault: the last request does not say so.                                *)
request_NotLast(t, length) ==
  [kind |-> "DATA", last |-> FALSE, delayed |-> t.delayed, empty |-> length = 0]

(* ... and the request.                                                    *)
request(t, length) ==
  [kind |-> "DATA", last |-> afterRequest(t, length).state = "DISCONNECTED",
   delayed |-> t.delayed, empty |-> length = 0]

(* timerExpired of a client thread.                                        *)
clientTimer(k) ==
  LET t == client[k] IN
  /\ t # NULL /\ t.timer
  /\ \/ /\ t.state = "WAITING"
        /\ tcp' = [tcp EXCEPT ![k].c = "SYN_SENT"]
        /\ wire' = [wire EXCEPT ![k].s = Append(@, Plain("SYN"))]
        /\ client' = [client EXCEPT ![k].timer = FALSE]
        /\ UNCHANGED <<currentConnectionCount, aborted>>
     \/ /\ t.state = "CONNECTED"
        /\ \E length \in ReplyLengths :
             /\ client' = [client EXCEPT ![k] = [afterRequest(t, length) EXCEPT !.timer = FALSE]]
             /\ act(k, "c", {"SEND"}, request(t, length))
        /\ UNCHANGED aborted
     \/ /\ t.state = "DISCONNECTED"
        /\ client' = [client EXCEPT ![k].timer = FALSE, ![k].socket = closedSocket(@)]
        /\ act(k, "c", closing(t.socket), NULL)
        /\ aborted' = (t.socket = "CLOSED")
     \/ /\ t.state = "FINISH"
        /\ client' = [client EXCEPT ![k] = NULL]
        /\ UNCHANGED <<tcp, wire, currentConnectionCount, aborted>>
  /\ UNCHANGED <<server, threadCount, killed>>

(* Fault: a session of no requests is not corrected.                       *)
socketEstablished_None(t) == [t EXCEPT !.state = "CONNECTED", !.socket = "CONNECTED"]

(* socketEstablished: at least one request.                                *)
socketEstablished(t) ==
  [t EXCEPT !.left = IF @ < 1 THEN 1 ELSE @, !.state = "CONNECTED", !.socket = "CONNECTED"]

(* A segment reaches the client's end; what TCP indicates goes to the      *)
(* thread of the socket.  A timer is never set twice.                      *)
clientReceives(k) ==
  /\ wire[k].c # <<>>
  /\ LET t == client[k]
         told == indication(tcp[k].c, Head(wire[k].c).kind)
         e == socketEstablished(t)
     IN  \/ /\ told = "NONE"
            /\ arrive(k, "c", {}, NULL)
            /\ UNCHANGED <<client, aborted>>
         \/ /\ told # "NONE" /\ t = NULL
            /\ arrive(k, "c", {}, NULL)
            /\ aborted' = TRUE
            /\ UNCHANGED client
         \/ /\ told = "ESTABLISHED" /\ t # NULL
            /\ \E length \in ReplyLengths :
                 /\ client' = [client EXCEPT ![k] = afterRequest(e, length)]
                 /\ arrive(k, "c", {"SEND"}, request(e, length))
            /\ UNCHANGED aborted
         \/ /\ told = "DATA" /\ t # NULL
            /\ client' = [client EXCEPT ![k].received = @ + 1, ![k].timer = TRUE]
            /\ arrive(k, "c", {}, NULL)
            /\ aborted' = t.timer
         \/ /\ told = "PEER_CLOSED" /\ t # NULL
            /\ client' = [client EXCEPT ![k].socket = peerClosedSocket(@)]
            /\ arrive(k, "c", {}, NULL)
            /\ UNCHANGED aborted
         \/ /\ told = "CLOSED" /\ t # NULL
            /\ client' = [client EXCEPT ![k].state = "FINISH", ![k].timer = TRUE,
                                        ![k].socket = "CLOSED"]
            /\ arrive(k, "c", {}, NULL)
            /\ UNCHANGED aborted
         \/ /\ told \in {"CONNECTION_REFUSED", "CONNECTION_RESET"} /\ t # NULL
            /\ client' = [client EXCEPT ![k] = NULL]
            /\ arrive(k, "c", {}, NULL)
            /\ UNCHANGED aborted
  /\ UNCHANGED <<server, threadCount, killed>>

(* TCP sends the SYN again as long as nothing answers it, and gives up.    *)
connectTimers(k) ==
  /\ tcp[k].c = "SYN_SENT"
  /\ \/ /\ tcp[k].s = "CLOSED" /\ wire[k] = [e \in Ends |-> <<>>]
        /\ wire' = [wire EXCEPT ![k].s = <<Plain("SYN")>>]
        /\ UNCHANGED <<tcp, client, currentConnectionCount>>
     \/ /\ proceed(k, "c", performStateTransition("SYN_SENT", "TIMEOUT_CONN_ESTAB"),
                   wire[k].c, <<>>, {}, NULL)
        /\ client' = [client EXCEPT ![k] = NULL]
  /\ UNCHANGED <<server, threadCount, killed, aborted>>

-----------------------------------------------------------------------------
(* Server.                                                                 *)

(* processSegmentInListen: the listening connection is always there; it    *)
(* forks a worker for a SYN, ignores it at the limit, and resets whatever  *)
(* belongs to no connection.                                               *)
listen(k) ==
  /\ tcp[k].s = "CLOSED" /\ wire[k].s # <<>>
  /\ \/ /\ Head(wire[k].s).kind = "SYN" /\ acceptAnotherConnection
        /\ currentConnectionCount' = currentConnectionCount + 1
        /\ tcp' = [tcp EXCEPT ![k].s = performStateTransition("LISTEN", "RCV_SYN")]
        /\ wire' = [wire EXCEPT ![k].s = Tail(@), ![k].c = Append(@, Plain("SYN_ACK"))]
     \/ /\ Head(wire[k].s).kind = "SYN" /\ ~acceptAnotherConnection
        /\ wire' = [wire EXCEPT ![k].s = Tail(@)]
        /\ UNCHANGED <<tcp, currentConnectionCount>>
     \/ /\ Head(wire[k].s).kind # "SYN"
        /\ arrive(k, "s", {}, NULL)
  /\ UNCHANGED <<client, server, threadCount, killed, aborted>>

NewThread == [doClose |-> FALSE, replies |-> 0, timer |-> FALSE, socket |-> "CONNECTED"]

(* socketDataArrived of a server thread. Without a reply nothing is sent,  *)
(* no timer set and the socket left open, even after the last request.     *)
noReply(k, t, r) ==
  /\ server' = [server EXCEPT ![k] = [t EXCEPT !.doClose = r.last]]
  /\ arrive(k, "s", {}, NULL)
  /\ UNCHANGED aborted

(* Fault: a delayed reply is sent at once as well.                         *)
replyLater_Twice(k, t, r) ==
  /\ server' = [server EXCEPT ![k] =
       [t EXCEPT !.doClose = r.last, !.replies = @ + 1, !.timer = TRUE]]
  /\ arrive(k, "s", {"SEND"}, Reply)
  /\ aborted' = t.timer

(* Fault: the socket is closed before the delayed last reply.              *)
replyLater_CloseFirst(k, t, r) ==
  /\ server' = [server EXCEPT ![k] =
       [t EXCEPT !.doClose = r.last, !.replies = @ + 1, !.timer = TRUE,
                 !.socket = IF r.last THEN closedSocket(@) ELSE @]]
  /\ arrive(k, "s", IF r.last THEN closing(t.socket) ELSE {}, NULL)
  /\ aborted' = t.timer

(* A delayed reply waits for the timer.                                    *)
replyLater(k, t, r) ==
  /\ server' = [server EXCEPT ![k] =
       [t EXCEPT !.doClose = r.last, !.replies = @ + 1, !.timer = TRUE]]
  /\ arrive(k, "s", {}, NULL)
  /\ aborted' = t.timer

(* A reply at once, and the socket closed after the last one.              *)
replyNow(k, t, r) ==
  /\ server' = [server EXCEPT ![k] =
       [t EXCEPT !.doClose = r.last,
                 !.socket = IF r.last THEN closedSocket(@) ELSE @]]
  /\ arrive(k, "s", {"SEND"} \cup IF r.last THEN closing(t.socket) ELSE {}, Reply)
  /\ aborted' = (r.last /\ t.socket = "CLOSED")

dataArrived(k, t, r) ==
  \/ r.empty /\ noReply(k, t, r)
  \/ ~r.empty /\ r.delayed /\ replyLater(k, t, r)
  \/ ~r.empty /\ ~r.delayed /\ replyNow(k, t, r)

(* removeThread of a server thread; threads is the count with it.          *)
removeThread(k, threads) ==
  /\ server' = [server EXCEPT ![k] = NULL] /\ threadCount' = threads - 1

(* The callbacks of a server thread; threads is the count with it.         *)
callback(k, t, told, threads) ==
  \/ /\ told = "ESTABLISHED"
     /\ server' = [server EXCEPT ![k] = t]
     /\ arrive(k, "s", {}, NULL)
     /\ threadCount' = threads
     /\ UNCHANGED aborted
  \/ /\ told = "DATA"
     /\ dataArrived(k, t, Head(wire[k].s))
     /\ threadCount' = threads
  \/ /\ told = "PEER_CLOSED"
     /\ server' = [server EXCEPT ![k] =
          [t EXCEPT !.doClose = TRUE, !.socket = peerClosedSocket(@)]]
     /\ arrive(k, "s", {}, NULL)
     /\ threadCount' = threads
     /\ UNCHANGED aborted
  \/ /\ told \in {"CLOSED", "CONNECTION_RESET"}
     /\ removeThread(k, threads)
     /\ arrive(k, "s", {}, NULL)
     /\ UNCHANGED aborted

(* Fault: one thread too many.                                             *)
overloaded_Late == threadCount > MaxThreads

(* The thread limit is hit.                                                *)
overloaded == threadCount >= MaxThreads

(* handleMessage of the server application: a message for an unknown       *)
(* socket starts a thread; at the limit the connection is closed instead.  *)
serverReceives(k) ==
  /\ tcp[k].s # "CLOSED" /\ wire[k].s # <<>>
  /\ LET told == indication(tcp[k].s, Head(wire[k].s).kind)
     IN  \/ /\ told = "NONE"
            /\ arrive(k, "s", {}, NULL)
            /\ UNCHANGED <<server, threadCount, killed, aborted>>
         \/ /\ told # "NONE" /\ server[k] = NULL /\ overloaded
            /\ arrive(k, "s", {"CLOSE"}, NULL)
            /\ killed' = killed \cup {k}
            /\ UNCHANGED <<server, threadCount, aborted>>
         \/ /\ told # "NONE" /\ server[k] = NULL /\ ~overloaded
            /\ callback(k, NewThread, told, threadCount + 1)
            /\ UNCHANGED killed
         \/ /\ told # "NONE" /\ server[k] # NULL
            /\ callback(k, server[k], told, threadCount)
            /\ UNCHANGED killed
  /\ UNCHANGED client

(* timerExpired of a server thread.                                        *)
serverTimer(k) ==
  LET t == server[k] IN
  /\ t # NULL /\ t.timer
  /\ server' = [server EXCEPT ![k] =
       [t EXCEPT !.timer = FALSE, !.replies = IF @ > 0 THEN @ - 1 ELSE @,
                 !.socket = IF t.doClose THEN closedSocket(@) ELSE @]]
  /\ act(k, "s", (IF t.replies > 0 THEN {"SEND"} ELSE {})
                 \cup (IF t.doClose THEN closing(t.socket) ELSE {}), Reply)
  /\ aborted' = (t.doClose /\ t.socket = "CLOSED")
  /\ UNCHANGED <<client, threadCount, killed>>

(* Timers of TCP: the handshake of a worker, and both ends after their FIN.*)
(* FIN_WAIT_2 takes ten minutes: it ends only what nobody else will.       *)
tcpTimers(k) ==
  /\ \/ /\ tcp[k].s = "SYN_RCVD"
        /\ proceed(k, "s", performStateTransition("SYN_RCVD", "TIMEOUT_CONN_ESTAB"),
                   wire[k].s, <<>>, {}, NULL)
     \/ \E e \in Ends :
          /\ tcp[k][e] = "TIME_WAIT"
          /\ proceed(k, e, performStateTransition("TIME_WAIT", "TIMEOUT_2MSL"),
                     wire[k][e], <<>>, {}, NULL)
     \/ \E e \in Ends :
          /\ tcp[k][e] = "FIN_WAIT_2" /\ wire[k] = [d \in Ends |-> <<>>]
          /\ client[k] # NULL => ~client[k].timer
          /\ server[k] # NULL => ~server[k].timer
          /\ proceed(k, e, performStateTransition("FIN_WAIT_2", "TIMEOUT_FIN_WAIT_2"),
                     wire[k][e], <<>>, {}, NULL)
  /\ UNCHANGED <<client, server, threadCount, killed, aborted>>

Running == ~aborted /\ UNCHANGED maxThreadCount

Next ==
  /\ Running
  /\ \/ \E a \in Clients : transmissionStart(a)
     \/ \E k \in Conns : \/ clientTimer(k) \/ clientReceives(k) \/ connectTimers(k)
                         \/ listen(k) \/ serverReceives(k) \/ serverTimer(k)
                         \/ tcpTimers(k)

Spec == Init /\ [][Next]_vars

(* Timers fire, and TCP delivers what it has taken.                        *)
Fairness ==
  \A k \in Conns :
    /\ WF_vars(Running /\ clientTimer(k)) /\ WF_vars(Running /\ clientReceives(k))
    /\ WF_vars(Running /\ (connectTimers(k) /\ client'[k] = NULL))
    /\ WF_vars(Running /\ listen(k)) /\ WF_vars(Running /\ serverReceives(k))
    /\ WF_vars(Running /\ serverTimer(k)) /\ WF_vars(Running /\ tcpTimers(k))

FairSpec == Spec /\ Fairness

-----------------------------------------------------------------------------
(* Properties.                                                             *)

Threads == {k \in Conns : server[k] # NULL}

TypeOK ==
  /\ tcp \in [Conns -> [Ends -> States]]
  /\ \A k \in Conns, e \in Ends : \A i \in DOMAIN wire[k][e] : wire[k][e][i] \in Segment
  /\ client \in [Conns -> ClientThread \cup {NULL}]
  /\ server \in [Conns -> ServerThread \cup {NULL}]
  /\ threadCount \in Nat /\ currentConnectionCount \in Nat
  /\ maxThreadCount \in MaxConnections
  /\ killed \subseteq Conns /\ aborted \in BOOLEAN

(* GenericTCPApplication.cc:69,179, TCPSocket::close, scheduleAt: no order *)
(* of timers, segments and timeouts makes a thread set its timer twice,    *)
(* close a closed socket or get a message after it was removed.            *)
NoError == ~aborted

(* TCP_hack.cc:122-149, TCPConnection_hack.cc:303-316: however a worker    *)
(* ends - in the handshake, by a reset, by closing - the count of accepted *)
(* connections is the number of workers, and stays within the limit.       *)
AcceptedConnections ==
  /\ currentConnectionCount =
       Cardinality({k \in Conns : tcp[k].s \notin {"CLOSED", "LISTEN"}})
  /\ maxThreadCount > 0 => currentConnectionCount <= maxThreadCount

(* GenericTCPApplication.cc:34-37,180-205: the counter is the number of    *)
(* open threads, which the overload branch keeps within the limit.         *)
ThreadLimit ==
  threadCount = Cardinality(Threads) /\ threadCount <= MaxThreads

(* GenericTCPApplicationClientThread.cc:83-89: the statistics a finished   *)
(* session reports cover all its requests, each with its reply; no close   *)
(* overtakes a reply.                                                      *)
SessionComplete ==
  \A k \in Conns :
    client[k] # NULL /\ client[k].state = "FINISH" =>
      client[k].sent = client[k].received /\ client[k].left = 0

(* GenericTCPApplicationServerThread.cc:104-106: "so i can close my socket *)
(* after sending my replies": a worker that was not closed at the limit    *)
(* has not sent its FIN while a delayed reply is pending.                  *)
RepliesBeforeClose ==
  \A k \in Conns :
    server[k] # NULL /\ server[k].replies > 0 /\ k \notin killed =>
       tcp[k].s = "ESTABLISHED"

(* GenericTCPApplicationServerThread.cc:58-63: the client has sent a       *)
(* request that asks for no reply. It sets its timer for a reply only, and *)
(* the server thread sets none: both threads of such a connection wait for *)
(* ever, whether or not it was the last request.                           *)
Unanswered(k) == client[k] # NULL /\ client[k].empty

(* GenericTCPApplicationClientThread.cc:58-173: a client thread ends, by   *)
(* the end of the session or by a failure, with two exceptions: its server *)
(* was overloaded and closed the connection, or a request of its own asks  *)
(* for no reply. Then it waits for ever.                                   *)
ClientEnds ==
  \A k \in Conns :
    client[k] # NULL ~> (client[k] = NULL \/ k \in killed \/ Unanswered(k))

(* GenericTCPApplicationServerThread.cc:41-42,83-84,107: a server thread   *)
(* ends although the callback of the client's FIN closes nothing, with the *)
(* same exceptions: the client of a request without a reply sends nothing  *)
(* more.                                                                   *)
ServerEnds ==
  \A k \in Conns :
    server[k] # NULL ~> (server[k] = NULL \/ k \in killed \/ Unanswered(k))

(* GenericTCPApplication.cc:184-186: "connection is excepted and killed    *)
(* immediately": it never gets a thread.                                   *)
KilledForGood ==
  [][\A k \in killed \cap killed' : server[k] = NULL => server'[k] = NULL]_vars
=============================================================================
