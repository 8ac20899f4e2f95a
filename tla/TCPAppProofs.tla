----------------------------- MODULE TCPAppProofs -----------------------------
(***************************************************************************)
(* Proofs about TCPApp: for any number of clients and connections, any     *)
(* limit of threads and of connections, and any order of segments and      *)
(* timeouts, both counters of the server stay exact and within limits.     *)
(***************************************************************************)
EXTENDS TCPApp, FiniteSetTheorems, TLAPS

(* No end listens: workers end instead.                                    *)
Live == States \ {"LISTEN", "INIT"}

Workers == {k \in Conns : tcp[k].s \notin {"CLOSED", "LISTEN"}}

Types ==
  /\ tcp \in [Conns -> [Ends -> Live]]
  /\ wire \in [Conns -> [Ends -> Seq(Segment)]]
  /\ client \in [Conns -> ClientThread \cup {NULL}]
  /\ server \in [Conns -> ServerThread \cup {NULL}]
  /\ threadCount \in Int /\ currentConnectionCount \in Int
  /\ maxThreadCount \in MaxConnections
  /\ killed \subseteq Conns /\ aborted \in BOOLEAN

(* A connected client has a request left to send.                          *)
RequestsLeft ==
  \A k \in Conns : client[k] # NULL /\ client[k].state = "CONNECTED" => client[k].left >= 1

IInv == Types /\ RequestsLeft /\ AcceptedConnections /\ ThreadLimit

-----------------------------------------------------------------------------
(* The state machine.                                                      *)

LEMMA Rows ==
  ASSUME NEW state \in DOMAIN Transitions, NEW event \in DOMAIN Transitions[state]
  PROVE  Transitions[state][event] \in States \ {"INIT"}
<1>1. DOMAIN Transitions =
        {"LISTEN", "SYN_RCVD", "SYN_SENT", "ESTABLISHED", "CLOSE_WAIT", "LAST_ACK",
         "FIN_WAIT_1", "FIN_WAIT_2", "CLOSING", "TIME_WAIT"}
  BY DEF Transitions
<1>2. CASE state \in {"LISTEN", "SYN_RCVD", "SYN_SENT", "ESTABLISHED", "CLOSE_WAIT"}
  BY <1>1, <1>2 DEF Transitions, States
<1>3. CASE state \in {"LAST_ACK", "FIN_WAIT_1", "FIN_WAIT_2", "CLOSING", "TIME_WAIT"}
  BY <1>1, <1>3 DEF Transitions, States
<1> QED
  BY <1>1, <1>2, <1>3

(* Whatever happens, an end stays in Live, and a closed one stays closed.  *)
LEMMA Transition ==
  ASSUME NEW state \in Live, NEW event
  PROVE  /\ performStateTransition(state, event) \in Live
         /\ state = "CLOSED" => performStateTransition(state, event) = "CLOSED"
<1>1. "CLOSED" \in Live /\ "CLOSED" \notin DOMAIN Transitions
  BY DEF Live, States, Transitions
<1>2. CASE state \in DOMAIN Transitions /\ event \in DOMAIN Transitions[state]
  BY <1>1, <1>2, Rows DEF performStateTransition, Live
<1>3. CASE ~(state \in DOMAIN Transitions /\ event \in DOMAIN Transitions[state])
  BY <1>3 DEF performStateTransition
<1> QED
  BY <1>1, <1>2, <1>3

LEMMA Handshake ==
  /\ performStateTransition("LISTEN", "RCV_SYN") = "SYN_RCVD"
  /\ "SYN_RCVD" \in Live /\ "SYN_SENT" \in Live /\ "CLOSED" \in Live
  /\ {"TIME_WAIT", "FIN_WAIT_2"} \subseteq Live
  BY DEF performStateTransition, Transitions, States, Live

-----------------------------------------------------------------------------
(* Segments.                                                               *)

Kinds == {"SYN", "SYN_ACK", "ACK", "DATA", "FIN", "FIN_ACKED", "RST"}

LEMMA PlainSegment == ASSUME NEW kind \in Kinds PROVE Plain(kind) \in Segment
  BY DEF Plain, Segment, Kinds

(* What TCP sends of its own.                                              *)
LEMMA Answers ==
  ASSUME NEW answer, answer = <<>> \/ \E kind \in Kinds : answer = <<kind>>
  PROVE  [i \in DOMAIN answer |-> Plain(answer[i])] \in Seq(Segment)
<1>1. CASE answer = <<>>
  BY <1>1
<1>2. ASSUME NEW kind \in Kinds, answer = <<kind>>
      PROVE  [i \in DOMAIN answer |-> Plain(answer[i])] \in Seq(Segment)
  <2>1. [i \in DOMAIN answer |-> Plain(answer[i])] = <<Plain(kind)>>
    BY <1>2
  <2> QED
    BY <2>1, PlainSegment
<1> QED
  BY <1>1, <1>2

LEMMA OwnSegments ==
  ASSUME NEW s, NEW x
  PROVE  /\ response(s, x) = <<>> \/ \E kind \in Kinds : response(s, x) = <<kind>>
         /\ command(s, x) = <<>> \/ \E kind \in Kinds : command(s, x) = <<kind>>
  BY DEF response, command, Kinds

-----------------------------------------------------------------------------
(* The counters.                                                           *)

LEMMA CountsFinite ==
  /\ IsFiniteSet(Workers) /\ Cardinality(Workers) \in Nat
  /\ IsFiniteSet(Threads) /\ Cardinality(Threads) \in Nat
<1>1. Workers \in SUBSET Conns /\ Threads \in SUBSET Conns /\ IsFiniteSet(Conns)
  BY TCPAppAssumption DEF Workers, Threads, TCPAppAssumption
<1>2. IsFiniteSet(Workers) /\ IsFiniteSet(Threads)
  BY <1>1, FS_Subset
<1> QED
  BY <1>2, FS_CardinalityType

LEMMA AcceptedIs ==
  AcceptedConnections <=>
    /\ currentConnectionCount = Cardinality(Workers)
    /\ maxThreadCount > 0 => currentConnectionCount <= maxThreadCount
  BY DEF AcceptedConnections, Workers

(* An end of a connection changes its state: a worker that is deleted is   *)
(* counted off, and nothing else changes the count.                        *)
LEMMA CountedOff ==
  ASSUME Types, AcceptedConnections, NEW k \in Conns, NEW e \in Ends, NEW end \in Live,
         e = "s" /\ tcp[k].s = "CLOSED" => end = "CLOSED",
         tcp' = [tcp EXCEPT ![k][e] = end], UNCHANGED maxThreadCount,
         IF e = "s" THEN canceledHalfOpenConnection(tcp[k].s, end)
                    ELSE UNCHANGED currentConnectionCount
  PROVE  /\ tcp' \in [Conns -> [Ends -> Live]] /\ currentConnectionCount' \in Int
         /\ AcceptedConnections'
<1>1. tcp \in [Conns -> [Ends -> Live]] /\ currentConnectionCount \in Int
      /\ maxThreadCount \in Nat
  BY TCPAppAssumption DEF Types, TCPAppAssumption
<1>2. tcp' \in [Conns -> [Ends -> Live]]
  BY <1>1
<1>3. \A j \in Conns : j # k => tcp'[j] = tcp[j]
  BY <1>1
<1>4. tcp'[k].s = IF e = "s" THEN end ELSE tcp[k].s
  BY <1>1 DEF Ends
<1>5. \A j \in Conns : tcp[j].s \in Live
  BY <1>1 DEF Ends
<1>6. "LISTEN" \notin Live
  BY DEF Live
<1>7. CASE e = "s" /\ tcp[k].s # "CLOSED" /\ end = "CLOSED"
  <2>1. k \in Workers
    BY <1>5, <1>6, <1>7 DEF Workers
  <2>2. Workers' = Workers \ {k}
    BY <1>3, <1>4, <1>7 DEF Workers
  <2>3. Cardinality(Workers') = Cardinality(Workers) - 1
    BY <2>1, <2>2, CountsFinite, FS_RemoveElement
  <2>4. currentConnectionCount = Cardinality(Workers)
    BY AcceptedIs
  <2>5. Cardinality(Workers) > 0
    BY <2>1, CountsFinite, FS_EmptySet
  <2>6. currentConnectionCount' = currentConnectionCount - 1
    BY <1>7, <2>4, <2>5 DEF canceledHalfOpenConnection
  <2>7. maxThreadCount' > 0 => currentConnectionCount' <= maxThreadCount'
    BY <1>1, <2>6 DEF AcceptedConnections
  <2>8. AcceptedConnections'
    BY <1>1, <2>3, <2>4, <2>6, <2>7 DEF AcceptedConnections, Workers
  <2> QED
    BY <1>1, <1>2, <2>6, <2>8
<1>8. CASE ~(e = "s" /\ tcp[k].s # "CLOSED" /\ end = "CLOSED")
  <2>1. UNCHANGED currentConnectionCount
    BY <1>8 DEF canceledHalfOpenConnection
  <2>2. tcp'[k].s \in {"CLOSED", "LISTEN"} <=> tcp[k].s \in {"CLOSED", "LISTEN"}
    BY <1>4, <1>5, <1>6, <1>8
  <2>3. Workers' = Workers
    BY <1>3, <2>2 DEF Workers
  <2> QED
    BY <1>1, <1>2, <2>1, <2>3 DEF AcceptedConnections, Workers
<1> QED
  BY <1>7, <1>8

-----------------------------------------------------------------------------
(* The steps of an end.                                                    *)

LEMMA Proceed ==
  ASSUME Types, AcceptedConnections, NEW k \in Conns, NEW e \in Ends,
         NEW s \in Live, tcp[k][e] = "CLOSED" => s = "CLOSED",
         NEW inbox \in Seq(Segment),
         NEW answer, answer = <<>> \/ \E kind \in Kinds : answer = <<kind>>,
         NEW commands, NEW data, "SEND" \in commands => data \in Segment,
         proceed(k, e, s, inbox, answer, commands, data), UNCHANGED maxThreadCount
  PROVE  /\ tcp' \in [Conns -> [Ends -> Live]]
         /\ wire' \in [Conns -> [Ends -> Seq(Segment)]]
         /\ currentConnectionCount' \in Int /\ AcceptedConnections'
<1> DEFINE sends == IF "SEND" \in commands /\ command(s, "SEND") # <<>> THEN <<data>> ELSE <<>>
           closes == IF "CLOSE" \in commands THEN command(s, "CLOSE") ELSE <<>>
           end == IF closes = <<>> THEN s ELSE performStateTransition(s, "CLOSE")
           answered == [i \in DOMAIN answer |-> Plain(answer[i])]
           closed == [i \in DOMAIN closes |-> Plain(closes[i])]
           out == answered \o sends \o closed
<1>1. /\ tcp' = [tcp EXCEPT ![k][e] = end]
      /\ wire' = [wire EXCEPT ![k] =
           [d \in Ends |-> IF d = e THEN inbox ELSE wire[k][d] \o out]]
      /\ IF e = "s" THEN canceledHalfOpenConnection(tcp[k].s, end)
                    ELSE UNCHANGED currentConnectionCount
  BY DEF proceed, Types
<1>2. end \in Live /\ (tcp[k][e] = "CLOSED" => end = "CLOSED")
  BY Transition
<1>3. out \in Seq(Segment)
  <2>1. answered \in Seq(Segment)
    BY Answers
  <2>2. closes = <<>> \/ \E kind \in Kinds : closes = <<kind>>
    BY OwnSegments
  <2> HIDE DEF closes
  <2>3. closed \in Seq(Segment)
    BY <2>2, Answers
  <2>4. sends \in Seq(Segment)
    OBVIOUS
  <2> HIDE DEF answered, closed, sends
  <2> QED
    BY <2>1, <2>3, <2>4
<1> HIDE DEF end, out
<1>4. tcp' \in [Conns -> [Ends -> Live]] /\ currentConnectionCount' \in Int
      /\ AcceptedConnections'
  BY <1>1, <1>2, CountedOff
<1>5. wire' \in [Conns -> [Ends -> Seq(Segment)]]
  <2>1. wire \in [Conns -> [Ends -> Seq(Segment)]]
    BY DEF Types
  <2>2. \A d \in Ends : (IF d = e THEN inbox ELSE wire[k][d] \o out) \in Seq(Segment)
    BY <1>3, <2>1
  <2> QED
    BY <1>1, <2>1, <2>2
<1> QED
  BY <1>4, <1>5

(* A timer of TCP itself.                                                  *)
LEMMA Timeout ==
  ASSUME Types, AcceptedConnections, NEW k \in Conns, NEW e \in Ends,
         NEW s \in Live, tcp[k][e] # "CLOSED",
         proceed(k, e, s, wire[k][e], <<>>, {}, NULL), UNCHANGED maxThreadCount
  PROVE  /\ tcp' \in [Conns -> [Ends -> Live]]
         /\ wire' \in [Conns -> [Ends -> Seq(Segment)]]
         /\ currentConnectionCount' \in Int /\ AcceptedConnections'
<1>1. wire[k][e] \in Seq(Segment)
  BY DEF Types
<1> QED
  BY <1>1, Proceed

LEMMA Arrive ==
  ASSUME Types, AcceptedConnections, NEW k \in Conns, NEW e \in Ends,
         wire[k][e] # <<>>, NEW commands, NEW data,
         "SEND" \in commands => data \in Segment,
         arrive(k, e, commands, data), UNCHANGED maxThreadCount
  PROVE  /\ tcp' \in [Conns -> [Ends -> Live]]
         /\ wire' \in [Conns -> [Ends -> Seq(Segment)]]
         /\ currentConnectionCount' \in Int /\ AcceptedConnections'
         /\ Head(wire[k][e]) \in Segment
<1> DEFINE segment == Head(wire[k][e])
           s == performStateTransition(tcp[k][e], eventOf(tcp[k][e], segment.kind))
           answer == response(tcp[k][e], segment.kind)
<1>1. wire[k][e] \in Seq(Segment) /\ tcp[k][e] \in Live
  BY DEF Types
<1>2. segment \in Segment /\ Tail(wire[k][e]) \in Seq(Segment)
  BY <1>1
<1>3. s \in Live /\ (tcp[k][e] = "CLOSED" => s = "CLOSED")
  BY <1>1, Transition
<1>4. answer = <<>> \/ \E kind \in Kinds : answer = <<kind>>
  BY OwnSegments
<1>5. proceed(k, e, s, Tail(wire[k][e]), answer, commands, data)
  BY DEF arrive
<1> HIDE DEF s, answer
<1> QED
  BY <1>2, <1>3, <1>4, <1>5, Proceed

LEMMA Act ==
  ASSUME Types, AcceptedConnections, NEW k \in Conns, NEW e \in Ends,
         NEW commands, NEW data, "SEND" \in commands => data \in Segment,
         act(k, e, commands, data), UNCHANGED maxThreadCount
  PROVE  /\ tcp' \in [Conns -> [Ends -> Live]]
         /\ wire' \in [Conns -> [Ends -> Seq(Segment)]]
         /\ currentConnectionCount' \in Int /\ AcceptedConnections'
<1>1. tcp[k][e] \in Live /\ wire[k][e] \in Seq(Segment)
  BY DEF Types
<1>2. proceed(k, e, tcp[k][e], wire[k][e], <<>>, commands, data)
  BY DEF act
<1> QED
  BY <1>1, <1>2, Proceed

-----------------------------------------------------------------------------
(* The threads.                                                            *)

LEMMA NoThread == NULL \notin ClientThread /\ NULL \notin ServerThread
  BY NullAssumption DEF NullAssumption

(* A client thread changes, begins or ends.                                *)
LEMMA ClientChange ==
  ASSUME Types, RequestsLeft, NEW k \in Conns, NEW t \in ClientThread \cup {NULL},
         t # NULL /\ t.state = "CONNECTED" => t.left >= 1,
         client' = [client EXCEPT ![k] = t]
  PROVE  client' \in [Conns -> ClientThread \cup {NULL}] /\ RequestsLeft'
<1>1. client \in [Conns -> ClientThread \cup {NULL}]
  BY DEF Types
<1> QED
  BY <1>1 DEF RequestsLeft

(* A server thread changes, begins or ends, or does both at once; threads  *)
(* is the count with it.                                                   *)
LEMMA ServerChange ==
  ASSUME Types, ThreadLimit, NEW k \in Conns, NEW t \in ServerThread \cup {NULL},
         NEW threads,
         \/ server[k] = NULL /\ threads = threadCount + 1 /\ ~overloaded
         \/ server[k] # NULL /\ threads = threadCount,
         server' = [server EXCEPT ![k] = t],
         threadCount' = IF t = NULL THEN threads - 1 ELSE threads
  PROVE  /\ server' \in [Conns -> ServerThread \cup {NULL}]
         /\ threadCount' \in Int /\ ThreadLimit'
<1>1. /\ server \in [Conns -> ServerThread \cup {NULL}]
      /\ threadCount = Cardinality(Threads) /\ threadCount <= MaxThreads
      /\ threadCount \in Nat /\ MaxThreads \in Nat
  BY CountsFinite, TCPAppAssumption DEF Types, ThreadLimit, TCPAppAssumption
<1>2. server' \in [Conns -> ServerThread \cup {NULL}]
  BY <1>1
<1>3. \A j \in Conns : server'[j] = IF j = k THEN t ELSE server[j]
  BY <1>1
<1>4. CASE server[k] = NULL /\ t # NULL
  <2>1. k \notin Threads /\ Threads' = Threads \cup {k}
    BY <1>3, <1>4 DEF Threads
  <2>2. Cardinality(Threads') = Cardinality(Threads) + 1
    BY <2>1, CountsFinite, FS_AddElement
  <2>3. threadCount' = threadCount + 1 /\ threadCount < MaxThreads
    BY <1>1, <1>4 DEF overloaded
  <2> QED
    BY <1>1, <1>2, <2>2, <2>3 DEF ThreadLimit
<1>5. CASE server[k] # NULL /\ t = NULL
  <2>1. k \in Threads /\ Threads' = Threads \ {k}
    BY <1>3, <1>5 DEF Threads
  <2>2. Cardinality(Threads') = Cardinality(Threads) - 1
    BY <2>1, CountsFinite, FS_RemoveElement
  <2>3. threadCount' = threadCount - 1
    BY <1>5
  <2> QED
    BY <1>1, <1>2, <2>2, <2>3 DEF ThreadLimit
<1>6. CASE server[k] = NULL <=> t = NULL
  <2>1. Threads' = Threads
    BY <1>3, <1>6 DEF Threads
  <2>2. threadCount' = threadCount
    BY <1>1, <1>6
  <2> QED
    BY <1>1, <1>2, <2>1, <2>2 DEF ThreadLimit
<1> QED
  BY <1>4, <1>5, <1>6

LEMMA SameThreads ==
  ASSUME Types, ThreadLimit, UNCHANGED <<server, threadCount>>
  PROVE  /\ server' \in [Conns -> ServerThread \cup {NULL}]
         /\ threadCount' \in Int /\ ThreadLimit'
  BY DEF Types, ThreadLimit, Threads

LEMMA SameClients ==
  ASSUME Types, RequestsLeft, UNCHANGED client
  PROVE  client' \in [Conns -> ClientThread \cup {NULL}] /\ RequestsLeft'
  BY DEF Types, RequestsLeft

LEMMA SameTCP ==
  ASSUME Types, AcceptedConnections, UNCHANGED <<tcp, maxThreadCount, currentConnectionCount>>
  PROVE  /\ tcp' \in [Conns -> [Ends -> Live]]
         /\ currentConnectionCount' \in Int /\ AcceptedConnections'
  BY DEF Types, AcceptedConnections

(* A request that is due is sent; a session goes on while one is left.     *)
LEMMA AfterRequest ==
  ASSUME NEW t \in ClientThread, t.left >= 1, NEW length
  PROVE  /\ afterRequest(t, length) \in ClientThread
         /\ afterRequest(t, length).state = "CONNECTED" => afterRequest(t, length).left >= 1
         /\ request(t, length) \in Segment
<1>1. t.left \in Nat /\ t.sent \in Nat /\ t.delayed \in BOOLEAN
  BY DEF ClientThread
<1>2. t.left - 1 \in Nat /\ t.sent + 1 \in Nat
  BY <1>1
<1> DEFINE st == IF t.left - 1 <= 0 THEN "DISCONNECTED" ELSE t.state
           none == length = 0
<1>3. st \in {"WAITING", "CONNECTED", "DISCONNECTED", "FINISH"}
      /\ (st = "CONNECTED" => t.left - 1 >= 1) /\ none \in BOOLEAN
  BY <1>2 DEF ClientThread
<1>4. afterRequest(t, length)
        = [t EXCEPT !.left = t.left - 1, !.sent = t.sent + 1, !.empty = none, !.state = st]
  BY DEF afterRequest, ClientThread
<1> HIDE DEF st, none
<1>5. afterRequest(t, length) \in ClientThread /\ afterRequest(t, length).left = t.left - 1
      /\ afterRequest(t, length).state = st
  BY <1>2, <1>3, <1>4 DEF ClientThread
<1>6. request(t, length) \in Segment
  <2> DEFINE last == afterRequest(t, length).state = "DISCONNECTED"
  <2>1. last \in BOOLEAN
    OBVIOUS
  <2>2. request(t, length)
          = [kind |-> "DATA", last |-> last, delayed |-> t.delayed, empty |-> none]
    BY DEF request, none
  <2> HIDE DEF last
  <2> QED
    BY <1>1, <1>3, <2>1, <2>2 DEF Segment
<1> QED
  BY <1>3, <1>5, <1>6

-----------------------------------------------------------------------------
(* The client.                                                             *)

LEMMA TransmissionStartStep ==
  ASSUME IInv, Running, NEW a \in Clients, transmissionStart(a)
  PROVE  IInv'
<1>1. PICK k \in FreeConns, requests \in RequestsPerSession, delayed \in BOOLEAN :
        /\ client' = [client EXCEPT ![k] = newClientThread(a, requests, delayed)]
        /\ killed' = killed \ {k}
  BY DEF transmissionStart
<1>2. k \in Conns /\ requests \in Nat
  BY TCPAppAssumption DEF FreeConns, TCPAppAssumption
<1>3. newClientThread(a, requests, delayed) \in ClientThread
      /\ newClientThread(a, requests, delayed).state = "WAITING"
  BY <1>2 DEF newClientThread, ClientThread, SocketStates
<1>4. client' \in [Conns -> ClientThread \cup {NULL}] /\ RequestsLeft'
  <2> HIDE DEF newClientThread
  <2> QED
    BY <1>1, <1>2, <1>3, ClientChange DEF IInv
<1>5. UNCHANGED <<tcp, wire, server, threadCount, maxThreadCount,
                  currentConnectionCount, aborted>>
  BY DEF transmissionStart, Running
<1>6. AcceptedConnections' /\ ThreadLimit'
  BY <1>5, SameTCP, SameThreads DEF IInv
<1>7. Types'
  BY <1>1, <1>4, <1>5 DEF IInv, Types
<1> QED
  BY <1>4, <1>6, <1>7 DEF IInv

(* Any step that leaves server threads alone.                              *)
LEMMA ClientKeeps ==
  ASSUME IInv, Running, UNCHANGED <<server, threadCount, killed>>,
         tcp' \in [Conns -> [Ends -> Live]], wire' \in [Conns -> [Ends -> Seq(Segment)]],
         currentConnectionCount' \in Int, AcceptedConnections',
         client' \in [Conns -> ClientThread \cup {NULL}], RequestsLeft',
         aborted' \in BOOLEAN
  PROVE  IInv'
<1>1. ThreadLimit'
  BY SameThreads DEF IInv
<1>2. Types'
  BY DEF IInv, Types, Running
<1> QED
  BY <1>1, <1>2 DEF IInv

LEMMA ClientTimerStep ==
  ASSUME IInv, Running, NEW k \in Conns, clientTimer(k)
  PROVE  IInv'
<1> DEFINE t == client[k]
<1>1. t \in ClientThread /\ UNCHANGED <<server, threadCount, killed, maxThreadCount>>
  BY DEF clientTimer, IInv, Types, Running
<1>2. "c" \in Ends /\ Types /\ AcceptedConnections /\ RequestsLeft
      /\ wire \in [Conns -> [Ends -> Seq(Segment)]] /\ aborted \in BOOLEAN
      /\ client \in [Conns -> ClientThread \cup {NULL}]
  BY DEF Ends, IInv, Types
<1>3. CASE /\ t.state = "WAITING"
           /\ tcp' = [tcp EXCEPT ![k].c = "SYN_SENT"]
           /\ wire' = [wire EXCEPT ![k].s = Append(@, Plain("SYN"))]
           /\ client' = [client EXCEPT ![k].timer = FALSE]
           /\ UNCHANGED <<currentConnectionCount, aborted>>
  <2>1. tcp' \in [Conns -> [Ends -> Live]] /\ currentConnectionCount' \in Int
        /\ AcceptedConnections'
    BY <1>1, <1>2, <1>3, Handshake, CountedOff
  <2>2. wire' \in [Conns -> [Ends -> Seq(Segment)]]
    <3>1. Plain("SYN") \in Segment
      BY PlainSegment DEF Kinds
    <3>2. wire[k].s \in Seq(Segment)
      BY <1>2 DEF Ends
    <3> DEFINE v == Append(wire[k].s, Plain("SYN"))
    <3>3. v \in Seq(Segment)
      BY <3>1, <3>2
    <3>4. wire' = [wire EXCEPT ![k].s = v]
      BY <1>3
    <3> HIDE DEF v
    <3> QED
      BY <1>2, <3>3, <3>4 DEF Ends
  <2>3. client' = [client EXCEPT ![k] = [t EXCEPT !.timer = FALSE]]
    BY <1>2, <1>3
  <2>4. [t EXCEPT !.timer = FALSE] \in ClientThread
        /\ [t EXCEPT !.timer = FALSE].state = t.state
    BY <1>1 DEF ClientThread
  <2>5. client' \in [Conns -> ClientThread \cup {NULL}] /\ RequestsLeft'
    BY <1>2, <1>3, <2>3, <2>4, ClientChange
  <2> QED
    BY <1>1, <1>2, <1>3, <2>1, <2>2, <2>5, ClientKeeps
<1>4. CASE /\ t.state = "CONNECTED"
           /\ \E length \in ReplyLengths :
                /\ client' = [client EXCEPT ![k] = [afterRequest(t, length) EXCEPT !.timer = FALSE]]
                /\ act(k, "c", {"SEND"}, request(t, length))
           /\ UNCHANGED aborted
  <2>0. PICK length \in ReplyLengths :
          /\ client' = [client EXCEPT ![k] = [afterRequest(t, length) EXCEPT !.timer = FALSE]]
          /\ act(k, "c", {"SEND"}, request(t, length))
    BY <1>4
  <2>1. t.left >= 1
    BY <1>1, <1>2, <1>4, NoThread DEF RequestsLeft
  <2>2. /\ afterRequest(t, length) \in ClientThread /\ request(t, length) \in Segment
        /\ afterRequest(t, length).state = "CONNECTED" => afterRequest(t, length).left >= 1
    BY <1>1, <2>1, AfterRequest
  <2> DEFINE u == [afterRequest(t, length) EXCEPT !.timer = FALSE]
  <2>3. u \in ClientThread /\ (u.state = "CONNECTED" => u.left >= 1)
    <3> HIDE DEF t
    <3> QED
      BY <2>2 DEF ClientThread
  <2> HIDE DEF u
  <2>4. client' \in [Conns -> ClientThread \cup {NULL}] /\ RequestsLeft'
    BY <1>2, <2>0, <2>3, ClientChange DEF u
  <2>5. /\ tcp' \in [Conns -> [Ends -> Live]]
        /\ wire' \in [Conns -> [Ends -> Seq(Segment)]]
        /\ currentConnectionCount' \in Int /\ AcceptedConnections'
    BY <1>1, <1>2, <2>0, <2>2, Act
  <2> QED
    BY <1>1, <1>2, <1>4, <2>4, <2>5, ClientKeeps
<1>5. CASE /\ t.state = "DISCONNECTED"
           /\ client' = [client EXCEPT ![k].timer = FALSE, ![k].socket = closedSocket(@)]
           /\ act(k, "c", closing(t.socket), NULL)
           /\ aborted' = (t.socket = "CLOSED")
  <2> DEFINE u == [t EXCEPT !.timer = FALSE, !.socket = closedSocket(t.socket)]
  <2>1. client' = [client EXCEPT ![k] = u]
    BY <1>1, <1>2, <1>5 DEF ClientThread
  <2>2. u \in ClientThread /\ u.state = "DISCONNECTED"
    BY <1>1, <1>5 DEF ClientThread, closedSocket, SocketStates
  <2> HIDE DEF u
  <2>3. client' \in [Conns -> ClientThread \cup {NULL}] /\ RequestsLeft'
    BY <1>2, <2>1, <2>2, ClientChange
  <2>4. "SEND" \notin closing(t.socket)
    BY DEF closing
  <2>5. /\ tcp' \in [Conns -> [Ends -> Live]]
        /\ wire' \in [Conns -> [Ends -> Seq(Segment)]]
        /\ currentConnectionCount' \in Int /\ AcceptedConnections'
    BY <1>1, <1>2, <1>5, <2>4, Act
  <2>6. aborted' \in BOOLEAN
    BY <1>5
  <2> QED
    BY <1>1, <2>3, <2>5, <2>6, ClientKeeps
<1>6. CASE /\ t.state = "FINISH"
           /\ client' = [client EXCEPT ![k] = NULL]
           /\ UNCHANGED <<tcp, wire, currentConnectionCount, aborted>>
  <2>1. client' \in [Conns -> ClientThread \cup {NULL}] /\ RequestsLeft'
    BY <1>2, <1>6, ClientChange
  <2>2. tcp' \in [Conns -> [Ends -> Live]] /\ currentConnectionCount' \in Int
        /\ AcceptedConnections'
    BY <1>1, <1>2, <1>6, SameTCP
  <2> QED
    BY <1>1, <1>2, <1>6, <2>1, <2>2, ClientKeeps
<1> QED
  BY <1>3, <1>4, <1>5, <1>6 DEF clientTimer

(* socketEstablished leaves a request to send.                             *)
LEMMA Established ==
  ASSUME NEW t \in ClientThread
  PROVE  socketEstablished(t) \in ClientThread /\ socketEstablished(t).left >= 1
<1> DEFINE l == IF t.left < 1 THEN 1 ELSE t.left
<1>1. l \in Nat /\ l >= 1
  BY DEF ClientThread
<1>2. socketEstablished(t)
        = [t EXCEPT !.left = l, !.state = "CONNECTED", !.socket = "CONNECTED"]
  BY DEF socketEstablished, ClientThread
<1> HIDE DEF l
<1> QED
  BY <1>1, <1>2 DEF ClientThread, SocketStates

LEMMA ClientReceivesStep ==
  ASSUME IInv, Running, NEW k \in Conns, clientReceives(k)
  PROVE  IInv'
<1> DEFINE t == client[k]
           told == indication(tcp[k].c, Head(wire[k].c).kind)
           e == socketEstablished(t)
           Kept == /\ tcp' \in [Conns -> [Ends -> Live]]
                   /\ wire' \in [Conns -> [Ends -> Seq(Segment)]]
                   /\ currentConnectionCount' \in Int /\ AcceptedConnections'
<1>1. t \in ClientThread \cup {NULL} /\ wire[k].c # <<>>
      /\ UNCHANGED <<server, threadCount, killed, maxThreadCount>>
  BY DEF clientReceives, IInv, Types, Running
<1>2. "c" \in Ends /\ Types /\ AcceptedConnections /\ RequestsLeft
      /\ aborted \in BOOLEAN /\ client \in [Conns -> ClientThread \cup {NULL}]
  BY DEF Ends, IInv, Types
<1>3. ASSUME arrive(k, "c", {}, NULL) PROVE Kept
  BY <1>1, <1>2, <1>3, Arrive
<1>4. ASSUME NEW u \in ClientThread \cup {NULL}, client' = [client EXCEPT ![k] = u],
             u # NULL /\ u.state = "CONNECTED" => u.left >= 1
      PROVE  client' \in [Conns -> ClientThread \cup {NULL}] /\ RequestsLeft'
  BY <1>2, <1>4, ClientChange
<1>5. CASE arrive(k, "c", {}, NULL) /\ UNCHANGED client /\ aborted' \in BOOLEAN
  BY <1>1, <1>2, <1>3, <1>5, SameClients, ClientKeeps
<1>6. CASE /\ told = "ESTABLISHED" /\ t # NULL
           /\ \E length \in ReplyLengths :
                /\ client' = [client EXCEPT ![k] = afterRequest(e, length)]
                /\ arrive(k, "c", {"SEND"}, request(e, length))
           /\ UNCHANGED aborted
  <2>1. e \in ClientThread /\ e.left >= 1
    BY <1>1, <1>6, Established
  <2> HIDE DEF e
  <2>0. PICK length \in ReplyLengths :
          /\ client' = [client EXCEPT ![k] = afterRequest(e, length)]
          /\ arrive(k, "c", {"SEND"}, request(e, length))
    BY <1>6
  <2>2. /\ afterRequest(e, length) \in ClientThread /\ request(e, length) \in Segment
        /\ afterRequest(e, length).state = "CONNECTED" => afterRequest(e, length).left >= 1
    BY <2>1, AfterRequest
  <2>3. client' \in [Conns -> ClientThread \cup {NULL}] /\ RequestsLeft'
    BY <1>4, <2>0, <2>2
  <2>4. Kept
    BY <1>1, <1>2, <2>0, <2>2, Arrive
  <2> QED
    BY <1>1, <1>2, <1>6, <2>3, <2>4, ClientKeeps
<1>7. CASE /\ told = "DATA" /\ t # NULL
           /\ client' = [client EXCEPT ![k].received = @ + 1, ![k].timer = TRUE]
           /\ arrive(k, "c", {}, NULL)
           /\ aborted' = t.timer
  <2> DEFINE r == t.received + 1
           u == [t EXCEPT !.received = r, !.timer = TRUE]
  <2>0. t \in ClientThread /\ r \in Nat /\ t.timer \in BOOLEAN
    BY <1>1, <1>7 DEF ClientThread
  <2>1. client' = [client EXCEPT ![k] = u]
    BY <1>1, <1>2, <1>7 DEF ClientThread
  <2>2. u \in ClientThread /\ u.state = t.state /\ u.left = t.left /\ t.timer \in BOOLEAN
    <3> HIDE DEF r, t
    <3> QED
      BY <2>0 DEF ClientThread
  <2>3. u.state = "CONNECTED" => u.left >= 1
    BY <1>2, <1>7, <2>2 DEF RequestsLeft
  <2> HIDE DEF u
  <2>4. client' \in [Conns -> ClientThread \cup {NULL}] /\ RequestsLeft'
    BY <1>4, <2>1, <2>2, <2>3
  <2> QED
    BY <1>1, <1>3, <1>7, <2>2, <2>4, ClientKeeps
<1>8. CASE /\ told = "PEER_CLOSED" /\ t # NULL
           /\ client' = [client EXCEPT ![k].socket = peerClosedSocket(@)]
           /\ arrive(k, "c", {}, NULL)
           /\ UNCHANGED aborted
  <2> DEFINE u == [t EXCEPT !.socket = peerClosedSocket(t.socket)]
  <2>1. client' = [client EXCEPT ![k] = u]
    BY <1>1, <1>2, <1>8 DEF ClientThread
  <2>2. u \in ClientThread /\ u.state = t.state /\ u.left = t.left
    BY <1>1, <1>8 DEF ClientThread, peerClosedSocket, SocketStates
  <2>3. u.state = "CONNECTED" => u.left >= 1
    BY <1>2, <1>8, <2>2 DEF RequestsLeft
  <2> HIDE DEF u
  <2>4. client' \in [Conns -> ClientThread \cup {NULL}] /\ RequestsLeft'
    BY <1>4, <2>1, <2>2, <2>3
  <2> QED
    BY <1>1, <1>2, <1>3, <1>8, <2>4, ClientKeeps
<1>9. CASE /\ told = "CLOSED" /\ t # NULL
           /\ client' = [client EXCEPT ![k].state = "FINISH", ![k].timer = TRUE,
                                       ![k].socket = "CLOSED"]
           /\ arrive(k, "c", {}, NULL)
           /\ UNCHANGED aborted
  <2> DEFINE u == [t EXCEPT !.state = "FINISH", !.timer = TRUE, !.socket = "CLOSED"]
  <2>1. client' = [client EXCEPT ![k] = u]
    BY <1>1, <1>2, <1>9 DEF ClientThread
  <2>2. u \in ClientThread /\ u.state = "FINISH"
    BY <1>1, <1>9 DEF ClientThread, SocketStates
  <2> HIDE DEF u
  <2>3. client' \in [Conns -> ClientThread \cup {NULL}] /\ RequestsLeft'
    BY <1>4, <2>1, <2>2
  <2> QED
    BY <1>1, <1>2, <1>3, <1>9, <2>3, ClientKeeps
<1>10. CASE /\ client' = [client EXCEPT ![k] = NULL]
            /\ arrive(k, "c", {}, NULL)
            /\ UNCHANGED aborted
  <2>1. client' \in [Conns -> ClientThread \cup {NULL}] /\ RequestsLeft'
    BY <1>4, <1>10
  <2> QED
    BY <1>1, <1>2, <1>3, <1>10, <2>1, ClientKeeps
<1> QED
  BY <1>2, <1>5, <1>6, <1>7, <1>8, <1>9, <1>10 DEF clientReceives

LEMMA ConnectTimersStep ==
  ASSUME IInv, Running, NEW k \in Conns, connectTimers(k)
  PROVE  IInv'
<1>1. /\ "c" \in Ends /\ Types /\ AcceptedConnections /\ RequestsLeft
      /\ wire \in [Conns -> [Ends -> Seq(Segment)]] /\ aborted \in BOOLEAN
      /\ tcp[k].c = "SYN_SENT" /\ wire[k].c \in Seq(Segment)
  BY DEF Ends, IInv, Types, connectTimers
<1>2. UNCHANGED <<server, threadCount, killed, maxThreadCount, aborted>>
  BY DEF connectTimers, Running
<1>3. CASE /\ wire' = [wire EXCEPT ![k].s = <<Plain("SYN")>>]
           /\ UNCHANGED <<tcp, client, currentConnectionCount>>
  <2>1. wire' \in [Conns -> [Ends -> Seq(Segment)]]
    <3> DEFINE v == <<Plain("SYN")>>
    <3>1. v \in Seq(Segment)
      BY PlainSegment DEF Kinds
    <3> HIDE DEF v
    <3> QED
      BY <1>1, <1>3, <3>1 DEF Ends, v
  <2>2. tcp' \in [Conns -> [Ends -> Live]] /\ currentConnectionCount' \in Int
        /\ AcceptedConnections'
    BY <1>1, <1>2, <1>3, SameTCP
  <2>3. client' \in [Conns -> ClientThread \cup {NULL}] /\ RequestsLeft'
    BY <1>1, <1>3, SameClients
  <2> QED
    BY <1>1, <1>2, <2>1, <2>2, <2>3, ClientKeeps
<1>4. CASE /\ proceed(k, "c", performStateTransition("SYN_SENT", "TIMEOUT_CONN_ESTAB"),
                      wire[k].c, <<>>, {}, NULL)
           /\ client' = [client EXCEPT ![k] = NULL]
  <2> DEFINE s == performStateTransition("SYN_SENT", "TIMEOUT_CONN_ESTAB")
  <2>1. s \in Live
    BY Transition, Handshake
  <2>a. proceed(k, "c", s, wire[k].c, <<>>, {}, NULL)
    BY <1>4
  <2> HIDE DEF s
  <2>2. /\ tcp' \in [Conns -> [Ends -> Live]]
        /\ wire' \in [Conns -> [Ends -> Seq(Segment)]]
        /\ currentConnectionCount' \in Int /\ AcceptedConnections'
    BY <1>1, <1>2, <2>1, <2>a, Timeout
  <2>3. client' \in [Conns -> ClientThread \cup {NULL}] /\ RequestsLeft'
    BY <1>1, <1>4, ClientChange
  <2> QED
    BY <1>1, <1>2, <2>2, <2>3, ClientKeeps
<1> QED
  BY <1>3, <1>4 DEF connectTimers

-----------------------------------------------------------------------------
(* The server.                                                             *)

(* Any step that leaves client threads alone.                              *)
LEMMA ServerKeeps ==
  ASSUME IInv, Running, UNCHANGED client, killed' \subseteq Conns,
         tcp' \in [Conns -> [Ends -> Live]], wire' \in [Conns -> [Ends -> Seq(Segment)]],
         currentConnectionCount' \in Int, AcceptedConnections',
         server' \in [Conns -> ServerThread \cup {NULL}],
         threadCount' \in Int, ThreadLimit', aborted' \in BOOLEAN
  PROVE  IInv'
<1>1. client' \in [Conns -> ClientThread \cup {NULL}] /\ RequestsLeft'
  BY SameClients DEF IInv
<1>2. Types'
  BY <1>1 DEF IInv, Types, Running
<1> QED
  BY <1>1, <1>2 DEF IInv

LEMMA ListenStep ==
  ASSUME IInv, Running, NEW k \in Conns, listen(k)
  PROVE  IInv'
<1>1. /\ "s" \in Ends /\ "c" \in Ends /\ Types /\ AcceptedConnections /\ ThreadLimit
      /\ tcp \in [Conns -> [Ends -> Live]] /\ tcp[k].s = "CLOSED"
      /\ wire \in [Conns -> [Ends -> Seq(Segment)]] /\ aborted \in BOOLEAN
      /\ killed \subseteq Conns
  BY DEF Ends, IInv, Types, listen
<1>2. UNCHANGED <<client, server, threadCount, killed, aborted, maxThreadCount>>
      /\ wire[k].s # <<>>
  BY DEF listen, Running
<1>3. server' \in [Conns -> ServerThread \cup {NULL}] /\ threadCount' \in Int /\ ThreadLimit'
  BY <1>1, <1>2, SameThreads
<1>4. wire[k].s \in Seq(Segment) /\ wire[k].c \in Seq(Segment)
      /\ Tail(wire[k].s) \in Seq(Segment)
  BY <1>1, <1>2
<1>5. CASE /\ acceptAnotherConnection
           /\ currentConnectionCount' = currentConnectionCount + 1
           /\ tcp' = [tcp EXCEPT ![k].s = performStateTransition("LISTEN", "RCV_SYN")]
           /\ wire' = [wire EXCEPT ![k].s = Tail(@), ![k].c = Append(@, Plain("SYN_ACK"))]
  <2>1. tcp' = [tcp EXCEPT ![k].s = "SYN_RCVD"]
    BY <1>5, Handshake
  <2>2. tcp' \in [Conns -> [Ends -> Live]] /\ tcp'[k].s = "SYN_RCVD"
        /\ \A j \in Conns : j # k => tcp'[j] = tcp[j]
    BY <1>1, <2>1, Handshake
  <2>3. k \notin Workers /\ Workers' = Workers \cup {k}
    BY <1>1, <2>2 DEF Workers
  <2>4. Cardinality(Workers') = Cardinality(Workers) + 1
    BY <2>3, CountsFinite, FS_AddElement
  <2>5. currentConnectionCount = Cardinality(Workers) /\ currentConnectionCount \in Nat
    BY <1>1, AcceptedIs, CountsFinite
  <2>6. maxThreadCount \in Nat /\ maxThreadCount' = maxThreadCount
    BY <1>1, <1>2, TCPAppAssumption DEF Types, TCPAppAssumption
  <2>7. maxThreadCount' > 0 => currentConnectionCount' <= maxThreadCount'
    BY <1>5, <2>5, <2>6 DEF acceptAnotherConnection
  <2>8. AcceptedConnections' /\ currentConnectionCount' \in Int
    BY <1>5, <2>4, <2>5, <2>7 DEF AcceptedConnections, Workers
  <2>9. wire' \in [Conns -> [Ends -> Seq(Segment)]]
    <3> DEFINE v == Append(wire[k].c, Plain("SYN_ACK"))
               w == Tail(wire[k].s)
    <3>1. v \in Seq(Segment) /\ w \in Seq(Segment)
      BY <1>4, PlainSegment DEF Kinds
    <3>2. wire' = [wire EXCEPT ![k].s = w, ![k].c = v]
      BY <1>1, <1>5
    <3> HIDE DEF v, w
    <3> QED
      BY <1>1, <3>1, <3>2 DEF Ends
  <2> QED
    BY <1>1, <1>2, <1>3, <2>2, <2>8, <2>9, ServerKeeps
<1>6. CASE /\ wire' = [wire EXCEPT ![k].s = Tail(@)]
           /\ UNCHANGED <<tcp, currentConnectionCount>>
  <2>1. wire' \in [Conns -> [Ends -> Seq(Segment)]]
    <3> DEFINE w == Tail(wire[k].s)
    <3>1. wire' = [wire EXCEPT ![k].s = w]
      BY <1>6
    <3> HIDE DEF w
    <3> QED
      BY <1>1, <1>4, <3>1 DEF Ends, w
  <2>2. tcp' \in [Conns -> [Ends -> Live]] /\ currentConnectionCount' \in Int
        /\ AcceptedConnections'
    BY <1>1, <1>2, <1>6, SameTCP
  <2> QED
    BY <1>1, <1>2, <1>3, <2>1, <2>2, ServerKeeps
<1>7. CASE arrive(k, "s", {}, NULL)
  <2>1. /\ tcp' \in [Conns -> [Ends -> Live]]
        /\ wire' \in [Conns -> [Ends -> Seq(Segment)]]
        /\ currentConnectionCount' \in Int /\ AcceptedConnections'
    BY <1>1, <1>2, <1>7, Arrive
  <2> QED
    BY <1>1, <1>2, <1>3, <2>1, ServerKeeps
<1> QED
  BY <1>5, <1>6, <1>7 DEF listen

(* A request: no reply, or one at once or later, and perhaps the close.    *)
LEMMA DataArrived ==
  ASSUME Types, AcceptedConnections, NEW k \in Conns, NEW t \in ServerThread,
         wire[k].s # <<>>, NEW r \in Segment, dataArrived(k, t, r),
         UNCHANGED maxThreadCount
  PROVE  /\ \E u \in ServerThread : server' = [server EXCEPT ![k] = u]
         /\ tcp' \in [Conns -> [Ends -> Live]]
         /\ wire' \in [Conns -> [Ends -> Seq(Segment)]]
         /\ currentConnectionCount' \in Int /\ AcceptedConnections'
         /\ aborted' \in BOOLEAN
<1>1. "s" \in Ends /\ r.last \in BOOLEAN /\ t.timer \in BOOLEAN /\ t.replies \in Nat
  BY DEF Ends, Segment, ServerThread
<1>0. CASE noReply(k, t, r)
  <2> DEFINE u == [t EXCEPT !.doClose = r.last]
  <2>1. server' = [server EXCEPT ![k] = u] /\ arrive(k, "s", {}, NULL) /\ aborted' = aborted
    BY <1>0 DEF noReply
  <2>2. u \in ServerThread
    BY <1>1 DEF ServerThread
  <2>3. aborted' \in BOOLEAN
    BY <2>1 DEF Types
  <2> HIDE DEF u
  <2> QED
    BY <1>1, <2>1, <2>2, <2>3, Arrive
<1>2. CASE replyLater(k, t, r)
  <2> DEFINE n == t.replies + 1
             u == [t EXCEPT !.doClose = r.last, !.replies = n, !.timer = TRUE]
  <2>1. server' = [server EXCEPT ![k] = u] /\ arrive(k, "s", {}, NULL) /\ aborted' = t.timer
    BY <1>2 DEF replyLater
  <2>2. n \in Nat
    BY <1>1
  <2>3. u \in ServerThread
    <3> HIDE DEF n
    <3> QED
      BY <1>1, <2>2 DEF ServerThread
  <2> HIDE DEF u
  <2> QED
    BY <1>1, <2>1, <2>3, Arrive
<1>3. CASE replyNow(k, t, r)
  <2> DEFINE c == IF r.last THEN closedSocket(t.socket) ELSE t.socket
             u == [t EXCEPT !.doClose = r.last, !.socket = c]
             commands == {"SEND"} \cup IF r.last THEN closing(t.socket) ELSE {}
  <2>1. /\ server' = [server EXCEPT ![k] = u]
        /\ arrive(k, "s", commands, Reply)
        /\ aborted' = (r.last /\ t.socket = "CLOSED")
    BY <1>3 DEF replyNow
  <2>2. c \in SocketStates
    BY DEF closedSocket, SocketStates, ServerThread
  <2>3. u \in ServerThread
    <3> HIDE DEF c
    <3> QED
      BY <1>1, <2>2 DEF ServerThread
  <2>4. Reply \in Segment
    BY PlainSegment DEF Reply, Kinds
  <2>5. aborted' \in BOOLEAN
    BY <1>1, <2>1
  <2> HIDE DEF u, commands
  <2> QED
    BY <1>1, <2>1, <2>3, <2>4, <2>5, Arrive
<1> QED
  BY <1>0, <1>2, <1>3 DEF dataArrived

(* Any callback; threads is the count with the thread it is for.           *)
LEMMA CallbackKeeps ==
  ASSUME Types, AcceptedConnections, ThreadLimit, NEW k \in Conns, NEW t \in ServerThread,
         NEW told, NEW threads,
         \/ server[k] = NULL /\ threads = threadCount + 1 /\ ~overloaded
         \/ server[k] # NULL /\ threads = threadCount,
         wire[k].s # <<>>, callback(k, t, told, threads), UNCHANGED maxThreadCount
  PROVE  /\ tcp' \in [Conns -> [Ends -> Live]]
         /\ wire' \in [Conns -> [Ends -> Seq(Segment)]]
         /\ currentConnectionCount' \in Int /\ AcceptedConnections'
         /\ server' \in [Conns -> ServerThread \cup {NULL}]
         /\ threadCount' \in Int /\ ThreadLimit' /\ aborted' \in BOOLEAN
<1> DEFINE Kept == /\ tcp' \in [Conns -> [Ends -> Live]]
                   /\ wire' \in [Conns -> [Ends -> Seq(Segment)]]
                   /\ currentConnectionCount' \in Int /\ AcceptedConnections'
           Counted == /\ server' \in [Conns -> ServerThread \cup {NULL}]
                      /\ threadCount' \in Int /\ ThreadLimit'
<1>1. "s" \in Ends /\ aborted \in BOOLEAN /\ wire[k].s \in Seq(Segment)
  BY DEF Ends, Types
<1>2. Head(wire[k].s) \in Segment
  BY <1>1
<1>3. ASSUME arrive(k, "s", {}, NULL) PROVE Kept
  BY <1>1, <1>3, Arrive
<1>4. ASSUME NEW u \in ServerThread, server' = [server EXCEPT ![k] = u],
             threadCount' = threads
      PROVE  Counted
  BY <1>4, NoThread, ServerChange
<1>5. CASE /\ server' = [server EXCEPT ![k] = t]
           /\ arrive(k, "s", {}, NULL) /\ threadCount' = threads
           /\ UNCHANGED aborted
  BY <1>1, <1>3, <1>4, <1>5
<1>6. CASE dataArrived(k, t, Head(wire[k].s)) /\ threadCount' = threads
  <2>1. /\ \E u \in ServerThread : server' = [server EXCEPT ![k] = u]
        /\ Kept /\ aborted' \in BOOLEAN
    BY <1>2, <1>6, DataArrived
  <2> QED
    BY <1>4, <1>6, <2>1
<1>7. CASE /\ server' = [server EXCEPT ![k] =
                [t EXCEPT !.doClose = TRUE, !.socket = peerClosedSocket(@)]]
           /\ arrive(k, "s", {}, NULL) /\ threadCount' = threads
           /\ UNCHANGED aborted
  <2> DEFINE u == [t EXCEPT !.doClose = TRUE, !.socket = peerClosedSocket(t.socket)]
  <2>1. server' = [server EXCEPT ![k] = u]
    BY <1>7 DEF ServerThread
  <2>2. u \in ServerThread
    BY DEF ServerThread, peerClosedSocket, SocketStates
  <2> HIDE DEF u
  <2>3. Counted
    BY <1>4, <1>7, <2>1, <2>2
  <2> QED
    BY <1>1, <1>3, <1>7, <2>3
<1>8. CASE removeThread(k, threads) /\ arrive(k, "s", {}, NULL) /\ UNCHANGED aborted
  <2>1. server' = [server EXCEPT ![k] = NULL] /\ threadCount' = threads - 1
    BY <1>8 DEF removeThread
  <2>2. Counted
    BY <2>1, ServerChange
  <2> QED
    BY <1>1, <1>3, <1>8, <2>2
<1> QED
  BY <1>5, <1>6, <1>7, <1>8 DEF callback

LEMMA ServerReceivesStep ==
  ASSUME IInv, Running, NEW k \in Conns, serverReceives(k)
  PROVE  IInv'
<1> DEFINE told == indication(tcp[k].s, Head(wire[k].s).kind)
           Kept == /\ tcp' \in [Conns -> [Ends -> Live]]
                   /\ wire' \in [Conns -> [Ends -> Seq(Segment)]]
                   /\ currentConnectionCount' \in Int /\ AcceptedConnections'
           Counted == /\ server' \in [Conns -> ServerThread \cup {NULL}]
                      /\ threadCount' \in Int /\ ThreadLimit'
<1>1. /\ "s" \in Ends /\ Types /\ AcceptedConnections /\ ThreadLimit
      /\ aborted \in BOOLEAN /\ killed \subseteq Conns
      /\ server[k] \in ServerThread \cup {NULL}
  BY DEF Ends, IInv, Types
<1>2. wire[k].s # <<>> /\ UNCHANGED <<client, maxThreadCount>>
  BY DEF serverReceives, Running
<1>3. CASE arrive(k, "s", {}, NULL) /\ UNCHANGED <<server, threadCount, killed, aborted>>
  <2>1. Kept
    BY <1>1, <1>2, <1>3, Arrive
  <2>2. Counted
    BY <1>1, <1>3, SameThreads
  <2> QED
    BY <1>1, <1>2, <1>3, <2>1, <2>2, ServerKeeps
<1>4. CASE /\ arrive(k, "s", {"CLOSE"}, NULL) /\ killed' = killed \cup {k}
           /\ UNCHANGED <<server, threadCount, aborted>>
  <2>1. Kept
    BY <1>1, <1>2, <1>4, Arrive
  <2>2. Counted
    BY <1>1, <1>4, SameThreads
  <2> QED
    BY <1>1, <1>2, <1>4, <2>1, <2>2, ServerKeeps
<1>5. CASE /\ server[k] = NULL /\ ~overloaded
           /\ callback(k, NewThread, told, threadCount + 1)
           /\ UNCHANGED killed
  <2>1. NewThread \in ServerThread
    BY DEF NewThread, ServerThread, SocketStates
  <2>2. Kept /\ Counted /\ aborted' \in BOOLEAN
    <3> HIDE DEF NewThread, told
    <3> QED
      BY <1>1, <1>2, <1>5, <2>1, CallbackKeeps
  <2> QED
    BY <1>1, <1>2, <1>5, <2>2, ServerKeeps
<1>6. CASE /\ server[k] # NULL /\ callback(k, server[k], told, threadCount)
           /\ UNCHANGED killed
  <2>1. Kept /\ Counted /\ aborted' \in BOOLEAN
    <3> HIDE DEF told
    <3> QED
      BY <1>1, <1>2, <1>6, CallbackKeeps
  <2> QED
    BY <1>1, <1>2, <1>6, <2>1, ServerKeeps
<1> QED
  BY <1>3, <1>4, <1>5, <1>6 DEF serverReceives

LEMMA ServerTimerStep ==
  ASSUME IInv, Running, NEW k \in Conns, serverTimer(k)
  PROVE  IInv'
<1> DEFINE t == server[k]
           n == IF t.replies > 0 THEN t.replies - 1 ELSE t.replies
           c == IF t.doClose THEN closedSocket(t.socket) ELSE t.socket
           u == [t EXCEPT !.timer = FALSE, !.replies = n, !.socket = c]
           commands == (IF t.replies > 0 THEN {"SEND"} ELSE {})
                       \cup (IF t.doClose THEN closing(t.socket) ELSE {})
<1>1. /\ "s" \in Ends /\ Types /\ AcceptedConnections /\ ThreadLimit
      /\ killed \subseteq Conns
  BY DEF Ends, IInv, Types
<1>2. /\ t \in ServerThread /\ act(k, "s", commands, Reply)
      /\ aborted' = (t.doClose /\ t.socket = "CLOSED")
      /\ UNCHANGED <<client, threadCount, killed, maxThreadCount>>
  BY DEF serverTimer, IInv, Types, Running
<1>3. server' = [server EXCEPT ![k] = u]
  BY <1>2 DEF serverTimer, ServerThread
<1>4. n \in Nat /\ c \in SocketStates /\ t.doClose \in BOOLEAN
  BY <1>2 DEF ServerThread, closedSocket, SocketStates
<1>5. u \in ServerThread
  <2> HIDE DEF n, c
  <2> QED
    BY <1>2, <1>4 DEF ServerThread
<1>6. Reply \in Segment /\ aborted' \in BOOLEAN
  BY <1>2, <1>4, PlainSegment DEF Reply, Kinds
<1>7. /\ tcp' \in [Conns -> [Ends -> Live]]
      /\ wire' \in [Conns -> [Ends -> Seq(Segment)]]
      /\ currentConnectionCount' \in Int /\ AcceptedConnections'
  <2> HIDE DEF commands
  <2> QED
    BY <1>1, <1>2, <1>6, Act
<1>8. /\ server' \in [Conns -> ServerThread \cup {NULL}]
      /\ threadCount' \in Int /\ ThreadLimit'
  <2> HIDE DEF u
  <2> QED
    BY <1>1, <1>2, <1>3, <1>5, NoThread, ServerChange
<1> QED
  BY <1>1, <1>2, <1>6, <1>7, <1>8, ServerKeeps

LEMMA TcpTimersStep ==
  ASSUME IInv, Running, NEW k \in Conns, tcpTimers(k)
  PROVE  IInv'
<1>1. /\ "s" \in Ends /\ Types /\ AcceptedConnections /\ ThreadLimit
      /\ killed \subseteq Conns /\ aborted \in BOOLEAN
  BY DEF Ends, IInv, Types
<1>2. UNCHANGED <<client, server, threadCount, killed, aborted, maxThreadCount>>
  BY DEF tcpTimers, Running
<1>3. /\ UNCHANGED <<client, server, threadCount, killed, aborted, maxThreadCount>>
      /\ server' \in [Conns -> ServerThread \cup {NULL}]
      /\ threadCount' \in Int /\ ThreadLimit'
  BY <1>1, <1>2, SameThreads
<1>4. ASSUME NEW e \in Ends, NEW state \in {"SYN_RCVD", "TIME_WAIT", "FIN_WAIT_2"},
             NEW event, tcp[k][e] = state,
             proceed(k, e, performStateTransition(state, event), wire[k][e], <<>>, {}, NULL)
      PROVE  IInv'
  <2> DEFINE s == performStateTransition(state, event)
  <2>1. s \in Live /\ proceed(k, e, s, wire[k][e], <<>>, {}, NULL)
    BY <1>4, Transition, Handshake
  <2>2. tcp[k][e] # "CLOSED"
    BY <1>4
  <2> HIDE DEF s
  <2>3. /\ tcp' \in [Conns -> [Ends -> Live]]
        /\ wire' \in [Conns -> [Ends -> Seq(Segment)]]
        /\ currentConnectionCount' \in Int /\ AcceptedConnections'
    BY <1>1, <1>2, <2>1, <2>2, Timeout
  <2> QED
    BY <1>1, <1>3, <2>3, ServerKeeps
<1>5. CASE /\ tcp[k].s = "SYN_RCVD"
           /\ proceed(k, "s", performStateTransition("SYN_RCVD", "TIMEOUT_CONN_ESTAB"),
                      wire[k].s, <<>>, {}, NULL)
  BY <1>1, <1>4, <1>5
<1>6. ASSUME NEW e \in Ends, tcp[k][e] = "TIME_WAIT",
             proceed(k, e, performStateTransition("TIME_WAIT", "TIMEOUT_2MSL"),
                     wire[k][e], <<>>, {}, NULL)
      PROVE  IInv'
  BY <1>4, <1>6
<1>7. ASSUME NEW e \in Ends, tcp[k][e] = "FIN_WAIT_2",
             proceed(k, e, performStateTransition("FIN_WAIT_2", "TIMEOUT_FIN_WAIT_2"),
                     wire[k][e], <<>>, {}, NULL)
      PROVE  IInv'
  BY <1>4, <1>7
<1> QED
  BY <1>5, <1>6, <1>7 DEF tcpTimers

-----------------------------------------------------------------------------
(* The specification.                                                      *)

LEMMA InitInv == Init => IInv
<1> SUFFICES ASSUME Init PROVE IInv
  OBVIOUS
<1>1. /\ tcp = [k \in Conns |-> [e \in Ends |-> "CLOSED"]]
      /\ wire = [k \in Conns |-> [e \in Ends |-> <<>>]]
      /\ client = [k \in Conns |-> NULL] /\ server = [k \in Conns |-> NULL]
      /\ maxThreadCount \in MaxConnections /\ currentConnectionCount = 0
      /\ threadCount = 0 /\ killed = {} /\ aborted = FALSE
  BY DEF Init, initializeTCP
<1>2. maxThreadCount \in Nat /\ MaxThreads \in Nat
  BY <1>1, TCPAppAssumption DEF TCPAppAssumption
<1>3. Types
  <2>1. tcp \in [Conns -> [Ends -> Live]]
    BY <1>1, Handshake
  <2>2. wire \in [Conns -> [Ends -> Seq(Segment)]]
    BY <1>1
  <2>3. /\ client \in [Conns -> ClientThread \cup {NULL}]
        /\ server \in [Conns -> ServerThread \cup {NULL}]
    BY <1>1
  <2>4. threadCount \in Int /\ currentConnectionCount \in Int
    BY <1>1
  <2>5. killed \subseteq Conns /\ aborted \in BOOLEAN
    BY <1>1, Zenon
  <2> QED
    BY <1>1, <2>1, <2>2, <2>3, <2>4, <2>5 DEF Types
<1>4. RequestsLeft
  BY <1>1 DEF RequestsLeft
<1>5. Workers = {} /\ Threads = {}
  BY <1>1 DEF Workers, Threads, Ends
<1>6. Cardinality(Workers) = 0 /\ Cardinality(Threads) = 0
  BY <1>5, FS_EmptySet
<1>7. AcceptedConnections
  BY <1>1, <1>2, <1>6, AcceptedIs
<1>8. ThreadLimit
  BY <1>1, <1>2, <1>6 DEF ThreadLimit
<1> QED
  BY <1>3, <1>4, <1>7, <1>8 DEF IInv

LEMMA Stutter == IInv /\ UNCHANGED vars => IInv'
<1> SUFFICES ASSUME IInv, UNCHANGED vars PROVE IInv'
  OBVIOUS
<1>1. Types'
  BY DEF IInv, vars, Types
<1>2. RequestsLeft' /\ AcceptedConnections' /\ ThreadLimit'
  BY DEF IInv, vars, RequestsLeft, AcceptedConnections, ThreadLimit, Threads
<1> QED
  BY <1>1, <1>2 DEF IInv

LEMMA NextInv == IInv /\ [Next]_vars => IInv'
<1> SUFFICES ASSUME IInv, [Next]_vars PROVE IInv'
  OBVIOUS
<1>1. CASE UNCHANGED vars
  BY <1>1, Stutter
<1>2. ASSUME Running, NEW a \in Clients, transmissionStart(a) PROVE IInv'
  BY <1>2, TransmissionStartStep
<1>3. ASSUME Running, NEW k \in Conns,
             clientTimer(k) \/ clientReceives(k) \/ connectTimers(k)
      PROVE  IInv'
  BY <1>3, ClientTimerStep, ClientReceivesStep, ConnectTimersStep
<1>4. ASSUME Running, NEW k \in Conns,
             listen(k) \/ serverReceives(k) \/ serverTimer(k) \/ tcpTimers(k)
      PROVE  IInv'
  BY <1>4, ListenStep, ServerReceivesStep, ServerTimerStep, TcpTimersStep
<1> QED
  BY <1>1, <1>2, <1>3, <1>4 DEF Next

(* Both counters are exact in every reachable state.                       *)
LEMMA Invariance == Spec => []IInv
  BY InitInv, NextInv, PTL DEF Spec

(* TCPApp's types: the states of both ends, segments, threads, counters.   *)
THEOREM TypeCorrect == Spec => []TypeOK
<1>1. IInv => TypeOK
  <2> SUFFICES ASSUME IInv PROVE TypeOK
    OBVIOUS
  <2>1. tcp \in [Conns -> [Ends -> States]]
    BY DEF IInv, Types, Live
  <2>2. \A k \in Conns, e \in Ends : wire[k][e] \in Seq(Segment)
    BY DEF IInv, Types
  <2>3. \A k \in Conns, e \in Ends : \A i \in DOMAIN wire[k][e] : wire[k][e][i] \in Segment
    BY <2>2
  <2>4. threadCount \in Nat /\ currentConnectionCount \in Nat
    BY CountsFinite, AcceptedIs DEF IInv, ThreadLimit
  <2> QED
    BY <2>1, <2>3, <2>4 DEF TypeOK, IInv, Types
<1> QED
  BY <1>1, Invariance, PTL

(* TCP_hack.cc:122-149: with any number of connections and however each of *)
(* them ends, the count of accepted connections is the number of workers,  *)
(* and never above the limit.                                              *)
THEOREM AcceptedConnectionsHold == Spec => []AcceptedConnections
<1>1. IInv => AcceptedConnections
  BY DEF IInv
<1> QED
  BY <1>1, Invariance, PTL

(* GenericTCPApplication.cc:180-205: for any noThreads the counter of the  *)
(* server application is the number of its threads, and never above it.    *)
THEOREM ThreadLimitHolds == Spec => []ThreadLimit
<1>1. IInv => ThreadLimit
  BY DEF IInv
<1> QED
  BY <1>1, Invariance, PTL
=============================================================================
