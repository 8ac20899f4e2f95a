--------------------------- MODULE TCPSessionProofs ---------------------------
(***************************************************************************)
(* Proofs about the sessions of TCPApp: for any number of clients and      *)
(* connections, any limit, any number of requests and any order of         *)
(* segments and timeouts, no thread makes an error, no close overtakes a   *)
(* reply and a finished session is complete.                               *)
(*                                                                         *)
(* The two ends of a connection, what is under way between them and their  *)
(* threads move through phases together.  That every connection is in one  *)
(* of them is the inductive invariant: it says which segments an end may   *)
(* still meet in which state, and so which callbacks a thread may get.     *)
(***************************************************************************)
EXTENDS TCPAppProofs, SequenceTheorems

(* The ends are in states x and y, in is on its way to the client and out  *)
(* to the server.                                                          *)
Ways(tc, w, x, y, in, out) == tc.c = x /\ tc.s = y /\ w.c = in /\ w.s = out

(* A client thread that waits for the replies to owed requests.            *)
Client(t, states, timer, socket, owed) ==
  /\ t # NULL /\ t.state \in states /\ t.timer = timer /\ t.socket = socket
  /\ t.sent = t.received + owed

InSession == {"CONNECTED", "DISCONNECTED"}

Server(doClose, replies, timer, socket) ==
  [doClose |-> doClose, replies |-> replies, timer |-> timer, socket |-> socket]

(* The request that the client thread has sent last.                       *)
Asked(t) ==
  [kind |-> "DATA", last |-> t.state = "DISCONNECTED", delayed |-> t.delayed,
   empty |-> t.empty]

Syn == Plain("SYN")
SynAck == Plain("SYN_ACK")
Ack == Plain("ACK")
Fin == Plain("FIN")
FinAcked == Plain("FIN_ACKED")
Rst == Plain("RST")

(* Nothing has been sent, or is left, for the thread of the next session.  *)
Waiting(tc, w, t, u) ==
  /\ Ways(tc, w, "CLOSED", "CLOSED", <<>>, <<>>) /\ u = NULL
  /\ Client(t, {"WAITING"}, TRUE, "NOT_BOUND", 0)

(* The client's end has given up: what is left ends the other one.         *)
Abandoned(tc, w, t, u) ==
  /\ t = NULL /\ u = NULL /\ tc.c = "CLOSED" /\ tc.s \in {"CLOSED", "SYN_RCVD"}
  /\ \/ w.c = <<>> /\ w.s = <<>>
     \/ \E r \in Segment : w.c = <<r>> /\ w.s = <<>>
     \/ \E r \in Segment : /\ w.c = <<>> /\ w.s = <<r>>
                           /\ r.kind \in {"SYN", "RST", "DATA"}

Connecting(tc, w, t, u) ==
  /\ Client(t, {"WAITING"}, FALSE, "NOT_BOUND", 0) /\ u = NULL
  /\ \/ Ways(tc, w, "SYN_SENT", "CLOSED", <<>>, <<>>)
     \/ Ways(tc, w, "SYN_SENT", "CLOSED", <<>>, <<Syn>>)
     \/ \E y \in {"CLOSED", "SYN_RCVD"} : Ways(tc, w, "SYN_SENT", y, <<SynAck>>, <<>>)

(* The first request follows the acknowledgement, unless the server's end  *)
(* has timed out.                                                          *)
Opening(tc, w, t, u) ==
  /\ Client(t, InSession, FALSE, "CONNECTED", 1) /\ u = NULL
  /\ \/ \E y \in {"CLOSED", "SYN_RCVD"} :
          Ways(tc, w, "ESTABLISHED", y, <<>>, <<Ack, Asked(t)>>)
     \/ Ways(tc, w, "ESTABLISHED", "CLOSED", <<Rst>>, <<Asked(t)>>)
     \/ Ways(tc, w, "ESTABLISHED", "CLOSED", <<Rst, Rst>>, <<>>)

(* A request on its way, its reply delayed, its reply on its way, or the   *)
(* client's pause before the next one. Or the request has come and asked   *)
(* for no reply: no timer is set then and nothing more is sent.            *)
Talking(tc, w, t, u) ==
  \/ /\ Client(t, InSession, FALSE, "CONNECTED", 1)
     /\ u = Server(FALSE, 0, FALSE, "CONNECTED")
     /\ Ways(tc, w, "ESTABLISHED", "ESTABLISHED", <<>>, <<Asked(t)>>)
  \/ /\ Client(t, InSession, FALSE, "CONNECTED", 1)
     /\ u = Server(t.state = "DISCONNECTED", 1, TRUE, "CONNECTED")
     /\ Ways(tc, w, "ESTABLISHED", "ESTABLISHED", <<>>, <<>>)
  \/ /\ Client(t, {"CONNECTED"}, FALSE, "CONNECTED", 1)
     /\ u = Server(FALSE, 0, FALSE, "CONNECTED")
     /\ Ways(tc, w, "ESTABLISHED", "ESTABLISHED", <<Reply>>, <<>>)
  \/ /\ Client(t, {"CONNECTED"}, TRUE, "CONNECTED", 0)
     /\ u = Server(FALSE, 0, FALSE, "CONNECTED")
     /\ Ways(tc, w, "ESTABLISHED", "ESTABLISHED", <<>>, <<>>)
  \/ /\ Client(t, InSession, FALSE, "CONNECTED", 1) /\ t.empty
     /\ u = Server(t.state = "DISCONNECTED", 0, FALSE, "CONNECTED")
     /\ Ways(tc, w, "ESTABLISHED", "ESTABLISHED", <<>>, <<>>)

(* The server's end has sent its FIN, after the last reply; the client's   *)
(* has not.                                                                *)
LastReply(tc, w, t, u) ==
  /\ u = Server(TRUE, 0, FALSE, "LOCALLY_CLOSED")
  /\ \/ /\ Client(t, {"DISCONNECTED"}, FALSE, "CONNECTED", 1)
        /\ Ways(tc, w, "ESTABLISHED", "FIN_WAIT_1", <<Reply, Fin>>, <<>>)
     \/ /\ Client(t, {"DISCONNECTED"}, TRUE, "CONNECTED", 0)
        /\ Ways(tc, w, "ESTABLISHED", "FIN_WAIT_1", <<Fin>>, <<>>)
     \/ /\ Client(t, {"DISCONNECTED"}, TRUE, "PEER_CLOSED", 0)
        /\ \/ Ways(tc, w, "CLOSE_WAIT", "FIN_WAIT_1", <<>>, <<FinAcked>>)
           \/ Ways(tc, w, "CLOSE_WAIT", "FIN_WAIT_2", <<>>, <<>>)

(* Both have, the client's end after that of the server.                   *)
ClosingInTurn(tc, w, t, u) ==
  /\ Client(t, {"DISCONNECTED"}, FALSE, "CLOSED", 0)
  /\ \/ /\ u = Server(TRUE, 0, FALSE, "LOCALLY_CLOSED")
        /\ \/ Ways(tc, w, "LAST_ACK", "FIN_WAIT_1", <<>>, <<FinAcked, Fin>>)
           \/ Ways(tc, w, "LAST_ACK", "FIN_WAIT_2", <<>>, <<Fin>>)
     \/ /\ u = NULL
        /\ \E y \in {"TIME_WAIT", "CLOSED"} : Ways(tc, w, "LAST_ACK", y, <<FinAcked>>, <<>>)

(* Both have, before either had the other's.                               *)
ClosingAtOnce(tc, w, t, u) ==
  \/ /\ Client(t, {"DISCONNECTED"}, FALSE, "LOCALLY_CLOSED", 0)
     /\ \/ /\ u = Server(TRUE, 0, FALSE, "LOCALLY_CLOSED")
           /\ Ways(tc, w, "FIN_WAIT_1", "FIN_WAIT_1", <<Fin>>, <<Fin>>)
        \/ /\ u = Server(TRUE, 0, FALSE, "CLOSED")
           /\ Ways(tc, w, "FIN_WAIT_1", "CLOSING", <<Fin, FinAcked>>, <<>>)
  \/ /\ Client(t, {"DISCONNECTED"}, FALSE, "CLOSED", 0)
     /\ \/ /\ u = Server(TRUE, 0, FALSE, "LOCALLY_CLOSED")
           /\ Ways(tc, w, "CLOSING", "FIN_WAIT_1", <<>>, <<Fin, FinAcked>>)
        \/ /\ u = Server(TRUE, 0, FALSE, "CLOSED")
           /\ Ways(tc, w, "CLOSING", "CLOSING", <<FinAcked>>, <<FinAcked>>)
        \/ /\ u = NULL
           /\ \E y \in {"TIME_WAIT", "CLOSED"} : Ways(tc, w, "CLOSING", y, <<FinAcked>>, <<>>)

(* The client's thread has been told, and reports its session.             *)
Finished(tc, w, t, u) ==
  /\ t = NULL \/ Client(t, {"FINISH"}, TRUE, "CLOSED", 0)
  /\ \E x \in {"CLOSED", "TIME_WAIT"} :
       \/ u = NULL /\ \E y \in {"CLOSED", "TIME_WAIT"} : Ways(tc, w, x, y, <<>>, <<>>)
       \/ /\ u = Server(TRUE, 0, FALSE, "CLOSED")
          /\ Ways(tc, w, x, "CLOSING", <<>>, <<FinAcked>>)

(* The server's end closed at the limit.  The first request, and a thread  *)
(* for it, may come all the same; nothing that thread sends goes out.      *)
Killed(tc, w, t, u) ==
  \/ /\ Client(t, InSession, FALSE, "CONNECTED", 1)
     /\ \/ u = NULL /\ Ways(tc, w, "ESTABLISHED", "FIN_WAIT_1", <<Fin>>, <<Asked(t)>>)
        \/ Ways(tc, w, "ESTABLISHED", "FIN_WAIT_1", <<Fin>>, <<>>)
  \/ /\ Client(t, InSession, FALSE, "PEER_CLOSED", 1)
     /\ \/ u = NULL /\ Ways(tc, w, "CLOSE_WAIT", "FIN_WAIT_1", <<>>, <<Asked(t), FinAcked>>)
        \/ Ways(tc, w, "CLOSE_WAIT", "FIN_WAIT_1", <<>>, <<FinAcked>>)
        \/ \E y \in {"FIN_WAIT_2", "CLOSED"} : Ways(tc, w, "CLOSE_WAIT", y, <<>>, <<>>)

LateThread ==
  {NULL, Server(TRUE, 0, FALSE, "LOCALLY_CLOSED"), Server(FALSE, 0, FALSE, "CONNECTED"),
   Server(TRUE, 0, FALSE, "CONNECTED"), Server(TRUE, 1, TRUE, "CONNECTED"),
   Server(FALSE, 1, TRUE, "CONNECTED")}

Phase(tc, w, t, u) ==
  \/ Waiting(tc, w, t, u) \/ Abandoned(tc, w, t, u) \/ Connecting(tc, w, t, u)
  \/ Opening(tc, w, t, u) \/ Talking(tc, w, t, u) \/ LastReply(tc, w, t, u)
  \/ ClosingInTurn(tc, w, t, u) \/ ClosingAtOnce(tc, w, t, u) \/ Finished(tc, w, t, u)

(* A thread that has sent its last request has none left.                  *)
Spent(t) == t # NULL /\ t.state \in {"DISCONNECTED", "FINISH"} => t.left = 0

Session(k) ==
  /\ \/ Phase(tcp[k], wire[k], client[k], server[k])
     \/ /\ k \in killed /\ server[k] \in LateThread
        /\ Killed(tcp[k], wire[k], client[k], server[k])
  /\ Spent(client[k])

Sessions == \A k \in Conns : Session(k)

SInv == IInv /\ Sessions /\ NoError

-----------------------------------------------------------------------------
(* What an end does with a segment: its next state, TCP's own answer and   *)
(* what its application is told.                                           *)
Row(state, kind, next, answer, told) ==
  /\ performStateTransition(state, eventOf(state, kind)) = next
  /\ [i \in DOMAIN response(state, kind) |-> Plain(response(state, kind)[i])] = answer
  /\ indication(state, kind) = told

LEMMA TransitionIs ==
  ASSUME NEW state \in DOMAIN Transitions, NEW event \in DOMAIN Transitions[state],
         Transitions[state][event] # "LISTEN"
  PROVE  performStateTransition(state, event) = Transitions[state][event]
  BY DEF performStateTransition

LEMMA NoTransition ==
  ASSUME NEW state, NEW event,
         state \notin DOMAIN Transitions \/ event \notin DOMAIN Transitions[state]
  PROVE  performStateTransition(state, event) = state
  BY DEF performStateTransition

LEMMA OneSegment ==
  ASSUME NEW kind, NEW answer, answer = <<kind>>
  PROVE  [i \in DOMAIN answer |-> Plain(answer[i])] = <<Plain(kind)>>
  OBVIOUS

LEMMA NoSegment ==
  ASSUME NEW answer, answer = <<>>
  PROVE  [i \in DOMAIN answer |-> Plain(answer[i])] = <<>>
  OBVIOUS

LEMMA ClosedRows ==
  ASSUME NEW kind \in Kinds
  PROVE  Row("CLOSED", kind, "CLOSED", IF kind = "RST" THEN <<>> ELSE <<Rst>>, "NONE")
<1>1. performStateTransition("CLOSED", eventOf("CLOSED", kind)) = "CLOSED"
  BY NoTransition DEF Transitions
<1>2. response("CLOSED", kind) = IF kind = "RST" THEN <<>> ELSE <<"RST">>
  BY DEF response
<1>3. [i \in DOMAIN response("CLOSED", kind) |-> Plain(response("CLOSED", kind)[i])]
        = IF kind = "RST" THEN <<>> ELSE <<Rst>>
  BY <1>2, OneSegment, NoSegment DEF Rst
<1>4. indication("CLOSED", kind) = "NONE"
  BY DEF indication, Kinds
<1> QED
  BY <1>1, <1>3, <1>4 DEF Row

(* The rows of the state machine that a session meets.                     *)
LEMMA HandshakeRows ==
  /\ Row("SYN_SENT", "SYN_ACK", "ESTABLISHED", <<Ack>>, "ESTABLISHED")
  /\ Row("SYN_RCVD", "ACK", "ESTABLISHED", <<>>, "ESTABLISHED")
  /\ Row("SYN_RCVD", "SYN", "SYN_RCVD", <<>>, "NONE")
  /\ Row("SYN_RCVD", "DATA", "SYN_RCVD", <<>>, "NONE")
  /\ Row("SYN_RCVD", "RST", "CLOSED", <<>>, "NONE")
<1>1. Row("SYN_SENT", "SYN_ACK", "ESTABLISHED", <<Ack>>, "ESTABLISHED")
  <2>1. performStateTransition("SYN_SENT", eventOf("SYN_SENT", "SYN_ACK")) = "ESTABLISHED"
    BY DEF performStateTransition, Transitions, eventOf
  <2>2. response("SYN_SENT", "SYN_ACK") = <<"ACK">>
        /\ indication("SYN_SENT", "SYN_ACK") = "ESTABLISHED"
    BY DEF response, indication
  <2> QED
    BY <2>1, <2>2, OneSegment DEF Row, Ack
<1>2. \A kind \in Kinds \ {"FIN"} : response("SYN_RCVD", kind) = <<>>
  BY DEF response
<1>3. \A kind \in {"ACK", "SYN", "DATA", "RST"} :
        [i \in DOMAIN response("SYN_RCVD", kind) |-> Plain(response("SYN_RCVD", kind)[i])] = <<>>
  BY <1>2, NoSegment DEF Kinds
<1>4. /\ performStateTransition("SYN_RCVD", eventOf("SYN_RCVD", "ACK")) = "ESTABLISHED"
      /\ performStateTransition("SYN_RCVD", eventOf("SYN_RCVD", "SYN")) = "SYN_RCVD"
      /\ performStateTransition("SYN_RCVD", eventOf("SYN_RCVD", "DATA")) = "SYN_RCVD"
      /\ performStateTransition("SYN_RCVD", eventOf("SYN_RCVD", "RST")) = "CLOSED"
  BY DEF performStateTransition, Transitions, eventOf
<1>5. /\ indication("SYN_RCVD", "ACK") = "ESTABLISHED"
      /\ \A kind \in {"SYN", "DATA", "RST"} : indication("SYN_RCVD", kind) = "NONE"
  BY DEF indication
<1> QED
  BY <1>1, <1>3, <1>4, <1>5 DEF Row

LEMMA DataRows ==
  /\ Row("ESTABLISHED", "DATA", "ESTABLISHED", <<>>, "DATA")
  /\ Row("FIN_WAIT_1", "DATA", "FIN_WAIT_1", <<>>, "DATA")
  /\ Row("ESTABLISHED", "RST", "CLOSED", <<>>, "CONNECTION_RESET")
<1>1. /\ response("ESTABLISHED", "DATA") = <<>> /\ response("ESTABLISHED", "RST") = <<>>
      /\ response("FIN_WAIT_1", "DATA") = <<>>
  BY DEF response
<1>2. /\ performStateTransition("ESTABLISHED", eventOf("ESTABLISHED", "DATA")) = "ESTABLISHED"
      /\ performStateTransition("ESTABLISHED", eventOf("ESTABLISHED", "RST")) = "CLOSED"
      /\ performStateTransition("FIN_WAIT_1", eventOf("FIN_WAIT_1", "DATA")) = "FIN_WAIT_1"
  BY DEF performStateTransition, Transitions, eventOf
<1>3. /\ indication("ESTABLISHED", "DATA") = "DATA" /\ indication("FIN_WAIT_1", "DATA") = "DATA"
      /\ indication("ESTABLISHED", "RST") = "CONNECTION_RESET"
  BY DEF indication
<1> QED
  BY <1>1, <1>2, <1>3, NoSegment DEF Row

LEMMA FinRows ==
  /\ Row("ESTABLISHED", "FIN", "CLOSE_WAIT", <<FinAcked>>, "PEER_CLOSED")
  /\ Row("FIN_WAIT_1", "FIN", "CLOSING", <<FinAcked>>, "PEER_CLOSED")
  /\ Row("FIN_WAIT_2", "FIN", "TIME_WAIT", <<FinAcked>>, "CLOSED")
<1>1. \A state \in {"ESTABLISHED", "FIN_WAIT_1", "FIN_WAIT_2"} :
        response(state, "FIN") = <<"FIN_ACKED">>
  BY DEF response
<1>2. /\ performStateTransition("ESTABLISHED", eventOf("ESTABLISHED", "FIN")) = "CLOSE_WAIT"
      /\ performStateTransition("FIN_WAIT_1", eventOf("FIN_WAIT_1", "FIN")) = "CLOSING"
      /\ performStateTransition("FIN_WAIT_2", eventOf("FIN_WAIT_2", "FIN")) = "TIME_WAIT"
  BY DEF performStateTransition, Transitions, eventOf
<1>3. /\ indication("ESTABLISHED", "FIN") = "PEER_CLOSED"
      /\ indication("FIN_WAIT_1", "FIN") = "PEER_CLOSED"
      /\ indication("FIN_WAIT_2", "FIN") = "CLOSED"
  BY DEF indication
<1> QED
  BY <1>1, <1>2, <1>3, OneSegment DEF Row, FinAcked

LEMMA FinAckedRows ==
  /\ Row("FIN_WAIT_1", "FIN_ACKED", "FIN_WAIT_2", <<>>, "NONE")
  /\ Row("LAST_ACK", "FIN_ACKED", "CLOSED", <<>>, "CLOSED")
  /\ Row("CLOSING", "FIN_ACKED", "TIME_WAIT", <<>>, "CLOSED")
<1>1. \A state \in {"FIN_WAIT_1", "LAST_ACK", "CLOSING"} : response(state, "FIN_ACKED") = <<>>
  BY DEF response
<1>2. /\ performStateTransition("FIN_WAIT_1", eventOf("FIN_WAIT_1", "FIN_ACKED")) = "FIN_WAIT_2"
      /\ performStateTransition("LAST_ACK", eventOf("LAST_ACK", "FIN_ACKED")) = "CLOSED"
      /\ performStateTransition("CLOSING", eventOf("CLOSING", "FIN_ACKED")) = "TIME_WAIT"
  BY DEF performStateTransition, Transitions, eventOf
<1>3. /\ indication("FIN_WAIT_1", "FIN_ACKED") = "NONE"
      /\ indication("LAST_ACK", "FIN_ACKED") = "CLOSED"
      /\ indication("CLOSING", "FIN_ACKED") = "CLOSED"
  BY DEF indication
<1> QED
  BY <1>1, <1>2, <1>3, NoSegment DEF Row

LEMMA TimeoutRows ==
  /\ performStateTransition("SYN_SENT", "TIMEOUT_CONN_ESTAB") = "CLOSED"
  /\ performStateTransition("SYN_RCVD", "TIMEOUT_CONN_ESTAB") = "CLOSED"
  /\ performStateTransition("TIME_WAIT", "TIMEOUT_2MSL") = "CLOSED"
  /\ performStateTransition("FIN_WAIT_2", "TIMEOUT_FIN_WAIT_2") = "CLOSED"
  BY DEF performStateTransition, Transitions

-----------------------------------------------------------------------------
(* At most two segments are under way to an end.                           *)
LEMMA Two ==
  ASSUME NEW a, NEW b PROVE <<a>> \o <<b>> = <<a, b>>
<1> DEFINE S == {a, b}  p == <<a>>  q == <<b>>  r == <<a, b>>
<1>1. p \in Seq(S) /\ q \in Seq(S) /\ r \in Seq(S)
  OBVIOUS
<1>2. /\ Len(p) = 1 /\ Len(q) = 1 /\ Len(r) = 2
      /\ p[1] = a /\ q[1] = b /\ r[1] = a /\ r[2] = b
  OBVIOUS
<1> HIDE DEF p, q, r, S
<1>3. p \o q \in Seq(S) /\ Len(p \o q) = 2
  BY <1>1, <1>2, ConcatProperties
<1>4. (p \o q)[1] = a /\ (p \o q)[2] = b
  <2>1. \A i \in 1 .. 2 : (p \o q)[i] = IF i <= 1 THEN p[i] ELSE q[i - 1]
    BY <1>1, <1>2, ConcatProperties
  <2>2. 1 \in 1 .. 2 /\ 2 \in 1 .. 2 /\ 1 <= 1 /\ ~(2 <= 1) /\ 2 - 1 = 1
    OBVIOUS
  <2>3. (p \o q)[1] = p[1]
    BY <2>1, <2>2
  <2>4. (p \o q)[2] = q[1]
    <3>1. (p \o q)[2] = IF 2 <= 1 THEN p[2] ELSE q[2 - 1]
      BY <2>1, <2>2, Zenon
    <3> QED
      BY <2>2, <3>1
  <2> QED
    BY <1>2, <2>3, <2>4
<1>5. \A i \in 1 .. 2 : (p \o q)[i] = r[i]
  BY <1>2, <1>4
<1> QED
  BY <1>1, <1>2, <1>3, <1>5, SeqEqual DEF p, q, r

LEMMA Few ==
  ASSUME NEW a, NEW b
  PROVE  /\ <<>> \o <<>> = <<>>
         /\ <<>> \o <<a>> = <<a>> /\ <<a>> \o <<>> = <<a>>
         /\ <<>> \o <<a, b>> = <<a, b>> /\ <<a, b>> \o <<>> = <<a, b>>
<1>1. <<>> \o <<>> = <<>> /\ <<>> \o <<a>> = <<a>> /\ <<a>> \o <<>> = <<a>>
  OBVIOUS
<1>2. <<>> \o <<a, b>> = <<a, b>>
  OBVIOUS
<1>3. <<a, b>> \o <<>> = <<a, b>>
  OBVIOUS
<1> QED
  BY <1>1, <1>2, <1>3

LEMMA First ==
  ASSUME NEW a, NEW b
  PROVE  /\ <<a>> # <<>> /\ Head(<<a>>) = a /\ Tail(<<a>>) = <<>>
         /\ <<a, b>> # <<>> /\ Head(<<a, b>>) = a /\ Tail(<<a, b>>) = <<b>>
<1>1. <<a>> # <<>> /\ Head(<<a>>) = a /\ Tail(<<a>>) = <<>>
  OBVIOUS
<1>2. <<a, b>> # <<>> /\ Head(<<a, b>>) = a /\ Tail(<<a, b>>) = <<b>>
  OBVIOUS
<1> QED
  BY <1>1, <1>2

(* What an end sends, after its answer, by the commands of its application, *)
(* and the state they leave it in.                                         *)
Effect(s, answer, commands, data, end, out) ==
  LET sends == IF "SEND" \in commands /\ command(s, "SEND") # <<>> THEN <<data>> ELSE <<>>
      closes == IF "CLOSE" \in commands THEN command(s, "CLOSE") ELSE <<>>
  IN  /\ end = IF closes = <<>> THEN s ELSE performStateTransition(s, "CLOSE")
      /\ out = answer \o sends \o [i \in DOMAIN closes |-> Plain(closes[i])]

LEMMA NoCommands ==
  ASSUME NEW s, NEW answer \in Seq(Segment), NEW data
  PROVE  Effect(s, answer, {}, data, s, answer)
<1>1. [i \in DOMAIN <<>> |-> Plain(<<>>[i])] = <<>>
  BY NoSegment
<1>2. answer \o <<>> \o <<>> = answer
  OBVIOUS
<1> QED
  BY <1>1, <1>2 DEF Effect

LEMMA Sends ==
  ASSUME NEW data
  PROVE  /\ Effect("ESTABLISHED", <<Ack>>, {"SEND"}, data, "ESTABLISHED", <<Ack, data>>)
         /\ Effect("ESTABLISHED", <<>>, {"SEND"}, data, "ESTABLISHED", <<data>>)
         /\ Effect("ESTABLISHED", <<>>, {"SEND"} \cup {}, data, "ESTABLISHED", <<data>>)
<1>1. command("ESTABLISHED", "SEND") = <<"DATA">> /\ <<"DATA">> # <<>>
  BY DEF command
<1>2. [i \in DOMAIN <<>> |-> Plain(<<>>[i])] = <<>>
  BY NoSegment
<1>3. <<Ack>> \o <<data>> \o <<>> = <<Ack, data>> /\ <<>> \o <<data>> \o <<>> = <<data>>
  BY Two, Few
<1>4. "CLOSE" \notin {"SEND"} /\ "CLOSE" \notin {"SEND"} \cup {}
  OBVIOUS
<1> QED
  BY <1>1, <1>2, <1>3, <1>4 DEF Effect

LEMMA Closes ==
  ASSUME NEW data
  PROVE  /\ Effect("ESTABLISHED", <<>>, {"SEND"} \cup {"CLOSE"}, data, "FIN_WAIT_1", <<data, Fin>>)
         /\ Effect("ESTABLISHED", <<>>, {"CLOSE"}, data, "FIN_WAIT_1", <<Fin>>)
         /\ Effect("CLOSE_WAIT", <<>>, {"CLOSE"}, data, "LAST_ACK", <<Fin>>)
<1>1. /\ command("ESTABLISHED", "SEND") = <<"DATA">> /\ <<"DATA">> # <<>>
      /\ command("ESTABLISHED", "CLOSE") = <<"FIN">> /\ <<"FIN">> # <<>>
      /\ command("CLOSE_WAIT", "CLOSE") = <<"FIN">>
  BY DEF command
<1>2. /\ performStateTransition("ESTABLISHED", "CLOSE") = "FIN_WAIT_1"
      /\ performStateTransition("CLOSE_WAIT", "CLOSE") = "LAST_ACK"
  BY DEF performStateTransition, Transitions
<1>3. [i \in DOMAIN <<"FIN">> |-> Plain(<<"FIN">>[i])] = <<Fin>>
  BY OneSegment DEF Fin
<1>4. <<>> \o <<data>> \o <<Fin>> = <<data, Fin>> /\ <<>> \o <<>> \o <<Fin>> = <<Fin>>
  BY Two, Few
<1>5. "SEND" \notin {"CLOSE"}
  OBVIOUS
<1> QED
  BY <1>1, <1>2, <1>3, <1>4, <1>5 DEF Effect

(* After its FIN an end takes no command.                                  *)
LEMMA NoEffect ==
  ASSUME NEW s \in {"FIN_WAIT_1", "FIN_WAIT_2", "CLOSED"}, NEW commands, NEW data
  PROVE  Effect(s, <<>>, commands, data, s, <<>>)
<1>1. command(s, "SEND") = <<>> /\ command(s, "CLOSE") = <<>>
  BY DEF command
<1>2. [i \in DOMAIN <<>> |-> Plain(<<>>[i])] = <<>>
  BY NoSegment
<1>3. <<>> \o <<>> \o <<>> = <<>>
  OBVIOUS
<1> QED
  BY <1>1, <1>2, <1>3 DEF Effect

(* End e of k takes and sends segments, and the other one gets them.       *)
Moved(k, e, end, inbox, out) ==
  IF e = "c" THEN Ways(tcp'[k], wire'[k], end, tcp[k].s, inbox, wire[k].s \o out)
             ELSE Ways(tcp'[k], wire'[k], tcp[k].c, end, wire[k].c \o out, inbox)

LEMMA Moves ==
  ASSUME Types, NEW k \in Conns, NEW e \in Ends, NEW s, NEW inbox, NEW own, NEW commands,
         NEW data, NEW end, NEW out,
         Effect(s, [i \in DOMAIN own |-> Plain(own[i])], commands, data, end, out),
         proceed(k, e, s, inbox, own, commands, data)
  PROVE  Moved(k, e, end, inbox, out)
<1>1. /\ tcp' = [tcp EXCEPT ![k][e] = end]
      /\ wire' = [wire EXCEPT ![k] =
           [d \in Ends |-> IF d = e THEN inbox ELSE wire[k][d] \o out]]
  BY DEF proceed, Effect, Types
<1>2. tcp \in [Conns -> [Ends -> Live]] /\ wire \in [Conns -> [Ends -> Seq(Segment)]]
  BY DEF Types
<1>3. /\ \A d \in Ends : tcp'[k][d] = IF d = e THEN end ELSE tcp[k][d]
      /\ \A d \in Ends : wire'[k][d] = IF d = e THEN inbox ELSE wire[k][d] \o out
  BY <1>1, <1>2
<1> QED
  BY <1>3 DEF Moved, Ways, Ends

LEMMA Takes ==
  ASSUME Types, NEW k \in Conns, NEW e \in Ends, NEW state, NEW kind, NEW next, NEW answer,
         NEW told, Row(state, kind, next, answer, told),
         tcp[k][e] = state, Head(wire[k][e]).kind = kind,
         NEW commands, NEW data, NEW end, NEW out, Effect(next, answer, commands, data, end, out),
         arrive(k, e, commands, data)
  PROVE  Moved(k, e, end, Tail(wire[k][e]), out)
<1>1. /\ proceed(k, e, next, Tail(wire[k][e]), response(state, kind), commands, data)
      /\ [i \in DOMAIN response(state, kind) |-> Plain(response(state, kind)[i])] = answer
  BY DEF arrive, Row
<1> QED
  BY <1>1, Moves

(* ... when the application does nothing.                                  *)
LEMMA TakesQuietly ==
  ASSUME Types, NEW k \in Conns, NEW e \in Ends, NEW state, NEW kind, NEW next,
         NEW answer \in Seq(Segment),
         NEW told, Row(state, kind, next, answer, told),
         tcp[k][e] = state, Head(wire[k][e]).kind = kind, arrive(k, e, {}, NULL)
  PROVE  Moved(k, e, next, Tail(wire[k][e]), answer)
  BY NoCommands, Takes

LEMMA Acts ==
  ASSUME Types, NEW k \in Conns, NEW e \in Ends, NEW commands, NEW data, NEW end, NEW out,
         Effect(tcp[k][e], <<>>, commands, data, end, out), act(k, e, commands, data)
  PROVE  Moved(k, e, end, wire[k][e], out)
<1>1. [i \in DOMAIN <<>> |-> Plain(<<>>[i])] = <<>>
  BY NoSegment
<1> QED
  BY <1>1, Moves DEF act

(* ... and a timer of TCP.                                                 *)
LEMMA TimesOut ==
  ASSUME Types, NEW k \in Conns, NEW e \in Ends, NEW s,
         proceed(k, e, s, wire[k][e], <<>>, {}, NULL)
  PROVE  Moved(k, e, s, wire[k][e], <<>>)
<1>1. [i \in DOMAIN <<>> |-> Plain(<<>>[i])] = <<>>
  BY NoSegment
<1>2. <<>> \in Seq(Segment)
  OBVIOUS
<1>3. Effect(s, <<>>, {}, NULL, s, <<>>)
  BY <1>2, NoCommands
<1> QED
  BY <1>1, <1>3, Moves

-----------------------------------------------------------------------------
(* A step of one connection leaves the others alone.                       *)
Elsewhere(k) ==
  \A j \in Conns \ {k} :
    /\ tcp'[j] = tcp[j] /\ wire'[j] = wire[j]
    /\ client'[j] = client[j] /\ server'[j] = server[j]
    /\ j \in killed => j \in killed'

LEMMA ProceedElsewhere ==
  ASSUME Types, NEW k \in Conns, NEW e \in Ends, NEW s, NEW inbox, NEW own, NEW commands,
         NEW data, proceed(k, e, s, inbox, own, commands, data)
  PROVE  \A j \in Conns \ {k} : tcp'[j] = tcp[j] /\ wire'[j] = wire[j]
<1>1. /\ \E end : tcp' = [tcp EXCEPT ![k][e] = end]
      /\ \E w : wire' = [wire EXCEPT ![k] = w]
  BY DEF proceed
<1>2. tcp \in [Conns -> [Ends -> Live]] /\ wire \in [Conns -> [Ends -> Seq(Segment)]]
  BY DEF Types
<1> QED
  BY <1>1, <1>2

LEMMA ArriveElsewhere ==
  ASSUME Types, NEW k \in Conns, NEW e \in Ends, NEW commands, NEW data,
         arrive(k, e, commands, data) \/ act(k, e, commands, data)
  PROVE  \A j \in Conns \ {k} : tcp'[j] = tcp[j] /\ wire'[j] = wire[j]
  BY ProceedElsewhere DEF arrive, act

LEMMA ClientElsewhere ==
  ASSUME Types, NEW k \in Conns, clientTimer(k) \/ clientReceives(k) \/ connectTimers(k)
  PROVE  Elsewhere(k)
<1>1. "c" \in Ends /\ "s" \in Ends /\ tcp \in [Conns -> [Ends -> Live]]
      /\ wire \in [Conns -> [Ends -> Seq(Segment)]]
      /\ client \in [Conns -> ClientThread \cup {NULL}]
  BY DEF Ends, Types
<1>2. UNCHANGED <<server, killed>>
  BY DEF clientTimer, clientReceives, connectTimers
<1>3. \A j \in Conns \ {k} : client'[j] = client[j]
  BY <1>1 DEF clientTimer, clientReceives, connectTimers
<1>4. \A j \in Conns \ {k} : tcp'[j] = tcp[j] /\ wire'[j] = wire[j]
  <2>1. CASE clientTimer(k)
    <3>1. \/ \E length : act(k, "c", {"SEND"}, request(client[k], length))
          \/ act(k, "c", closing(client[k].socket), NULL)
          \/ UNCHANGED <<tcp, wire>>
          \/ /\ tcp' = [tcp EXCEPT ![k].c = "SYN_SENT"]
             /\ wire' = [wire EXCEPT ![k].s = Append(@, Plain("SYN"))]
      BY <2>1 DEF clientTimer
    <3> QED
      BY <1>1, <3>1, ArriveElsewhere
  <2>2. CASE clientReceives(k)
    <3>1. \/ arrive(k, "c", {}, NULL)
          \/ \E length : arrive(k, "c", {"SEND"}, request(socketEstablished(client[k]), length))
      BY <2>2 DEF clientReceives
    <3> QED
      BY <1>1, <3>1, ArriveElsewhere
  <2>3. CASE connectTimers(k)
    <3>1. \/ /\ wire' = [wire EXCEPT ![k].s = <<Plain("SYN")>>]
             /\ UNCHANGED tcp
          \/ proceed(k, "c", performStateTransition("SYN_SENT", "TIMEOUT_CONN_ESTAB"),
                     wire[k].c, <<>>, {}, NULL)
      BY <2>3 DEF connectTimers
    <3> QED
      BY <1>1, <3>1, ProceedElsewhere
  <2> QED
    BY <2>1, <2>2, <2>3
<1> QED
  BY <1>2, <1>3, <1>4 DEF Elsewhere

LEMMA ServerElsewhere ==
  ASSUME Types, NEW k \in Conns,
         listen(k) \/ serverReceives(k) \/ serverTimer(k) \/ tcpTimers(k)
  PROVE  Elsewhere(k)
<1>1. "c" \in Ends /\ "s" \in Ends /\ tcp \in [Conns -> [Ends -> Live]]
      /\ wire \in [Conns -> [Ends -> Seq(Segment)]]
      /\ server \in [Conns -> ServerThread \cup {NULL}]
  BY DEF Ends, Types
<1>2. UNCHANGED client /\ killed \subseteq killed'
  BY DEF listen, serverReceives, serverTimer, tcpTimers
<1>3. server' = server \/ \E u : server' = [server EXCEPT ![k] = u]
  BY DEF listen, serverReceives, serverTimer, tcpTimers, callback, dataArrived, noReply,
         replyLater, replyNow, removeThread
<1>4. \A j \in Conns \ {k} : tcp'[j] = tcp[j] /\ wire'[j] = wire[j]
  <2>1. CASE listen(k)
    <3>1. \/ arrive(k, "s", {}, NULL)
          \/ /\ tcp' = [tcp EXCEPT ![k].s = performStateTransition("LISTEN", "RCV_SYN")]
             /\ wire' = [wire EXCEPT ![k].s = Tail(@), ![k].c = Append(@, Plain("SYN_ACK"))]
          \/ wire' = [wire EXCEPT ![k].s = Tail(@)] /\ UNCHANGED tcp
      BY <2>1 DEF listen
    <3> QED
      BY <1>1, <3>1, ArriveElsewhere
  <2>2. CASE serverReceives(k)
    <3>1. \E commands, data : arrive(k, "s", commands, data)
      BY <2>2 DEF serverReceives, callback, dataArrived, noReply, replyLater, replyNow
    <3> QED
      BY <1>1, <3>1, ArriveElsewhere
  <2>3. CASE serverTimer(k)
    <3>1. \E commands, data : act(k, "s", commands, data)
      BY <2>3 DEF serverTimer
    <3> QED
      BY <1>1, <3>1, ArriveElsewhere
  <2>4. CASE tcpTimers(k)
    <3>1. \E e \in Ends : \E s : proceed(k, e, s, wire[k][e], <<>>, {}, NULL)
      BY <1>1, <2>4 DEF tcpTimers
    <3> QED
      BY <1>1, <3>1, ProceedElsewhere
  <2> QED
    BY <2>1, <2>2, <2>3, <2>4
<1> QED
  BY <1>1, <1>2, <1>3, <1>4 DEF Elsewhere

(* So they stay in their phases.                                           *)
LEMMA SessionsAfter ==
  ASSUME Sessions, NEW k \in Conns, Elsewhere(k), Session(k)'
  PROVE  Sessions'
<1>1. ASSUME NEW j \in Conns \ {k} PROVE Session(j)'
  <2>1. /\ tcp'[j] = tcp[j] /\ wire'[j] = wire[j]
        /\ client'[j] = client[j] /\ server'[j] = server[j]
        /\ j \in killed => j \in killed'
    BY DEF Elsewhere
  <2>2. Session(j)
    BY DEF Sessions
  <2> QED
    BY <2>1, <2>2 DEF Session
<1> QED
  BY <1>1 DEF Sessions

LEMMA SessionAfter ==
  ASSUME NEW k \in Conns, Spent(client'[k]),
         \/ Phase(tcp'[k], wire'[k], client'[k], server'[k])
         \/ /\ k \in killed' /\ server'[k] \in LateThread
            /\ Killed(tcp'[k], wire'[k], client'[k], server'[k])
  PROVE  Session(k)'
  BY DEF Session

-----------------------------------------------------------------------------
(* The client.                                                             *)

LEMMA Replied ==
  ASSUME NEW t \in ClientThread, NEW v, v = [t EXCEPT !.received = @ + 1, !.timer = TRUE]
  PROVE  /\ v # NULL /\ v.state = t.state /\ v.left = t.left /\ v.socket = t.socket
         /\ v.timer = TRUE /\ (t.sent = t.received + 1 => v.sent = v.received + 0)
<1> DEFINE n == t.received + 1
<1>1. v = [t EXCEPT !.received = n, !.timer = TRUE] /\ n \in Nat
  BY DEF ClientThread
<1>2. t.sent = t.received + 1 => t.sent = n + 0
  BY DEF ClientThread
<1> HIDE DEF n
<1>3. /\ v \in ClientThread /\ v.received = n /\ v.timer = TRUE
      /\ v.sent = t.sent /\ v.socket = t.socket /\ v.state = t.state /\ v.left = t.left
  BY <1>1 DEF ClientThread
<1> QED
  BY <1>2, <1>3, NoThread

LEMMA TimerChanged ==
  ASSUME NEW t \in ClientThread
  PROVE  LET v == [t EXCEPT !.timer = FALSE] IN
         /\ v # NULL /\ v.state = t.state /\ v.timer = FALSE /\ v.socket = t.socket
         /\ v.sent = t.sent /\ v.received = t.received
<1> DEFINE v == [t EXCEPT !.timer = FALSE]
<1>1. v \in ClientThread
  BY DEF ClientThread
<1> QED
  BY <1>1, NoThread DEF ClientThread

(* Its socket changes ...                                                  *)
LEMMA SocketChanged ==
  ASSUME NEW t \in ClientThread, NEW s \in SocketStates, NEW v, v = [t EXCEPT !.socket = s]
  PROVE  /\ v # NULL /\ v.socket = s /\ v.state = t.state /\ v.left = t.left
         /\ v.sent = t.sent /\ v.received = t.received /\ v.timer = t.timer
         /\ v.delayed = t.delayed /\ v.empty = t.empty
<1>1. v \in ClientThread
  BY DEF ClientThread
<1> QED
  BY <1>1, NoThread DEF ClientThread

(* ... also when its timer expires ...                                     *)
LEMMA SocketClosed ==
  ASSUME NEW t \in ClientThread, t.state = "DISCONNECTED", t.sent = t.received + 0, t.left = 0,
         NEW s \in SocketStates, NEW v, v = [t EXCEPT !.timer = FALSE, !.socket = s]
  PROVE  Client(v, {"DISCONNECTED"}, FALSE, s, 0) /\ Spent(v)
<1>1. /\ v \in ClientThread /\ v.socket = s /\ v.state = t.state /\ v.left = t.left
      /\ v.sent = t.sent /\ v.received = t.received /\ v.timer = FALSE
  BY DEF ClientThread
<1> QED
  BY <1>1, NoThread DEF Client, Spent

(* ... and the thread learns that the connection is closed.                *)
LEMMA Finishes ==
  ASSUME NEW t \in ClientThread, t.sent = t.received + 0, t.left = 0,
         NEW v, v = [t EXCEPT !.state = "FINISH", !.timer = TRUE, !.socket = "CLOSED"]
  PROVE  Client(v, {"FINISH"}, TRUE, "CLOSED", 0) /\ Spent(v)
<1>1. /\ v \in ClientThread /\ v.socket = "CLOSED" /\ v.state = "FINISH" /\ v.left = t.left
      /\ v.sent = t.sent /\ v.received = t.received /\ v.timer = TRUE
  BY DEF ClientThread, SocketStates
<1> QED
  BY <1>1, NoThread DEF Client, Spent

(* A request has been sent.                                                *)
LEMMA Requested ==
  ASSUME NEW t \in ClientThread, t.left >= 1, t.state = "CONNECTED", t.sent = t.received,
         NEW length,
         NEW v, \/ v = afterRequest(t, length) /\ t.timer = FALSE
                \/ v = [afterRequest(t, length) EXCEPT !.timer = FALSE]
  PROVE  /\ Client(v, InSession, FALSE, t.socket, 1) /\ Spent(v)
         /\ request(t, length) = Asked(v) /\ v \in ClientThread
<1> DEFINE st == IF t.left - 1 <= 0 THEN "DISCONNECTED" ELSE t.state
           l == t.left - 1
           n == t.sent + 1
           none == length = 0
           w == afterRequest(t, length)
<1>1. w = [t EXCEPT !.left = l, !.sent = n, !.empty = none, !.state = st]
  BY DEF afterRequest, ClientThread
<1>2. /\ l \in Nat /\ n \in Nat /\ st \in InSession /\ (st = "DISCONNECTED" => l = 0)
      /\ n = t.received + 1 /\ none \in BOOLEAN
  BY DEF ClientThread, InSession
<1>3. request(t, length) = [kind |-> "DATA", last |-> w.state = "DISCONNECTED",
                            delayed |-> t.delayed, empty |-> none]
  BY DEF request
<1> HIDE DEF st, l, n, none, w
<1>4. /\ w \in ClientThread /\ w.left = l /\ w.sent = n /\ w.state = st
      /\ w.received = t.received /\ w.socket = t.socket
      /\ w.timer = t.timer /\ w.delayed = t.delayed /\ w.empty = none
  BY <1>1, <1>2 DEF ClientThread, InSession
<1>5. \/ v = [w EXCEPT !.timer = FALSE]
      \/ v = w /\ t.timer = FALSE
  BY DEF w
<1>6. /\ v \in ClientThread /\ v.left = l /\ v.sent = n /\ v.state = st
      /\ v.received = t.received /\ v.socket = t.socket /\ v.timer = FALSE
      /\ v.delayed = t.delayed /\ v.empty = none
  BY <1>4, <1>5 DEF ClientThread
<1>7. st # "FINISH"
  BY <1>2 DEF InSession
<1> QED
  BY <1>2, <1>3, <1>4, <1>6, <1>7, NoThread DEF Client, Spent, Asked

LEMMA KnownSockets ==
  {"CONNECTED", "PEER_CLOSED", "LOCALLY_CLOSED", "CLOSED"} \subseteq SocketStates
  BY DEF SocketStates

LEMMA OwnKinds ==
  /\ Syn.kind = "SYN" /\ SynAck.kind = "SYN_ACK" /\ Ack.kind = "ACK" /\ Fin.kind = "FIN"
  /\ FinAcked.kind = "FIN_ACKED" /\ Rst.kind = "RST" /\ Reply.kind = "DATA"
  /\ {Syn, SynAck, Ack, Fin, FinAcked, Rst, Reply} \subseteq Segment
  BY DEF Syn, SynAck, Ack, Fin, FinAcked, Rst, Reply, Plain, Segment

LEMMA OwnSequences ==
  /\ <<>> \in Seq(Segment) /\ <<Ack>> \in Seq(Segment)
  /\ <<Rst>> \in Seq(Segment) /\ <<FinAcked>> \in Seq(Segment)
  BY OwnKinds

(* The client's end takes a segment of some kind.                          *)
ClientTakes(k, state, kind, next, answer, told) ==
  /\ clientReceives(k) /\ Row(state, kind, next, answer, told)
  /\ tcp[k].c = state /\ Head(wire[k].c).kind = kind /\ answer \in Seq(Segment)

(* What becomes of the connection ...                                      *)
ClientTook(k, next, answer) ==
  /\ Ways(tcp'[k], wire'[k], next, tcp[k].s, Tail(wire[k].c), wire[k].s \o answer)
  /\ server'[k] = server[k]

LEMMA ClientTakesIt ==
  ASSUME SInv, NEW k \in Conns, NEW state, NEW kind, NEW next, NEW answer, NEW told,
         told # "ESTABLISHED", ClientTakes(k, state, kind, next, answer, told)
  PROVE  ClientTook(k, next, answer)
<1>1. Types /\ "c" \in Ends
  BY DEF SInv, IInv, Ends
<1>2. indication(tcp[k].c, Head(wire[k].c).kind) = told
  BY DEF ClientTakes, Row
<1>3. arrive(k, "c", {}, NULL) /\ UNCHANGED server
  BY <1>2 DEF ClientTakes, clientReceives
<1>4. Moved(k, "c", next, Tail(wire[k].c), answer)
  BY <1>1, <1>3, TakesQuietly DEF ClientTakes
<1> QED
  BY <1>3, <1>4 DEF Moved, ClientTook

(* ... and of the client's thread, by what it is told.                     *)
LEMMA ClientHears ==
  ASSUME SInv, NEW k \in Conns, NEW state, NEW kind, NEW next, NEW answer
  PROVE  /\ ClientTakes(k, state, kind, next, answer, "NONE") =>
              client'[k] = client[k] /\ ~aborted'
         /\ ClientTakes(k, state, kind, next, answer, "CONNECTION_RESET") /\ client[k] # NULL =>
              client'[k] = NULL /\ ~aborted'
         /\ ClientTakes(k, state, kind, next, answer, "DATA") /\ client[k] # NULL =>
              /\ client'[k] = [client[k] EXCEPT !.received = @ + 1, !.timer = TRUE]
              /\ aborted' = client[k].timer
         /\ ClientTakes(k, state, kind, next, answer, "PEER_CLOSED") /\ client[k] # NULL =>
              /\ client'[k] = [client[k] EXCEPT !.socket = peerClosedSocket(client[k].socket)]
              /\ ~aborted'
         /\ ClientTakes(k, state, kind, next, answer, "CLOSED") /\ client[k] # NULL =>
              /\ client'[k] = [client[k] EXCEPT !.state = "FINISH", !.timer = TRUE,
                                                !.socket = "CLOSED"]
              /\ ~aborted'
<1>1. ~aborted /\ client \in [Conns -> ClientThread \cup {NULL}]
  BY DEF SInv, IInv, Types, NoError
<1>2. ASSUME ClientTakes(k, state, kind, next, answer, "NONE")
      PROVE  client'[k] = client[k] /\ ~aborted'
  <2>1. indication(tcp[k].c, Head(wire[k].c).kind) = "NONE" /\ clientReceives(k)
    BY <1>2 DEF ClientTakes, Row
  <2>2. UNCHANGED <<client, aborted>>
    BY <2>1, <1>2 DEF clientReceives
  <2> QED
    BY <1>1, <2>2
<1>3. ASSUME ClientTakes(k, state, kind, next, answer, "CONNECTION_RESET"), client[k] # NULL
      PROVE  client'[k] = NULL /\ ~aborted'
  <2>1. indication(tcp[k].c, Head(wire[k].c).kind) = "CONNECTION_RESET" /\ clientReceives(k)
    BY <1>3 DEF ClientTakes, Row
  <2>2. client' = [client EXCEPT ![k] = NULL] /\ aborted' = aborted
    BY <2>1, <1>3 DEF clientReceives
  <2> QED
    BY <1>1, <2>2
<1>4. ASSUME ClientTakes(k, state, kind, next, answer, "DATA"), client[k] # NULL
      PROVE  /\ client'[k] = [client[k] EXCEPT !.received = @ + 1, !.timer = TRUE]
             /\ aborted' = client[k].timer
  <2>1. indication(tcp[k].c, Head(wire[k].c).kind) = "DATA" /\ clientReceives(k)
    BY <1>4 DEF ClientTakes, Row
  <2>2. /\ client' = [client EXCEPT ![k].received = @ + 1, ![k].timer = TRUE]
        /\ aborted' = client[k].timer
    BY <2>1, <1>4 DEF clientReceives
  <2> QED
    BY <1>1, <2>2
<1>5. ASSUME ClientTakes(k, state, kind, next, answer, "PEER_CLOSED"), client[k] # NULL
      PROVE  /\ client'[k] = [client[k] EXCEPT !.socket = peerClosedSocket(client[k].socket)]
             /\ ~aborted'
  <2>1. indication(tcp[k].c, Head(wire[k].c).kind) = "PEER_CLOSED" /\ clientReceives(k)
    BY <1>5 DEF ClientTakes, Row
  <2>2. client' = [client EXCEPT ![k].socket = peerClosedSocket(@)] /\ aborted' = aborted
    BY <2>1, <1>5 DEF clientReceives
  <2> QED
    BY <1>1, <2>2
<1>6. ASSUME ClientTakes(k, state, kind, next, answer, "CLOSED"), client[k] # NULL
      PROVE  /\ client'[k] = [client[k] EXCEPT !.state = "FINISH", !.timer = TRUE,
                                               !.socket = "CLOSED"]
             /\ ~aborted'
  <2>1. indication(tcp[k].c, Head(wire[k].c).kind) = "CLOSED" /\ clientReceives(k)
    BY <1>6 DEF ClientTakes, Row
  <2>2. /\ client' = [client EXCEPT ![k].state = "FINISH", ![k].timer = TRUE,
                                    ![k].socket = "CLOSED"]
        /\ aborted' = aborted
    BY <2>1, <1>6 DEF clientReceives
  <2> QED
    BY <1>1, <2>2
<1> QED
  BY <1>2, <1>3, <1>4, <1>5, <1>6

LEMMA ClientReceivesSession ==
  ASSUME SInv, NEW k \in Conns, clientReceives(k)
  PROVE  Session(k)' /\ NoError'
<1> DEFINE tc == tcp[k]  w == wire[k]  t == client[k]  u == server[k]
           After == Ways(tcp'[k], wire'[k], tcp'[k].c, tcp'[k].s, wire'[k].c, wire'[k].s)
<1>1. /\ w.c # <<>> /\ t \in ClientThread \cup {NULL} /\ Spent(t)
      /\ w.c \in Seq(Segment) /\ w.s \in Seq(Segment) /\ ~aborted
  BY DEF SInv, IInv, Types, Sessions, Session, clientReceives, Ends, NoError
<1>2. CASE Abandoned(tc, w, t, u)
  <2>1. PICK r \in Segment : w.c = <<r>> /\ w.s = <<>>
    BY <1>1, <1>2 DEF Abandoned
  <2>2. /\ t = NULL /\ u = NULL /\ tc.c = "CLOSED" /\ tc.s \in {"CLOSED", "SYN_RCVD"}
        /\ r.kind \in Kinds
    BY <1>2 DEF Abandoned, Segment, Kinds
  <2> DEFINE answer == IF r.kind = "RST" THEN <<>> ELSE <<Rst>>
  <2>3. Row("CLOSED", r.kind, "CLOSED", answer, "NONE") /\ answer \in Seq(Segment)
    BY <2>2, ClosedRows, OwnSequences
  <2> HIDE DEF answer
  <2>4. Head(w.c).kind = r.kind /\ Tail(w.c) = <<>>
    BY <2>1, First
  <2>5. ClientTakes(k, "CLOSED", r.kind, "CLOSED", answer, "NONE")
    BY <2>2, <2>3, <2>4 DEF ClientTakes
  <2>6. ClientTook(k, "CLOSED", answer) /\ client'[k] = NULL /\ ~aborted'
    BY <2>2, <2>5, ClientTakesIt, ClientHears
  <2>7. <<>> \o answer = answer /\ (answer = <<>> \/ answer = <<Rst>>)
    BY <2>3 DEF answer
  <2>8. Abandoned(tcp'[k], wire'[k], client'[k], server'[k])
    BY <2>1, <2>2, <2>4, <2>6, <2>7, OwnKinds DEF Abandoned, ClientTook, Ways
  <2> QED
    BY <2>6, <2>8, SessionAfter DEF Phase, Spent, NoError
<1>3. CASE Connecting(tc, w, t, u)
  <2>1. PICK y \in {"CLOSED", "SYN_RCVD"} : Ways(tc, w, "SYN_SENT", y, <<SynAck>>, <<>>)
    BY <1>1, <1>3 DEF Connecting, Ways
  <2>2. t # NULL /\ t.sent = t.received /\ t.timer = FALSE /\ u = NULL /\ t \in ClientThread
    BY <1>1, <1>3 DEF Connecting, Client, ClientThread
  <2> DEFINE e == socketEstablished(t)
  <2>3. /\ e \in ClientThread /\ e.left >= 1 /\ e.state = "CONNECTED" /\ e.sent = e.received
        /\ e.timer = FALSE /\ e.socket = "CONNECTED"
    BY <2>2, Established DEF socketEstablished, ClientThread
  <2>4. Head(w.c).kind = "SYN_ACK" /\ Tail(w.c) = <<>> /\ tc.c = "SYN_SENT" /\ tc.s = y
        /\ w.s = <<>>
    BY <2>1, First, OwnKinds DEF Ways
  <2>0. /\ \E length : /\ client' = [client EXCEPT ![k] = afterRequest(e, length)]
                       /\ arrive(k, "c", {"SEND"}, request(e, length))
        /\ aborted' = aborted /\ server'[k] = u
    BY <2>2, <2>4, HandshakeRows DEF clientReceives, Row
  <2>a. PICK length : /\ client' = [client EXCEPT ![k] = afterRequest(e, length)]
                      /\ arrive(k, "c", {"SEND"}, request(e, length))
    BY <2>0
  <2> DEFINE v == afterRequest(e, length)
  <2>5. /\ client' = [client EXCEPT ![k] = v] /\ arrive(k, "c", {"SEND"}, request(e, length))
        /\ aborted' = aborted /\ server'[k] = u
    BY <2>0, <2>a
  <2>6. client'[k] = v
    BY <2>5 DEF SInv, IInv, Types
  <2> HIDE DEF e, v
  <2>7. Ways(tcp'[k], wire'[k], "ESTABLISHED", y, <<>>, <<Ack, request(e, length)>>)
    <3>1. Moved(k, "c", "ESTABLISHED", Tail(w.c), <<Ack, request(e, length)>>)
      BY <2>4, <2>5, HandshakeRows, Sends, Takes DEF SInv, IInv, Ends
    <3> QED
      BY <2>4, <3>1, Few DEF Moved
  <2>8. Client(v, InSession, FALSE, "CONNECTED", 1) /\ Spent(v)
        /\ request(e, length) = Asked(v)
    BY <2>3, Requested DEF v
  <2>9. Opening(tcp'[k], wire'[k], client'[k], server'[k])
    BY <2>2, <2>5, <2>6, <2>7, <2>8 DEF Opening
  <2> QED
    BY <1>1, <2>5, <2>6, <2>8, <2>9, SessionAfter DEF Phase, NoError
<1>4. CASE Opening(tc, w, t, u)
  <2>1. \/ Ways(tc, w, "ESTABLISHED", "CLOSED", <<Rst>>, <<Asked(t)>>)
        \/ Ways(tc, w, "ESTABLISHED", "CLOSED", <<Rst, Rst>>, <<>>)
    BY <1>1, <1>4 DEF Opening, Ways
  <2>2. t # NULL /\ u = NULL /\ tc.c = "ESTABLISHED" /\ tc.s = "CLOSED"
    BY <1>4, <2>1 DEF Opening, Client, Ways
  <2>3. Head(w.c).kind = "RST"
    BY <2>1, First, OwnKinds DEF Ways
  <2>4. ClientTakes(k, "ESTABLISHED", "RST", "CLOSED", <<>>, "CONNECTION_RESET")
    BY <2>2, <2>3, DataRows, OwnSequences DEF ClientTakes
  <2>5. ClientTook(k, "CLOSED", <<>>) /\ client'[k] = NULL /\ ~aborted'
    BY <2>2, <2>4, ClientTakesIt, ClientHears
  <2>6. \/ Tail(w.c) = <<>> /\ w.s \o <<>> = <<Asked(t)>>
        \/ Tail(w.c) = <<Rst>> /\ w.s \o <<>> = <<>>
    <3>1. CASE w.c = <<Rst>> /\ w.s = <<Asked(t)>>
      BY <3>1, First, Few
    <3>2. CASE w.c = <<Rst, Rst>> /\ w.s = <<>>
      BY <3>2, First, Few
    <3> QED
      BY <2>1, <3>1, <3>2 DEF Ways
  <2>7. Asked(t) \in Segment /\ Asked(t).kind = "DATA"
    BY <1>1, <2>2 DEF Asked, Segment, ClientThread
  <2>8. Abandoned(tcp'[k], wire'[k], client'[k], server'[k])
    BY <2>2, <2>5, <2>6, <2>7, OwnKinds DEF Abandoned, ClientTook, Ways
  <2> QED
    BY <2>5, <2>8, SessionAfter DEF Phase, Spent, NoError
<1>5. CASE Talking(tc, w, t, u)
  <2>1. /\ Client(t, {"CONNECTED"}, FALSE, "CONNECTED", 1)
        /\ u = Server(FALSE, 0, FALSE, "CONNECTED")
        /\ Ways(tc, w, "ESTABLISHED", "ESTABLISHED", <<Reply>>, <<>>)
    BY <1>1, <1>5 DEF Talking, Ways
  <2>2. t \in ClientThread /\ t # NULL /\ t.timer = FALSE /\ t.state = "CONNECTED"
        /\ tc.c = "ESTABLISHED" /\ tc.s = "ESTABLISHED"
    BY <1>1, <2>1 DEF Client, Ways
  <2>3. Head(w.c).kind = "DATA" /\ Tail(w.c) = <<>> /\ w.s \o <<>> = <<>>
    BY <2>1, First, Few, OwnKinds DEF Ways
  <2>4. ClientTakes(k, "ESTABLISHED", "DATA", "ESTABLISHED", <<>>, "DATA")
    BY <2>2, <2>3, DataRows, OwnSequences DEF ClientTakes
  <2>5. /\ ClientTook(k, "ESTABLISHED", <<>>)
        /\ client'[k] = [t EXCEPT !.received = @ + 1, !.timer = TRUE]
        /\ aborted' = t.timer
    BY <2>2, <2>4, ClientTakesIt, ClientHears
  <2>6. /\ client'[k] # NULL /\ client'[k].state = "CONNECTED"
        /\ Client(client'[k], {"CONNECTED"}, TRUE, "CONNECTED", 0)
    BY <2>1, <2>2, <2>5, Replied DEF Client
  <2>7. /\ Ways(tcp'[k], wire'[k], "ESTABLISHED", "ESTABLISHED", <<>>, <<>>)
        /\ server'[k] = u
    BY <2>2, <2>3, <2>5 DEF ClientTook
  <2>8. Talking(tcp'[k], wire'[k], client'[k], server'[k])
    BY <2>1, <2>6, <2>7 DEF Talking
  <2> QED
    BY <2>2, <2>5, <2>6, <2>8, SessionAfter DEF Phase, Spent, NoError
<1>6. CASE LastReply(tc, w, t, u)
  <2>1. t \in ClientThread /\ t # NULL /\ u = Server(TRUE, 0, FALSE, "LOCALLY_CLOSED")
    BY <1>1, <1>6 DEF LastReply, Client
  <2>2. CASE /\ Client(t, {"DISCONNECTED"}, FALSE, "CONNECTED", 1)
             /\ Ways(tc, w, "ESTABLISHED", "FIN_WAIT_1", <<Reply, Fin>>, <<>>)
    <3>1. /\ t.timer = FALSE /\ tc.c = "ESTABLISHED" /\ tc.s = "FIN_WAIT_1"
          /\ Head(w.c).kind = "DATA" /\ Tail(w.c) = <<Fin>> /\ w.s \o <<>> = <<>>
      BY <2>2, First, Few, OwnKinds DEF Client, Ways
    <3>2. ClientTakes(k, "ESTABLISHED", "DATA", "ESTABLISHED", <<>>, "DATA")
      BY <3>1, DataRows, OwnSequences DEF ClientTakes
    <3>3. /\ ClientTook(k, "ESTABLISHED", <<>>)
          /\ client'[k] = [t EXCEPT !.received = @ + 1, !.timer = TRUE]
          /\ aborted' = t.timer
      BY <2>1, <3>2, ClientTakesIt, ClientHears
    <3>4. /\ client'[k].state = t.state /\ client'[k].left = t.left
          /\ Client(client'[k], {"DISCONNECTED"}, TRUE, "CONNECTED", 0)
      BY <2>1, <2>2, <3>3, Replied DEF Client
    <3>5. /\ Ways(tcp'[k], wire'[k], "ESTABLISHED", "FIN_WAIT_1", <<Fin>>, <<>>)
          /\ server'[k] = u
      BY <3>1, <3>3 DEF ClientTook
    <3>6. LastReply(tcp'[k], wire'[k], client'[k], server'[k])
      BY <2>1, <3>4, <3>5 DEF LastReply
    <3> QED
      BY <1>1, <2>1, <3>1, <3>3, <3>4, <3>6, SessionAfter DEF Phase, Spent, NoError
  <2>3. CASE /\ Client(t, {"DISCONNECTED"}, TRUE, "CONNECTED", 0)
             /\ Ways(tc, w, "ESTABLISHED", "FIN_WAIT_1", <<Fin>>, <<>>)
    <3>1. /\ t.socket = "CONNECTED" /\ tc.c = "ESTABLISHED" /\ tc.s = "FIN_WAIT_1"
          /\ Head(w.c).kind = "FIN" /\ Tail(w.c) = <<>> /\ w.s \o <<FinAcked>> = <<FinAcked>>
      BY <2>3, First, Few, OwnKinds DEF Client, Ways
    <3>2. ClientTakes(k, "ESTABLISHED", "FIN", "CLOSE_WAIT", <<FinAcked>>, "PEER_CLOSED")
      BY <3>1, FinRows, OwnSequences DEF ClientTakes
    <3>3. /\ ClientTook(k, "CLOSE_WAIT", <<FinAcked>>) /\ ~aborted'
          /\ client'[k] = [t EXCEPT !.socket = "PEER_CLOSED"]
      BY <2>1, <3>1, <3>2, ClientTakesIt, ClientHears DEF peerClosedSocket
    <3>4. Client(client'[k], {"DISCONNECTED"}, TRUE, "PEER_CLOSED", 0) /\ Spent(client'[k])
      <4>1. /\ client'[k] # NULL /\ client'[k].socket = "PEER_CLOSED"
            /\ client'[k].state = t.state /\ client'[k].left = t.left
            /\ client'[k].sent = t.sent /\ client'[k].received = t.received
            /\ client'[k].timer = t.timer
        BY <2>1, <3>3, SocketChanged, KnownSockets
      <4> QED
        BY <1>1, <2>1, <2>3, <4>1 DEF Client, Spent
    <3>5. /\ Ways(tcp'[k], wire'[k], "CLOSE_WAIT", "FIN_WAIT_1", <<>>, <<FinAcked>>)
          /\ server'[k] = u
      BY <3>1, <3>3 DEF ClientTook
    <3>6. LastReply(tcp'[k], wire'[k], client'[k], server'[k])
      BY <2>1, <3>4, <3>5 DEF LastReply
    <3> QED
      BY <3>3, <3>4, <3>6, SessionAfter DEF Phase, NoError
  <2> QED
    BY <1>1, <1>6, <2>2, <2>3 DEF LastReply, Ways
<1>7. CASE ClosingInTurn(tc, w, t, u)
  <2>1. PICK y \in {"TIME_WAIT", "CLOSED"} : Ways(tc, w, "LAST_ACK", y, <<FinAcked>>, <<>>)
    BY <1>1, <1>7 DEF ClosingInTurn, Ways
  <2>2. /\ t \in ClientThread /\ t # NULL /\ u = NULL
        /\ Client(t, {"DISCONNECTED"}, FALSE, "CLOSED", 0)
    BY <1>1, <1>7, <2>1, First DEF ClosingInTurn, Client, Ways
  <2>3. /\ tc.c = "LAST_ACK" /\ tc.s = y
        /\ Head(w.c).kind = "FIN_ACKED" /\ Tail(w.c) = <<>> /\ w.s \o <<>> = <<>>
    BY <2>1, First, Few, OwnKinds DEF Ways
  <2>4. ClientTakes(k, "LAST_ACK", "FIN_ACKED", "CLOSED", <<>>, "CLOSED")
    BY <2>3, FinAckedRows, OwnSequences DEF ClientTakes
  <2>5. /\ ClientTook(k, "CLOSED", <<>>) /\ ~aborted'
        /\ client'[k] = [t EXCEPT !.state = "FINISH", !.timer = TRUE, !.socket = "CLOSED"]
    BY <2>2, <2>4, ClientTakesIt, ClientHears
  <2>6. Client(client'[k], {"FINISH"}, TRUE, "CLOSED", 0) /\ Spent(client'[k])
    <3>1. t.sent = t.received + 0 /\ t.left = 0
      BY <1>1, <2>2 DEF Client, Spent
    <3> QED
      BY <2>2, <2>5, <3>1, Finishes
  <2>7. Ways(tcp'[k], wire'[k], "CLOSED", y, <<>>, <<>>) /\ server'[k] = NULL
    BY <2>2, <2>3, <2>5 DEF ClientTook
  <2>8. Finished(tcp'[k], wire'[k], client'[k], server'[k])
    BY <2>6, <2>7 DEF Finished
  <2> QED
    BY <2>5, <2>6, <2>8, SessionAfter DEF Phase, NoError
<1>8. CASE ClosingAtOnce(tc, w, t, u)
  <2>1. t \in ClientThread /\ t # NULL
    BY <1>1, <1>8 DEF ClosingAtOnce, Client
  <2>2. ASSUME Client(t, {"DISCONNECTED"}, FALSE, "LOCALLY_CLOSED", 0),
               tc.c = "FIN_WAIT_1", Head(w.c).kind = "FIN"
        PROVE  /\ Ways(tcp'[k], wire'[k], "CLOSING", tc.s, Tail(w.c), w.s \o <<FinAcked>>)
               /\ Client(client'[k], {"DISCONNECTED"}, FALSE, "CLOSED", 0) /\ Spent(client'[k])
               /\ server'[k] = u /\ ~aborted'
    <3>1. ClientTakes(k, "FIN_WAIT_1", "FIN", "CLOSING", <<FinAcked>>, "PEER_CLOSED")
      BY <2>2, FinRows, OwnSequences DEF ClientTakes
    <3>2. /\ ClientTook(k, "CLOSING", <<FinAcked>>) /\ ~aborted'
          /\ client'[k] = [t EXCEPT !.socket = peerClosedSocket(t.socket)]
      BY <2>1, <3>1, ClientTakesIt, ClientHears
    <3>3. peerClosedSocket(t.socket) = "CLOSED"
      BY <2>2 DEF peerClosedSocket, Client
    <3>4. Client(client'[k], {"DISCONNECTED"}, FALSE, "CLOSED", 0) /\ Spent(client'[k])
      <4>1. /\ client'[k] # NULL /\ client'[k].socket = "CLOSED"
            /\ client'[k].state = t.state /\ client'[k].left = t.left
            /\ client'[k].sent = t.sent /\ client'[k].received = t.received
            /\ client'[k].timer = t.timer
        BY <2>1, <3>2, <3>3, SocketChanged, KnownSockets
      <4> QED
        BY <1>1, <2>1, <2>2, <4>1 DEF Client, Spent
    <3> QED
      BY <3>2, <3>4 DEF ClientTook
  <2>3. ASSUME Client(t, {"DISCONNECTED"}, FALSE, "CLOSED", 0),
               tc.c = "CLOSING", Head(w.c).kind = "FIN_ACKED"
        PROVE  /\ Ways(tcp'[k], wire'[k], "TIME_WAIT", tc.s, Tail(w.c), w.s \o <<>>)
               /\ Client(client'[k], {"FINISH"}, TRUE, "CLOSED", 0) /\ Spent(client'[k])
               /\ server'[k] = u /\ ~aborted'
    <3>1. ClientTakes(k, "CLOSING", "FIN_ACKED", "TIME_WAIT", <<>>, "CLOSED")
      BY <2>3, FinAckedRows, OwnSequences DEF ClientTakes
    <3>2. /\ ClientTook(k, "TIME_WAIT", <<>>) /\ ~aborted'
          /\ client'[k] = [t EXCEPT !.state = "FINISH", !.timer = TRUE, !.socket = "CLOSED"]
      BY <2>1, <3>1, ClientTakesIt, ClientHears
    <3>3. t.sent = t.received + 0 /\ t.left = 0
      BY <1>1, <2>1, <2>3 DEF Client, Spent
    <3>4. Client(client'[k], {"FINISH"}, TRUE, "CLOSED", 0) /\ Spent(client'[k])
      BY <2>1, <3>2, <3>3, Finishes
    <3> QED
      BY <3>2, <3>4 DEF ClientTook
  <2>4. CASE /\ Client(t, {"DISCONNECTED"}, FALSE, "LOCALLY_CLOSED", 0)
             /\ u = Server(TRUE, 0, FALSE, "LOCALLY_CLOSED")
             /\ Ways(tc, w, "FIN_WAIT_1", "FIN_WAIT_1", <<Fin>>, <<Fin>>)
    <3>1. Tail(w.c) = <<>> /\ w.s \o <<FinAcked>> = <<Fin, FinAcked>>
          /\ Head(w.c).kind = "FIN" /\ tc.c = "FIN_WAIT_1" /\ tc.s = "FIN_WAIT_1"
      BY <2>4, First, Two, OwnKinds DEF Ways
    <3>2. ClosingAtOnce(tcp'[k], wire'[k], client'[k], server'[k]) /\ Spent(client'[k]) /\ ~aborted'
      BY <2>2, <2>4, <3>1 DEF ClosingAtOnce
    <3> QED
      BY <3>2, SessionAfter DEF Phase, NoError
  <2>5. CASE /\ Client(t, {"DISCONNECTED"}, FALSE, "LOCALLY_CLOSED", 0)
             /\ u = Server(TRUE, 0, FALSE, "CLOSED")
             /\ Ways(tc, w, "FIN_WAIT_1", "CLOSING", <<Fin, FinAcked>>, <<>>)
    <3>1. Tail(w.c) = <<FinAcked>> /\ w.s \o <<FinAcked>> = <<FinAcked>>
          /\ Head(w.c).kind = "FIN" /\ tc.c = "FIN_WAIT_1" /\ tc.s = "CLOSING"
      BY <2>5, First, Few, OwnKinds DEF Ways
    <3>2. ClosingAtOnce(tcp'[k], wire'[k], client'[k], server'[k]) /\ Spent(client'[k]) /\ ~aborted'
      BY <2>2, <2>5, <3>1 DEF ClosingAtOnce
    <3> QED
      BY <3>2, SessionAfter DEF Phase, NoError
  <2>6. CASE /\ Client(t, {"DISCONNECTED"}, FALSE, "CLOSED", 0)
             /\ u = Server(TRUE, 0, FALSE, "CLOSED")
             /\ Ways(tc, w, "CLOSING", "CLOSING", <<FinAcked>>, <<FinAcked>>)
    <3>1. Tail(w.c) = <<>> /\ w.s \o <<>> = <<FinAcked>>
          /\ Head(w.c).kind = "FIN_ACKED" /\ tc.c = "CLOSING" /\ tc.s = "CLOSING"
      BY <2>6, First, Few, OwnKinds DEF Ways
    <3>2. Finished(tcp'[k], wire'[k], client'[k], server'[k]) /\ Spent(client'[k]) /\ ~aborted'
      BY <2>3, <2>6, <3>1 DEF Finished
    <3> QED
      BY <3>2, SessionAfter DEF Phase, NoError
  <2>7. ASSUME NEW y \in {"TIME_WAIT", "CLOSED"},
               Client(t, {"DISCONNECTED"}, FALSE, "CLOSED", 0), u = NULL,
               Ways(tc, w, "CLOSING", y, <<FinAcked>>, <<>>)
        PROVE  Session(k)' /\ NoError'
    <3>1. Tail(w.c) = <<>> /\ w.s \o <<>> = <<>>
          /\ Head(w.c).kind = "FIN_ACKED" /\ tc.c = "CLOSING" /\ tc.s = y
      BY <2>7, First, Few, OwnKinds DEF Ways
    <3>2. Finished(tcp'[k], wire'[k], client'[k], server'[k]) /\ Spent(client'[k]) /\ ~aborted'
      BY <2>3, <2>7, <3>1 DEF Finished
    <3> QED
      BY <3>2, SessionAfter DEF Phase, NoError
  <2> QED
    BY <1>1, <1>8, <2>4, <2>5, <2>6, <2>7 DEF ClosingAtOnce, Ways
<1>9. CASE k \in killed /\ u \in LateThread /\ Killed(tc, w, t, u)
  <2>1. /\ Client(t, InSession, FALSE, "CONNECTED", 1)
        /\ tc.c = "ESTABLISHED" /\ tc.s = "FIN_WAIT_1" /\ w.c = <<Fin>>
        /\ (u = NULL /\ w.s = <<Asked(t)>>) \/ w.s = <<>>
    BY <1>1, <1>9 DEF Killed, Ways
  <2>2. /\ t \in ClientThread /\ t # NULL /\ t.socket = "CONNECTED"
        /\ Head(w.c).kind = "FIN" /\ Tail(w.c) = <<>>
    BY <1>1, <2>1, First, OwnKinds DEF Client
  <2>3. ClientTakes(k, "ESTABLISHED", "FIN", "CLOSE_WAIT", <<FinAcked>>, "PEER_CLOSED")
    BY <2>1, <2>2, FinRows, OwnSequences DEF ClientTakes
  <2>4. /\ ClientTook(k, "CLOSE_WAIT", <<FinAcked>>) /\ ~aborted'
        /\ client'[k] = [t EXCEPT !.socket = "PEER_CLOSED"]
    BY <2>2, <2>3, ClientTakesIt, ClientHears DEF peerClosedSocket
  <2>5. /\ Client(client'[k], InSession, FALSE, "PEER_CLOSED", 1) /\ Spent(client'[k])
        /\ Asked(client'[k]) = Asked(t)
    <3>1. /\ client'[k] # NULL /\ client'[k].socket = "PEER_CLOSED"
          /\ client'[k].state = t.state /\ client'[k].left = t.left
          /\ client'[k].sent = t.sent /\ client'[k].received = t.received
          /\ client'[k].timer = t.timer /\ client'[k].delayed = t.delayed
          /\ client'[k].empty = t.empty
      BY <2>2, <2>4, SocketChanged, KnownSockets
    <3> QED
      BY <1>1, <2>1, <3>1 DEF Client, Spent, Asked
  <2>6. \/ u = NULL /\ w.s \o <<FinAcked>> = <<Asked(t), FinAcked>>
        \/ w.s \o <<FinAcked>> = <<FinAcked>>
    BY <2>1, Two, Few
  <2>7. /\ Ways(tcp'[k], wire'[k], "CLOSE_WAIT", "FIN_WAIT_1", <<>>, w.s \o <<FinAcked>>)
        /\ server'[k] = u
    BY <2>1, <2>2, <2>4 DEF ClientTook
  <2>8. Killed(tcp'[k], wire'[k], client'[k], server'[k])
    BY <2>5, <2>6, <2>7 DEF Killed
  <2>9. killed' = killed
    BY DEF clientReceives
  <2> QED
    BY <1>9, <2>4, <2>5, <2>7, <2>8, <2>9, SessionAfter DEF NoError
<1>10. ~Waiting(tc, w, t, u) /\ ~Finished(tc, w, t, u)
  BY <1>1 DEF Waiting, Finished, Ways
<1> QED
  BY <1>2, <1>3, <1>4, <1>5, <1>6, <1>7, <1>8, <1>9, <1>10
     DEF SInv, Sessions, Session, Phase

LEMMA ClientTimerSession ==
  ASSUME SInv, NEW k \in Conns, clientTimer(k)
  PROVE  Session(k)' /\ NoError'
<1> DEFINE tc == tcp[k]  w == wire[k]  t == client[k]  u == server[k]
<1>1. /\ t \in ClientThread /\ t # NULL /\ t.timer /\ Spent(t) /\ ~aborted
      /\ client \in [Conns -> ClientThread \cup {NULL}]
      /\ tcp \in [Conns -> [Ends -> Live]] /\ wire \in [Conns -> [Ends -> Seq(Segment)]]
      /\ Types /\ "c" \in Ends /\ "s" \in Ends
  BY DEF SInv, IInv, Types, Sessions, Session, clientTimer, NoError, Ends
<1>2. UNCHANGED <<server, killed>>
  BY DEF clientTimer
<1>3. CASE Waiting(tc, w, t, u)
  <2>1. /\ t.state = "WAITING" /\ t.sent = t.received + 0 /\ t.socket = "NOT_BOUND"
        /\ u = NULL /\ tc.s = "CLOSED" /\ w.c = <<>> /\ w.s = <<>>
    BY <1>3 DEF Waiting, Client, Ways
  <2>2. /\ tcp' = [tcp EXCEPT ![k].c = "SYN_SENT"]
        /\ wire' = [wire EXCEPT ![k].s = Append(@, Plain("SYN"))]
        /\ client' = [client EXCEPT ![k].timer = FALSE] /\ aborted' = aborted
    BY <2>1 DEF clientTimer
  <2>3. tcp'[k].c = "SYN_SENT" /\ tcp'[k].s = "CLOSED" /\ wire'[k].c = <<>>
        /\ wire'[k].s = Append(<<>>, Syn)
    BY <1>1, <2>1, <2>2 DEF Syn
  <2>4. Append(<<>>, Syn) = <<Syn>>
    OBVIOUS
  <2>5. client'[k] = [t EXCEPT !.timer = FALSE]
    BY <1>1, <2>2
  <2>6. Client(client'[k], {"WAITING"}, FALSE, "NOT_BOUND", 0) /\ client'[k].state = "WAITING"
    <3>1. /\ client'[k] # NULL /\ client'[k].state = t.state
          /\ client'[k].timer = FALSE /\ client'[k].socket = t.socket
          /\ client'[k].sent = t.sent /\ client'[k].received = t.received
      BY <1>1, <2>5, TimerChanged
    <3> QED
      BY <2>1, <3>1 DEF Client
  <2>7. Connecting(tcp'[k], wire'[k], client'[k], server'[k])
    BY <1>2, <2>1, <2>3, <2>4, <2>6 DEF Connecting, Ways
  <2> QED
    BY <1>1, <2>2, <2>6, <2>7, SessionAfter DEF Phase, Spent, NoError
<1>4. CASE Talking(tc, w, t, u)
  <2>1. /\ Client(t, {"CONNECTED"}, TRUE, "CONNECTED", 0)
        /\ u = Server(FALSE, 0, FALSE, "CONNECTED")
        /\ Ways(tc, w, "ESTABLISHED", "ESTABLISHED", <<>>, <<>>)
    BY <1>1, <1>4 DEF Talking, Client
  <2>2. t.state = "CONNECTED" /\ t.left >= 1 /\ t.sent = t.received /\ t.socket = "CONNECTED"
    <3>1. t.state = "CONNECTED" /\ t.sent = t.received + 0 /\ t.socket = "CONNECTED"
      BY <2>1 DEF Client
    <3>2. t.left >= 1
      BY <1>1, <3>1 DEF SInv, IInv, RequestsLeft
    <3>3. t.received \in Nat
      BY <1>1 DEF ClientThread
    <3> QED
      BY <3>1, <3>2, <3>3
  <2>0. aborted' = aborted /\ \E length :
          /\ client' = [client EXCEPT ![k] = [afterRequest(t, length) EXCEPT !.timer = FALSE]]
          /\ act(k, "c", {"SEND"}, request(t, length))
    BY <2>2 DEF clientTimer
  <2>a. PICK length :
          /\ client' = [client EXCEPT ![k] = [afterRequest(t, length) EXCEPT !.timer = FALSE]]
          /\ act(k, "c", {"SEND"}, request(t, length))
    BY <2>0
  <2> DEFINE v == [afterRequest(t, length) EXCEPT !.timer = FALSE]
  <2>3. /\ client' = [client EXCEPT ![k] = v] /\ act(k, "c", {"SEND"}, request(t, length))
        /\ aborted' = aborted
    BY <2>0, <2>a
  <2>4. client'[k] = v
    BY <1>1, <2>3
  <2>5. Client(v, InSession, FALSE, "CONNECTED", 1) /\ Spent(v)
        /\ request(t, length) = Asked(v)
    BY <1>1, <2>2, Requested
  <2> HIDE DEF v
  <2>6. Moved(k, "c", "ESTABLISHED", w.c, <<request(t, length)>>)
    <3>1. Effect(tc.c, <<>>, {"SEND"}, request(t, length), "ESTABLISHED", <<request(t, length)>>)
      BY <2>1, Sends DEF Ways
    <3> QED
      BY <1>1, <2>3, <3>1, Acts
  <2>7. Ways(tcp'[k], wire'[k], "ESTABLISHED", "ESTABLISHED", <<>>, <<request(t, length)>>)
    BY <2>1, <2>6, Few DEF Moved, Ways
  <2>8. Talking(tcp'[k], wire'[k], client'[k], server'[k])
    BY <1>2, <2>1, <2>4, <2>5, <2>7 DEF Talking
  <2> QED
    BY <1>1, <2>3, <2>4, <2>5, <2>8, SessionAfter DEF Phase, NoError
<1>5. CASE LastReply(tc, w, t, u)
  <2>1. u = Server(TRUE, 0, FALSE, "LOCALLY_CLOSED")
    BY <1>5 DEF LastReply
  <2>2. ASSUME NEW socket \in {"CONNECTED", "PEER_CLOSED"},
               Client(t, {"DISCONNECTED"}, TRUE, socket, 0)
        PROVE  /\ Client(client'[k], {"DISCONNECTED"}, FALSE, closedSocket(socket), 0)
               /\ Spent(client'[k]) /\ ~aborted' /\ act(k, "c", {"CLOSE"}, NULL)
    <3>1. /\ t.state = "DISCONNECTED" /\ t.socket = socket
          /\ t.sent = t.received + 0 /\ t.left = 0
      BY <1>1, <2>2 DEF Client, Spent
    <3>2. /\ client' = [client EXCEPT ![k].timer = FALSE, ![k].socket = closedSocket(@)]
          /\ act(k, "c", closing(t.socket), NULL) /\ aborted' = (t.socket = "CLOSED")
      BY <3>1 DEF clientTimer
    <3>3. client'[k] = [t EXCEPT !.timer = FALSE, !.socket = closedSocket(socket)]
      BY <1>1, <3>1, <3>2
    <3>4. closedSocket(socket) \in SocketStates /\ closing(socket) = {"CLOSE"}
      BY DEF closedSocket, SocketStates, closing
    <3>5. Client(client'[k], {"DISCONNECTED"}, FALSE, closedSocket(socket), 0)
          /\ Spent(client'[k])
      BY <1>1, <3>1, <3>3, <3>4, SocketClosed
    <3> QED
      BY <3>1, <3>2, <3>4, <3>5
  <2>3. CASE /\ Client(t, {"DISCONNECTED"}, TRUE, "CONNECTED", 0)
             /\ Ways(tc, w, "ESTABLISHED", "FIN_WAIT_1", <<Fin>>, <<>>)
    <3>1. closedSocket("CONNECTED") = "LOCALLY_CLOSED"
      BY DEF closedSocket
    <3>2. /\ Client(client'[k], {"DISCONNECTED"}, FALSE, "LOCALLY_CLOSED", 0)
          /\ Spent(client'[k]) /\ ~aborted' /\ act(k, "c", {"CLOSE"}, NULL)
      BY <2>2, <2>3, <3>1
    <3>3. Moved(k, "c", "FIN_WAIT_1", w.c, <<Fin>>)
      <4>1. Effect(tc.c, <<>>, {"CLOSE"}, NULL, "FIN_WAIT_1", <<Fin>>)
        BY <2>3, Closes DEF Ways
      <4> QED
        BY <1>1, <3>2, <4>1, Acts
    <3>4. Ways(tcp'[k], wire'[k], "FIN_WAIT_1", "FIN_WAIT_1", <<Fin>>, <<Fin>>)
      BY <2>3, <3>3, Few DEF Moved, Ways
    <3>5. ClosingAtOnce(tcp'[k], wire'[k], client'[k], server'[k])
      BY <1>2, <2>1, <3>2, <3>4 DEF ClosingAtOnce
    <3> QED
      BY <3>2, <3>5, SessionAfter DEF Phase, NoError
  <2>4. CASE /\ Client(t, {"DISCONNECTED"}, TRUE, "PEER_CLOSED", 0)
             /\ \/ Ways(tc, w, "CLOSE_WAIT", "FIN_WAIT_1", <<>>, <<FinAcked>>)
                \/ Ways(tc, w, "CLOSE_WAIT", "FIN_WAIT_2", <<>>, <<>>)
    <3>1. closedSocket("PEER_CLOSED") = "CLOSED"
      BY DEF closedSocket
    <3>2. /\ Client(client'[k], {"DISCONNECTED"}, FALSE, "CLOSED", 0)
          /\ Spent(client'[k]) /\ ~aborted' /\ act(k, "c", {"CLOSE"}, NULL)
      BY <2>2, <2>4, <3>1
    <3>3. Moved(k, "c", "LAST_ACK", w.c, <<Fin>>)
      <4>1. Effect(tc.c, <<>>, {"CLOSE"}, NULL, "LAST_ACK", <<Fin>>)
        BY <2>4, Closes DEF Ways
      <4> QED
        BY <1>1, <3>2, <4>1, Acts
    <3>4. \/ Ways(tcp'[k], wire'[k], "LAST_ACK", "FIN_WAIT_1", <<>>, <<FinAcked, Fin>>)
          \/ Ways(tcp'[k], wire'[k], "LAST_ACK", "FIN_WAIT_2", <<>>, <<Fin>>)
      BY <2>4, <3>3, Two, Few DEF Moved, Ways
    <3>5. ClosingInTurn(tcp'[k], wire'[k], client'[k], server'[k])
      BY <1>2, <2>1, <3>2, <3>4 DEF ClosingInTurn
    <3> QED
      BY <3>2, <3>5, SessionAfter DEF Phase, NoError
  <2> QED
    BY <1>1, <1>5, <2>3, <2>4 DEF LastReply, Client
<1>6. CASE Finished(tc, w, t, u)
  <2>1. t.state = "FINISH"
    BY <1>1, <1>6 DEF Finished, Client
  <2>2. client' = [client EXCEPT ![k] = NULL] /\ UNCHANGED <<tcp, wire, aborted>>
    BY <2>1 DEF clientTimer
  <2>3. client'[k] = NULL /\ tcp'[k] = tc /\ wire'[k] = w /\ server'[k] = u
    BY <1>1, <1>2, <2>2
  <2>4. Finished(tcp'[k], wire'[k], client'[k], server'[k])
    BY <1>6, <2>3 DEF Finished
  <2> QED
    BY <1>1, <2>2, <2>3, <2>4, SessionAfter DEF Phase, Spent, NoError
<1>7. /\ ~Abandoned(tc, w, t, u) /\ ~Connecting(tc, w, t, u) /\ ~Opening(tc, w, t, u)
      /\ ~ClosingInTurn(tc, w, t, u) /\ ~ClosingAtOnce(tc, w, t, u) /\ ~Killed(tc, w, t, u)
  BY <1>1 DEF Abandoned, Connecting, Opening, ClosingInTurn, ClosingAtOnce, Killed, Client
<1> QED
  BY <1>3, <1>4, <1>5, <1>6, <1>7 DEF SInv, Sessions, Session, Phase

LEMMA ConnectTimersSession ==
  ASSUME SInv, NEW k \in Conns, connectTimers(k)
  PROVE  Session(k)' /\ NoError'
<1> DEFINE tc == tcp[k]  w == wire[k]  t == client[k]  u == server[k]
<1>1. /\ Spent(t) /\ ~aborted /\ client \in [Conns -> ClientThread \cup {NULL}]
      /\ wire \in [Conns -> [Ends -> Seq(Segment)]]
      /\ Types /\ "c" \in Ends /\ "s" \in Ends
  BY DEF SInv, IInv, Types, Sessions, Session, NoError, Ends
<1>2. /\ tc.c = "SYN_SENT" /\ server' = server /\ aborted' = aborted
  BY DEF connectTimers
<1>3. Connecting(tc, w, t, u)
  <2>1. /\ ~Waiting(tc, w, t, u) /\ ~Abandoned(tc, w, t, u) /\ ~Opening(tc, w, t, u)
        /\ ~Talking(tc, w, t, u) /\ ~LastReply(tc, w, t, u) /\ ~Finished(tc, w, t, u)
    BY <1>2 DEF Waiting, Abandoned, Opening, Talking, LastReply, Finished, Ways
  <2>2. ~ClosingInTurn(tc, w, t, u) /\ ~ClosingAtOnce(tc, w, t, u) /\ ~Killed(tc, w, t, u)
    BY <1>2 DEF ClosingInTurn, ClosingAtOnce, Killed, Ways
  <2> QED
    BY <2>1, <2>2 DEF SInv, Sessions, Session, Phase
<1>4. CASE /\ tcp[k].s = "CLOSED" /\ wire[k] = [e \in Ends |-> <<>>]
           /\ wire' = [wire EXCEPT ![k].s = <<Plain("SYN")>>] /\ UNCHANGED <<tcp, client>>
  <2>1. wire'[k].c = <<>> /\ wire'[k].s = <<Syn>>
    BY <1>1, <1>4 DEF Syn
  <2>2. Connecting(tcp'[k], wire'[k], client'[k], server'[k])
    BY <1>2, <1>3, <1>4, <2>1 DEF Connecting, Ways
  <2> QED
    BY <1>1, <1>2, <1>4, <2>2, SessionAfter DEF Phase, NoError
<1>5. CASE /\ proceed(k, "c", performStateTransition("SYN_SENT", "TIMEOUT_CONN_ESTAB"),
                      wire[k].c, <<>>, {}, NULL)
           /\ client' = [client EXCEPT ![k] = NULL]
  <2>1. Moved(k, "c", "CLOSED", w.c, <<>>)
    BY <1>1, <1>5, TimeoutRows, TimesOut
  <2>2. /\ u = NULL /\ tc.s \in {"CLOSED", "SYN_RCVD"}
        /\ \/ w.c = <<>> /\ w.s = <<>>
           \/ w.c = <<>> /\ w.s = <<Syn>>
           \/ w.c = <<SynAck>> /\ w.s = <<>>
    BY <1>3 DEF Connecting, Ways
  <2>3. w.s \o <<>> = w.s
    BY <2>2, Few
  <2>4. Ways(tcp'[k], wire'[k], "CLOSED", tc.s, w.c, w.s) /\ client'[k] = NULL
    BY <1>1, <1>5, <2>1, <2>3 DEF Moved
  <2>5. Abandoned(tcp'[k], wire'[k], client'[k], server'[k])
    BY <1>2, <2>2, <2>4, OwnKinds DEF Abandoned, Ways
  <2> QED
    BY <1>1, <1>2, <2>4, <2>5, SessionAfter DEF Phase, Spent, NoError
<1> QED
  BY <1>4, <1>5 DEF connectTimers

LEMMA TransmissionStartSession ==
  ASSUME SInv, NEW a \in Clients, transmissionStart(a)
  PROVE  Sessions' /\ NoError'
<1>1. PICK k \in FreeConns, requests \in RequestsPerSession, delayed \in BOOLEAN :
        /\ client' = [client EXCEPT ![k] = newClientThread(a, requests, delayed)]
        /\ killed' = killed \ {k}
  BY DEF transmissionStart
<1>2. /\ client \in [Conns -> ClientThread \cup {NULL}] /\ ~aborted /\ Sessions
      /\ k \in Conns /\ UNCHANGED <<tcp, wire, server, aborted>>
  BY DEF SInv, IInv, Types, NoError, FreeConns, transmissionStart
<1>3. Ways(tcp[k], wire[k], "CLOSED", "CLOSED", <<>>, <<>>) /\ server[k] = NULL
  BY DEF FreeConns, Ways, Ends
<1> DEFINE t == newClientThread(a, requests, delayed)
<1>4. t \in ClientThread
  BY TCPAppAssumption DEF newClientThread, ClientThread, SocketStates, TCPAppAssumption
<1>5. /\ t.state = "WAITING" /\ t.timer = TRUE /\ t.socket = "NOT_BOUND"
      /\ t.sent = 0 /\ t.received = 0
  BY DEF newClientThread
<1>6. client'[k] = t
  BY <1>1, <1>2
<1> HIDE DEF t
<1>a. Client(t, {"WAITING"}, TRUE, "NOT_BOUND", 0) /\ Spent(t)
  BY <1>4, <1>5, NoThread DEF Client, Spent
<1>7. Waiting(tcp'[k], wire'[k], client'[k], server'[k])
  BY <1>2, <1>3, <1>6, <1>a DEF Waiting
<1>8. Session(k)'
  BY <1>2, <1>6, <1>7, <1>a, SessionAfter DEF Phase
<1>9. Elsewhere(k)
  BY <1>1, <1>2 DEF Elsewhere
<1> QED
  BY <1>2, <1>8, <1>9, SessionsAfter DEF NoError

-----------------------------------------------------------------------------
(* The server.                                                             *)

LEMMA ListenSession ==
  ASSUME SInv, NEW k \in Conns, listen(k)
  PROVE  Session(k)' /\ NoError'
<1> DEFINE tc == tcp[k]  w == wire[k]  t == client[k]  u == server[k]
           Accepts == /\ tcp'[k].c = tc.c /\ tcp'[k].s = "SYN_RCVD"
                      /\ wire'[k].c = Append(w.c, SynAck) /\ wire'[k].s = Tail(w.s)
           Ignores == /\ tcp' = tcp /\ wire'[k].c = w.c /\ wire'[k].s = Tail(w.s)
<1>1. /\ Spent(t) /\ ~aborted /\ t \in ClientThread \cup {NULL}
      /\ tcp \in [Conns -> [Ends -> Live]] /\ wire \in [Conns -> [Ends -> Seq(Segment)]]
      /\ Types /\ "c" \in Ends /\ "s" \in Ends /\ w.s \in Seq(Segment)
  BY DEF SInv, IInv, Types, Sessions, Session, NoError, Ends
<1>2. tc.s = "CLOSED" /\ w.s # <<>> /\ UNCHANGED <<client, server, killed, aborted>>
  BY DEF listen
<1>3. Head(w.s).kind = "SYN" => Accepts \/ Ignores
  <2>1. ASSUME tcp' = [tcp EXCEPT ![k].s = performStateTransition("LISTEN", "RCV_SYN")],
               wire' = [wire EXCEPT ![k].s = Tail(@), ![k].c = Append(@, Plain("SYN_ACK"))]
        PROVE  Accepts
    BY <1>1, <2>1, Handshake DEF SynAck
  <2>2. ASSUME wire' = [wire EXCEPT ![k].s = Tail(@)], UNCHANGED tcp
        PROVE  Ignores
    BY <1>1, <2>2
  <2> QED
    BY <2>1, <2>2 DEF listen
<1>4. ASSUME NEW kind \in Kinds \ {"SYN", "RST"}, Head(w.s).kind = kind
      PROVE  Ways(tcp'[k], wire'[k], tc.c, "CLOSED", w.c \o <<Rst>>, Tail(w.s))
  <2>1. arrive(k, "s", {}, NULL)
    BY <1>4 DEF listen
  <2>2. Row("CLOSED", kind, "CLOSED", <<Rst>>, "NONE") /\ <<Rst>> \in Seq(Segment)
    BY <1>4, ClosedRows, OwnSequences
  <2>3. Moved(k, "s", "CLOSED", Tail(w.s), <<Rst>>)
    BY <1>1, <1>2, <1>4, <2>1, <2>2, TakesQuietly
  <2> QED
    BY <2>3 DEF Moved
<1>5. ASSUME Head(w.s).kind = "RST"
      PROVE  Ways(tcp'[k], wire'[k], tc.c, "CLOSED", w.c \o <<>>, Tail(w.s))
  <2>1. arrive(k, "s", {}, NULL)
    BY <1>5 DEF listen
  <2>2. Row("CLOSED", "RST", "CLOSED", <<>>, "NONE") /\ <<>> \in Seq(Segment)
    BY ClosedRows, OwnSequences DEF Kinds
  <2>3. Moved(k, "s", "CLOSED", Tail(w.s), <<>>)
    BY <1>1, <1>2, <1>5, <2>1, <2>2, TakesQuietly
  <2> QED
    BY <2>3 DEF Moved
<1>6. Append(<<>>, SynAck) = <<SynAck>>
  OBVIOUS
<1>7. CASE Abandoned(tc, w, t, u)
  <2>1. PICK r \in Segment : w.c = <<>> /\ w.s = <<r>> /\ r.kind \in {"SYN", "RST", "DATA"}
    BY <1>2, <1>7 DEF Abandoned
  <2>2. t = NULL /\ u = NULL /\ tc.c = "CLOSED" /\ Head(w.s) = r /\ Tail(w.s) = <<>>
    BY <1>7, <2>1, First DEF Abandoned
  <2>3. /\ tcp'[k].c = "CLOSED" /\ tcp'[k].s \in {"CLOSED", "SYN_RCVD"} /\ wire'[k].s = <<>>
        /\ wire'[k].c = <<>> \/ wire'[k].c = <<SynAck>> \/ wire'[k].c = <<Rst>>
    <3>1. CASE r.kind = "SYN"
      BY <1>2, <1>3, <1>6, <2>1, <2>2, <3>1
    <3>2. CASE r.kind = "RST"
      BY <1>5, <2>1, <2>2, <3>2, Few DEF Ways
    <3>3. CASE r.kind = "DATA"
      BY <1>4, <2>1, <2>2, <3>3, Few DEF Ways, Kinds
    <3> QED
      BY <2>1, <3>1, <3>2, <3>3
  <2>4. Abandoned(tcp'[k], wire'[k], client'[k], server'[k])
    BY <1>2, <2>2, <2>3, OwnKinds DEF Abandoned
  <2> QED
    BY <1>1, <1>2, <2>4, SessionAfter DEF Phase, NoError
<1>8. CASE Connecting(tc, w, t, u)
  <2>1. /\ Client(t, {"WAITING"}, FALSE, "NOT_BOUND", 0) /\ u = NULL
        /\ tc.c = "SYN_SENT" /\ w.c = <<>> /\ w.s = <<Syn>>
    BY <1>2, <1>8 DEF Connecting, Ways
  <2>2. Head(w.s).kind = "SYN" /\ Tail(w.s) = <<>>
    BY <2>1, First, OwnKinds
  <2>3. \/ Ways(tcp'[k], wire'[k], "SYN_SENT", "SYN_RCVD", <<SynAck>>, <<>>)
        \/ Ways(tcp'[k], wire'[k], "SYN_SENT", "CLOSED", <<>>, <<>>)
    BY <1>2, <1>3, <1>6, <2>1, <2>2 DEF Ways
  <2>4. Connecting(tcp'[k], wire'[k], client'[k], server'[k])
    BY <1>2, <2>1, <2>3 DEF Connecting
  <2> QED
    BY <1>1, <1>2, <2>4, SessionAfter DEF Phase, NoError
<1>9. CASE Opening(tc, w, t, u)
  <2>1. /\ Client(t, InSession, FALSE, "CONNECTED", 1) /\ u = NULL /\ tc.c = "ESTABLISHED"
        /\ \/ w.c = <<>> /\ w.s = <<Ack, Asked(t)>>
           \/ w.c = <<Rst>> /\ w.s = <<Asked(t)>>
    BY <1>2, <1>9 DEF Opening, Ways
  <2>2. ASSUME w.c = <<>>, w.s = <<Ack, Asked(t)>>
        PROVE  Opening(tcp'[k], wire'[k], client'[k], server'[k])
    <3>1. /\ Head(w.s).kind = "ACK" /\ Tail(w.s) = <<Asked(t)>> /\ w.c \o <<Rst>> = <<Rst>>
      BY <2>2, First, Few, OwnKinds
    <3>2. Ways(tcp'[k], wire'[k], "ESTABLISHED", "CLOSED", <<Rst>>, <<Asked(t)>>)
      BY <1>4, <2>1, <3>1 DEF Kinds
    <3> QED
      BY <1>2, <2>1, <3>2 DEF Opening
  <2>3. ASSUME w.c = <<Rst>>, w.s = <<Asked(t)>>
        PROVE  Opening(tcp'[k], wire'[k], client'[k], server'[k])
    <3>1. /\ Head(w.s).kind = "DATA" /\ Tail(w.s) = <<>> /\ w.c \o <<Rst>> = <<Rst, Rst>>
      BY <2>3, First, Two DEF Asked
    <3>2. Ways(tcp'[k], wire'[k], "ESTABLISHED", "CLOSED", <<Rst, Rst>>, <<>>)
      BY <1>4, <2>1, <3>1 DEF Kinds
    <3> QED
      BY <1>2, <2>1, <3>2 DEF Opening
  <2>4. Opening(tcp'[k], wire'[k], client'[k], server'[k])
    BY <2>1, <2>2, <2>3
  <2> QED
    BY <1>1, <1>2, <2>4, SessionAfter DEF Phase, NoError
<1>10. /\ ~Waiting(tc, w, t, u) /\ ~Talking(tc, w, t, u) /\ ~LastReply(tc, w, t, u)
       /\ ~ClosingInTurn(tc, w, t, u) /\ ~ClosingAtOnce(tc, w, t, u)
       /\ ~Finished(tc, w, t, u) /\ ~Killed(tc, w, t, u)
  BY <1>2 DEF Waiting, Talking, LastReply, ClosingInTurn, ClosingAtOnce, Finished, Killed, Ways
<1> QED
  BY <1>7, <1>8, <1>9, <1>10 DEF SInv, Sessions, Session, Phase

(* The server's end takes a segment of some kind.                          *)
ServerTakes(k, state, kind, next, answer, told) ==
  /\ serverReceives(k) /\ Row(state, kind, next, answer, told)
  /\ tcp[k].s = state /\ Head(wire[k].s).kind = kind /\ answer \in Seq(Segment)

(* It is in state end, has sent out, and its thread is u.                  *)
ServerTook(k, end, out, u) ==
  /\ Ways(tcp'[k], wire'[k], tcp[k].c, end, wire[k].c \o out, Tail(wire[k].s))
  /\ server'[k] = u /\ client'[k] = client[k] /\ ~aborted'
  /\ k \in killed => k \in killed'

LEMMA ServerMoves ==
  ASSUME SInv, NEW k \in Conns, NEW state, NEW kind, NEW next, NEW answer, NEW told,
         ServerTakes(k, state, kind, next, answer, told),
         NEW commands, NEW data, arrive(k, "s", commands, data),
         NEW end, NEW out, Effect(next, answer, commands, data, end, out)
  PROVE  Ways(tcp'[k], wire'[k], tcp[k].c, end, wire[k].c \o out, Tail(wire[k].s))
<1>1. Types /\ "s" \in Ends /\ "s" # "c"
  BY DEF SInv, IInv, Ends
<1>2. Moved(k, "s", end, Tail(wire[k].s), out)
  BY <1>1, Takes DEF ServerTakes
<1> QED
  BY <1>1, <1>2 DEF Moved

LEMMA ServerTakesQuietly ==
  ASSUME SInv, NEW k \in Conns, NEW state, NEW kind, NEW next, NEW answer,
         ServerTakes(k, state, kind, next, answer, "NONE")
  PROVE  ServerTook(k, next, answer, server[k])
<1>1. indication(tcp[k].s, Head(wire[k].s).kind) = "NONE" /\ serverReceives(k)
  BY DEF ServerTakes, Row
<1>2. arrive(k, "s", {}, NULL) /\ UNCHANGED <<client, server, killed, aborted>>
  BY <1>1 DEF serverReceives, callback
<1>3. Effect(next, answer, {}, NULL, next, answer)
  BY NoCommands DEF ServerTakes
<1>4. Ways(tcp'[k], wire'[k], tcp[k].c, next, wire[k].c \o answer, Tail(wire[k].s))
  BY <1>2, <1>3, ServerMoves
<1> QED
  BY <1>2, <1>4 DEF ServerTook, SInv, NoError

(* At the limit it is closed ...                                           *)
LEMMA ServerOverloaded ==
  ASSUME SInv, NEW k \in Conns, NEW state, NEW kind, NEW next, NEW answer, NEW told,
         ServerTakes(k, state, kind, next, answer, told), told # "NONE",
         server[k] = NULL, overloaded,
         NEW end, NEW out, Effect(next, answer, {"CLOSE"}, NULL, end, out)
  PROVE  ServerTook(k, end, out, NULL) /\ k \in killed'
<1>1. indication(tcp[k].s, Head(wire[k].s).kind) = told /\ serverReceives(k)
  BY DEF ServerTakes, Row
<1>2. /\ arrive(k, "s", {"CLOSE"}, NULL) /\ UNCHANGED <<client, server, aborted>>
      /\ killed' = killed \cup {k}
  BY <1>1 DEF serverReceives
<1>3. Ways(tcp'[k], wire'[k], tcp[k].c, end, wire[k].c \o out, Tail(wire[k].s))
  BY <1>2, ServerMoves
<1> QED
  BY <1>2, <1>3 DEF ServerTook, SInv, NoError

(* ... and otherwise its thread, or a new one, is called back.             *)
LEMMA ServerCalls ==
  ASSUME SInv, NEW k \in Conns, NEW state, NEW kind, NEW next, NEW answer, NEW told,
         ServerTakes(k, state, kind, next, answer, told), told # "NONE",
         NEW t, \/ server[k] = NULL /\ ~overloaded /\ t = NewThread
                \/ server[k] # NULL /\ t = server[k]
  PROVE  /\ \E threads : callback(k, t, told, threads)
         /\ UNCHANGED <<client, killed>>
<1>1. indication(tcp[k].s, Head(wire[k].s).kind) = told /\ serverReceives(k)
  BY DEF ServerTakes, Row
<1> QED
  BY <1>1 DEF serverReceives

Fresh == Server(FALSE, 0, FALSE, "CONNECTED")

LEMMA ServerEstablished ==
  ASSUME SInv, NEW k \in Conns, NEW state, NEW kind, NEW next, NEW answer,
         ServerTakes(k, state, kind, next, answer, "ESTABLISHED"),
         server[k] = NULL, ~overloaded
  PROVE  ServerTook(k, next, answer, Fresh)
<1>1. /\ \E threads : callback(k, NewThread, "ESTABLISHED", threads)
      /\ UNCHANGED <<client, killed>>
  BY ServerCalls
<1>2. /\ server' = [server EXCEPT ![k] = NewThread] /\ arrive(k, "s", {}, NULL)
      /\ aborted' = aborted
  BY <1>1 DEF callback
<1>3. server'[k] = Fresh
  <2>1. server'[k] = NewThread
    BY <1>2 DEF SInv, IInv, Types
  <2> QED
    BY <2>1 DEF NewThread, Fresh, Server
<1>4. Effect(next, answer, {}, NULL, next, answer)
  BY NoCommands DEF ServerTakes
<1>5. Ways(tcp'[k], wire'[k], tcp[k].c, next, wire[k].c \o answer, Tail(wire[k].s))
  BY <1>2, <1>4, ServerMoves
<1> QED
  BY <1>1, <1>2, <1>3, <1>5 DEF ServerTook, SInv, NoError

LEMMA ServerPeerClosed ==
  ASSUME SInv, NEW k \in Conns, NEW state, NEW kind, NEW next, NEW answer,
         ServerTakes(k, state, kind, next, answer, "PEER_CLOSED"),
         server[k] = Server(TRUE, 0, FALSE, "LOCALLY_CLOSED"), server[k] # NULL
  PROVE  ServerTook(k, next, answer, Server(TRUE, 0, FALSE, "CLOSED"))
<1> DEFINE t == Server(TRUE, 0, FALSE, "LOCALLY_CLOSED")
<1>1. /\ \E threads : callback(k, t, "PEER_CLOSED", threads)
      /\ UNCHANGED <<client, killed>>
  BY ServerCalls
<1>2. /\ server' = [server EXCEPT ![k] =
             [t EXCEPT !.doClose = TRUE, !.socket = peerClosedSocket(@)]]
      /\ arrive(k, "s", {}, NULL) /\ aborted' = aborted
  BY <1>1 DEF callback
<1>3. server'[k] = Server(TRUE, 0, FALSE, "CLOSED")
  <2>1. server'[k] = [t EXCEPT !.doClose = TRUE, !.socket = peerClosedSocket(@)]
    BY <1>2 DEF SInv, IInv, Types
  <2>2. peerClosedSocket(t.socket) = "CLOSED"
    BY DEF Server, peerClosedSocket
  <2> QED
    BY <2>1, <2>2 DEF Server
<1>4. Effect(next, answer, {}, NULL, next, answer)
  BY NoCommands DEF ServerTakes
<1>5. Ways(tcp'[k], wire'[k], tcp[k].c, next, wire[k].c \o answer, Tail(wire[k].s))
  BY <1>2, <1>4, ServerMoves
<1> QED
  BY <1>1, <1>2, <1>3, <1>5 DEF ServerTook, SInv, NoError

LEMMA ServerClosed ==
  ASSUME SInv, NEW k \in Conns, NEW state, NEW kind, NEW next, NEW answer,
         ServerTakes(k, state, kind, next, answer, "CLOSED"), server[k] # NULL
  PROVE  ServerTook(k, next, answer, NULL)
<1>1. /\ \E threads : callback(k, server[k], "CLOSED", threads)
      /\ UNCHANGED <<client, killed>>
  BY ServerCalls
<1>2. /\ server' = [server EXCEPT ![k] = NULL]
      /\ arrive(k, "s", {}, NULL) /\ aborted' = aborted
  BY <1>1 DEF callback, removeThread
<1>3. server'[k] = NULL
  BY <1>2 DEF SInv, IInv, Types
<1>4. Effect(next, answer, {}, NULL, next, answer)
  BY NoCommands DEF ServerTakes
<1>5. Ways(tcp'[k], wire'[k], tcp[k].c, next, wire[k].c \o answer, Tail(wire[k].s))
  BY <1>2, <1>4, ServerMoves
<1> QED
  BY <1>1, <1>2, <1>3, <1>5 DEF ServerTook, SInv, NoError

(* The first request of a thread, or the next one, and its reply.          *)
LEMMA ServerRequested ==
  ASSUME SInv, NEW k \in Conns, NEW state, NEW kind, NEW next,
         ServerTakes(k, state, kind, next, <<>>, "DATA"),
         \/ server[k] = NULL /\ ~overloaded
         \/ server[k] # NULL /\ server[k] = Fresh,
         NEW r, Head(wire[k].s) = r
  PROVE  /\ ~aborted' /\ UNCHANGED <<client, killed>>
         /\ \/ /\ r.empty /\ arrive(k, "s", {}, NULL)
               /\ server'[k] = Server(r.last, 0, FALSE, "CONNECTED")
            \/ /\ r.delayed /\ arrive(k, "s", {}, NULL)
               /\ server'[k] = Server(r.last, 1, TRUE, "CONNECTED")
            \/ /\ ~r.delayed /\ r.last /\ arrive(k, "s", {"SEND"} \cup {"CLOSE"}, Reply)
               /\ server'[k] = Server(r.last, 0, FALSE, "LOCALLY_CLOSED")
            \/ /\ ~r.delayed /\ ~r.last /\ arrive(k, "s", {"SEND"} \cup {}, Reply)
               /\ server'[k] = Server(r.last, 0, FALSE, "CONNECTED")
<1>1. NewThread = Fresh
  BY DEF NewThread, Fresh, Server
<1>2. /\ \E threads : callback(k, Fresh, "DATA", threads)
      /\ UNCHANGED <<client, killed>>
  BY <1>1, ServerCalls
<1>3. dataArrived(k, Fresh, r)
  BY <1>2 DEF callback
<1>4. /\ Fresh.timer = FALSE /\ Fresh.socket = "CONNECTED" /\ Fresh.replies = 0
      /\ closedSocket("CONNECTED") = "LOCALLY_CLOSED" /\ closing("CONNECTED") = {"CLOSE"}
  BY DEF Fresh, Server, closedSocket, closing
<1>5. server \in [Conns -> ServerThread \cup {NULL}]
  BY DEF SInv, IInv, Types
<1>0. CASE r.empty /\ noReply(k, Fresh, r)
  <2>1. /\ server' = [server EXCEPT ![k] = [Fresh EXCEPT !.doClose = r.last]]
        /\ arrive(k, "s", {}, NULL) /\ ~aborted'
    BY <1>0 DEF noReply, SInv, NoError
  <2>2. server'[k] = [Fresh EXCEPT !.doClose = r.last]
    BY <1>5, <2>1
  <2>3. server'[k] = Server(r.last, 0, FALSE, "CONNECTED")
    BY <2>2 DEF Fresh, Server
  <2> QED
    BY <1>0, <1>2, <2>1, <2>3
<1>6. CASE r.delayed /\ replyLater(k, Fresh, r)
  <2>1. /\ server' = [server EXCEPT ![k] =
             [Fresh EXCEPT !.doClose = r.last, !.replies = @ + 1, !.timer = TRUE]]
        /\ arrive(k, "s", {}, NULL) /\ ~aborted'
    BY <1>4, <1>6 DEF replyLater
  <2>2. server'[k] = [Fresh EXCEPT !.doClose = r.last, !.replies = 1, !.timer = TRUE]
    <3>1. server'[k] = [Fresh EXCEPT !.doClose = r.last, !.replies = Fresh.replies + 1,
                                     !.timer = TRUE]
      BY <1>5, <2>1
    <3>2. Fresh.replies + 1 = 1
      BY <1>4
    <3> QED
      BY <3>1, <3>2, Zenon
  <2>3. server'[k] = Server(r.last, 1, TRUE, "CONNECTED")
    BY <2>2 DEF Fresh, Server
  <2> QED
    BY <1>2, <1>6, <2>1, <2>3
<1>7. CASE ~r.delayed /\ r.last /\ replyNow(k, Fresh, r)
  <2>1. /\ server' = [server EXCEPT ![k] =
             [Fresh EXCEPT !.doClose = r.last, !.socket = closedSocket(@)]]
        /\ arrive(k, "s", {"SEND"} \cup {"CLOSE"}, Reply) /\ ~aborted'
    BY <1>4, <1>7 DEF replyNow
  <2>2. server'[k] = [Fresh EXCEPT !.doClose = r.last, !.socket = "LOCALLY_CLOSED"]
    BY <1>4, <1>5, <2>1
  <2>3. server'[k] = Server(r.last, 0, FALSE, "LOCALLY_CLOSED")
    BY <2>2 DEF Fresh, Server
  <2> QED
    BY <1>2, <1>7, <2>1, <2>3
<1>8. CASE ~r.delayed /\ ~r.last /\ replyNow(k, Fresh, r)
  <2>1. /\ server' = [server EXCEPT ![k] = [Fresh EXCEPT !.doClose = r.last, !.socket = @]]
        /\ arrive(k, "s", {"SEND"} \cup {}, Reply) /\ ~aborted'
    BY <1>4, <1>8 DEF replyNow
  <2>2. server'[k] = [Fresh EXCEPT !.doClose = r.last, !.socket = "CONNECTED"]
    BY <1>4, <1>5, <2>1
  <2>3. server'[k] = Server(r.last, 0, FALSE, "CONNECTED")
    BY <2>2 DEF Fresh, Server
  <2> QED
    BY <1>2, <1>8, <2>1, <2>3
<1> QED
  BY <1>0, <1>3, <1>6, <1>7, <1>8 DEF dataArrived

(* The thread of a killed connection is one that comes late.               *)
LEMMA Late ==
  /\ \A d \in BOOLEAN : /\ Server(d, 1, TRUE, "CONNECTED") \in LateThread
                        /\ Server(d, 0, FALSE, "CONNECTED") \in LateThread
  /\ {NULL, Fresh, Server(TRUE, 0, FALSE, "LOCALLY_CLOSED")} \subseteq LateThread
  BY DEF LateThread, Fresh

LEMMA FreshThread == Fresh # NULL
<1>1. Fresh \in ServerThread
  BY DEF Fresh, Server, ServerThread, SocketStates
<1> QED
  BY <1>1, NoThread

LEMMA ClosingThreads ==
  /\ Server(TRUE, 0, FALSE, "LOCALLY_CLOSED") # NULL
  /\ Server(TRUE, 0, FALSE, "CLOSED") # NULL
<1>1. /\ Server(TRUE, 0, FALSE, "LOCALLY_CLOSED") \in ServerThread
      /\ Server(TRUE, 0, FALSE, "CLOSED") \in ServerThread
  BY DEF Server, ServerThread, SocketStates
<1> QED
  BY <1>1, NoThread

LEMMA ServerReceivesSession ==
  ASSUME SInv, NEW k \in Conns, serverReceives(k)
  PROVE  Session(k)' /\ NoError'
<1> DEFINE tc == tcp[k]  w == wire[k]  t == client[k]  u == server[k]
<1>1. /\ tc.s # "CLOSED" /\ w.s # <<>> /\ Spent(t) /\ ~aborted
      /\ t \in ClientThread \cup {NULL} /\ u \in ServerThread \cup {NULL}
  BY DEF SInv, IInv, Types, Sessions, Session, serverReceives, NoError
<1>2. ASSUME NEW end, NEW out, NEW v, ServerTook(k, end, out, v)
      PROVE  Spent(client'[k]) /\ NoError' /\ (k \in killed => k \in killed')
  BY <1>1, <1>2 DEF ServerTook, NoError
<1>3. CASE Abandoned(tc, w, t, u)
  <2>1. /\ t = NULL /\ u = NULL /\ tc.c = "CLOSED" /\ tc.s = "SYN_RCVD" /\ w.c = <<>>
        /\ \E r \in Segment : w.s = <<r>> /\ r.kind \in {"SYN", "RST", "DATA"}
    BY <1>1, <1>3 DEF Abandoned
  <2>2. PICK r \in Segment : w.s = <<r>> /\ r.kind \in {"SYN", "RST", "DATA"}
    BY <2>1
  <2>3. Head(w.s) = r /\ Tail(w.s) = <<>> /\ w.c \o <<>> = <<>>
    BY <2>1, <2>2, First, Few
  <2>4. ASSUME NEW y \in {"CLOSED", "SYN_RCVD"}, Row("SYN_RCVD", r.kind, y, <<>>, "NONE")
        PROVE  Session(k)' /\ NoError'
    <3>1. ServerTakes(k, "SYN_RCVD", r.kind, y, <<>>, "NONE")
      BY <2>1, <2>3, <2>4, OwnSequences DEF ServerTakes
    <3>2. ServerTook(k, y, <<>>, NULL)
      BY <2>1, <3>1, ServerTakesQuietly
    <3>3. Abandoned(tcp'[k], wire'[k], client'[k], server'[k])
      BY <2>1, <2>3, <3>2 DEF ServerTook, Abandoned, Ways
    <3> QED
      BY <1>2, <3>2, <3>3, SessionAfter DEF Phase
  <2> QED
    BY <2>2, <2>4, HandshakeRows
<1>4. CASE Opening(tc, w, t, u)
  <2>1. /\ Client(t, InSession, FALSE, "CONNECTED", 1) /\ u = NULL
        /\ Ways(tc, w, "ESTABLISHED", "SYN_RCVD", <<>>, <<Ack, Asked(t)>>)
    BY <1>1, <1>4 DEF Opening, Ways
  <2>2. /\ Head(w.s).kind = "ACK" /\ Tail(w.s) = <<Asked(t)>> /\ w.c \o <<Fin>> = <<Fin>>
        /\ w.c \o <<>> = <<>> /\ tc.c = "ESTABLISHED" /\ tc.s = "SYN_RCVD"
    BY <2>1, First, Few, OwnKinds DEF Ways
  <2>3. ServerTakes(k, "SYN_RCVD", "ACK", "ESTABLISHED", <<>>, "ESTABLISHED")
    BY <2>2, HandshakeRows, OwnSequences DEF ServerTakes
  <2>4. CASE overloaded
    <3>1. Effect("ESTABLISHED", <<>>, {"CLOSE"}, NULL, "FIN_WAIT_1", <<Fin>>)
      BY Closes
    <3>2. ServerTook(k, "FIN_WAIT_1", <<Fin>>, NULL) /\ k \in killed'
      BY <2>1, <2>3, <2>4, <3>1, ServerOverloaded
    <3>3. Killed(tcp'[k], wire'[k], client'[k], server'[k])
      BY <2>1, <2>2, <3>2 DEF ServerTook, Killed
    <3>4. server'[k] \in LateThread
      BY <3>2, Late DEF ServerTook
    <3> QED
      BY <1>2, <3>2, <3>3, <3>4, SessionAfter
  <2>5. CASE ~overloaded
    <3>1. ServerTook(k, "ESTABLISHED", <<>>, Fresh)
      BY <2>1, <2>3, <2>5, ServerEstablished
    <3>2. Talking(tcp'[k], wire'[k], client'[k], server'[k])
      BY <2>1, <2>2, <3>1 DEF ServerTook, Talking, Fresh
    <3> QED
      BY <1>2, <3>1, <3>2, SessionAfter DEF Phase
  <2> QED
    BY <2>4, <2>5
<1>5. CASE Talking(tc, w, t, u)
  <2>1. /\ Client(t, InSession, FALSE, "CONNECTED", 1) /\ u = Fresh
        /\ Ways(tc, w, "ESTABLISHED", "ESTABLISHED", <<>>, <<Asked(t)>>)
    BY <1>1, <1>5 DEF Talking, Ways, Fresh
  <2> DEFINE r == Asked(t)
  <2>2. /\ Head(w.s) = r /\ r.kind = "DATA" /\ r.last = (t.state = "DISCONNECTED")
        /\ r.empty = t.empty
        /\ Tail(w.s) = <<>> /\ w.c = <<>> /\ tc.c = "ESTABLISHED" /\ tc.s = "ESTABLISHED"
    BY <2>1, First DEF Ways, Asked
  <2> HIDE DEF r
  <2>3. ServerTakes(k, "ESTABLISHED", "DATA", "ESTABLISHED", <<>>, "DATA") /\ u # NULL
    <3>1. u # NULL
      BY <1>1, <2>1, FreshThread
    <3> QED
      BY <2>2, <3>1, DataRows, OwnSequences DEF ServerTakes
  <2>4. ~aborted' /\ UNCHANGED <<client, killed>>
    BY <2>1, <2>2, <2>3, ServerRequested
  <2>8. CASE /\ r.empty /\ arrive(k, "s", {}, NULL)
             /\ server'[k] = Server(r.last, 0, FALSE, "CONNECTED")
    <3>1. Effect("ESTABLISHED", <<>>, {}, NULL, "ESTABLISHED", <<>>)
      BY NoCommands, OwnSequences
    <3>2. Ways(tcp'[k], wire'[k], "ESTABLISHED", "ESTABLISHED", <<>>, <<>>)
      BY <2>2, <2>3, <2>8, <3>1, ServerMoves, Few
    <3>3. Talking(tcp'[k], wire'[k], client'[k], server'[k])
      BY <2>1, <2>2, <2>4, <2>8, <3>2 DEF Talking
    <3> QED
      BY <1>1, <2>4, <3>3, SessionAfter DEF Phase, NoError
  <2>5. CASE /\ r.delayed /\ arrive(k, "s", {}, NULL)
             /\ server'[k] = Server(r.last, 1, TRUE, "CONNECTED")
    <3>1. Effect("ESTABLISHED", <<>>, {}, NULL, "ESTABLISHED", <<>>)
      BY NoCommands, OwnSequences
    <3>2. Ways(tcp'[k], wire'[k], "ESTABLISHED", "ESTABLISHED", <<>>, <<>>)
      BY <2>2, <2>3, <2>5, <3>1, ServerMoves, Few
    <3>3. Talking(tcp'[k], wire'[k], client'[k], server'[k])
      BY <2>1, <2>2, <2>4, <2>5, <3>2 DEF Talking
    <3> QED
      BY <1>1, <2>4, <3>3, SessionAfter DEF Phase, NoError
  <2>6. CASE /\ ~r.delayed /\ r.last /\ arrive(k, "s", {"SEND"} \cup {"CLOSE"}, Reply)
             /\ server'[k] = Server(r.last, 0, FALSE, "LOCALLY_CLOSED")
    <3>1. Effect("ESTABLISHED", <<>>, {"SEND"} \cup {"CLOSE"}, Reply, "FIN_WAIT_1", <<Reply, Fin>>)
      BY Closes
    <3>2. Ways(tcp'[k], wire'[k], "ESTABLISHED", "FIN_WAIT_1", <<Reply, Fin>>, <<>>)
      <4>1. Ways(tcp'[k], wire'[k], tc.c, "FIN_WAIT_1", w.c \o <<Reply, Fin>>, Tail(w.s))
        BY <2>3, <2>6, <3>1, ServerMoves, Zenon
      <4>2. w.c \o <<Reply, Fin>> = <<Reply, Fin>>
        BY <2>2, Few
      <4> QED
        BY <2>2, <4>1, <4>2
    <3>3. r.last = TRUE /\ Client(t, {"DISCONNECTED"}, FALSE, "CONNECTED", 1)
      BY <2>1, <2>2, <2>6 DEF Client
    <3>4. LastReply(tcp'[k], wire'[k], client'[k], server'[k])
      BY <2>4, <2>6, <3>2, <3>3 DEF LastReply
    <3> QED
      BY <1>1, <2>4, <3>4, SessionAfter DEF Phase, NoError
  <2>7. CASE /\ ~r.delayed /\ ~r.last /\ arrive(k, "s", {"SEND"} \cup {}, Reply)
             /\ server'[k] = Server(r.last, 0, FALSE, "CONNECTED")
    <3>1. Effect("ESTABLISHED", <<>>, {"SEND"} \cup {}, Reply, "ESTABLISHED", <<Reply>>)
      BY Sends
    <3>2. Ways(tcp'[k], wire'[k], "ESTABLISHED", "ESTABLISHED", <<Reply>>, <<>>)
      <4>1. Ways(tcp'[k], wire'[k], tc.c, "ESTABLISHED", w.c \o <<Reply>>, Tail(w.s))
        BY <2>3, <2>7, <3>1, ServerMoves, Zenon
      <4>2. w.c \o <<Reply>> = <<Reply>>
        BY <2>2, Few
      <4> QED
        BY <2>2, <4>1, <4>2
    <3>3. r.last = FALSE /\ Client(t, {"CONNECTED"}, FALSE, "CONNECTED", 1)
      BY <2>1, <2>2, <2>7 DEF Client, InSession
    <3>4. Talking(tcp'[k], wire'[k], client'[k], server'[k])
      BY <2>4, <2>7, <3>2, <3>3 DEF Talking
    <3> QED
      BY <1>1, <2>4, <3>4, SessionAfter DEF Phase, NoError
  <2> QED
    BY <2>1, <2>2, <2>3, <2>5, <2>6, <2>7, <2>8, ServerRequested
<1>6. u = Server(TRUE, 0, FALSE, "LOCALLY_CLOSED") => u # NULL
  BY <1>1, ClosingThreads
<1>7. CASE LastReply(tc, w, t, u)
  <2>1. /\ u = Server(TRUE, 0, FALSE, "LOCALLY_CLOSED")
        /\ Client(t, {"DISCONNECTED"}, TRUE, "PEER_CLOSED", 0)
        /\ Ways(tc, w, "CLOSE_WAIT", "FIN_WAIT_1", <<>>, <<FinAcked>>)
    BY <1>1, <1>7 DEF LastReply, Ways
  <2>2. /\ Head(w.s).kind = "FIN_ACKED" /\ Tail(w.s) = <<>> /\ w.c \o <<>> = <<>>
        /\ tc.c = "CLOSE_WAIT" /\ tc.s = "FIN_WAIT_1"
    BY <2>1, First, Few, OwnKinds DEF Ways
  <2>3. ServerTakes(k, "FIN_WAIT_1", "FIN_ACKED", "FIN_WAIT_2", <<>>, "NONE")
    BY <2>2, FinAckedRows, OwnSequences DEF ServerTakes
  <2>4. ServerTook(k, "FIN_WAIT_2", <<>>, u)
    BY <2>3, ServerTakesQuietly
  <2>5. LastReply(tcp'[k], wire'[k], client'[k], server'[k])
    BY <2>1, <2>2, <2>4 DEF ServerTook, LastReply
  <2> QED
    BY <1>2, <2>4, <2>5, SessionAfter DEF Phase
<1>8. CASE ClosingInTurn(tc, w, t, u)
  <2>1. /\ Client(t, {"DISCONNECTED"}, FALSE, "CLOSED", 0)
        /\ u = Server(TRUE, 0, FALSE, "LOCALLY_CLOSED")
        /\ \/ Ways(tc, w, "LAST_ACK", "FIN_WAIT_1", <<>>, <<FinAcked, Fin>>)
           \/ Ways(tc, w, "LAST_ACK", "FIN_WAIT_2", <<>>, <<Fin>>)
    BY <1>1, <1>8 DEF ClosingInTurn, Ways
  <2>2. CASE Ways(tc, w, "LAST_ACK", "FIN_WAIT_1", <<>>, <<FinAcked, Fin>>)
    <3>1. /\ Head(w.s).kind = "FIN_ACKED" /\ Tail(w.s) = <<Fin>> /\ w.c \o <<>> = <<>>
          /\ tc.c = "LAST_ACK" /\ tc.s = "FIN_WAIT_1"
      BY <2>2, First, Few, OwnKinds DEF Ways
    <3>2. ServerTakes(k, "FIN_WAIT_1", "FIN_ACKED", "FIN_WAIT_2", <<>>, "NONE")
      BY <3>1, FinAckedRows, OwnSequences DEF ServerTakes
    <3>3. ServerTook(k, "FIN_WAIT_2", <<>>, u)
      BY <3>2, ServerTakesQuietly
    <3>4. ClosingInTurn(tcp'[k], wire'[k], client'[k], server'[k])
      BY <2>1, <3>1, <3>3 DEF ServerTook, ClosingInTurn
    <3> QED
      BY <1>2, <3>3, <3>4, SessionAfter DEF Phase
  <2>3. CASE Ways(tc, w, "LAST_ACK", "FIN_WAIT_2", <<>>, <<Fin>>)
    <3>1. /\ Head(w.s).kind = "FIN" /\ Tail(w.s) = <<>> /\ w.c \o <<FinAcked>> = <<FinAcked>>
          /\ tc.c = "LAST_ACK" /\ tc.s = "FIN_WAIT_2"
      BY <2>3, First, Few, OwnKinds DEF Ways
    <3>2. ServerTakes(k, "FIN_WAIT_2", "FIN", "TIME_WAIT", <<FinAcked>>, "CLOSED")
      BY <3>1, FinRows, OwnSequences DEF ServerTakes
    <3>3. ServerTook(k, "TIME_WAIT", <<FinAcked>>, NULL)
      BY <1>6, <2>1, <3>2, ServerClosed
    <3>4. ClosingInTurn(tcp'[k], wire'[k], client'[k], server'[k])
      BY <2>1, <3>1, <3>3 DEF ServerTook, ClosingInTurn
    <3> QED
      BY <1>2, <3>3, <3>4, SessionAfter DEF Phase
  <2> QED
    BY <2>1, <2>2, <2>3
<1>9. CASE ClosingAtOnce(tc, w, t, u)
  <2>1. CASE /\ Client(t, {"DISCONNECTED"}, FALSE, "LOCALLY_CLOSED", 0)
             /\ u = Server(TRUE, 0, FALSE, "LOCALLY_CLOSED")
             /\ Ways(tc, w, "FIN_WAIT_1", "FIN_WAIT_1", <<Fin>>, <<Fin>>)
    <3>1. /\ Head(w.s).kind = "FIN" /\ Tail(w.s) = <<>>
          /\ w.c \o <<FinAcked>> = <<Fin, FinAcked>>
          /\ tc.c = "FIN_WAIT_1" /\ tc.s = "FIN_WAIT_1"
      BY <2>1, First, Two, OwnKinds DEF Ways
    <3>2. ServerTakes(k, "FIN_WAIT_1", "FIN", "CLOSING", <<FinAcked>>, "PEER_CLOSED")
      BY <3>1, FinRows, OwnSequences DEF ServerTakes
    <3>3. ServerTook(k, "CLOSING", <<FinAcked>>, Server(TRUE, 0, FALSE, "CLOSED"))
      BY <1>6, <2>1, <3>2, ServerPeerClosed
    <3>4. ClosingAtOnce(tcp'[k], wire'[k], client'[k], server'[k])
      BY <2>1, <3>1, <3>3 DEF ServerTook, ClosingAtOnce
    <3> QED
      BY <1>2, <3>3, <3>4, SessionAfter DEF Phase
  <2>2. CASE /\ Client(t, {"DISCONNECTED"}, FALSE, "CLOSED", 0)
             /\ u = Server(TRUE, 0, FALSE, "LOCALLY_CLOSED")
             /\ Ways(tc, w, "CLOSING", "FIN_WAIT_1", <<>>, <<Fin, FinAcked>>)
    <3>1. /\ Head(w.s).kind = "FIN" /\ Tail(w.s) = <<FinAcked>>
          /\ w.c \o <<FinAcked>> = <<FinAcked>>
          /\ tc.c = "CLOSING" /\ tc.s = "FIN_WAIT_1"
      BY <2>2, First, Few, OwnKinds DEF Ways
    <3>2. ServerTakes(k, "FIN_WAIT_1", "FIN", "CLOSING", <<FinAcked>>, "PEER_CLOSED")
      BY <3>1, FinRows, OwnSequences DEF ServerTakes
    <3>3. ServerTook(k, "CLOSING", <<FinAcked>>, Server(TRUE, 0, FALSE, "CLOSED"))
      BY <1>6, <2>2, <3>2, ServerPeerClosed
    <3>4. ClosingAtOnce(tcp'[k], wire'[k], client'[k], server'[k])
      BY <2>2, <3>1, <3>3 DEF ServerTook, ClosingAtOnce
    <3> QED
      BY <1>2, <3>3, <3>4, SessionAfter DEF Phase
  <2>3. CASE /\ Client(t, {"DISCONNECTED"}, FALSE, "CLOSED", 0)
             /\ u = Server(TRUE, 0, FALSE, "CLOSED")
             /\ Ways(tc, w, "CLOSING", "CLOSING", <<FinAcked>>, <<FinAcked>>)
    <3>1. /\ Head(w.s).kind = "FIN_ACKED" /\ Tail(w.s) = <<>> /\ w.c \o <<>> = <<FinAcked>>
          /\ tc.c = "CLOSING" /\ tc.s = "CLOSING"
      BY <2>3, First, Few, OwnKinds DEF Ways
    <3>2. ServerTakes(k, "CLOSING", "FIN_ACKED", "TIME_WAIT", <<>>, "CLOSED")
      BY <3>1, FinAckedRows, OwnSequences DEF ServerTakes
    <3>3. ServerTook(k, "TIME_WAIT", <<>>, NULL)
      BY <2>3, <3>2, ServerClosed, ClosingThreads
    <3>4. ClosingAtOnce(tcp'[k], wire'[k], client'[k], server'[k])
      BY <2>3, <3>1, <3>3 DEF ServerTook, ClosingAtOnce
    <3> QED
      BY <1>2, <3>3, <3>4, SessionAfter DEF Phase
  <2> QED
    BY <1>1, <1>9, <2>1, <2>2, <2>3 DEF ClosingAtOnce, Ways
<1>10. CASE Finished(tc, w, t, u)
  <2>1. PICK x \in {"CLOSED", "TIME_WAIT"} :
          /\ u = Server(TRUE, 0, FALSE, "CLOSED")
          /\ Ways(tc, w, x, "CLOSING", <<>>, <<FinAcked>>)
    BY <1>1, <1>10 DEF Finished, Ways
  <2>2. /\ Head(w.s).kind = "FIN_ACKED" /\ Tail(w.s) = <<>> /\ w.c \o <<>> = <<>>
        /\ tc.c = x /\ tc.s = "CLOSING"
    BY <2>1, First, Few, OwnKinds DEF Ways
  <2>3. ServerTakes(k, "CLOSING", "FIN_ACKED", "TIME_WAIT", <<>>, "CLOSED")
    BY <2>2, FinAckedRows, OwnSequences DEF ServerTakes
  <2>4. ServerTook(k, "TIME_WAIT", <<>>, NULL)
    BY <2>1, <2>3, ServerClosed, ClosingThreads
  <2>5. t = NULL \/ Client(t, {"FINISH"}, TRUE, "CLOSED", 0)
    BY <1>10 DEF Finished
  <2>6. Finished(tcp'[k], wire'[k], client'[k], server'[k])
    BY <2>2, <2>4, <2>5 DEF ServerTook, Finished
  <2> QED
    BY <1>2, <2>4, <2>6, SessionAfter DEF Phase
<1>11. CASE k \in killed /\ u \in LateThread /\ Killed(tc, w, t, u)
  <2> DEFINE r == Asked(t)
  <2>1. \/ /\ u = NULL /\ Client(t, InSession, FALSE, "CONNECTED", 1)
           /\ Ways(tc, w, "ESTABLISHED", "FIN_WAIT_1", <<Fin>>, <<r>>)
        \/ /\ u = NULL /\ Client(t, InSession, FALSE, "PEER_CLOSED", 1)
           /\ Ways(tc, w, "CLOSE_WAIT", "FIN_WAIT_1", <<>>, <<r, FinAcked>>)
        \/ /\ Client(t, InSession, FALSE, "PEER_CLOSED", 1)
           /\ Ways(tc, w, "CLOSE_WAIT", "FIN_WAIT_1", <<>>, <<FinAcked>>)
    BY <1>1, <1>11 DEF Killed, Ways
  <2>2. r.kind = "DATA" /\ r.last \in BOOLEAN
    BY DEF Asked
  <2> HIDE DEF r
  <2>3. CASE /\ Client(t, InSession, FALSE, "PEER_CLOSED", 1)
             /\ Ways(tc, w, "CLOSE_WAIT", "FIN_WAIT_1", <<>>, <<FinAcked>>)
    <3>1. /\ Head(w.s).kind = "FIN_ACKED" /\ Tail(w.s) = <<>> /\ w.c \o <<>> = <<>>
          /\ tc.c = "CLOSE_WAIT" /\ tc.s = "FIN_WAIT_1"
      BY <2>3, First, Few, OwnKinds DEF Ways
    <3>2. ServerTakes(k, "FIN_WAIT_1", "FIN_ACKED", "FIN_WAIT_2", <<>>, "NONE")
      BY <3>1, FinAckedRows, OwnSequences DEF ServerTakes
    <3>3. ServerTook(k, "FIN_WAIT_2", <<>>, u)
      BY <3>2, ServerTakesQuietly
    <3>4. Killed(tcp'[k], wire'[k], client'[k], server'[k])
      BY <2>3, <3>1, <3>3 DEF ServerTook, Killed
    <3>5. server'[k] = u
      BY <3>3 DEF ServerTook
    <3> QED
      BY <1>2, <1>11, <3>3, <3>4, <3>5, SessionAfter
  <2>4. ASSUME u = NULL, tc.s = "FIN_WAIT_1", Head(w.s) = r
        PROVE  \E v \in LateThread : ServerTook(k, "FIN_WAIT_1", <<>>, v)
    <3>1. ServerTakes(k, "FIN_WAIT_1", "DATA", "FIN_WAIT_1", <<>>, "DATA")
      BY <2>2, <2>4, DataRows, OwnSequences DEF ServerTakes
    <3>2. CASE overloaded
      <4>1. Effect("FIN_WAIT_1", <<>>, {"CLOSE"}, NULL, "FIN_WAIT_1", <<>>)
        BY NoEffect
      <4>2. ServerTook(k, "FIN_WAIT_1", <<>>, NULL)
        BY <2>4, <3>1, <3>2, <4>1, ServerOverloaded
      <4> QED
        BY <4>2, Late
    <3>3. CASE ~overloaded
      <4>1. ~aborted' /\ UNCHANGED <<client, killed>>
        BY <2>4, <3>1, <3>3, ServerRequested
      <4>2. \/ /\ arrive(k, "s", {}, NULL)
               /\ \/ server'[k] = Server(r.last, 0, FALSE, "CONNECTED")
                  \/ server'[k] = Server(r.last, 1, TRUE, "CONNECTED")
            \/ /\ r.last /\ arrive(k, "s", {"SEND"} \cup {"CLOSE"}, Reply)
               /\ server'[k] = Server(r.last, 0, FALSE, "LOCALLY_CLOSED")
            \/ /\ ~r.last /\ arrive(k, "s", {"SEND"} \cup {}, Reply)
               /\ server'[k] = Server(r.last, 0, FALSE, "CONNECTED")
        BY <2>4, <3>1, <3>3, ServerRequested
      <4>3. server'[k] \in LateThread
        BY <2>2, <4>2, Late DEF Fresh
      <4>4. /\ Effect("FIN_WAIT_1", <<>>, {}, NULL, "FIN_WAIT_1", <<>>)
            /\ Effect("FIN_WAIT_1", <<>>, {"SEND"} \cup {"CLOSE"}, Reply, "FIN_WAIT_1", <<>>)
            /\ Effect("FIN_WAIT_1", <<>>, {"SEND"} \cup {}, Reply, "FIN_WAIT_1", <<>>)
        BY NoEffect
      <4>5. Ways(tcp'[k], wire'[k], tc.c, "FIN_WAIT_1", w.c \o <<>>, Tail(w.s))
        BY <3>1, <4>2, <4>4, ServerMoves
      <4> QED
        BY <4>1, <4>3, <4>5 DEF ServerTook
    <3> QED
      BY <3>2, <3>3
  <2>5. CASE /\ u = NULL /\ Client(t, InSession, FALSE, "CONNECTED", 1)
             /\ Ways(tc, w, "ESTABLISHED", "FIN_WAIT_1", <<Fin>>, <<r>>)
    <3>1. /\ Head(w.s) = r /\ Tail(w.s) = <<>> /\ w.c \o <<>> = <<Fin>>
          /\ tc.c = "ESTABLISHED" /\ tc.s = "FIN_WAIT_1"
      BY <2>5, First, Few DEF Ways
    <3>2. PICK v \in LateThread : ServerTook(k, "FIN_WAIT_1", <<>>, v)
      BY <2>4, <2>5, <3>1
    <3>3. Killed(tcp'[k], wire'[k], client'[k], server'[k])
      BY <2>5, <3>1, <3>2 DEF ServerTook, Killed
    <3>4. server'[k] = v
      BY <3>2 DEF ServerTook
    <3> QED
      BY <1>2, <1>11, <3>2, <3>3, <3>4, SessionAfter
  <2>6. CASE /\ u = NULL /\ Client(t, InSession, FALSE, "PEER_CLOSED", 1)
             /\ Ways(tc, w, "CLOSE_WAIT", "FIN_WAIT_1", <<>>, <<r, FinAcked>>)
    <3>1. /\ Head(w.s) = r /\ Tail(w.s) = <<FinAcked>> /\ w.c \o <<>> = <<>>
          /\ tc.c = "CLOSE_WAIT" /\ tc.s = "FIN_WAIT_1"
      BY <2>6, First, Few DEF Ways
    <3>2. PICK v \in LateThread : ServerTook(k, "FIN_WAIT_1", <<>>, v)
      BY <2>4, <2>6, <3>1
    <3>3. Killed(tcp'[k], wire'[k], client'[k], server'[k])
      BY <2>6, <3>1, <3>2 DEF ServerTook, Killed
    <3>4. server'[k] = v
      BY <3>2 DEF ServerTook
    <3> QED
      BY <1>2, <1>11, <3>2, <3>3, <3>4, SessionAfter
  <2> QED
    BY <2>1, <2>3, <2>5, <2>6
<1>12. ~Waiting(tc, w, t, u) /\ ~Connecting(tc, w, t, u)
  BY <1>1 DEF Waiting, Connecting, Ways
<1> QED
  BY <1>3, <1>4, <1>5, <1>7, <1>8, <1>9, <1>10, <1>11, <1>12
     DEF SInv, Sessions, Session, Phase

LEMMA Idle ==
  /\ Server(TRUE, 0, FALSE, "LOCALLY_CLOSED").timer = FALSE
  /\ Server(TRUE, 0, FALSE, "CLOSED").timer = FALSE
  /\ \A d : Server(d, 0, FALSE, "CONNECTED").timer = FALSE
  BY DEF Server

LEMMA DelayedReply ==
  ASSUME NEW d, NEW s, NEW v,
         v = [Server(d, 1, TRUE, "CONNECTED") EXCEPT !.timer = FALSE, !.replies = 0, !.socket = s]
  PROVE  v = Server(d, 0, FALSE, s)
  BY DEF Server

LEMMA LateTimer ==
  ASSUME NEW u \in LateThread, u # NULL, u.timer = TRUE
  PROVE  \E d \in BOOLEAN : u = Server(d, 1, TRUE, "CONNECTED")
<1>1. /\ u # Server(TRUE, 0, FALSE, "LOCALLY_CLOSED")
      /\ \A d : u # Server(d, 0, FALSE, "CONNECTED")
  BY Idle
<1>2. u = Server(TRUE, 1, TRUE, "CONNECTED") \/ u = Server(FALSE, 1, TRUE, "CONNECTED")
  BY <1>1 DEF LateThread
<1> QED
  BY <1>2

LEMMA ServerTimerSession ==
  ASSUME SInv, NEW k \in Conns, serverTimer(k)
  PROVE  Session(k)' /\ NoError'
<1> DEFINE tc == tcp[k]  w == wire[k]  t == client[k]  u == server[k]
<1>1. /\ u # NULL /\ u.timer = TRUE /\ Spent(t) /\ Types /\ "s" \in Ends /\ "s" # "c"
      /\ server \in [Conns -> ServerThread \cup {NULL}]
  BY DEF SInv, IInv, Types, Sessions, Session, serverTimer, ServerThread, Ends
<1>2. UNCHANGED <<client, killed>>
  BY DEF serverTimer
<1>3. ASSUME NEW d \in BOOLEAN, u = Server(d, 1, TRUE, "CONNECTED")
      PROVE  /\ ~aborted' /\ act(k, "s", {"SEND"} \cup (IF d THEN {"CLOSE"} ELSE {}), Reply)
             /\ server'[k] = Server(d, 0, FALSE, IF d THEN "LOCALLY_CLOSED" ELSE "CONNECTED")
  <2> DEFINE so == IF d THEN "LOCALLY_CLOSED" ELSE "CONNECTED"
  <2>1. /\ u.replies = 1 /\ u.doClose = d /\ u.socket = "CONNECTED"
    BY <1>3 DEF Server
  <2>2. 1 > 0 /\ 1 - 1 = 0
    OBVIOUS
  <2>3. closedSocket("CONNECTED") = "LOCALLY_CLOSED" /\ closing("CONNECTED") = {"CLOSE"}
    BY DEF closedSocket, closing
  <2>4. /\ server' = [server EXCEPT ![k] =
             [u EXCEPT !.timer = FALSE, !.replies = IF @ > 0 THEN @ - 1 ELSE @,
                       !.socket = IF u.doClose THEN closedSocket(@) ELSE @]]
        /\ act(k, "s", (IF u.replies > 0 THEN {"SEND"} ELSE {})
                       \cup (IF u.doClose THEN closing(u.socket) ELSE {}), Reply)
        /\ aborted' = (u.doClose /\ u.socket = "CLOSED")
    BY DEF serverTimer
  <2>5. server'[k] = [u EXCEPT !.timer = FALSE,
                               !.replies = IF u.replies > 0 THEN u.replies - 1
                                                            ELSE u.replies,
                               !.socket = IF u.doClose THEN closedSocket(u.socket)
                                                       ELSE u.socket]
    BY <1>1, <2>4
  <2>6. server'[k] = [u EXCEPT !.timer = FALSE, !.replies = 0, !.socket = so]
    BY <2>1, <2>2, <2>3, <2>5
  <2>7. server'[k] = Server(d, 0, FALSE, so)
    <3> HIDE DEF so
    <3>1. server'[k] = [Server(d, 1, TRUE, "CONNECTED")
                          EXCEPT !.timer = FALSE, !.replies = 0, !.socket = so]
      BY <1>3, <2>6, Zenon
    <3> QED
      BY <3>1, DelayedReply, Zenon
  <2>8. ~aborted' /\ act(k, "s", {"SEND"} \cup (IF d THEN {"CLOSE"} ELSE {}), Reply)
    BY <2>1, <2>2, <2>3, <2>4
  <2> QED
    BY <2>7, <2>8
<1>4. CASE Talking(tc, w, t, u)
  <2> DEFINE d == t.state = "DISCONNECTED"
  <2>1. /\ Client(t, InSession, FALSE, "CONNECTED", 1) /\ u = Server(d, 1, TRUE, "CONNECTED")
        /\ Ways(tc, w, "ESTABLISHED", "ESTABLISHED", <<>>, <<>>)
    BY <1>1, <1>4, Idle DEF Talking
  <2>2. /\ ~aborted' /\ act(k, "s", {"SEND"} \cup (IF d THEN {"CLOSE"} ELSE {}), Reply)
        /\ server'[k] = Server(d, 0, FALSE, IF d THEN "LOCALLY_CLOSED" ELSE "CONNECTED")
    BY <1>3, <2>1
  <2>3. CASE d
    <3>1. Effect(tc.s, <<>>, {"SEND"} \cup {"CLOSE"}, Reply, "FIN_WAIT_1", <<Reply, Fin>>)
      BY <2>1, Closes DEF Ways
    <3>2. act(k, "s", {"SEND"} \cup {"CLOSE"}, Reply)
      BY <2>2, <2>3
    <3>3. Moved(k, "s", "FIN_WAIT_1", w.s, <<Reply, Fin>>)
      BY <1>1, <3>1, <3>2, Acts, Zenon
    <3>4. Ways(tcp'[k], wire'[k], "ESTABLISHED", "FIN_WAIT_1", <<Reply, Fin>>, <<>>)
      BY <1>1, <2>1, <3>3, Few DEF Moved, Ways
    <3>5. /\ server'[k] = Server(TRUE, 0, FALSE, "LOCALLY_CLOSED")
          /\ Client(t, {"DISCONNECTED"}, FALSE, "CONNECTED", 1)
      BY <2>1, <2>2, <2>3 DEF Client
    <3>6. LastReply(tcp'[k], wire'[k], client'[k], server'[k])
      BY <1>2, <3>4, <3>5 DEF LastReply
    <3> QED
      BY <1>1, <1>2, <2>2, <3>6, SessionAfter DEF Phase, NoError
  <2>4. CASE ~d
    <3>1. Effect(tc.s, <<>>, {"SEND"} \cup {}, Reply, "ESTABLISHED", <<Reply>>)
      BY <2>1, Sends DEF Ways
    <3>2. act(k, "s", {"SEND"} \cup {}, Reply)
      BY <2>2, <2>4
    <3>3. Moved(k, "s", "ESTABLISHED", w.s, <<Reply>>)
      BY <1>1, <3>1, <3>2, Acts, Zenon
    <3>4. Ways(tcp'[k], wire'[k], "ESTABLISHED", "ESTABLISHED", <<Reply>>, <<>>)
      BY <1>1, <2>1, <3>3, Few DEF Moved, Ways
    <3>5. /\ server'[k] = Server(FALSE, 0, FALSE, "CONNECTED")
          /\ Client(t, {"CONNECTED"}, FALSE, "CONNECTED", 1)
      BY <2>1, <2>2, <2>4 DEF Client, InSession
    <3>6. Talking(tcp'[k], wire'[k], client'[k], server'[k])
      BY <1>2, <3>4, <3>5 DEF Talking
    <3> QED
      BY <1>1, <1>2, <2>2, <3>6, SessionAfter DEF Phase, NoError
  <2> QED
    BY <2>3, <2>4
<1>5. CASE k \in killed /\ u \in LateThread /\ Killed(tc, w, t, u)
  <2>1. PICK d \in BOOLEAN : u = Server(d, 1, TRUE, "CONNECTED")
    BY <1>1, <1>5, LateTimer
  <2>2. /\ ~aborted' /\ act(k, "s", {"SEND"} \cup (IF d THEN {"CLOSE"} ELSE {}), Reply)
        /\ server'[k] = Server(d, 0, FALSE, IF d THEN "LOCALLY_CLOSED" ELSE "CONNECTED")
    BY <1>3, <2>1
  <2>3. server'[k] \in LateThread
    BY <2>2, Late DEF Fresh
  <2>4. /\ tc.s \in {"FIN_WAIT_1", "FIN_WAIT_2", "CLOSED"}
        /\ \/ w.c = <<>>
           \/ w.c = <<Fin>>
    BY <1>5 DEF Killed, Ways
  <2>5. Effect(tc.s, <<>>, {"SEND"} \cup (IF d THEN {"CLOSE"} ELSE {}), Reply, tc.s, <<>>)
    BY <2>4, NoEffect
  <2>6. Moved(k, "s", tc.s, w.s, <<>>)
    BY <1>1, <2>2, <2>5, Acts, Zenon
  <2>7. w.c \o <<>> = w.c
    BY <2>4, Few
  <2>8. Ways(tcp'[k], wire'[k], tc.c, tc.s, w.c, w.s)
    BY <1>1, <2>6, <2>7 DEF Moved
  <2>9. Killed(tcp'[k], wire'[k], client'[k], server'[k])
    <3>1. Killed(tc, w, t, server'[k])
      BY <1>1, <1>5 DEF Killed
    <3> QED
      BY <1>2, <2>8, <3>1 DEF Killed, Ways
  <2> QED
    BY <1>1, <1>2, <1>5, <2>2, <2>3, <2>9, SessionAfter DEF NoError
<1>6. /\ ~Waiting(tc, w, t, u) /\ ~Abandoned(tc, w, t, u) /\ ~Connecting(tc, w, t, u)
      /\ ~Opening(tc, w, t, u)
  BY <1>1 DEF Waiting, Abandoned, Connecting, Opening
<1>7. u # Server(TRUE, 0, FALSE, "LOCALLY_CLOSED") /\ u # Server(TRUE, 0, FALSE, "CLOSED")
  BY <1>1, Idle
<1>8. /\ ~LastReply(tc, w, t, u) /\ ~ClosingInTurn(tc, w, t, u)
      /\ ~ClosingAtOnce(tc, w, t, u) /\ ~Finished(tc, w, t, u)
  BY <1>1, <1>7 DEF LastReply, ClosingInTurn, ClosingAtOnce, Finished
<1> QED
  BY <1>4, <1>5, <1>6, <1>8 DEF SInv, Sessions, Session, Phase

LEMMA TcpTimersSession ==
  ASSUME SInv, NEW k \in Conns, tcpTimers(k)
  PROVE  Session(k)' /\ NoError'
<1> DEFINE tc == tcp[k]  w == wire[k]  t == client[k]  u == server[k]
<1>1. /\ Spent(t) /\ Types /\ "c" \in Ends /\ "s" \in Ends /\ "s" # "c" /\ Ends = {"c", "s"}
      /\ w.c \in Seq(Segment) /\ w.s \in Seq(Segment)
  BY DEF SInv, IInv, Types, Sessions, Session, Ends
<1>2. UNCHANGED <<client, server, killed, aborted>> /\ ~aborted
  BY DEF tcpTimers, SInv, NoError
<1>3. w.c \o <<>> = w.c /\ w.s \o <<>> = w.s
  BY <1>1
<1>4. \/ Phase(tc, w, t, u)
      \/ k \in killed /\ u \in LateThread /\ Killed(tc, w, t, u)
  BY DEF SInv, Sessions, Session
<1>5. ASSUME Phase(tcp'[k], wire'[k], t, u)
      PROVE  Session(k)' /\ NoError'
  BY <1>1, <1>2, <1>5, SessionAfter DEF NoError
<1>6. CASE /\ tc.s = "SYN_RCVD"
           /\ proceed(k, "s", performStateTransition("SYN_RCVD", "TIMEOUT_CONN_ESTAB"),
                      w.s, <<>>, {}, NULL)
  <2>1. Moved(k, "s", "CLOSED", w.s, <<>>)
    BY <1>1, <1>6, TimeoutRows, TimesOut
  <2>2. Ways(tcp'[k], wire'[k], tc.c, "CLOSED", w.c, w.s)
    BY <1>1, <1>3, <2>1 DEF Moved
  <2>3. CASE Abandoned(tc, w, t, u)
    <3>1. Abandoned(tcp'[k], wire'[k], t, u)
      BY <2>2, <2>3 DEF Abandoned, Ways
    <3> QED
      BY <1>5, <3>1 DEF Phase
  <2>4. CASE Connecting(tc, w, t, u)
    <3>1. Connecting(tcp'[k], wire'[k], t, u)
      BY <1>6, <2>2, <2>4 DEF Connecting, Ways
    <3> QED
      BY <1>5, <3>1 DEF Phase
  <2>5. CASE Opening(tc, w, t, u)
    <3>1. Opening(tcp'[k], wire'[k], t, u)
      BY <1>6, <2>2, <2>5 DEF Opening, Ways
    <3> QED
      BY <1>5, <3>1 DEF Phase
  <2>6. /\ ~Waiting(tc, w, t, u) /\ ~Talking(tc, w, t, u) /\ ~LastReply(tc, w, t, u)
        /\ ~ClosingInTurn(tc, w, t, u) /\ ~ClosingAtOnce(tc, w, t, u)
    BY <1>6 DEF Waiting, Talking, LastReply, ClosingInTurn, ClosingAtOnce, Ways
  <2>7. ~Finished(tc, w, t, u) /\ ~Killed(tc, w, t, u)
    BY <1>6 DEF Finished, Killed, Ways
  <2> QED
    BY <1>4, <2>3, <2>4, <2>5, <2>6, <2>7 DEF Phase
<1>7. CASE /\ tc.c = "TIME_WAIT"
           /\ proceed(k, "c", performStateTransition("TIME_WAIT", "TIMEOUT_2MSL"),
                      w.c, <<>>, {}, NULL)
  <2>1. Moved(k, "c", "CLOSED", w.c, <<>>)
    BY <1>1, <1>7, TimeoutRows, TimesOut
  <2>2. Ways(tcp'[k], wire'[k], "CLOSED", tc.s, w.c, w.s)
    BY <1>1, <1>3, <2>1 DEF Moved
  <2>3. Finished(tc, w, t, u)
    <3>1. /\ ~Waiting(tc, w, t, u) /\ ~Abandoned(tc, w, t, u) /\ ~Connecting(tc, w, t, u)
          /\ ~Opening(tc, w, t, u) /\ ~Talking(tc, w, t, u) /\ ~LastReply(tc, w, t, u)
      BY <1>7 DEF Waiting, Abandoned, Connecting, Opening, Talking, LastReply, Ways
    <3>2. /\ ~ClosingInTurn(tc, w, t, u) /\ ~ClosingAtOnce(tc, w, t, u)
          /\ ~Killed(tc, w, t, u)
      BY <1>7 DEF ClosingInTurn, ClosingAtOnce, Killed, Ways
    <3> QED
      BY <1>4, <3>1, <3>2 DEF Phase
  <2>4. Finished(tcp'[k], wire'[k], t, u)
    BY <2>2, <2>3 DEF Finished, Ways
  <2> QED
    BY <1>5, <2>4 DEF Phase
<1>8. CASE /\ tc.s = "TIME_WAIT"
           /\ proceed(k, "s", performStateTransition("TIME_WAIT", "TIMEOUT_2MSL"),
                      w.s, <<>>, {}, NULL)
  <2>1. Moved(k, "s", "CLOSED", w.s, <<>>)
    BY <1>1, <1>8, TimeoutRows, TimesOut
  <2>2. Ways(tcp'[k], wire'[k], tc.c, "CLOSED", w.c, w.s)
    BY <1>1, <1>3, <2>1 DEF Moved
  <2>3. CASE ClosingInTurn(tc, w, t, u)
    <3>1. ClosingInTurn(tcp'[k], wire'[k], t, u)
      BY <1>8, <2>2, <2>3 DEF ClosingInTurn, Ways
    <3> QED
      BY <1>5, <3>1 DEF Phase
  <2>4. CASE ClosingAtOnce(tc, w, t, u)
    <3>1. ClosingAtOnce(tcp'[k], wire'[k], t, u)
      BY <1>8, <2>2, <2>4 DEF ClosingAtOnce, Ways
    <3> QED
      BY <1>5, <3>1 DEF Phase
  <2>5. CASE Finished(tc, w, t, u)
    <3>1. Finished(tcp'[k], wire'[k], t, u)
      BY <1>8, <2>2, <2>5 DEF Finished, Ways
    <3> QED
      BY <1>5, <3>1 DEF Phase
  <2>6. /\ ~Waiting(tc, w, t, u) /\ ~Abandoned(tc, w, t, u) /\ ~Connecting(tc, w, t, u)
        /\ ~Opening(tc, w, t, u) /\ ~Talking(tc, w, t, u) /\ ~LastReply(tc, w, t, u)
    BY <1>8 DEF Waiting, Abandoned, Connecting, Opening, Talking, LastReply, Ways
  <2>7. ~Killed(tc, w, t, u)
    BY <1>8 DEF Killed, Ways
  <2> QED
    BY <1>4, <2>3, <2>4, <2>5, <2>6, <2>7 DEF Phase
<1>9. ASSUME NEW e \in Ends, tc[e] = "FIN_WAIT_2", wire[k] = [d \in Ends |-> <<>>],
             t # NULL => ~t.timer,
             proceed(k, e, performStateTransition("FIN_WAIT_2", "TIMEOUT_FIN_WAIT_2"),
                     wire[k][e], <<>>, {}, NULL)
      PROVE  Session(k)' /\ NoError'
  <2>1. w.c = <<>> /\ w.s = <<>> /\ (tc.c = "FIN_WAIT_2" \/ tc.s = "FIN_WAIT_2")
    BY <1>1, <1>9
  <2>2. Killed(tc, w, t, u) /\ k \in killed /\ u \in LateThread
    <3>1. /\ ~Waiting(tc, w, t, u) /\ ~Abandoned(tc, w, t, u) /\ ~Connecting(tc, w, t, u)
          /\ ~Opening(tc, w, t, u) /\ ~Talking(tc, w, t, u)
      BY <2>1 DEF Waiting, Abandoned, Connecting, Opening, Talking, Ways
    <3>2. ~LastReply(tc, w, t, u)
      BY <1>9, <2>1 DEF LastReply, Client, Ways
    <3>3. ~ClosingInTurn(tc, w, t, u)
      BY <2>1, First DEF ClosingInTurn, Ways
    <3>4. ~ClosingAtOnce(tc, w, t, u)
      BY <2>1 DEF ClosingAtOnce, Ways
    <3>5. ~Finished(tc, w, t, u)
      BY <2>1 DEF Finished, Ways
    <3> QED
      BY <1>4, <3>1, <3>2, <3>3, <3>4, <3>5 DEF Phase
  <2>3. /\ Client(t, InSession, FALSE, "PEER_CLOSED", 1)
        /\ tc.c = "CLOSE_WAIT" /\ tc.s = "FIN_WAIT_2"
    BY <2>1, <2>2 DEF Killed, Ways
  <2>4. e = "s"
    BY <1>1, <1>9, <2>3
  <2>5. Moved(k, "s", "CLOSED", w.s, <<>>)
    BY <1>1, <1>9, <2>4, TimeoutRows, TimesOut
  <2>6. Ways(tcp'[k], wire'[k], "CLOSE_WAIT", "CLOSED", <<>>, <<>>)
    BY <1>1, <1>3, <2>1, <2>3, <2>5 DEF Moved
  <2>7. Killed(tcp'[k], wire'[k], t, u)
    BY <2>3, <2>6 DEF Killed
  <2> QED
    BY <1>1, <1>2, <2>2, <2>7, SessionAfter DEF NoError
<1>10. \/ /\ tc.s = "SYN_RCVD"
          /\ proceed(k, "s", performStateTransition("SYN_RCVD", "TIMEOUT_CONN_ESTAB"),
                     w.s, <<>>, {}, NULL)
       \/ \E e \in Ends : /\ tc[e] = "TIME_WAIT"
                          /\ proceed(k, e, performStateTransition("TIME_WAIT", "TIMEOUT_2MSL"),
                                     w[e], <<>>, {}, NULL)
       \/ \E e \in Ends :
            /\ tc[e] = "FIN_WAIT_2" /\ wire[k] = [d \in Ends |-> <<>>]
            /\ t # NULL => ~t.timer
            /\ proceed(k, e, performStateTransition("FIN_WAIT_2", "TIMEOUT_FIN_WAIT_2"),
                       wire[k][e], <<>>, {}, NULL)
  BY DEF tcpTimers
<1> QED
  BY <1>1, <1>6, <1>7, <1>8, <1>9, <1>10

-----------------------------------------------------------------------------
(* The invariant.                                                          *)

LEMMA InitSessions == Init => SInv
<1> SUFFICES ASSUME Init PROVE SInv
  OBVIOUS
<1>1. IInv
  BY InitInv
<1>2. /\ tcp = [k \in Conns |-> [e \in Ends |-> "CLOSED"]]
      /\ wire = [k \in Conns |-> [e \in Ends |-> <<>>]]
      /\ client = [k \in Conns |-> NULL] /\ server = [k \in Conns |-> NULL] /\ aborted = FALSE
  BY DEF Init
<1>3. ASSUME NEW k \in Conns PROVE Session(k)
  <2>1. /\ tcp[k].c = "CLOSED" /\ tcp[k].s = "CLOSED" /\ wire[k].c = <<>> /\ wire[k].s = <<>>
        /\ client[k] = NULL /\ server[k] = NULL
    BY <1>2 DEF Ends
  <2>2. Abandoned(tcp[k], wire[k], client[k], server[k])
    BY <2>1 DEF Abandoned
  <2> QED
    BY <2>1, <2>2 DEF Session, Phase, Spent
<1> QED
  BY <1>1, <1>2, <1>3 DEF SInv, Sessions, NoError

LEMMA NextSessions == SInv /\ [Next]_vars => SInv'
<1> SUFFICES ASSUME SInv, [Next]_vars PROVE SInv'
  OBVIOUS
<1>1. IInv' /\ Types /\ Sessions
  BY NextInv DEF SInv, IInv
<1>2. CASE UNCHANGED vars
  <2>1. Sessions' /\ NoError'
    BY <1>2 DEF SInv, vars, Sessions, Session, NoError
  <2> QED
    BY <1>1, <2>1 DEF SInv
<1>3. ASSUME NEW a \in Clients, transmissionStart(a) PROVE SInv'
  BY <1>1, <1>3, TransmissionStartSession DEF SInv
<1>4. ASSUME NEW k \in Conns, clientTimer(k) \/ clientReceives(k) \/ connectTimers(k)
      PROVE  SInv'
  <2>1. Session(k)' /\ NoError'
    BY <1>4, ClientTimerSession, ClientReceivesSession, ConnectTimersSession
  <2>2. Elsewhere(k)
    BY <1>1, <1>4, ClientElsewhere
  <2> QED
    BY <1>1, <2>1, <2>2, SessionsAfter DEF SInv
<1>5. ASSUME NEW k \in Conns, listen(k) \/ serverReceives(k) \/ serverTimer(k) \/ tcpTimers(k)
      PROVE  SInv'
  <2>1. Session(k)' /\ NoError'
    BY <1>5, ListenSession, ServerReceivesSession, ServerTimerSession, TcpTimersSession
  <2>2. Elsewhere(k)
    BY <1>1, <1>5, ServerElsewhere
  <2> QED
    BY <1>1, <2>1, <2>2, SessionsAfter DEF SInv
<1> QED
  BY <1>2, <1>3, <1>4, <1>5 DEF Next

LEMMA SessionInvariance == Spec => []SInv
  BY InitSessions, NextSessions, PTL DEF Spec

(* GenericTCPApplication.cc:69,179, TCPSocket::close, scheduleAt: for any   *)
(* number of connections and any limits no order of timers, segments and   *)
(* timeouts sets a timer twice, closes a closed socket or calls a thread   *)
(* that was removed.                                                       *)
THEOREM NoErrorHolds == Spec => []NoError
<1>1. SInv => NoError
  BY DEF SInv
<1> QED
  BY <1>1, SessionInvariance, PTL

(* GenericTCPApplicationClientThread.cc:83-89: whatever the number of its  *)
(* requests, a session that reports its statistics has sent them all and   *)
(* received every reply.                                                   *)
THEOREM SessionCompleteHolds == Spec => []SessionComplete
<1>1. SInv => SessionComplete
  <2> SUFFICES ASSUME SInv, NEW k \in Conns, client[k] # NULL, client[k].state = "FINISH"
               PROVE  client[k].sent = client[k].received /\ client[k].left = 0
    BY DEF SessionComplete
  <2> DEFINE t == client[k]
  <2>1. t \in ClientThread /\ Session(k)
    BY DEF SInv, IInv, Types, Sessions
  <2>2. t.left = 0
    BY <2>1 DEF Session, Spent
  <2>3. Finished(tcp[k], wire[k], t, server[k])
    <3>1. \A states, timer, socket, owed :
            Client(t, states, timer, socket, owed) => "FINISH" \in states
      BY DEF Client
    <3>2. "FINISH" \notin InSession
      BY DEF InSession
    <3>3. /\ ~Client(t, {"WAITING"}, TRUE, "NOT_BOUND", 0)
          /\ ~Client(t, {"WAITING"}, FALSE, "NOT_BOUND", 0)
          /\ \A timer, socket, owed : /\ ~Client(t, InSession, timer, socket, owed)
                                      /\ ~Client(t, {"CONNECTED"}, timer, socket, owed)
                                      /\ ~Client(t, {"DISCONNECTED"}, timer, socket, owed)
      BY <3>1, <3>2
    <3>4. /\ ~Waiting(tcp[k], wire[k], t, server[k])
          /\ ~Abandoned(tcp[k], wire[k], t, server[k])
          /\ ~Connecting(tcp[k], wire[k], t, server[k])
          /\ ~Opening(tcp[k], wire[k], t, server[k])
      BY <3>3 DEF Waiting, Abandoned, Connecting, Opening
    <3>5. ~Talking(tcp[k], wire[k], t, server[k]) /\ ~LastReply(tcp[k], wire[k], t, server[k])
      BY <3>3 DEF Talking, LastReply
    <3>6. /\ ~ClosingInTurn(tcp[k], wire[k], t, server[k])
          /\ ~ClosingAtOnce(tcp[k], wire[k], t, server[k])
          /\ ~Killed(tcp[k], wire[k], t, server[k])
      BY <3>3 DEF ClosingInTurn, ClosingAtOnce, Killed
    <3> QED
      BY <2>1, <3>4, <3>5, <3>6 DEF Session, Phase
  <2>4. t.sent = t.received + 0 /\ t.received \in Nat
    BY <2>1, <2>3 DEF Finished, Client, ClientThread
  <2> QED
    BY <2>2, <2>4
<1> QED
  BY <1>1, SessionInvariance, PTL

(* GenericTCPApplicationServerThread.cc:104-106: a worker that was not     *)
(* closed at the limit sends its FIN only after the last delayed reply.    *)
THEOREM RepliesBeforeCloseHolds == Spec => []RepliesBeforeClose
<1>1. SInv => RepliesBeforeClose
  <2> SUFFICES ASSUME SInv, NEW k \in Conns, server[k] # NULL, server[k].replies > 0,
                      k \notin killed
               PROVE  tcp[k].s = "ESTABLISHED"
    BY DEF RepliesBeforeClose
  <2> DEFINE u == server[k]
  <2>1. Phase(tcp[k], wire[k], client[k], u)
    BY DEF SInv, Sessions, Session
  <2>2. /\ u # Server(TRUE, 0, FALSE, "LOCALLY_CLOSED") /\ u # Server(TRUE, 0, FALSE, "CLOSED")
        /\ u # NULL
    BY DEF Server
  <2>3. /\ ~Waiting(tcp[k], wire[k], client[k], u) /\ ~Abandoned(tcp[k], wire[k], client[k], u)
        /\ ~Connecting(tcp[k], wire[k], client[k], u) /\ ~Opening(tcp[k], wire[k], client[k], u)
    BY <2>2 DEF Waiting, Abandoned, Connecting, Opening
  <2>4. /\ ~LastReply(tcp[k], wire[k], client[k], u)
        /\ ~ClosingInTurn(tcp[k], wire[k], client[k], u)
        /\ ~ClosingAtOnce(tcp[k], wire[k], client[k], u)
        /\ ~Finished(tcp[k], wire[k], client[k], u)
    BY <2>2 DEF LastReply, ClosingInTurn, ClosingAtOnce, Finished
  <2> QED
    BY <2>1, <2>3, <2>4 DEF Phase, Talking, Ways
<1> QED
  BY <1>1, SessionInvariance, PTL
=============================================================================
