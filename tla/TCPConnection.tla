---------------------------- MODULE TCPConnection ----------------------------
(***************************************************************************)
(* src/transport/tcp/TCPConnection_hack: the state machine of one end of a *)
(* TCP connection, with the worker threads that a listening connection     *)
(* forks.  "CLOSED" is the end that has been deleted (or never existed).   *)
(*                                                                         *)
(* What a segment means in a state and what the application is told comes  *)
(* from the INET base class: RFC 793 as far as performStateTransition and  *)
(* the applications depend on it.  Sequence numbers are left out: segments *)
(* arrive once and in order.                                               *)
(***************************************************************************)
EXTENDS Naturals, Sequences

(* performStateTransition, row by row; an event that a row does not name   *)
(* changes nothing.  Out of SYN_RCVD a worker, and an end that was opened  *)
(* actively, ends; others would listen again.                              *)
Transitions == [
  LISTEN      |-> [OPEN_ACTIVE |-> "SYN_SENT", SEND |-> "SYN_SENT",
                   CLOSE |-> "CLOSED", ABORT |-> "CLOSED", RCV_SYN |-> "SYN_RCVD"],
  SYN_RCVD    |-> [CLOSE |-> "FIN_WAIT_1", ABORT |-> "CLOSED",
                   TIMEOUT_CONN_ESTAB |-> "LISTEN", RCV_RST |-> "LISTEN",
                   RCV_ACK |-> "ESTABLISHED", RCV_FIN |-> "CLOSE_WAIT",
                   RCV_UNEXP_SYN |-> "CLOSED"],
  SYN_SENT    |-> [CLOSE |-> "CLOSED", ABORT |-> "CLOSED",
                   TIMEOUT_CONN_ESTAB |-> "CLOSED", RCV_RST |-> "CLOSED",
                   RCV_SYN_ACK |-> "ESTABLISHED", RCV_SYN |-> "SYN_RCVD"],
  ESTABLISHED |-> [CLOSE |-> "FIN_WAIT_1", ABORT |-> "CLOSED",
                   RCV_FIN |-> "CLOSE_WAIT", RCV_RST |-> "CLOSED",
                   RCV_UNEXP_SYN |-> "CLOSED"],
  CLOSE_WAIT  |-> [CLOSE |-> "LAST_ACK", ABORT |-> "CLOSED", RCV_RST |-> "CLOSED",
                   RCV_UNEXP_SYN |-> "CLOSED"],
  LAST_ACK    |-> [ABORT |-> "CLOSED", RCV_ACK |-> "CLOSED", RCV_RST |-> "CLOSED",
                   RCV_UNEXP_SYN |-> "CLOSED"],
  FIN_WAIT_1  |-> [ABORT |-> "CLOSED", RCV_FIN |-> "CLOSING",
                   RCV_ACK |-> "FIN_WAIT_2", RCV_FIN_ACK |-> "TIME_WAIT",
                   RCV_RST |-> "CLOSED", RCV_UNEXP_SYN |-> "CLOSED"],
  FIN_WAIT_2  |-> [ABORT |-> "CLOSED", RCV_FIN |-> "TIME_WAIT",
                   TIMEOUT_FIN_WAIT_2 |-> "CLOSED", RCV_RST |-> "CLOSED",
                   RCV_UNEXP_SYN |-> "CLOSED"],
  CLOSING     |-> [ABORT |-> "CLOSED", RCV_ACK |-> "TIME_WAIT", RCV_RST |-> "CLOSED",
                   RCV_UNEXP_SYN |-> "CLOSED"],
  TIME_WAIT   |-> [ABORT |-> "CLOSED", TIMEOUT_2MSL |-> "CLOSED",
                   RCV_RST |-> "CLOSED", RCV_UNEXP_SYN |-> "CLOSED"] ]

States == DOMAIN Transitions \cup {"INIT", "CLOSED"}

(* Fault: without the worker's own transitions the forked end listens      *)
(* again after a reset.                                                    *)
performStateTransition_NoWorker(state, event) ==
  IF state \in DOMAIN Transitions /\ event \in DOMAIN Transitions[state]
  THEN Transitions[state][event] ELSE state

(* Every end here is a worker or was opened actively.                      *)
performStateTransition(state, event) ==
  IF state \in DOMAIN Transitions /\ event \in DOMAIN Transitions[state]
  THEN LET next == Transitions[state][event] IN
       IF next = "LISTEN" THEN "CLOSED" ELSE next
  ELSE state

(* The event of a segment in a state.                                      *)
eventOf(state, segment) ==
  CASE segment = "SYN_ACK" /\ state = "SYN_SENT"                 -> "RCV_SYN_ACK"
    [] segment = "ACK" /\ state = "SYN_RCVD"                     -> "RCV_ACK"
    [] segment = "FIN"                                           -> "RCV_FIN"
    [] segment = "FIN_ACKED" /\ state \in {"FIN_WAIT_1", "CLOSING", "LAST_ACK"}
                                                                 -> "RCV_ACK"
    [] segment = "RST"                                           -> "RCV_RST"
    [] OTHER                                                     -> "IGNORE"

(* What the application is told (TCP_I_...).                               *)
indication(state, segment) ==
  CASE segment \in {"SYN_ACK", "ACK"} /\ state \in {"SYN_SENT", "SYN_RCVD"}
                                                                 -> "ESTABLISHED"
    [] segment = "DATA" /\ state \in {"ESTABLISHED", "FIN_WAIT_1", "FIN_WAIT_2"}
                                                                 -> "DATA"
    [] segment = "FIN" /\ state \in {"ESTABLISHED", "FIN_WAIT_1"} -> "PEER_CLOSED"
    [] segment = "FIN" /\ state = "FIN_WAIT_2"                   -> "CLOSED"
    [] segment = "FIN_ACKED" /\ state \in {"CLOSING", "LAST_ACK"} -> "CLOSED"
    [] segment = "RST" /\ state = "SYN_SENT"         -> "CONNECTION_REFUSED"
    [] segment = "RST" /\ state \in {"ESTABLISHED", "CLOSE_WAIT", "FIN_WAIT_1", "FIN_WAIT_2"}
                                                     -> "CONNECTION_RESET"
    [] OTHER                                                     -> "NONE"

(* The segments TCP itself sends back.                                     *)
response(state, segment) ==
  CASE state = "CLOSED" -> IF segment = "RST" THEN <<>> ELSE <<"RST">>
    [] state = "SYN_SENT" /\ segment = "SYN_ACK" -> <<"ACK">>
    [] state # "CLOSED" /\ segment = "FIN" -> <<"FIN_ACKED">>
    [] OTHER -> <<>>

(* The segment a command of the application sends, if the state allows the *)
(* command: the exception it raises otherwise is caught by TCP_hack.       *)
command(state, c) ==
  CASE c = "SEND" /\ state \in {"ESTABLISHED", "CLOSE_WAIT"}  -> <<"DATA">>
    [] c = "CLOSE" /\ state \in {"SYN_RCVD", "ESTABLISHED", "CLOSE_WAIT"} -> <<"FIN">>
    [] OTHER -> <<>>
=============================================================================
