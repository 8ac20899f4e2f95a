----------------------------- MODULE ModbusLink ----------------------------
(***************************************************************************)
(* Modbus masters and the gateway's Modbus server, over TCP connections:   *)
(* src/external/modbus.cc (both sides) and the loop of ModbusGate::listen. *)
(*                                                                         *)
(* A master calls one function at a time: it sends a query and waits for   *)
(* the response.  The server serves one connection at a time, the others   *)
(* wait in the backlog.  A wait of the master may time out at any time.    *)
(* A query is read in one piece: ModbusStream is about how TCP cuts it.    *)
(***************************************************************************)
EXTENDS Naturals, Sequences, FiniteSets

CONSTANTS
  Masters,           (* each has a register of its own in the mapping      *)
  Connections,       (* bound: identities of TCP connections               *)
  Functions,         (* the functions that are called                      *)
  Values,            (* of a register                                      *)
  Backlog,           (* connections the kernel keeps for accept            *)
  MaxTid,            (* bound: the largest transaction identifier          *)
  MaxConfused,       (* bound: connections that are confused at a time     *)
  Reconnect,         (* FLUSH_OR_RECONNECT_ON_ERROR is set in the masters  *)
  NULL

Reading == "read_holding_registers"
Writing == "preset_single_register"

ASSUME ModbusLinkAssumption ==
  /\ Functions \subseteq {Reading, Writing, "report_slave_id"}
  /\ Backlog \in Nat \ {0} /\ MaxTid \in Nat \ {0} /\ MaxConfused \in Nat
  /\ Reconnect \in BOOLEAN
  /\ 0 \in Values /\ NULL \notin Masters \cup Connections \cup Values

VARIABLES
  pcM,       (* what each master does                                      *)
  fdM,       (* its connection                                             *)
  t_id,      (* its last transaction identifier                            *)
  query,     (* the query of its call                                      *)
  answer,    (* the response the call returned with, NULL for an error     *)
  connection,
  backlog,
  pcS,       (* where the listener is                                      *)
  fd,        (* mb_param.fd                                                *)
  request,   (* the query being processed                                  *)
  mapping

master == <<pcM, fdM, t_id, query, answer>>
server == <<pcS, fd, request, mapping>>
vars   == <<master, connection, backlog, server>>

(* legal: is the address inside the mapping? (none in report_slave_id)     *)
Query ==
  {q \in [t_id : 0..MaxTid, function : Functions, legal : BOOLEAN,
          value : Values \cup {NULL}] :
     /\ q.value # NULL <=> q.function = Writing
     /\ q.function \notin {Reading, Writing} => q.legal}

Response ==
  [t_id : 0..MaxTid, function : Functions, exception : BOOLEAN,
   value : Values \cup {NULL}]

(* open: not yet closed by the master; reset: the server's next recv       *)
(* fails; confused: the master took uninitialised memory for a response.   *)
Connection ==
  [owner : Masters, toServer : Seq(Query), toMaster : Seq(Response),
   open : BOOLEAN, reset : BOOLEAN, confused : BOOLEAN]

ASSUME NullAssumption == NULL \notin Query \cup Response \cup Connection

(* From then on what comes over the connection need not be what was asked. *)
Confused(c) == c # NULL /\ connection[c] # NULL /\ connection[c].confused

Init ==
  /\ pcM = [m \in Masters |-> "idle"] /\ fdM = [m \in Masters |-> NULL]
  /\ t_id = [m \in Masters |-> 0]
  /\ query = [m \in Masters |-> NULL] /\ answer = [m \in Masters |-> NULL]
  /\ connection = [c \in Connections |-> NULL] /\ backlog = <<>>
  /\ pcS = "accept" /\ fd = NULL /\ request = NULL
  /\ mapping = [m \in Masters |-> 0]

(* modbus_send, to either end of a connection.                             *)
modbus_send(c, end, message) ==
  connection' = [connection EXCEPT ![c][end] = Append(@, message)]

-----------------------------------------------------------------------------
(* The master.                                                             *)

(* modbus_close: unread responses make the kernel reset the connection.    *)
modbus_close(m) ==
  /\ connection' = [connection EXCEPT ![fdM[m]].open = FALSE,
                      ![fdM[m]].reset = (connection[fdM[m]].toMaster # <<>>)]
  /\ fdM' = [fdM EXCEPT ![m] = NULL]

disconnect(m) ==
  /\ pcM[m] = "idle" /\ fdM[m] # NULL
  /\ modbus_close(m)
  /\ answer' = [answer EXCEPT ![m] = NULL]
  /\ UNCHANGED <<pcM, t_id, query, backlog, server>>

modbus_connect(m) ==
  /\ \/ pcM[m] = "idle" /\ fdM[m] = NULL
     \/ pcM[m] = "connect"
  /\ pcM' = [pcM EXCEPT ![m] = "idle"]
  /\ \/ /\ Len(backlog) < Backlog
        /\ \E c \in Connections :
             /\ connection[c] = NULL
             /\ connection' = [connection EXCEPT ![c] =
                  [owner |-> m, toServer |-> <<>>, toMaster |-> <<>>,
                   open |-> TRUE, reset |-> FALSE, confused |-> FALSE]]
             /\ backlog' = Append(backlog, c)
             /\ fdM' = [fdM EXCEPT ![m] = c]
     \/ /\ Len(backlog) = Backlog
        /\ UNCHANGED <<connection, backlog, fdM>>
  /\ UNCHANGED <<t_id, query, answer, server>>

(* Fault: the connection is kept after an error.                           *)
error_treat_KeepConnection(m) ==
  pcM' = [pcM EXCEPT ![m] = "idle"] /\ UNCHANGED <<fdM, connection>>

(* error_treat in a master, for anything but an exception.                 *)
error_treat(m) ==
  IF Reconnect /\ fdM[m] # NULL
  THEN pcM' = [pcM EXCEPT ![m] = "connect"] /\ modbus_close(m)
  ELSE /\ pcM' = [pcM EXCEPT ![m] = IF Reconnect THEN "connect" ELSE "idle"]
       /\ UNCHANGED <<fdM, connection>>

(* Fault: the identifier grows on.                                         *)
build_query_basis_tcp_NoWrap(m) == t_id' = [t_id EXCEPT ![m] = @ + 1]

(* build_query_basis_tcp: the next transaction identifier, which wraps.    *)
build_query_basis_tcp(m) ==
  t_id' = [t_id EXCEPT ![m] = IF @ < MaxTid THEN @ + 1 ELSE 0]

(* A call up to modbus_receive.                                            *)
call(m) ==
  /\ pcM[m] = "idle"
  /\ build_query_basis_tcp(m)
  /\ answer' = [answer EXCEPT ![m] = NULL]
  /\ \/ /\ fdM[m] # NULL
        /\ \E q \in Query :
             /\ q.t_id = t_id'[m]
             /\ query' = [query EXCEPT ![m] = q]
             /\ modbus_send(fdM[m], "toServer", q)
        /\ pcM' = [pcM EXCEPT ![m] = "modbus_receive"]
        /\ UNCHANGED fdM
     \/ /\ fdM[m] = NULL
        /\ query' = [query EXCEPT ![m] = NULL]
        /\ error_treat(m)
  /\ UNCHANGED <<backlog, server>>

(* compute_response_length, after the header, for one register.            *)
compute_response_length(function) == IF function = Reading THEN 5 ELSE 6

(* modbus_receive: a response of the expected length has come, or the      *)
(* shorter exception and then nothing more.  t_id is not looked at.  Bytes *)
(* of two responses taken for one are not modelled.                        *)
modbus_receive(m) ==
  /\ pcM[m] = "modbus_receive" /\ connection[fdM[m]].toMaster # <<>>
  /\ LET r == Head(connection[fdM[m]].toMaster) IN
       /\ IF r.exception
          THEN r.function = query[m].function /\ Len(connection[fdM[m]].toMaster) = 1
          ELSE compute_response_length(r.function)
                 = compute_response_length(query[m].function)
       /\ answer' = [answer EXCEPT ![m] = r]
  /\ connection' = [connection EXCEPT ![fdM[m]].toMaster = Tail(@)]
  /\ pcM' = [pcM EXCEPT ![m] = "idle"]
  /\ UNCHANGED <<fdM, t_id, query, backlog, server>>

(* COMM_TIME_OUT: whatever is under way is too late.                       *)
timeout(m) ==
  /\ pcM[m] = "modbus_receive"
  /\ error_treat(m)
  /\ query' = [query EXCEPT ![m] = NULL]
  /\ UNCHANGED <<t_id, answer, backlog, server>>

(***************************************************************************)
(* A time out before any byte has come leaves response_length and response *)
(* uninitialised (receive_msg sets the length after the wait).  If they    *)
(* look like an exception to this query - they may still hold one of an    *)
(* earlier call - the call returns it, and an illegal function, address or *)
(* value is no reason to reconnect.  Bound: once for a connection.         *)
(***************************************************************************)
staleException(m) ==
  /\ pcM[m] = "modbus_receive" /\ connection[fdM[m]].toMaster = <<>>
  /\ ~Confused(fdM[m])
  /\ Cardinality({c \in Connections : Confused(c)}) < MaxConfused
  /\ pcM' = [pcM EXCEPT ![m] = "idle"]
  /\ query' = [query EXCEPT ![m] = NULL]
  /\ connection' = [connection EXCEPT ![fdM[m]].confused = TRUE]
  /\ UNCHANGED <<fdM, t_id, answer, backlog, server>>

-----------------------------------------------------------------------------
(* The server, in the listener thread of the gateway.                      *)

(* accept, first in modbus_init_listen_tcp and then in listen.             *)
accept ==
  /\ pcS = "accept" /\ backlog # <<>>
  /\ fd' = Head(backlog) /\ backlog' = Tail(backlog)
  /\ pcS' = "modbus_listen"
  /\ UNCHANGED <<master, connection, request, mapping>>

(* receive_msg returns a query; it goes to SSGate::processMessage, which   *)
(* may block as long as the simulation does not look.                      *)
modbus_listen ==
  /\ pcS = "modbus_listen"
  /\ ~connection[fd].reset /\ connection[fd].toServer # <<>>
  /\ request' = Head(connection[fd].toServer)
  /\ connection' = [connection EXCEPT ![fd].toServer = Tail(@)]
  /\ pcS' = "processMessage"
  /\ UNCHANGED <<master, backlog, fd, mapping>>

(* recv returns 0: CONNECTION_CLOSED, and the next client is accepted.     *)
connectionClosed ==
  /\ pcS = "modbus_listen"
  /\ ~connection[fd].reset /\ connection[fd].toServer = <<>> /\ ~connection[fd].open
  /\ connection' = [connection EXCEPT ![fd] = NULL]
  /\ fd' = NULL /\ pcS' = "accept"
  /\ UNCHANGED <<master, backlog, request, mapping>>

(***************************************************************************)
(* recv fails: error_treat closes the connection and calls modbus_connect, *)
(* which cannot connect to the name "localhost" and leaves a closed        *)
(* descriptor, on which every select fails the same way: from then on the  *)
(* loop of listen changes nothing.                                         *)
(***************************************************************************)
receiveFails ==
  /\ pcS = "modbus_listen" /\ connection[fd].reset
  /\ connection' = [connection EXCEPT ![fd] = NULL]
  /\ fd' = NULL /\ pcS' = "selectFails"
  /\ UNCHANGED <<master, backlog, request, mapping>>

(* Fault: the value is echoed but not stored.                              *)
store_EchoOnly(m, q) == UNCHANGED mapping

store(m, q) ==
  mapping' = IF q.function = Writing /\ q.legal
             THEN [mapping EXCEPT ![m] = q.value] ELSE mapping

(* build_response_basis_tcp, and what follows it.                          *)
build_response_basis_tcp(q, exception, value) ==
  [t_id |-> q.t_id, function |-> q.function, exception |-> exception, value |-> value]

response_exception(q) == build_response_basis_tcp(q, TRUE, NULL)

(* The response to a query; report_slave_id is not implemented.            *)
responseTo(m, q) ==
  IF ~q.legal THEN response_exception(q)
  ELSE build_response_basis_tcp(q, FALSE,
         IF q.function = Writing THEN q.value ELSE mapping[m])

(* modbus_manage_query.  A response to a master that has closed comes back *)
(* as a reset, unless recv sees the end of the stream first.               *)
modbus_manage_query ==
  /\ pcS = "processMessage"
  /\ store(connection[fd].owner, request)
  /\ \/ /\ request.function = "report_slave_id"
        /\ UNCHANGED connection
     \/ /\ request.function # "report_slave_id" /\ connection[fd].open
        /\ modbus_send(fd, "toMaster", responseTo(connection[fd].owner, request))
     \/ /\ request.function # "report_slave_id" /\ ~connection[fd].open
        /\ \E r \in {connection[fd].reset, TRUE} :
             connection' = [connection EXCEPT ![fd].reset = r]
  /\ request' = NULL /\ pcS' = "modbus_listen"
  /\ UNCHANGED <<master, backlog, fd>>

Master(m) ==
  disconnect(m) \/ modbus_connect(m) \/ call(m) \/ modbus_receive(m) \/ timeout(m)
  \/ staleException(m)

Server ==
  accept \/ modbus_listen \/ connectionClosed \/ receiveFails \/ modbus_manage_query

Next == Server \/ \E m \in Masters : Master(m)

Spec == Init /\ [][Next]_vars

(* The listener runs; masters and their users owe nothing.                 *)
FairSpec == Spec /\ WF_vars(Server)

-----------------------------------------------------------------------------
(* Properties.                                                             *)

TypeOK ==
  /\ pcM \in [Masters -> {"idle", "connect", "modbus_receive"}]
  /\ fdM \in [Masters -> Connections \cup {NULL}]
  /\ t_id \in [Masters -> 0..MaxTid]
  /\ query \in [Masters -> Query \cup {NULL}]
  /\ answer \in [Masters -> Response \cup {NULL}]
  /\ connection \in [Connections -> Connection \cup {NULL}]
  /\ backlog \in Seq(Connections)
  /\ pcS \in {"accept", "modbus_listen", "processMessage", "selectFails"}
  /\ fd \in Connections \cup {NULL} /\ request \in Query \cup {NULL}
  /\ mapping \in [Masters -> Values]

(* modbus.cc:217-218: "The transaction identifier is used to associate the *)
(* future response with the request": whatever was late before, a call     *)
(* returns with the response to its own query.                             *)
AnswersItsQuery ==
  \A m \in Masters :
    ~Confused(fdM[m]) /\ answer[m] # NULL => answer[m].t_id = query[m].t_id

(* modbus.cc:764-949: calls that timed out may still be executed, but in   *)
(* order: once a call has succeeded, the register holds the value the call *)
(* wrote or read, and no older write comes after it.                       *)
Coherent ==
  \A m \in Masters :
    ~Confused(fdM[m]) /\ answer[m] # NULL /\ ~answer[m].exception => mapping[m] = answer[m].value

(* modbus.cc:379: send is never called on a connection that was reset,     *)
(* which would raise SIGPIPE in the simulator: a master that closes while  *)
(* its query is being processed leaves no other response unread.           *)
NoSendAfterReset ==
  pcS = "processMessage" /\ ~Confused(fd) => ~connection[fd].reset

(* modbus.cc:1351-1353: the error handling "will [...] attempt an          *)
(* immediate reconnection": an error does not end the service.             *)
ServesAgain == (pcS = "selectFails") ~> (pcS # "selectFails")
=============================================================================
