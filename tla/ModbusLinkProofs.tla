-------------------------- MODULE ModbusLinkProofs --------------------------
(***************************************************************************)
(* Proofs about ModbusLink: for any number of masters and connections, any *)
(* backlog, and calls that time out at any time, a call that succeeds has  *)
(* the response to its own query, and the mapping holds what it says.      *)
(* All of it needs FLUSH_OR_RECONNECT_ON_ERROR in the masters (Reconnect): *)
(* a connection on which a call timed out is not used again.               *)
(***************************************************************************)
EXTENDS ModbusLink, TLAPS

Processing(c) == pcS = "processMessage" /\ fd = c

(* Connections are in service one at a time; nothing has been sent on one  *)
(* that still waits.                                                       *)
Serving ==
  /\ fd # NULL <=> pcS \in {"modbus_listen", "processMessage"}
  /\ fd # NULL => connection[fd] # NULL
  /\ pcS = "processMessage" => request # NULL
  /\ \A i \in DOMAIN backlog : backlog[i] # fd /\ connection[backlog[i]] # NULL
  /\ \A i, j \in DOMAIN backlog : backlog[i] = backlog[j] => i = j
  /\ \A c \in Connections :
       connection[c] # NULL /\ c # fd => connection[c].toMaster = <<>> /\ ~connection[c].reset

(* What a master knows of its connection and its call.                     *)
Calling(m) ==
  /\ fdM[m] # NULL =>
       /\ connection[fdM[m]] # NULL /\ connection[fdM[m]].owner = m
       /\ connection[fdM[m]].open /\ ~connection[fdM[m]].reset
  /\ fdM[m] = NULL => pcM[m] # "modbus_receive" /\ answer[m] = NULL
  /\ pcM[m] = "modbus_receive" => query[m] # NULL /\ answer[m] = NULL
  /\ pcM[m] = "connect" => fdM[m] = NULL

(* A response to the query of m, which the mapping agrees with.            *)
Fits(m, r) == r.t_id = query[m].t_id /\ (~r.exception => mapping[m] = r.value)

(* The query of m is in one place at a time, and its response after it.    *)
Talking(m) ==
  LET c == fdM[m] IN
  c # NULL /\ ~connection[c].confused =>
    /\ pcM[m] = "idle" =>
         ~Processing(c) /\ connection[c].toServer = <<>> /\ connection[c].toMaster = <<>>
    /\ connection[c].toServer \in {<<>>, <<query[m]>>}
    /\ connection[c].toServer # <<>> => ~Processing(c) /\ connection[c].toMaster = <<>>
    /\ Processing(c) => request = query[m] /\ connection[c].toMaster = <<>>
    /\ connection[c].toMaster # <<>> =>
         \E r \in Response : connection[c].toMaster = <<r>> /\ Fits(m, r)
    /\ answer[m] # NULL => c = fd /\ Fits(m, answer[m])

IInv ==
  /\ Reconnect /\ TypeOK /\ Serving /\ NoSendAfterReset
  /\ \A m \in Masters : Calling(m) /\ Talking(m)

-----------------------------------------------------------------------------
(* Facts about the data.                                                   *)

LEMMA NoValue ==
  /\ NULL \notin Connections /\ NULL \notin Query /\ NULL \notin Response
  /\ NULL \notin Connection
  BY ModbusLinkAssumption, NullAssumption DEF ModbusLinkAssumption, NullAssumption

LEMMA Fields ==
  ASSUME NEW k \in Connection
  PROVE  /\ k.owner \in Masters /\ k.toServer \in Seq(Query) /\ k.toMaster \in Seq(Response)
         /\ k.open \in BOOLEAN /\ k.reset \in BOOLEAN /\ k.confused \in BOOLEAN
  BY DEF Connection

(* The connection of a master.                                             *)
LEMMA Own ==
  ASSUME TypeOK, NEW m \in Masters, Calling(m), fdM[m] # NULL
  PROVE  /\ fdM[m] \in Connections /\ connection[fdM[m]] \in Connection
         /\ connection[fdM[m]].owner = m /\ connection[fdM[m]].open
         /\ ~connection[fdM[m]].reset
  BY DEF TypeOK, Calling

(* The connection in service.                                              *)
LEMMA InService ==
  ASSUME TypeOK, Serving, fd # NULL
  PROVE  fd \in Connections /\ connection[fd] \in Connection
  BY DEF TypeOK, Serving

-----------------------------------------------------------------------------
(* The frame of a master's step.                                           *)

LEMMA MasterTypes ==
  ASSUME TypeOK, UNCHANGED server,
         pcM' \in [Masters -> {"idle", "connect", "modbus_receive"}],
         fdM' \in [Masters -> Connections \cup {NULL}], t_id' \in [Masters -> 0..MaxTid],
         query' \in [Masters -> Query \cup {NULL}],
         answer' \in [Masters -> Response \cup {NULL}],
         connection' \in [Connections -> Connection \cup {NULL}],
         backlog' \in Seq(Connections)
  PROVE  TypeOK'
  BY DEF TypeOK, server

(* Other masters do not notice the step of m, which may change its own     *)
(* connection or make one.                                                 *)
LEMMA OtherMasters ==
  ASSUME IInv, NEW m \in Masters, NEW n \in Masters, n # m, UNCHANGED server,
         pcM'[n] = pcM[n], fdM'[n] = fdM[n], query'[n] = query[n], answer'[n] = answer[n],
         NEW c \in Connections, c = fdM[m] \/ connection[c] = NULL,
         \A d \in Connections \ {c} : connection'[d] = connection[d]
  PROVE  Calling(n)' /\ Talking(n)'
<1>1. Calling(n) /\ Talking(n) /\ Calling(m) /\ TypeOK
  BY DEF IInv
<1>2. CASE fdM[n] = NULL
  BY <1>1, <1>2 DEF Calling, Talking
<1>3. CASE fdM[n] # NULL
  <2>1. fdM[n] \in Connections /\ connection[fdM[n]].owner = n /\ connection[fdM[n]] # NULL
    BY <1>1, <1>3, Own, NoValue
  <2>2. fdM[n] # c
    BY <1>1, <2>1, <1>3, Own
  <2>3. connection'[fdM[n]] = connection[fdM[n]]
    BY <2>1, <2>2
  <2>4. Calling(n)'
    BY <1>1, <1>3, <2>3 DEF Calling
  <2>5. Talking(n)'
    BY <1>1, <1>3, <2>3 DEF Talking, Processing, Fits, server
  <2> QED
    BY <2>4, <2>5
<1> QED
  BY <1>2, <1>3

(* The step of a master on its connection.                                 *)
LEMMA OnConnection ==
  ASSUME IInv, NEW m \in Masters, UNCHANGED <<backlog, server>>, fdM[m] # NULL,
         NEW k \in Connection, connection' = [connection EXCEPT ![fdM[m]] = k],
         fdM[m] # fd => k.toMaster = <<>> /\ ~k.reset,
         Processing(fdM[m]) /\ ~k.confused => ~k.reset,
         pcM' \in [Masters -> {"idle", "connect", "modbus_receive"}],
         fdM' \in [Masters -> Connections \cup {NULL}], t_id' \in [Masters -> 0..MaxTid],
         query' \in [Masters -> Query \cup {NULL}],
         answer' \in [Masters -> Response \cup {NULL}],
         \A n \in Masters \ {m} :
           /\ pcM'[n] = pcM[n] /\ fdM'[n] = fdM[n]
           /\ query'[n] = query[n] /\ answer'[n] = answer[n],
         Calling(m)', Talking(m)'
  PROVE  IInv'
<1> DEFINE c == fdM[m]
<1>1. TypeOK /\ Serving /\ NoSendAfterReset /\ Calling(m)
      /\ connection \in [Connections -> Connection \cup {NULL}]
      /\ backlog \in Seq(Connections)
  BY DEF IInv, TypeOK
<1>2. c \in Connections /\ connection[c] \in Connection
  BY <1>1, Own
<1>3. /\ connection'[c] = k /\ connection' \in [Connections -> Connection \cup {NULL}]
      /\ \A d \in Connections : d # c => connection'[d] = connection[d]
  BY <1>1, <1>2
<1>4. TypeOK'
  BY <1>1, <1>3, MasterTypes
<1>5. Serving'
  <2>1. \A d \in Connections : connection[d] # NULL => connection'[d] # NULL
    BY <1>3, NoValue
  <2>2. \A i \in DOMAIN backlog : backlog[i] \in Connections
    BY <1>1
  <2>3. fd # NULL => fd \in Connections
    BY <1>1 DEF TypeOK
  <2>4. \A d \in Connections :
          connection'[d] # NULL /\ d # fd => connection'[d].toMaster = <<>> /\ ~connection'[d].reset
    BY <1>1, <1>3 DEF Serving
  <2> QED
    BY <1>1, <2>1, <2>2, <2>3, <2>4 DEF Serving, server
<1>6. NoSendAfterReset'
  <2> SUFFICES ASSUME pcS = "processMessage", ~Confused(fd)' PROVE ~connection'[fd].reset
    BY DEF NoSendAfterReset, server
  <2>1. fd \in Connections /\ connection[fd] \in Connection
    BY <1>1, InService DEF Serving
  <2>2. CASE fd = c
    BY <1>3, <2>1, <2>2, NoValue DEF Confused, Processing, server
  <2>3. CASE fd # c
    <3>1. connection'[fd] = connection[fd]
      BY <1>3, <2>1, <2>3
    <3>2. ~Confused(fd)
      BY <3>1 DEF Confused, server
    <3> QED
      BY <1>1, <3>1, <3>2 DEF NoSendAfterReset
  <2> QED
    BY <2>2, <2>3
<1>7. \A n \in Masters : Calling(n)' /\ Talking(n)'
  <2>1. ASSUME NEW n \in Masters, n # m PROVE Calling(n)' /\ Talking(n)'
    BY <1>2, <1>3, <2>1, OtherMasters
  <2> QED
    BY <2>1
<1> QED
  BY <1>4, <1>5, <1>6, <1>7 DEF IInv

(* The step of a master that has no connection.                            *)
LEMMA NoConnection ==
  ASSUME IInv, NEW m \in Masters, UNCHANGED <<connection, backlog, server>>,
         fdM[m] = NULL, fdM'[m] = NULL, pcM'[m] \in {"idle", "connect"}, answer'[m] = NULL,
         pcM' \in [Masters -> {"idle", "connect", "modbus_receive"}],
         fdM' \in [Masters -> Connections \cup {NULL}], t_id' \in [Masters -> 0..MaxTid],
         query' \in [Masters -> Query \cup {NULL}],
         answer' \in [Masters -> Response \cup {NULL}],
         \A n \in Masters \ {m} :
           /\ pcM'[n] = pcM[n] /\ fdM'[n] = fdM[n]
           /\ query'[n] = query[n] /\ answer'[n] = answer[n]
  PROVE  IInv'
<1>1. TypeOK /\ Serving /\ NoSendAfterReset
  BY DEF IInv
<1>2. TypeOK'
  BY <1>1, MasterTypes DEF TypeOK
<1>3. Serving' /\ NoSendAfterReset'
  BY <1>1 DEF Serving, NoSendAfterReset, Confused, server
<1>4. Calling(m)' /\ Talking(m)'
  BY DEF Calling, Talking
<1>5. ASSUME NEW n \in Masters, n # m PROVE Calling(n)' /\ Talking(n)'
  <2>1. Calling(n) /\ Talking(n)
    BY DEF IInv
  <2>2. Calling(n)'
    BY <1>5, <2>1 DEF Calling
  <2>3. Talking(n)'
    BY <1>5, <2>1 DEF Talking, Processing, Fits, server
  <2> QED
    BY <2>2, <2>3
<1> QED
  BY <1>2, <1>3, <1>4, <1>5 DEF IInv

(* modbus_close: while a query is processed no response is unread.         *)
LEMMA Closed ==
  ASSUME IInv, NEW m \in Masters, fdM[m] # NULL, modbus_close(m)
  PROVE  /\ \E k \in Connection :
              /\ connection' = [connection EXCEPT ![fdM[m]] = k]
              /\ fdM[m] # fd => k.toMaster = <<>> /\ ~k.reset
              /\ Processing(fdM[m]) /\ ~k.confused => ~k.reset
         /\ fdM' \in [Masters -> Connections \cup {NULL}] /\ fdM'[m] = NULL
         /\ \A n \in Masters \ {m} : fdM'[n] = fdM[n]
<1> DEFINE c == fdM[m]
           b == connection[c].toMaster # <<>>
           k == [connection[c] EXCEPT !.open = FALSE, !.reset = b]
<1>1. TypeOK /\ Serving /\ Calling(m) /\ Talking(m)
  BY DEF IInv
<1>2. c \in Connections /\ connection[c] \in Connection
  BY <1>1, Own
<1>3. connection' = [connection EXCEPT ![c] = k]
  BY <1>1, <1>2 DEF modbus_close, Connection, TypeOK
<1>4. b \in BOOLEAN
  OBVIOUS
<1>5. k \in Connection /\ k.toMaster = connection[c].toMaster
      /\ k.confused = connection[c].confused /\ k.reset = b
  <2> HIDE DEF b
  <2> QED
    BY <1>2, <1>4 DEF Connection
<1>6. c # fd => k.toMaster = <<>> /\ ~k.reset
  BY <1>1, <1>2, <1>5, NoValue DEF Serving
<1>7. Processing(c) /\ ~k.confused => ~k.reset
  BY <1>1, <1>5 DEF Talking
<1>8. /\ fdM' \in [Masters -> Connections \cup {NULL}] /\ fdM'[m] = NULL
      /\ \A n \in Masters \ {m} : fdM'[n] = fdM[n]
  BY <1>1 DEF modbus_close, TypeOK
<1> HIDE DEF k
<1> QED
  BY <1>3, <1>5, <1>6, <1>7, <1>8

LEMMA DisconnectStep ==
  ASSUME IInv, NEW m \in Masters, disconnect(m)
  PROVE  IInv'
<1>1. /\ fdM[m] # NULL /\ pcM[m] = "idle" /\ modbus_close(m)
      /\ answer' = [answer EXCEPT ![m] = NULL]
      /\ UNCHANGED <<pcM, t_id, query, backlog, server>>
  BY DEF disconnect
<1>2. TypeOK /\ UNCHANGED server
  BY <1>1 DEF IInv
<1>3. PICK k \in Connection :
        /\ connection' = [connection EXCEPT ![fdM[m]] = k]
        /\ fdM[m] # fd => k.toMaster = <<>> /\ ~k.reset
        /\ Processing(fdM[m]) /\ ~k.confused => ~k.reset
  BY <1>1, Closed
<1>4. /\ fdM' \in [Masters -> Connections \cup {NULL}] /\ fdM'[m] = NULL
      /\ \A n \in Masters \ {m} : fdM'[n] = fdM[n]
  BY <1>1, Closed
<1>5. answer' \in [Masters -> Response \cup {NULL}] /\ answer'[m] = NULL
      /\ \A n \in Masters \ {m} : answer'[n] = answer[n]
  BY <1>1, <1>2 DEF TypeOK
<1>6. Calling(m)' /\ Talking(m)'
  BY <1>1, <1>4, <1>5 DEF Calling, Talking
<1>7. /\ pcM' \in [Masters -> {"idle", "connect", "modbus_receive"}]
      /\ t_id' \in [Masters -> 0..MaxTid] /\ query' \in [Masters -> Query \cup {NULL}]
  BY <1>1, <1>2 DEF TypeOK
<1> QED
  BY <1>1, <1>3, <1>4, <1>5, <1>6, <1>7, OnConnection

(* error_treat gives the connection up.                                    *)
LEMMA GivenUp ==
  ASSUME IInv, NEW m \in Masters, error_treat(m), UNCHANGED <<backlog, server>>,
         answer'[m] = NULL, t_id' \in [Masters -> 0..MaxTid],
         query' \in [Masters -> Query \cup {NULL}],
         answer' \in [Masters -> Response \cup {NULL}],
         \A n \in Masters \ {m} : query'[n] = query[n] /\ answer'[n] = answer[n]
  PROVE  IInv'
<1>1. Reconnect /\ TypeOK
  BY DEF IInv
<1>2. pcM' = [pcM EXCEPT ![m] = "connect"]
  BY <1>1 DEF error_treat
<1>3. /\ pcM' \in [Masters -> {"idle", "connect", "modbus_receive"}]
      /\ pcM'[m] = "connect" /\ \A n \in Masters \ {m} : pcM'[n] = pcM[n]
  BY <1>1, <1>2 DEF TypeOK
<1>4. CASE fdM[m] # NULL
  <2>1. modbus_close(m)
    BY <1>1, <1>4 DEF error_treat
  <2>2. PICK k \in Connection :
          /\ connection' = [connection EXCEPT ![fdM[m]] = k]
          /\ fdM[m] # fd => k.toMaster = <<>> /\ ~k.reset
          /\ Processing(fdM[m]) /\ ~k.confused => ~k.reset
    BY <1>4, <2>1, Closed
  <2>3. /\ fdM' \in [Masters -> Connections \cup {NULL}] /\ fdM'[m] = NULL
        /\ \A n \in Masters \ {m} : fdM'[n] = fdM[n]
    BY <1>4, <2>1, Closed
  <2>4. Calling(m)' /\ Talking(m)'
    BY <1>3, <2>3 DEF Calling, Talking
  <2> QED
    BY <1>3, <1>4, <2>2, <2>3, <2>4, OnConnection
<1>5. CASE fdM[m] = NULL
  <2>1. UNCHANGED <<fdM, connection>>
    BY <1>5 DEF error_treat
  <2>2. fdM' \in [Masters -> Connections \cup {NULL}] /\ fdM'[m] = NULL
    BY <1>1, <1>5, <2>1 DEF TypeOK
  <2> QED
    BY <1>3, <1>5, <2>1, <2>2, NoConnection
<1> QED
  BY <1>4, <1>5

LEMMA TimeoutStep ==
  ASSUME IInv, NEW m \in Masters, timeout(m)
  PROVE  IInv'
<1>1. /\ pcM[m] = "modbus_receive" /\ error_treat(m)
      /\ query' = [query EXCEPT ![m] = NULL]
      /\ UNCHANGED <<t_id, answer, backlog, server>>
  BY DEF timeout
<1>2. TypeOK /\ Calling(m)
  BY DEF IInv
<1>3. answer'[m] = NULL
  BY <1>1, <1>2 DEF Calling
<1>4. query' \in [Masters -> Query \cup {NULL}] /\ \A n \in Masters \ {m} : query'[n] = query[n]
  BY <1>1, <1>2 DEF TypeOK
<1>5. t_id' \in [Masters -> 0..MaxTid] /\ answer' \in [Masters -> Response \cup {NULL}]
  BY <1>1, <1>2 DEF TypeOK
<1> QED
  BY <1>1, <1>3, <1>4, <1>5, GivenUp

(* modbus_send appends to one end of a connection.                         *)
LEMMA SentToServer ==
  ASSUME TypeOK, NEW c \in Connections, connection[c] \in Connection, NEW q \in Query,
         modbus_send(c, "toServer", q)
  PROVE  \E k \in Connection :
           /\ connection' = [connection EXCEPT ![c] = k]
           /\ k.toServer = Append(connection[c].toServer, q)
           /\ k.toMaster = connection[c].toMaster /\ k.owner = connection[c].owner
           /\ k.open = connection[c].open /\ k.reset = connection[c].reset
           /\ k.confused = connection[c].confused
<1> DEFINE v == Append(connection[c].toServer, q)
           k == [connection[c] EXCEPT !.toServer = v]
<1>1. connection' = [connection EXCEPT ![c] = k]
  BY DEF modbus_send, TypeOK, Connection
<1>2. v \in Seq(Query)
  BY Fields
<1>3. /\ k \in Connection /\ k.toServer = v
      /\ k.toMaster = connection[c].toMaster /\ k.owner = connection[c].owner
      /\ k.open = connection[c].open /\ k.reset = connection[c].reset
      /\ k.confused = connection[c].confused
  <2> HIDE DEF v
  <2> QED
    BY <1>2 DEF Connection
<1> HIDE DEF k
<1> QED
  BY <1>1, <1>3

LEMMA SentToMaster ==
  ASSUME TypeOK, NEW c \in Connections, connection[c] \in Connection, NEW r \in Response,
         modbus_send(c, "toMaster", r)
  PROVE  \E k \in Connection :
           /\ connection' = [connection EXCEPT ![c] = k]
           /\ k.toMaster = Append(connection[c].toMaster, r)
           /\ k.toServer = connection[c].toServer /\ k.owner = connection[c].owner
           /\ k.open = connection[c].open /\ k.reset = connection[c].reset
           /\ k.confused = connection[c].confused
<1> DEFINE v == Append(connection[c].toMaster, r)
           k == [connection[c] EXCEPT !.toMaster = v]
<1>1. connection' = [connection EXCEPT ![c] = k]
  BY DEF modbus_send, TypeOK, Connection
<1>2. v \in Seq(Response)
  BY Fields
<1>3. /\ k \in Connection /\ k.toMaster = v
      /\ k.toServer = connection[c].toServer /\ k.owner = connection[c].owner
      /\ k.open = connection[c].open /\ k.reset = connection[c].reset
      /\ k.confused = connection[c].confused
  <2> HIDE DEF v
  <2> QED
    BY <1>2 DEF Connection
<1> HIDE DEF k
<1> QED
  BY <1>1, <1>3

LEMMA CallStep ==
  ASSUME IInv, NEW m \in Masters, call(m)
  PROVE  IInv'
<1>1. /\ pcM[m] = "idle" /\ build_query_basis_tcp(m)
      /\ answer' = [answer EXCEPT ![m] = NULL]
      /\ UNCHANGED <<backlog, server>>
  BY DEF call
<1>2. TypeOK /\ Serving /\ Calling(m) /\ Talking(m)
  BY DEF IInv
<1>3. t_id' \in [Masters -> 0..MaxTid]
  <2> DEFINE t == IF t_id[m] < MaxTid THEN t_id[m] + 1 ELSE 0
  <2>1. t_id' = [t_id EXCEPT ![m] = t]
    BY <1>1 DEF build_query_basis_tcp
  <2>2. t \in 0..MaxTid
    BY <1>2, ModbusLinkAssumption DEF TypeOK, ModbusLinkAssumption
  <2> HIDE DEF t
  <2> QED
    BY <1>2, <2>1, <2>2 DEF TypeOK
<1>4. answer' \in [Masters -> Response \cup {NULL}] /\ answer'[m] = NULL
      /\ \A n \in Masters \ {m} : answer'[n] = answer[n]
  BY <1>1, <1>2 DEF TypeOK
<1>5. ASSUME fdM[m] # NULL, NEW q \in Query, query' = [query EXCEPT ![m] = q],
             modbus_send(fdM[m], "toServer", q),
             pcM' = [pcM EXCEPT ![m] = "modbus_receive"], UNCHANGED fdM
      PROVE  IInv'
  <2> DEFINE c == fdM[m]
  <2>1. c \in Connections /\ connection[c] \in Connection /\ connection[c].owner = m
        /\ connection[c].open /\ ~connection[c].reset
    BY <1>2, <1>5, Own
  <2>2. PICK k \in Connection :
          /\ connection' = [connection EXCEPT ![c] = k]
          /\ k.toServer = Append(connection[c].toServer, q)
          /\ k.toMaster = connection[c].toMaster /\ k.owner = connection[c].owner
          /\ k.open = connection[c].open /\ k.reset = connection[c].reset
          /\ k.confused = connection[c].confused
    BY <1>2, <1>5, <2>1, SentToServer
  <2>3. connection'[c] = k
    BY <1>2, <2>1, <2>2 DEF TypeOK
  <2>4. query' \in [Masters -> Query \cup {NULL}] /\ query'[m] = q
        /\ \A n \in Masters \ {m} : query'[n] = query[n]
    BY <1>2, <1>5 DEF TypeOK
  <2>5. /\ pcM' \in [Masters -> {"idle", "connect", "modbus_receive"}]
        /\ pcM'[m] = "modbus_receive" /\ \A n \in Masters \ {m} : pcM'[n] = pcM[n]
    BY <1>2, <1>5 DEF TypeOK
  <2>6. fdM' \in [Masters -> Connections \cup {NULL}]
    BY <1>2, <1>5 DEF TypeOK
  <2>7. Calling(m)'
    <3>1. fdM'[m] = c /\ connection'[c] # NULL /\ query'[m] # NULL
      BY <1>5, <2>3, <2>4, NoValue
    <3>2. connection'[c].owner = m
      BY <2>1, <2>2, <2>3
    <3>3. connection'[c].open /\ ~connection'[c].reset
      BY <2>1, <2>2, <2>3
    <3> QED
      BY <1>4, <1>5, <2>5, <3>1, <3>2, <3>3 DEF Calling
  <2>8. Talking(m)'
    <3> SUFFICES ASSUME ~connection[c].confused PROVE Talking(m)'
      BY <1>5, <2>2, <2>3 DEF Talking
    <3>1. ~Processing(c) /\ connection[c].toServer = <<>> /\ connection[c].toMaster = <<>>
      BY <1>1, <1>2, <1>5 DEF Talking
    <3>2. k.toServer = <<q>> /\ k.toMaster = <<>>
      BY <2>2, <3>1
    <3>3. ~Processing(c)'
      BY <1>1, <1>5, <3>1 DEF Processing, server
    <3> QED
      BY <1>4, <1>5, <2>3, <2>4, <2>5, <3>2, <3>3 DEF Talking
  <2>9. c # fd => k.toMaster = <<>> /\ ~k.reset
    BY <1>2, <2>1, <2>2, NoValue DEF Serving
  <2> QED
    BY <1>1, <1>3, <1>4, <1>5, <2>1, <2>2, <2>4, <2>5, <2>6, <2>7, <2>8, <2>9, OnConnection
<1>6. ASSUME fdM[m] = NULL, query' = [query EXCEPT ![m] = NULL], error_treat(m)
      PROVE  IInv'
  <2>1. query' \in [Masters -> Query \cup {NULL}]
        /\ \A n \in Masters \ {m} : query'[n] = query[n]
    BY <1>2, <1>6 DEF TypeOK
  <2> QED
    BY <1>1, <1>3, <1>4, <1>6, <2>1, GivenUp
<1> QED
  BY <1>5, <1>6 DEF call

LEMMA ReceiveStep ==
  ASSUME IInv, NEW m \in Masters, modbus_receive(m)
  PROVE  IInv'
<1> DEFINE c == fdM[m]
           r == Head(connection[c].toMaster)
           v == Tail(connection[c].toMaster)
           k == [connection[c] EXCEPT !.toMaster = v]
<1>1. /\ pcM[m] = "modbus_receive" /\ connection[c].toMaster # <<>>
      /\ answer' = [answer EXCEPT ![m] = r]
      /\ connection' = [connection EXCEPT ![c].toMaster = Tail(@)]
      /\ pcM' = [pcM EXCEPT ![m] = "idle"]
      /\ UNCHANGED <<fdM, t_id, query, backlog, server>>
  BY DEF modbus_receive
<1>2. TypeOK /\ Serving /\ Calling(m) /\ Talking(m)
  BY DEF IInv
<1>3. c # NULL
  BY <1>1, <1>2 DEF Calling
<1>4. c \in Connections /\ connection[c] \in Connection /\ connection[c].owner = m
      /\ connection[c].open /\ ~connection[c].reset
  BY <1>2, <1>3, Own
<1>5. r \in Response /\ v \in Seq(Response)
  <2>1. connection[c].toMaster \in Seq(Response)
    BY <1>4, Fields
  <2> QED
    BY <1>1, <2>1
<1>6. connection' = [connection EXCEPT ![c] = k]
  BY <1>1
<1>7. k \in Connection /\ k.toMaster = v /\ k.toServer = connection[c].toServer
      /\ k.owner = connection[c].owner /\ k.open = connection[c].open
      /\ k.reset = connection[c].reset /\ k.confused = connection[c].confused
  <2> HIDE DEF v, c
  <2> QED
    BY <1>4, <1>5 DEF Connection
<1> HIDE DEF k
<1>8. connection'[c] = k
  BY <1>2, <1>4, <1>6 DEF TypeOK
<1>9. /\ answer' \in [Masters -> Response \cup {NULL}] /\ answer'[m] = r
      /\ \A n \in Masters \ {m} : answer'[n] = answer[n]
  BY <1>1, <1>2, <1>5 DEF TypeOK
<1>10. /\ pcM' \in [Masters -> {"idle", "connect", "modbus_receive"}]
       /\ pcM'[m] = "idle" /\ \A n \in Masters \ {m} : pcM'[n] = pcM[n]
  BY <1>1, <1>2 DEF TypeOK
<1>11. /\ fdM' \in [Masters -> Connections \cup {NULL}] /\ t_id' \in [Masters -> 0..MaxTid]
       /\ query' \in [Masters -> Query \cup {NULL}]
  BY <1>1, <1>2 DEF TypeOK
<1>12. c = fd
  BY <1>1, <1>2, <1>4, NoValue DEF Serving
<1>13. Calling(m)'
  <2>1. connection'[c] # NULL /\ connection'[c].owner = m
    BY <1>4, <1>7, <1>8, NoValue
  <2>2. connection'[c].open /\ ~connection'[c].reset
    BY <1>4, <1>7, <1>8
  <2>3. fdM'[m] = c /\ pcM'[m] = "idle"
    BY <1>1, <1>10
  <2> QED
    BY <1>3, <2>1, <2>2, <2>3 DEF Calling
<1>14. Talking(m)'
  <2> SUFFICES ASSUME ~connection[c].confused PROVE Talking(m)'
    BY <1>1, <1>7, <1>8 DEF Talking
  <2>1. PICK x \in Response : connection[c].toMaster = <<x>> /\ Fits(m, x)
    BY <1>1, <1>2, <1>3 DEF Talking
  <2>2. r = x /\ v = <<>>
    BY <2>1
  <2>3. connection[c].toServer = <<>> /\ ~Processing(c)
    BY <1>1, <1>2, <1>3 DEF Talking
  <2>4. k.toServer = <<>> /\ k.toMaster = <<>> /\ ~Processing(c)'
    BY <1>1, <1>7, <2>2, <2>3 DEF Processing, server
  <2>5. Fits(m, x)' /\ answer'[m] = x
    BY <1>1, <1>9, <2>1, <2>2 DEF Fits, server
  <2>6. fdM'[m] = c /\ fd' = fd
    BY <1>1 DEF server
  <2> HIDE DEF r, v
  <2> QED
    BY <1>8, <1>12, <2>4, <2>5, <2>6 DEF Talking
<1> QED
  <2>1. /\ c # fd => k.toMaster = <<>> /\ ~k.reset
        /\ Processing(c) /\ ~k.confused => ~k.reset
    BY <1>4, <1>7, <1>12
  <2> QED
    BY <1>1, <1>3, <1>6, <1>7, <1>9, <1>10, <1>11, <1>13, <1>14, <2>1, OnConnection

LEMMA StaleExceptionStep ==
  ASSUME IInv, NEW m \in Masters, staleException(m)
  PROVE  IInv'
<1> DEFINE c == fdM[m]
           k == [connection[c] EXCEPT !.confused = TRUE]
<1>1. /\ pcM[m] = "modbus_receive" /\ connection[c].toMaster = <<>>
      /\ pcM' = [pcM EXCEPT ![m] = "idle"]
      /\ query' = [query EXCEPT ![m] = NULL]
      /\ connection' = [connection EXCEPT ![c].confused = TRUE]
      /\ UNCHANGED <<fdM, t_id, answer, backlog, server>>
  BY DEF staleException
<1>2. TypeOK /\ Serving /\ Calling(m)
  BY DEF IInv
<1>3. c # NULL
  BY <1>1, <1>2 DEF Calling
<1>4. c \in Connections /\ connection[c] \in Connection /\ connection[c].owner = m
      /\ connection[c].open /\ ~connection[c].reset
  BY <1>2, <1>3, Own
<1>5. connection' = [connection EXCEPT ![c] = k]
  BY <1>1
<1>6. k \in Connection /\ k.toMaster = <<>> /\ k.owner = m /\ k.confused
  BY <1>1, <1>4 DEF Connection
<1>7. k.open /\ ~k.reset
  BY <1>4 DEF Connection
<1> HIDE DEF k
<1>8. connection'[c] = k
  BY <1>2, <1>4, <1>5 DEF TypeOK
<1>9. query' \in [Masters -> Query \cup {NULL}] /\ \A n \in Masters \ {m} : query'[n] = query[n]
  BY <1>1, <1>2 DEF TypeOK
<1>10. /\ pcM' \in [Masters -> {"idle", "connect", "modbus_receive"}]
       /\ pcM'[m] = "idle" /\ \A n \in Masters \ {m} : pcM'[n] = pcM[n]
  BY <1>1, <1>2 DEF TypeOK
<1>11. /\ fdM' \in [Masters -> Connections \cup {NULL}] /\ t_id' \in [Masters -> 0..MaxTid]
       /\ answer' \in [Masters -> Response \cup {NULL}]
  BY <1>1, <1>2 DEF TypeOK
<1>12. Calling(m)'
  <2>1. connection'[c] # NULL /\ fdM'[m] = c
    BY <1>1, <1>6, <1>8, NoValue
  <2> QED
    BY <1>3, <1>6, <1>7, <1>8, <1>10, <2>1 DEF Calling
<1>13. Talking(m)'
  BY <1>1, <1>6, <1>8 DEF Talking
<1> QED
  BY <1>1, <1>3, <1>5, <1>6, <1>7, <1>9, <1>10, <1>11, <1>12, <1>13, OnConnection

LEMMA ConnectStep ==
  ASSUME IInv, NEW m \in Masters, modbus_connect(m)
  PROVE  IInv'
<1>1. TypeOK /\ Serving /\ NoSendAfterReset /\ Calling(m)
  BY DEF IInv
<1>2. fdM[m] = NULL /\ answer[m] = NULL
  BY <1>1 DEF modbus_connect, Calling
<1>3. pcM' = [pcM EXCEPT ![m] = "idle"] /\ UNCHANGED <<t_id, query, answer, server>>
  BY DEF modbus_connect
<1>4. /\ pcM' \in [Masters -> {"idle", "connect", "modbus_receive"}]
      /\ pcM'[m] = "idle" /\ \A n \in Masters \ {m} : pcM'[n] = pcM[n]
  BY <1>1, <1>3 DEF TypeOK
<1>5. /\ t_id' \in [Masters -> 0..MaxTid] /\ query' \in [Masters -> Query \cup {NULL}]
      /\ answer' \in [Masters -> Response \cup {NULL}] /\ answer'[m] = NULL
      /\ fdM \in [Masters -> Connections \cup {NULL}]
      /\ connection \in [Connections -> Connection \cup {NULL}]
      /\ backlog \in Seq(Connections)
  BY <1>1, <1>2, <1>3 DEF TypeOK
<1>6. CASE UNCHANGED <<connection, backlog, fdM>>
  BY <1>2, <1>3, <1>4, <1>5, <1>6, NoConnection
<1>7. ASSUME NEW c \in Connections, connection[c] = NULL,
             connection' = [connection EXCEPT ![c] =
               [owner |-> m, toServer |-> <<>>, toMaster |-> <<>>,
                open |-> TRUE, reset |-> FALSE, confused |-> FALSE]],
             backlog' = Append(backlog, c), fdM' = [fdM EXCEPT ![m] = c]
      PROVE  IInv'
  <2> DEFINE k == [owner |-> m, toServer |-> <<>>, toMaster |-> <<>>,
                   open |-> TRUE, reset |-> FALSE, confused |-> FALSE]
  <2>1. /\ k \in Connection /\ k.owner = m /\ k.toServer = <<>> /\ k.toMaster = <<>>
        /\ k.open /\ ~k.reset
    BY DEF Connection
  <2>2. connection' = [connection EXCEPT ![c] = k]
    BY <1>7
  <2> HIDE DEF k
  <2>3. /\ connection'[c] = k /\ connection' \in [Connections -> Connection \cup {NULL}]
        /\ \A d \in Connections : d # c => connection'[d] = connection[d]
    BY <1>5, <2>1, <2>2
  <2>4. /\ fdM' \in [Masters -> Connections \cup {NULL}]
        /\ fdM'[m] = c /\ \A n \in Masters \ {m} : fdM'[n] = fdM[n]
    BY <1>5, <1>7
  <2>5. backlog' \in Seq(Connections)
    BY <1>5, <1>7
  <2>6. TypeOK'
    BY <1>1, <1>3, <1>4, <1>5, <2>3, <2>4, <2>5, MasterTypes
  <2>7. c # NULL /\ c # fd /\ \A i \in DOMAIN backlog : backlog[i] \in Connections /\ backlog[i] # c
    BY <1>1, <1>5, <1>7, NoValue DEF Serving
  <2>8. fd # NULL => fd \in Connections /\ connection'[fd] = connection[fd]
    BY <1>1, <2>3, <2>7 DEF TypeOK
  <2>9. Serving'
    <3>1. DOMAIN backlog' = 1..(Len(backlog) + 1) /\ DOMAIN backlog = 1..Len(backlog)
          /\ Len(backlog) \in Nat
      BY <1>5, <1>7
    <3>2. \A i \in DOMAIN backlog' :
            backlog'[i] = IF i \in DOMAIN backlog THEN backlog[i] ELSE c
      BY <1>5, <1>7
    <3>3. \A i \in DOMAIN backlog' : backlog'[i] # fd /\ connection'[backlog'[i]] # NULL
      BY <1>1, <2>1, <2>3, <2>7, <3>2, NoValue DEF Serving
    <3>4. ASSUME NEW i \in DOMAIN backlog', NEW j \in DOMAIN backlog', backlog'[i] = backlog'[j]
          PROVE  i = j
      <4>1. CASE i \in DOMAIN backlog /\ j \in DOMAIN backlog
        BY <1>1, <3>2, <3>4, <4>1 DEF Serving
      <4>2. CASE i \notin DOMAIN backlog /\ j \notin DOMAIN backlog
        BY <3>1, <4>2
      <4>3. CASE ~(i \in DOMAIN backlog <=> j \in DOMAIN backlog)
        BY <2>7, <3>2, <3>4, <4>3
      <4> QED
        BY <4>1, <4>2, <4>3
    <3>5. \A d \in Connections :
            connection'[d] # NULL /\ d # fd =>
              connection'[d].toMaster = <<>> /\ ~connection'[d].reset
      BY <1>1, <2>1, <2>3 DEF Serving
    <3>6. /\ fd # NULL <=> pcS \in {"modbus_listen", "processMessage"}
          /\ fd # NULL => connection'[fd] # NULL
          /\ pcS = "processMessage" => request # NULL
      BY <1>1, <2>8 DEF Serving
    <3> QED
      BY <1>3, <3>3, <3>4, <3>5, <3>6 DEF Serving, server
  <2>10. NoSendAfterReset'
    <3> SUFFICES ASSUME pcS = "processMessage", ~Confused(fd)' PROVE ~connection'[fd].reset
      BY <1>3 DEF NoSendAfterReset, server
    <3>1. connection'[fd] = connection[fd]
      BY <1>1, <2>8 DEF Serving
    <3>2. ~Confused(fd)
      BY <1>3, <3>1 DEF Confused, server
    <3> QED
      BY <1>1, <3>1, <3>2 DEF NoSendAfterReset
  <2>11. Calling(m)'
    <3>1. connection'[c] # NULL
      BY <2>1, <2>3, NoValue
    <3> QED
      BY <1>4, <2>1, <2>3, <2>4, <2>7, <3>1 DEF Calling
  <2>12. Talking(m)'
    <3>1. ~Processing(c)'
      BY <1>3, <2>7 DEF Processing, server
    <3> QED
      BY <1>5, <2>1, <2>3, <2>4, <3>1 DEF Talking
  <2>13. ASSUME NEW n \in Masters, n # m PROVE Calling(n)' /\ Talking(n)'
    BY <1>3, <1>4, <1>7, <2>3, <2>4, <2>13, OtherMasters
  <2> QED
    BY <2>6, <2>9, <2>10, <2>11, <2>12, <2>13 DEF IInv
<1> QED
  BY <1>6, <1>7 DEF modbus_connect

-----------------------------------------------------------------------------
(* The server's steps.                                                     *)

LEMMA ServerTypes ==
  ASSUME TypeOK, UNCHANGED master,
         connection' \in [Connections -> Connection \cup {NULL}],
         backlog' \in Seq(Connections),
         pcS' \in {"accept", "modbus_listen", "processMessage", "selectFails"},
         fd' \in Connections \cup {NULL}, request' \in Query \cup {NULL},
         mapping' \in [Masters -> Values]
  PROVE  TypeOK'
  BY DEF TypeOK, master

(* Masters that are not served wait.                                       *)
LEMMA NotServed ==
  ASSUME IInv, UNCHANGED master, NEW m \in Masters, fdM[m] = NULL \/ fdM[m] # fd,
         fdM[m] # NULL =>
           connection'[fdM[m]] = connection[fdM[m]] /\ ~Processing(fdM[m])'
  PROVE  Calling(m)' /\ Talking(m)'
<1> DEFINE c == fdM[m]
<1>1. TypeOK /\ Serving /\ Calling(m) /\ Talking(m)
  BY DEF IInv
<1>2. CASE c = NULL
  BY <1>1, <1>2 DEF Calling, Talking, master
<1>3. CASE c # NULL
  <2>1. c \in Connections /\ connection[c] \in Connection /\ c # fd
    BY <1>1, <1>3, Own
  <2>2. connection[c].toMaster = <<>>
    BY <1>1, <2>1, NoValue DEF Serving
  <2>3. Calling(m)'
    BY <1>1, <1>3 DEF Calling, master
  <2>4. ~connection[c].confused => answer[m] = NULL
    BY <1>1, <1>3, <2>1 DEF Talking
  <2>5. Talking(m)'
    BY <1>1, <1>3, <2>2, <2>4 DEF Talking, master
  <2> QED
    BY <2>3, <2>5
<1> QED
  BY <1>2, <1>3

(* The connection in service changes; fd and the backlog do not.           *)
LEMMA ServiceGoesOn ==
  ASSUME IInv, fd # NULL, NEW k \in Connection,
         connection' = [connection EXCEPT ![fd] = k], UNCHANGED <<backlog, fd>>,
         pcS' \in {"modbus_listen", "processMessage"},
         pcS' = "processMessage" => request' # NULL
  PROVE  /\ Serving' /\ connection'[fd] = k
         /\ connection' \in [Connections -> Connection \cup {NULL}]
         /\ \A d \in Connections : d # fd => connection'[d] = connection[d]
<1>1. TypeOK /\ Serving /\ fd \in Connections /\ backlog \in Seq(Connections)
      /\ connection \in [Connections -> Connection \cup {NULL}]
  BY InService DEF IInv, TypeOK
<1>2. /\ connection'[fd] = k /\ connection' \in [Connections -> Connection \cup {NULL}]
      /\ \A d \in Connections : d # fd => connection'[d] = connection[d]
  BY <1>1
<1>3. \A i \in DOMAIN backlog : backlog[i] \in Connections
  BY <1>1
<1>4. Serving'
  BY <1>1, <1>2, <1>3, NoValue DEF Serving
<1> QED
  BY <1>2, <1>4

LEMMA AcceptStep ==
  ASSUME IInv, accept
  PROVE  IInv'
<1>1. /\ pcS = "accept" /\ backlog # <<>> /\ fd' = Head(backlog) /\ backlog' = Tail(backlog)
      /\ pcS' = "modbus_listen" /\ UNCHANGED <<master, connection, request, mapping>>
  BY DEF accept
<1>2. TypeOK /\ Serving /\ backlog \in Seq(Connections)
      /\ connection \in [Connections -> Connection \cup {NULL}]
  BY DEF IInv, TypeOK
<1>3. /\ Len(backlog) \in Nat \ {0} /\ DOMAIN backlog = 1..Len(backlog)
      /\ DOMAIN backlog' = 1..(Len(backlog) - 1)
      /\ fd' = backlog[1] /\ fd' \in Connections /\ backlog' \in Seq(Connections)
      /\ \A i \in DOMAIN backlog' : backlog'[i] = backlog[i + 1]
  BY <1>1, <1>2
<1>4. \A i \in DOMAIN backlog' : i + 1 \in DOMAIN backlog /\ i + 1 # 1
  BY <1>3
<1>5. TypeOK'
  BY <1>1, <1>2, <1>3, ServerTypes DEF TypeOK
<1>6. Serving'
  <2>1. 1 \in DOMAIN backlog /\ connection'[fd'] # NULL /\ fd' # NULL
    BY <1>1, <1>2, <1>3, NoValue DEF Serving
  <2>2. \A i \in DOMAIN backlog' : backlog'[i] # fd' /\ connection'[backlog'[i]] # NULL
    BY <1>1, <1>2, <1>3, <1>4, <2>1 DEF Serving
  <2>3. ASSUME NEW i \in DOMAIN backlog', NEW j \in DOMAIN backlog', backlog'[i] = backlog'[j]
        PROVE  i = j
    <3>1. i + 1 = j + 1
      BY <1>2, <1>3, <1>4, <2>3 DEF Serving
    <3> QED
      BY <1>3, <3>1
  <2>4. \A d \in Connections :
          connection'[d] # NULL /\ d # fd' =>
            connection'[d].toMaster = <<>> /\ ~connection'[d].reset
    <3>1. fd = NULL
      BY <1>1, <1>2 DEF Serving
    <3> QED
      BY <1>1, <1>2, <3>1, NoValue DEF Serving
  <2> QED
    BY <1>1, <2>1, <2>2, <2>3, <2>4 DEF Serving
<1>7. NoSendAfterReset'
  BY <1>1 DEF NoSendAfterReset
<1>8. ASSUME NEW m \in Masters PROVE Calling(m)' /\ Talking(m)'
  <2>1. fd = NULL
    BY <1>1, <1>2 DEF Serving
  <2>2. \A c : ~Processing(c)'
    BY <1>1 DEF Processing
  <2> QED
    BY <1>1, <2>1, <2>2, NotServed
<1> QED
  BY <1>5, <1>6, <1>7, <1>8 DEF IInv

LEMMA ListenStep ==
  ASSUME IInv, modbus_listen
  PROVE  IInv'
<1> DEFINE q == Head(connection[fd].toServer)
           v == Tail(connection[fd].toServer)
           k == [connection[fd] EXCEPT !.toServer = v]
<1>1. /\ pcS = "modbus_listen" /\ ~connection[fd].reset /\ connection[fd].toServer # <<>>
      /\ request' = q /\ connection' = [connection EXCEPT ![fd].toServer = Tail(@)]
      /\ pcS' = "processMessage" /\ UNCHANGED <<master, backlog, fd, mapping>>
  BY DEF modbus_listen
<1>2. TypeOK /\ Serving /\ backlog \in Seq(Connections)
  BY DEF IInv, TypeOK
<1>3. fd # NULL /\ fd \in Connections /\ connection[fd] \in Connection
  BY <1>1, <1>2, InService DEF Serving
<1>4. q \in Query /\ v \in Seq(Query) /\ q # NULL
  <2>1. connection[fd].toServer \in Seq(Query)
    BY <1>3, Fields
  <2> QED
    BY <1>1, <2>1, NoValue
<1>5. connection' = [connection EXCEPT ![fd] = k]
  BY <1>1
<1>6. k \in Connection /\ k.toServer = v /\ k.toMaster = connection[fd].toMaster
      /\ k.owner = connection[fd].owner /\ k.open = connection[fd].open
      /\ k.reset = connection[fd].reset /\ k.confused = connection[fd].confused
  <2> HIDE DEF v
  <2> QED
    BY <1>3, <1>4 DEF Connection
<1> HIDE DEF k
<1>7. /\ Serving' /\ connection'[fd] = k
      /\ connection' \in [Connections -> Connection \cup {NULL}]
      /\ \A d \in Connections : d # fd => connection'[d] = connection[d]
  BY <1>1, <1>3, <1>4, <1>5, <1>6, ServiceGoesOn
<1>8. TypeOK'
  BY <1>1, <1>2, <1>4, <1>7, ServerTypes DEF TypeOK
<1>9. NoSendAfterReset'
  BY <1>1, <1>6, <1>7 DEF NoSendAfterReset
<1>10. ASSUME NEW m \in Masters PROVE Calling(m)' /\ Talking(m)'
  <2>1. Calling(m) /\ Talking(m)
    BY DEF IInv
  <2>2. CASE fdM[m] # fd \/ fdM[m] = NULL
    <3>1. fdM[m] # NULL => connection'[fdM[m]] = connection[fdM[m]]
      BY <1>2, <1>7, <2>1, <2>2, Own
    <3>2. fdM[m] # NULL => ~Processing(fdM[m])'
      BY <1>1, <2>2 DEF Processing, master
    <3> QED
      BY <1>1, <2>2, <3>1, <3>2, NotServed
  <2>3. CASE fdM[m] = fd /\ fdM[m] # NULL
    <3>1. Calling(m)'
      <4>1. connection'[fd] # NULL
        BY <1>6, <1>7, NoValue
      <4>2. connection'[fd].owner = m
        BY <1>6, <1>7, <2>1, <2>3 DEF Calling
      <4>3. connection'[fd].open /\ ~connection'[fd].reset
        BY <1>6, <1>7, <2>1, <2>3 DEF Calling
      <4> QED
        BY <1>1, <2>1, <2>3, <4>1, <4>2, <4>3 DEF Calling, master
    <3>2. Talking(m)'
      <4> SUFFICES ASSUME ~connection[fd].confused PROVE Talking(m)'
        BY <1>1, <1>6, <1>7, <2>3 DEF Talking, master
      <4>1. /\ connection[fd].toServer = <<query[m]>> /\ pcM[m] # "idle"
            /\ connection[fd].toMaster = <<>>
            /\ answer[m] # NULL => Fits(m, answer[m])
        BY <1>1, <2>1, <2>3 DEF Talking
      <4>2. q = query[m] /\ v = <<>>
        BY <4>1
      <4>3. answer[m] # NULL => Fits(m, answer[m])'
        BY <1>1, <4>1 DEF Fits, master
      <4> HIDE DEF q, v
      <4>4. k.toServer = <<>> /\ k.toMaster = <<>> /\ request' = query[m]
        BY <1>1, <1>6, <4>1, <4>2
      <4> QED
        BY <1>1, <1>7, <2>3, <4>1, <4>3, <4>4 DEF Talking, Processing, master, Fits
    <3> QED
      BY <3>1, <3>2
  <2> QED
    BY <2>2, <2>3
<1> QED
  BY <1>7, <1>8, <1>9, <1>10 DEF IInv

(* The connection in service ends; it is nobody's any more.                *)
LEMMA ServiceEnds ==
  ASSUME IInv, fd # NULL, ~connection[fd].open \/ connection[fd].reset,
         connection' = [connection EXCEPT ![fd] = NULL], fd' = NULL,
         pcS' \in {"accept", "selectFails"}, UNCHANGED <<master, backlog, request, mapping>>
  PROVE  IInv'
<1>1. TypeOK /\ Serving /\ fd \in Connections /\ connection[fd] \in Connection
      /\ backlog \in Seq(Connections)
      /\ connection \in [Connections -> Connection \cup {NULL}]
  BY InService DEF IInv, TypeOK
<1>2. /\ connection' \in [Connections -> Connection \cup {NULL}] /\ connection'[fd] = NULL
      /\ \A d \in Connections : d # fd => connection'[d] = connection[d]
  BY <1>1
<1>3. TypeOK'
  BY <1>1, <1>2, ServerTypes DEF TypeOK
<1>4. Serving'
  <2>1. \A i \in DOMAIN backlog : backlog[i] \in Connections /\ backlog[i] # NULL
    BY <1>1, NoValue
  <2>2. \A d \in Connections :
          connection'[d] # NULL => connection'[d].toMaster = <<>> /\ ~connection'[d].reset
    BY <1>1, <1>2 DEF Serving
  <2> QED
    BY <1>1, <1>2, <2>1, <2>2 DEF Serving
<1>5. NoSendAfterReset'
  BY DEF NoSendAfterReset
<1>6. ASSUME NEW m \in Masters PROVE Calling(m)' /\ Talking(m)'
  <2>1. Calling(m)
    BY DEF IInv
  <2>2. fdM[m] # fd
    BY <2>1 DEF Calling
  <2>3. fdM[m] # NULL => connection'[fdM[m]] = connection[fdM[m]]
    BY <1>1, <1>2, <2>1, <2>2, Own
  <2>4. fdM[m] # NULL => ~Processing(fdM[m])'
    BY DEF Processing
  <2> QED
    BY <2>2, <2>3, <2>4, NotServed
<1> QED
  BY <1>3, <1>4, <1>5, <1>6 DEF IInv

LEMMA ConnectionEndSteps ==
  ASSUME IInv, connectionClosed \/ receiveFails
  PROVE  IInv'
<1>1. fd # NULL
  BY DEF connectionClosed, receiveFails, IInv, Serving
<1> QED
  BY <1>1, ServiceEnds DEF connectionClosed, receiveFails

LEMMA ResponseType ==
  ASSUME TypeOK, NEW o \in Masters, NEW q \in Query
  PROVE  /\ responseTo(o, q) \in Response
         /\ responseTo(o, q).t_id = q.t_id
         /\ responseTo(o, q).exception <=> ~q.legal
         /\ q.legal => responseTo(o, q).value = IF q.function = Writing THEN q.value ELSE mapping[o]
<1>1. /\ q.t_id \in 0..MaxTid /\ q.function \in Functions /\ q.legal \in BOOLEAN
      /\ q.value \in Values \cup {NULL} /\ mapping[o] \in Values
  BY DEF Query, TypeOK
<1>2. CASE q.legal
  BY <1>1, <1>2 DEF responseTo, build_response_basis_tcp, Response
<1>3. CASE ~q.legal
  BY <1>1, <1>3 DEF responseTo, response_exception, build_response_basis_tcp, Response
<1> QED
  BY <1>2, <1>3

LEMMA ManageQueryStep ==
  ASSUME IInv, modbus_manage_query
  PROVE  IInv'
<1> DEFINE o == connection[fd].owner
<1>1. /\ pcS = "processMessage" /\ store(o, request) /\ request' = NULL
      /\ pcS' = "modbus_listen" /\ UNCHANGED <<master, backlog, fd>>
  BY DEF modbus_manage_query
<1>2. /\ TypeOK /\ Serving /\ backlog \in Seq(Connections)
      /\ connection \in [Connections -> Connection \cup {NULL}]
  BY DEF IInv, TypeOK
<1>3. fd # NULL /\ fd \in Connections /\ connection[fd] \in Connection /\ o \in Masters
      /\ request \in Query
  BY <1>1, <1>2, InService, Fields DEF Serving, TypeOK
<1>4. /\ mapping' \in [Masters -> Values]
      /\ \A m \in Masters : mapping'[m] =
           IF m = o /\ request.function = Writing /\ request.legal
           THEN request.value ELSE mapping[m]
  <2>1. request.function = Writing => request.value \in Values
    BY <1>3 DEF Query
  <2> HIDE DEF o
  <2> QED
    BY <1>1, <1>2, <1>3, <2>1 DEF store, TypeOK
(* What the connection becomes, and what it means for the master served.   *)
<1>5. \E k \in Connection :
        /\ connection' = [connection EXCEPT ![fd] = k]
        /\ k.owner = o /\ k.open = connection[fd].open /\ k.confused = connection[fd].confused
        /\ k.toServer = connection[fd].toServer
        /\ connection[fd].open =>
             /\ k.reset = connection[fd].reset
             /\ \/ k.toMaster = connection[fd].toMaster
                \/ k.toMaster = Append(connection[fd].toMaster, responseTo(o, request))
  <2>1. CASE UNCHANGED connection
    BY <1>2, <1>3, <2>1
  <2>2. CASE connection[fd].open /\ modbus_send(fd, "toMaster", responseTo(o, request))
    <3> HIDE DEF o
    <3>1. responseTo(o, request) \in Response
      BY <1>2, <1>3, ResponseType
    <3> QED
      BY <1>2, <1>3, <2>2, <3>1, SentToMaster DEF o
  <2>3. ASSUME ~connection[fd].open, NEW r \in {connection[fd].reset, TRUE},
               connection' = [connection EXCEPT ![fd].reset = r]
        PROVE  \E k \in Connection :
                 /\ connection' = [connection EXCEPT ![fd] = k]
                 /\ k.owner = o /\ k.open = connection[fd].open
                 /\ k.confused = connection[fd].confused
                 /\ k.toServer = connection[fd].toServer
    <3> DEFINE k == [connection[fd] EXCEPT !.reset = r]
    <3>1. r \in BOOLEAN
      BY <1>3, <2>3, Fields
    <3>2. /\ k \in Connection /\ k.owner = o /\ k.open = connection[fd].open
          /\ k.confused = connection[fd].confused /\ k.toServer = connection[fd].toServer
      BY <1>3, <3>1 DEF Connection
    <3>3. connection' = [connection EXCEPT ![fd] = k]
      BY <2>3
    <3> HIDE DEF k, o
    <3> QED
      BY <3>2, <3>3
  <2> QED
    BY <2>1, <2>2, <2>3 DEF modbus_manage_query
<1>6. PICK k \in Connection :
        /\ connection' = [connection EXCEPT ![fd] = k]
        /\ k.owner = o /\ k.open = connection[fd].open /\ k.confused = connection[fd].confused
        /\ k.toServer = connection[fd].toServer
        /\ connection[fd].open =>
             /\ k.reset = connection[fd].reset
             /\ \/ k.toMaster = connection[fd].toMaster
                \/ k.toMaster = Append(connection[fd].toMaster, responseTo(o, request))
  BY <1>5
<1>7. /\ Serving' /\ connection'[fd] = k
      /\ connection' \in [Connections -> Connection \cup {NULL}]
      /\ \A d \in Connections : d # fd => connection'[d] = connection[d]
  BY <1>1, <1>3, <1>6, ServiceGoesOn
<1>8. TypeOK'
  BY <1>1, <1>2, <1>4, <1>7, ServerTypes DEF TypeOK
<1>9. NoSendAfterReset'
  BY <1>1 DEF NoSendAfterReset
<1>10. ASSUME NEW m \in Masters PROVE Calling(m)' /\ Talking(m)'
  <2>1. Calling(m) /\ Talking(m)
    BY DEF IInv
  <2>2. ~Processing(fdM[m])'
    BY <1>1 DEF Processing
  <2>3. CASE fdM[m] # fd \/ fdM[m] = NULL
    <3>1. fdM[m] # NULL => connection'[fdM[m]] = connection[fdM[m]]
      BY <1>2, <1>7, <2>1, <2>3, Own
    <3> QED
      BY <1>1, <2>2, <2>3, <3>1, NotServed
  <2>4. CASE fdM[m] = fd /\ fdM[m] # NULL
    <3>1. o = m /\ connection[fd].open /\ ~connection[fd].reset
      BY <2>1, <2>4 DEF Calling
    <3>2. Calling(m)'
      <4>1. connection'[fd] # NULL /\ connection'[fd].owner = m
        BY <1>6, <1>7, <3>1, NoValue
      <4>2. connection'[fd].open /\ ~connection'[fd].reset
        BY <1>6, <1>7, <3>1
      <4> QED
        BY <1>1, <2>1, <2>4, <4>1, <4>2 DEF Calling, master
    <3>3. Talking(m)'
      <4> SUFFICES ASSUME ~connection[fd].confused PROVE Talking(m)'
        BY <1>1, <1>6, <1>7, <2>4 DEF Talking, master
      <4>1. /\ request = query[m] /\ connection[fd].toMaster = <<>>
            /\ connection[fd].toServer = <<>> /\ pcM[m] # "idle"
        BY <1>1, <2>1, <2>4 DEF Talking, Processing
      <4>2. answer[m] = NULL
        BY <1>2, <2>1, <2>4, <4>1 DEF Calling, TypeOK
      <4> DEFINE r == responseTo(m, request)
      <4>3. r \in Response /\ r.t_id = query[m].t_id
            /\ (~r.exception => mapping'[m] = r.value)
        BY <1>2, <1>3, <1>4, <3>1, <4>1, ResponseType
      <4>4. k.toMaster = <<>> \/ k.toMaster = <<r>>
        BY <1>6, <3>1, <4>1
      <4> QED
        <5> HIDE DEF r
        <5>1. \A x \in Response :
                x.t_id = query[m].t_id /\ (~x.exception => mapping'[m] = x.value) => Fits(m, x)'
          BY <1>1 DEF Fits, master
        <5>2. k.toMaster # <<>> => \E x \in Response : k.toMaster = <<x>> /\ Fits(m, x)'
          BY <4>3, <4>4, <5>1
        <5> QED
          BY <1>1, <1>6, <1>7, <2>2, <2>4, <4>1, <4>2, <5>2 DEF Talking, master
    <3> QED
      BY <3>2, <3>3
  <2> QED
    BY <2>3, <2>4
<1> QED
  BY <1>7, <1>8, <1>9, <1>10 DEF IInv

-----------------------------------------------------------------------------
(* The specification.                                                      *)

LEMMA InitInv == Init /\ Reconnect => IInv
<1> SUFFICES ASSUME Init, Reconnect PROVE IInv
  OBVIOUS
<1>1. TypeOK
  <2>1. MaxTid \in Nat /\ 0 \in Values
    BY ModbusLinkAssumption DEF ModbusLinkAssumption
  <2>2. /\ pcM \in [Masters -> {"idle", "connect", "modbus_receive"}]
        /\ fdM \in [Masters -> Connections \cup {NULL}]
        /\ t_id \in [Masters -> 0..MaxTid]
    BY <2>1 DEF Init
  <2>3. /\ query \in [Masters -> Query \cup {NULL}]
        /\ answer \in [Masters -> Response \cup {NULL}]
        /\ connection \in [Connections -> Connection \cup {NULL}]
    BY DEF Init
  <2>4. /\ backlog \in Seq(Connections) /\ pcS = "accept" /\ fd = NULL /\ request = NULL
        /\ mapping \in [Masters -> Values]
    BY <2>1 DEF Init
  <2> QED
    BY <2>2, <2>3, <2>4 DEF TypeOK
<1>2. Serving /\ NoSendAfterReset
  BY DEF Init, Serving, NoSendAfterReset
<1>3. \A m \in Masters : Calling(m) /\ Talking(m)
  BY DEF Init, Calling, Talking
<1> QED
  BY <1>1, <1>2, <1>3 DEF IInv

LEMMA Stutter == IInv /\ UNCHANGED vars => IInv'
<1> SUFFICES ASSUME IInv, UNCHANGED vars PROVE IInv'
  OBVIOUS
<1>1. UNCHANGED <<master, connection, backlog, server>>
  BY DEF vars
<1>2. TypeOK' /\ Serving' /\ NoSendAfterReset'
  BY <1>1 DEF IInv, TypeOK, Serving, NoSendAfterReset, Confused, master, server
<1>3. ASSUME NEW m \in Masters PROVE Calling(m)' /\ Talking(m)'
  <2>1. Calling(m) /\ Talking(m)
    BY DEF IInv
  <2>2. Calling(m)'
    BY <1>1, <2>1 DEF Calling, master
  <2>3. Talking(m)'
    BY <1>1, <2>1 DEF Talking, Processing, Fits, master, server
  <2> QED
    BY <2>2, <2>3
<1> QED
  BY <1>2, <1>3 DEF IInv

LEMMA NextInv == IInv /\ [Next]_vars => IInv'
<1> SUFFICES ASSUME IInv, [Next]_vars PROVE IInv'
  OBVIOUS
<1>1. CASE UNCHANGED vars
  BY <1>1, Stutter
<1>2. CASE Server
  BY <1>2, AcceptStep, ListenStep, ConnectionEndSteps, ManageQueryStep DEF Server
<1>3. ASSUME NEW m \in Masters, Master(m) PROVE IInv'
  BY <1>3, DisconnectStep, ConnectStep, CallStep, ReceiveStep, TimeoutStep,
     StaleExceptionStep DEF Master
<1> QED
  BY <1>1, <1>2, <1>3 DEF Next

LEMMA Invariance == Spec /\ Reconnect => []IInv
  BY InitInv, NextInv, PTL DEF Spec

(* ModbusLink's types: queries and responses under way, identifiers within *)
(* 0..MaxTid, registers that only hold values.                             *)
THEOREM TypeCorrect == Spec /\ Reconnect => []TypeOK
<1>1. IInv => TypeOK
  BY DEF IInv
<1> QED
  BY <1>1, Invariance, PTL

(* modbus.cc:217-218: modbus_receive does not compare identifiers, and yet *)
(* no call returns with the response to another one.                       *)
THEOREM AnswersItsQueryHolds == Spec /\ Reconnect => []AnswersItsQuery
<1>1. IInv => AnswersItsQuery
  <2> SUFFICES ASSUME IInv, NEW m \in Masters, ~Confused(fdM[m]), answer[m] # NULL
               PROVE  answer[m].t_id = query[m].t_id
    BY DEF AnswersItsQuery
  <2>1. fdM[m] # NULL /\ connection[fdM[m]] # NULL
    BY DEF IInv, Calling
  <2> QED
    BY <2>1 DEF IInv, Talking, Fits, Confused
<1> QED
  BY <1>1, Invariance, PTL

(* modbus.cc:764-949: the queries of calls that were given up may be       *)
(* executed at any time before, but not after, the next answered call.     *)
THEOREM CoherentHolds == Spec /\ Reconnect => []Coherent
<1>1. IInv => Coherent
  <2> SUFFICES ASSUME IInv, NEW m \in Masters, ~Confused(fdM[m]), answer[m] # NULL,
                      ~answer[m].exception
               PROVE  mapping[m] = answer[m].value
    BY DEF Coherent
  <2>1. fdM[m] # NULL /\ connection[fdM[m]] # NULL
    BY DEF IInv, Calling
  <2> QED
    BY <2>1 DEF IInv, Talking, Fits, Confused
<1> QED
  BY <1>1, Invariance, PTL

(* modbus.cc:379: whatever masters do, the server does not send on a       *)
(* connection that was reset.                                              *)
THEOREM NoSendAfterResetHolds == Spec /\ Reconnect => []NoSendAfterReset
<1>1. IInv => NoSendAfterReset
  BY DEF IInv
<1> QED
  BY <1>1, Invariance, PTL
=============================================================================
