---------------------------- MODULE ModbusStream ----------------------------
(***************************************************************************)
(* How the server in src/external/modbus.cc finds the queries in the byte  *)
(* stream of a TCP connection: receive_msg, called from the loop of        *)
(* ModbusGate::listen.                                                     *)
(*                                                                         *)
(* Bytes are known by their place in the stream.  TCP cuts the stream      *)
(* anywhere and delays the pieces for any time, so a wait inside a message *)
(* may time out.  A client may send queries without waiting for responses. *)
(***************************************************************************)
EXTENDS Naturals, Sequences

CONSTANTS
  Functions,     (* function codes                                         *)
  DataCounts,    (* bytes of data of a multiple write                      *)
  StrayCounts,   (* what any other byte may mean in the place of the count *)
  MaxQueries     (* bound: queries on a connection                         *)

header_length == 6
MAX_MESSAGE_LENGTH == 256

ASSUME ModbusStreamAssumption ==
  /\ Functions \subseteq 0..255 /\ StrayCounts \subseteq 0..255
  /\ DataCounts \subseteq 0..200      (* MAX_REGISTERS, MAX_STATUS          *)
  /\ DataCounts \subseteq StrayCounts /\ MaxQueries \in Nat

VARIABLES
  queries,   (* sent on this connection: what they are, where they begin   *)
  sent,      (* bytes the client has sent                                  *)
  arrived,   (* of these, bytes that have reached the server's socket      *)
  open,      (* the client has not closed                                  *)
  pc,        (* where the listener is                                      *)
  read,      (* bytes the server has taken from the socket                 *)
  start,     (* read, when the message began                               *)
  state, msg_length_computed,
  handed,    (* messages of this connection that went to processMessage    *)
  torn       (* a message of this connection has timed out half-way        *)

client == <<queries, sent, open>>
server == <<pc, read, start, state, msg_length_computed, handed, torn>>
vars   == <<client, arrived, server>>

Multiple == {15, 16}

(* compute_query_length_header: what follows the function code.            *)
compute_query_length_header(function) ==
  IF function <= 6 THEN 4 ELSE IF function \in Multiple THEN 5 ELSE 0

(* Fault: the checksum of a serial line is expected.                       *)
compute_query_length_data_RTU(function, count) ==
  IF function \in Multiple THEN count + 2 ELSE 2

(* compute_query_length_data: what follows that; TCP has no checksum.      *)
compute_query_length_data(function, count) ==
  IF function \in Multiple THEN count ELSE 0

(* A query as the client functions of the library build it.                *)
Query == [function : Functions, count : DataCounts, begin : Nat]
Length(q) ==
  header_length + 2 + CASE q.function <= 6        -> 4
                        [] q.function \in Multiple -> 5 + q.count
                        [] OTHER                   -> 0

(* The query that begins where the message begins.                         *)
Aligned == {k \in DOMAIN queries : queries[k].begin = start}

(* What the server finds at the places of function code and byte count:    *)
(* in a message that begins inside a query, these can be any bytes.        *)
FunctionByte == IF Aligned = {} THEN Functions ELSE {queries[k].function : k \in Aligned}
CountByte == IF Aligned = {} THEN StrayCounts ELSE {queries[k].count : k \in Aligned}

p_msg_length == read - start

Init ==
  /\ queries = <<>> /\ sent = 0 /\ arrived = 0 /\ open = TRUE
  /\ pc = "receive_msg" /\ read = 0 /\ start = 0
  /\ state = "FUNCTION" /\ msg_length_computed = header_length + 2
  /\ handed = 0 /\ torn = FALSE

-----------------------------------------------------------------------------
(* The client and the network.                                             *)

send ==
  /\ open /\ Len(queries) < MaxQueries
  /\ \E f \in Functions, n \in DataCounts :
       LET q == [function |-> f, count |-> n, begin |-> sent] IN
       /\ queries' = Append(queries, q)
       /\ sent' = sent + Length(q)
  /\ UNCHANGED <<open, arrived, server>>

close ==
  /\ open /\ open' = FALSE
  /\ UNCHANGED <<queries, sent, arrived, server>>

arrive ==
  /\ arrived' \in (arrived + 1)..sent
  /\ UNCHANGED <<client, server>>

-----------------------------------------------------------------------------
(* The server.                                                             *)

(* Fault: the length of the last message is kept.                          *)
newMessage_Keep(from) ==
  /\ start' = start
  /\ state' = "FUNCTION" /\ msg_length_computed' = header_length + 2

(* modbus_listen: receive_msg begins with an empty message.                *)
newMessage(from) ==
  /\ start' = from
  /\ state' = "FUNCTION" /\ msg_length_computed' = header_length + 2

(* All bytes are there: the message goes to processMessage.                *)
complete(length) ==
  /\ pc' = "processMessage" /\ handed' = handed + 1
  /\ msg_length_computed' = length

goOn(length) ==
  /\ msg_length_computed' = length
  /\ UNCHANGED <<pc, handed>>

(* Fault: recv takes what there is.                                        *)
lengthToRead_All(n) == n

(* recv takes what there is, and no more than length_to_read, which always *)
(* is what the message still lacks.                                        *)
lengthToRead(n) ==
  IF n >= msg_length_computed - p_msg_length
  THEN msg_length_computed - p_msg_length ELSE n

(* One pass of the loop: a part that is complete tells the next one's      *)
(* length.                                                                 *)
recv ==
  /\ pc = "receive_msg" /\ arrived > read
  /\ LET whole == arrived - read >= msg_length_computed - p_msg_length IN
     /\ read' = read + lengthToRead(arrived - read)
     /\ \/ ~whole /\ UNCHANGED state /\ goOn(msg_length_computed)
        \/ /\ whole /\ state = "FUNCTION" /\ state' = "BYTE"
           /\ \E f \in FunctionByte :
                LET more == compute_query_length_header(f) IN
                IF more = 0 THEN complete(msg_length_computed)
                            ELSE goOn(msg_length_computed + more)
        \/ /\ whole /\ state = "BYTE" /\ state' = "COMPLETE"
           /\ \E f \in FunctionByte, n \in CountByte :
                LET more == compute_query_length_data(f, n) IN
                /\ header_length + 2 + compute_query_length_header(f) = msg_length_computed
                /\ IF msg_length_computed + more > MAX_MESSAGE_LENGTH
                   THEN /\ pc' = "selectFails"
                        /\ UNCHANGED <<msg_length_computed, handed>>
                   ELSE IF more = 0 THEN complete(msg_length_computed)
                                    ELSE goOn(msg_length_computed + more)
        \/ /\ whole /\ state = "COMPLETE" /\ UNCHANGED state
           /\ complete(msg_length_computed)
  /\ UNCHANGED <<client, arrived, start, torn>>

(* A wait inside a message times out: its bytes are dropped.  (Before the  *)
(* first byte, a timeout changes nothing.)                                 *)
timeout ==
  /\ pc = "receive_msg" /\ arrived = read /\ (open \/ arrived < sent)
  /\ p_msg_length > 0
  /\ newMessage(read) /\ torn' = TRUE
  /\ UNCHANGED <<client, arrived, pc, read, handed>>

(* processMessage and modbus_manage_query return.                          *)
processMessage ==
  /\ pc = "processMessage" /\ pc' = "receive_msg"
  /\ newMessage(read)
  /\ UNCHANGED <<client, arrived, read, handed, torn>>

(* recv returns 0 and the next client is accepted.                         *)
connectionClosed ==
  /\ pc = "receive_msg" /\ ~open /\ arrived = read /\ arrived = sent
  /\ queries' = <<>> /\ sent' = 0 /\ arrived' = 0 /\ open' = TRUE
  /\ read' = 0 /\ newMessage(0) /\ handed' = 0 /\ torn' = FALSE
  /\ UNCHANGED pc

Next == send \/ close \/ arrive \/ recv \/ timeout \/ processMessage \/ connectionClosed

Spec == Init /\ [][Next]_vars

(* The listener runs, and the simulation polls (see SSGate).               *)
FairSpec == Spec /\ WF_vars(recv) /\ WF_vars(processMessage)

-----------------------------------------------------------------------------
(* Properties.                                                             *)

(* modbus.cc:456-458: the number of bytes received "won't be greater than  *)
(* msg_length_computed", nor than the array they are received in.          *)
TypeOK ==
  /\ queries \in Seq(Query)
  /\ {sent, arrived, read, start, msg_length_computed, handed} \subseteq Nat
  /\ start <= read /\ read <= arrived /\ arrived <= sent
  /\ p_msg_length <= msg_length_computed
  /\ msg_length_computed <= MAX_MESSAGE_LENGTH
  /\ pc \in {"receive_msg", "processMessage", "selectFails"}
  /\ state \in {"FUNCTION", "BYTE", "COMPLETE"}
  /\ {open, torn} \subseteq BOOLEAN

(* modbus.cc:494-565: wherever TCP cuts the stream, and whatever was on    *)
(* the connections before, processMessage gets the client's queries, whole *)
(* and one by one, until a message of this connection has timed out.       *)
WholeQueries ==
  ~torn =>
    /\ pc # "selectFails"
    /\ pc = "processMessage" =>
         /\ start = queries[handed].begin
         /\ p_msg_length = Length(queries[handed])

(* A query that has arrived as a whole is served without any byte of a     *)
(* next one.                                                               *)
QueriesServed ==
  \A k \in 1..MaxQueries :
    (~torn /\ k <= Len(queries) /\ arrived >= queries[k].begin + Length(queries[k]))
      ~> (handed >= k)
=============================================================================
