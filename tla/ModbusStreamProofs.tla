------------------------- MODULE ModbusStreamProofs -------------------------
(***************************************************************************)
(* Proofs about ModbusStream: for any functions, byte counts and number of *)
(* queries, and wherever TCP cuts the stream, no message outgrows its      *)
(* array, and the server reads the client's queries one by one until a     *)
(* message times out half-way.                                             *)
(***************************************************************************)
EXTENDS ModbusStream, Integers, TLAPS

(* Where the k-th query begins, or the next one will.                      *)
Begin(k) == IF k \in DOMAIN queries THEN queries[k].begin ELSE sent

(* The queries lie one behind the other in the stream.                     *)
Layout ==
  /\ \A k \in DOMAIN queries :
       /\ queries[k].begin + Length(queries[k]) = Begin(k + 1)
       /\ queries[k].begin + Length(queries[k]) <= sent
  /\ \A j, k \in DOMAIN queries :
       j < k => queries[j].begin + Length(queries[j]) <= queries[k].begin

(* What the state says about the length computed so far; also in a message *)
(* that begins inside a query.                                             *)
Framing ==
  /\ state = "FUNCTION" => msg_length_computed = header_length + 2
  /\ pc = "receive_msg" /\ state = "BYTE" => msg_length_computed \in {12, 13}

(* Until a message is torn, the one under way is the query after those     *)
(* that were handed over, and the length computed is that of the parts     *)
(* that its bytes have announced.                                          *)
InStep ==
  ~torn =>
    /\ handed \in 0..Len(queries) /\ pc # "selectFails"
    /\ pc = "receive_msg" =>
         /\ start = Begin(handed + 1)
         /\ state # "FUNCTION" => handed < Len(queries)
         /\ state = "BYTE" =>
              /\ compute_query_length_header(queries[handed + 1].function) # 0
              /\ msg_length_computed =
                   8 + compute_query_length_header(queries[handed + 1].function)
         /\ state = "COMPLETE" => msg_length_computed = Length(queries[handed + 1])
    /\ pc = "processMessage" =>
         /\ handed > 0 /\ start = queries[handed].begin
         /\ p_msg_length = Length(queries[handed])

IInv == TypeOK /\ Layout /\ Framing /\ InStep

-----------------------------------------------------------------------------
(* The lengths.                                                            *)

LEMMA Bytes ==
  /\ \A f \in Functions : f \in 0..255
  /\ \A n \in DataCounts : n \in 0..200 /\ n \in 0..255
  /\ \A n \in StrayCounts : n \in 0..255
  BY ModbusStreamAssumption DEF ModbusStreamAssumption

LEMMA HeaderLength ==
  ASSUME NEW f \in Functions
  PROVE  /\ compute_query_length_header(f) \in {0, 4, 5}
         /\ compute_query_length_header(f) = 5 <=> f \in Multiple
         /\ compute_query_length_header(f) = 4 <=> f <= 6
  BY Bytes DEF compute_query_length_header, Multiple

LEMMA DataLength ==
  ASSUME NEW f \in Functions, NEW n \in 0..255
  PROVE  /\ compute_query_length_data(f, n) \in 0..255
         /\ f \in Multiple => compute_query_length_data(f, n) = n
         /\ f \notin Multiple => compute_query_length_data(f, n) = 0
  BY DEF compute_query_length_data

(* Header and data, as the server computes their lengths, make a query of  *)
(* the length the client has sent.                                         *)
LEMMA LengthOfQuery ==
  ASSUME NEW q \in Query
  PROVE  /\ Length(q) \in Nat /\ Length(q) >= 8 /\ Length(q) <= MAX_MESSAGE_LENGTH
         /\ Length(q) = 8 + compute_query_length_header(q.function)
                          + compute_query_length_data(q.function, q.count)
<1>1. q.function \in 0..255 /\ q.count \in 0..200
  <2>1. q.function \in Functions /\ q.count \in DataCounts
    BY DEF Query
  <2> QED
    BY <2>1, Bytes
<1>2. CASE q.function <= 6
  <2>1. q.function \notin Multiple
    BY <1>1, <1>2 DEF Multiple
  <2>2. Length(q) = 12
    BY <1>1, <1>2, <2>1 DEF Length, header_length
  <2> QED
    BY <1>1, <1>2, <2>1, <2>2 DEF compute_query_length_header,
       compute_query_length_data, MAX_MESSAGE_LENGTH
<1>3. CASE q.function \in Multiple
  <2>1. ~(q.function <= 6)
    BY <1>1, <1>3 DEF Multiple
  <2>2. Length(q) = 13 + q.count
    BY <1>1, <1>3, <2>1 DEF Length, header_length
  <2> QED
    BY <1>1, <1>3, <2>1, <2>2 DEF compute_query_length_header,
       compute_query_length_data, MAX_MESSAGE_LENGTH
<1>4. CASE ~(q.function <= 6) /\ q.function \notin Multiple
  <2>1. Length(q) = 8
    BY <1>1, <1>4 DEF Length, header_length
  <2> QED
    BY <1>1, <1>4, <2>1 DEF compute_query_length_header,
       compute_query_length_data, MAX_MESSAGE_LENGTH
<1> QED
  BY <1>2, <1>3, <1>4

(* The query that begins where the message begins is the only one there,   *)
(* so its function code and its byte count are what the server finds.      *)
LEMMA FoundBytes ==
  ASSUME TypeOK, Layout, NEW k \in DOMAIN queries, start = queries[k].begin
  PROVE  FunctionByte = {queries[k].function} /\ CountByte = {queries[k].count}
<1>1. ASSUME NEW j \in DOMAIN queries
      PROVE  /\ queries[j].begin \in Nat
             /\ Length(queries[j]) \in Nat /\ Length(queries[j]) >= 8
  <2>1. queries[j] \in Query
    BY DEF TypeOK
  <2> QED
    BY <2>1, LengthOfQuery DEF Query
<1>2. DOMAIN queries \subseteq Nat
  BY DEF TypeOK
<1>3. \A j \in DOMAIN queries : j # k => queries[j].begin # queries[k].begin
  BY <1>1, <1>2 DEF Layout
<1>4. Aligned = {k}
  BY <1>3 DEF Aligned
<1> QED
  BY <1>4 DEF FunctionByte, CountByte

(* Whatever the server finds, it is a byte.                                *)
LEMMA AnyBytes ==
  ASSUME TypeOK
  PROVE  FunctionByte \subseteq Functions /\ CountByte \subseteq 0..255
<1>1. ASSUME NEW k \in DOMAIN queries
      PROVE  queries[k].function \in Functions /\ queries[k].count \in 0..255
  <2>1. queries[k] \in Query
    BY DEF TypeOK
  <2>2. queries[k].function \in Functions /\ queries[k].count \in DataCounts
    BY <2>1 DEF Query
  <2> QED
    BY <2>2, Bytes
<1>2. FunctionByte \subseteq Functions
  BY <1>1 DEF FunctionByte, Aligned
<1>3. CountByte \subseteq 0..255
  BY <1>1, Bytes DEF CountByte, Aligned
<1> QED
  BY <1>2, <1>3

-----------------------------------------------------------------------------
(* The invariant.                                                          *)

LEMMA InitInv == ASSUME Init PROVE IInv
<1>1. TypeOK
  <2>1. queries \in Seq(Query)
    BY DEF Init
  <2>2. {open, torn} \subseteq BOOLEAN
    BY Zenon DEF Init
  <2> QED
    BY <2>1, <2>2 DEF Init, TypeOK, p_msg_length, header_length, MAX_MESSAGE_LENGTH
<1>2. Layout
  BY DEF Init, Layout
<1>3. Framing
  BY DEF Init, Framing, header_length
<1>4. InStep
  BY DEF Init, InStep, Begin
<1> QED
  BY <1>1, <1>2, <1>3, <1>4 DEF IInv

LEMMA Numbers ==
  ASSUME TypeOK
  PROVE  /\ start \in Nat /\ read \in Nat /\ arrived \in Nat /\ sent \in Nat
         /\ msg_length_computed \in Nat /\ handed \in Nat
  BY DEF TypeOK

(* A new query takes the place where the next one was to begin.            *)
LEMMA SendStep == ASSUME IInv, send PROVE IInv'
<1>1. PICK f \in Functions, n \in DataCounts :
        LET q == [function |-> f, count |-> n, begin |-> sent] IN
        /\ queries' = Append(queries, q) /\ sent' = sent + Length(q)
  BY DEF send
<1> DEFINE q == [function |-> f, count |-> n, begin |-> sent]
           N == Len(queries)
<1>2. queries \in Seq(Query) /\ N \in Nat /\ DOMAIN queries = 1..N
  BY DEF IInv, TypeOK
<1>3. sent \in Nat /\ start \in Nat /\ handed \in Nat /\ arrived \in Nat
  BY Numbers DEF IInv
<1>4. q \in Query /\ q.begin = sent
  BY <1>3 DEF Query
<1>5. Length(q) \in Nat /\ Length(q) >= 8
  BY <1>4, LengthOfQuery
<1>6. queries' = Append(queries, q) /\ sent' = sent + Length(q)
  BY <1>1
<1> HIDE DEF q
<1>7. queries' \in Seq(Query) /\ Len(queries') = N + 1 /\ DOMAIN queries' = 1..(N + 1)
  BY <1>2, <1>4, <1>6
<1>8. queries'[N + 1] = q /\ \A k \in 1..N : queries'[k] = queries[k]
  BY <1>2, <1>4, <1>6
<1>9. UNCHANGED <<open, arrived, pc, read, start, state, msg_length_computed, handed, torn>>
  BY DEF send, server
<1>10. \A k \in 1..(N + 1) : Begin(k)' = Begin(k)
  BY <1>2, <1>4, <1>7, <1>8 DEF Begin
<1>11. TypeOK'
  <2>1. sent' \in Nat /\ sent <= sent'
    BY <1>3, <1>5, <1>6
  <2>2. arrived' <= sent'
    BY <1>3, <1>9, <2>1 DEF IInv, TypeOK
  <2> QED
    BY <1>3, <1>7, <1>9, <2>1, <2>2 DEF IInv, TypeOK, p_msg_length
<1>12. Layout'
  <2>1. ASSUME NEW k \in 1..N
        PROVE  /\ queries[k].begin \in Nat /\ Length(queries[k]) \in Nat
               /\ queries[k].begin + Length(queries[k]) <= sent
               /\ queries[k].begin + Length(queries[k]) = Begin(k + 1)
    <3>1. queries[k] \in Query
      BY <1>2
    <3> QED
      BY <1>2, <3>1, LengthOfQuery DEF IInv, Layout, Query
  <2>2. ASSUME NEW k \in 1..(N + 1)
        PROVE  /\ queries'[k].begin + Length(queries'[k]) = Begin(k + 1)'
               /\ queries'[k].begin + Length(queries'[k]) <= sent'
    <3>1. CASE k = N + 1
      BY <1>2, <1>3, <1>4, <1>5, <1>6, <1>7, <1>8, <3>1 DEF Begin
    <3>2. CASE k # N + 1
      <4>1. k \in 1..N /\ k + 1 \in 1..(N + 1)
        BY <1>2, <3>2
      <4>2. Begin(k + 1)' = Begin(k + 1)
        BY <1>10, <4>1
      <4> QED
        BY <1>3, <1>5, <1>6, <1>8, <2>1, <4>1, <4>2
    <3> QED
      BY <3>1, <3>2
  <2>3. ASSUME NEW j \in 1..(N + 1), NEW k \in 1..(N + 1), j < k
        PROVE  queries'[j].begin + Length(queries'[j]) <= queries'[k].begin
    <3>1. j \in 1..N
      BY <1>2, <2>3
    <3>2. CASE k = N + 1
      BY <1>4, <1>8, <2>1, <3>1, <3>2
    <3>3. CASE k # N + 1
      <4>1. k \in 1..N
        BY <1>2, <3>3
      <4> QED
        BY <1>2, <1>8, <2>3, <3>1, <4>1 DEF IInv, Layout
    <3> QED
      BY <3>2, <3>3
  <2> QED
    BY <1>7, <2>2, <2>3 DEF Layout
<1>13. Framing'
  BY <1>9 DEF IInv, Framing
<1>14. InStep'
  <2> SUFFICES ASSUME ~torn PROVE InStep'
    BY <1>9 DEF InStep
  <2>1. handed \in 0..N
    BY DEF IInv, InStep
  <2>2. handed + 1 \in 1..(N + 1)
    BY <1>2, <2>1
  <2>3. Begin(handed + 1)' = Begin(handed + 1)
    BY <1>9, <1>10, <2>2 DEF Begin
  <2>4. handed < N => queries'[handed + 1] = queries[handed + 1]
    BY <1>2, <1>8, <2>1
  <2>5. handed > 0 => queries'[handed] = queries[handed]
    BY <1>2, <1>8, <2>1
  <2> QED
    BY <1>2, <1>7, <1>9, <2>1, <2>3, <2>4, <2>5 DEF IInv, InStep, p_msg_length
<1> QED
  BY <1>11, <1>12, <1>13, <1>14 DEF IInv

(* What a step of the server keeps of the client's part.                   *)
LEMMA SameQueries ==
  ASSUME IInv, UNCHANGED <<queries, sent>>
  PROVE  Layout' /\ \A k : Begin(k)' = Begin(k)
  BY DEF IInv, Layout, Begin

LEMMA CloseStep == ASSUME IInv, close PROVE IInv'
<1>1. UNCHANGED <<queries, sent, arrived, pc, read, start, state,
                  msg_length_computed, handed, torn>>
  BY DEF close, server
<1>2. TypeOK'
  <2>1. {open, torn}' \subseteq BOOLEAN
    BY <1>1, Zenon DEF close, IInv, TypeOK
  <2> QED
    BY <1>1, <2>1 DEF IInv, TypeOK, p_msg_length
<1>3. Layout' /\ \A k : Begin(k)' = Begin(k)
  BY <1>1, SameQueries
<1>4. Framing' /\ InStep'
  BY <1>1, <1>3 DEF IInv, Framing, InStep, p_msg_length, Begin
<1> QED
  BY <1>2, <1>3, <1>4 DEF IInv

LEMMA ArriveStep == ASSUME IInv, arrive PROVE IInv'
<1>1. UNCHANGED <<queries, sent, open, pc, read, start, state,
                  msg_length_computed, handed, torn>>
  BY DEF arrive, client, server
<1>2. TypeOK'
  <2>1. arrived' \in Nat /\ arrived <= arrived' /\ arrived' <= sent
    BY Numbers DEF arrive, IInv
  <2> QED
    BY <1>1, <2>1, Numbers DEF IInv, TypeOK, p_msg_length
<1>3. Layout' /\ \A k : Begin(k)' = Begin(k)
  BY <1>1, SameQueries
<1>4. Framing' /\ InStep'
  BY <1>1, <1>3 DEF IInv, Framing, InStep, p_msg_length, Begin
<1> QED
  BY <1>2, <1>3, <1>4 DEF IInv

(* The bytes of a torn message are dropped.                                *)
LEMMA TimeoutStep == ASSUME IInv, timeout PROVE IInv'
<1>1. /\ UNCHANGED <<queries, sent, open, arrived, pc, read, handed>>
      /\ start' = read /\ state' = "FUNCTION" /\ msg_length_computed' = 8
      /\ torn' = TRUE /\ pc = "receive_msg"
  BY DEF timeout, newMessage, client, header_length
<1>2. TypeOK'
  <2>1. {open, torn}' \subseteq BOOLEAN
    BY <1>1, Zenon DEF IInv, TypeOK
  <2> QED
    BY <1>1, <2>1, Numbers DEF IInv, TypeOK, p_msg_length, MAX_MESSAGE_LENGTH
<1>3. Layout'
  BY <1>1, SameQueries
<1>4. Framing' /\ InStep'
  BY <1>1 DEF Framing, InStep, header_length
<1> QED
  BY <1>2, <1>3, <1>4 DEF IInv

(* The next message begins where the query ended that was handed over.     *)
LEMMA ProcessMessageStep == ASSUME IInv, processMessage PROVE IInv'
<1>1. /\ UNCHANGED <<queries, sent, open, arrived, read, handed, torn>>
      /\ start' = read /\ state' = "FUNCTION" /\ msg_length_computed' = 8
      /\ pc = "processMessage" /\ pc' = "receive_msg"
  BY DEF processMessage, newMessage, client, header_length
<1>2. TypeOK'
  BY <1>1, Numbers DEF IInv, TypeOK, p_msg_length, MAX_MESSAGE_LENGTH
<1>3. Layout' /\ \A k : Begin(k)' = Begin(k)
  BY <1>1, SameQueries
<1>4. Framing'
  BY <1>1 DEF Framing, header_length
<1>5. InStep'
  <2> SUFFICES ASSUME ~torn PROVE InStep'
    BY <1>1 DEF InStep
  <2>1. /\ handed \in 0..Len(queries) /\ handed > 0
        /\ start = queries[handed].begin /\ p_msg_length = Length(queries[handed])
    BY <1>1 DEF IInv, InStep
  <2>2. queries \in Seq(Query) /\ handed \in DOMAIN queries
    BY <2>1 DEF IInv, TypeOK
  <2>3. queries[handed].begin + Length(queries[handed]) = Begin(handed + 1)
    BY <2>2 DEF IInv, Layout
  <2>4. read = Begin(handed + 1)
    BY <2>1, <2>3, Numbers DEF IInv, p_msg_length
  <2>5. start' = Begin(handed + 1)'
    BY <1>1, <2>4 DEF Begin
  <2> QED
    BY <1>1, <2>1, <2>5 DEF InStep
<1> QED
  BY <1>2, <1>3, <1>4, <1>5 DEF IInv

LEMMA ConnectionClosedStep == ASSUME IInv, connectionClosed PROVE IInv'
<1>1. /\ queries' = <<>> /\ sent' = 0 /\ arrived' = 0 /\ open' = TRUE /\ read' = 0
      /\ start' = 0 /\ state' = "FUNCTION" /\ msg_length_computed' = 8
      /\ handed' = 0 /\ torn' = FALSE /\ pc' = "receive_msg"
  BY DEF connectionClosed, newMessage, header_length
<1>2. TypeOK'
  <2>1. queries' \in Seq(Query)
    BY <1>1
  <2>2. {open, torn}' \subseteq BOOLEAN
    BY <1>1, Zenon
  <2> QED
    BY <1>1, <2>1, <2>2 DEF TypeOK, p_msg_length, MAX_MESSAGE_LENGTH
<1>3. Layout' /\ Framing' /\ InStep'
  BY <1>1 DEF Layout, Framing, InStep, Begin, header_length
<1> QED
  BY <1>2, <1>3 DEF IInv

(* As soon as a message has its first byte, it is a query that was sent,   *)
(* and the server finds the bytes of that query.                           *)
LEMMA UnderWay ==
  ASSUME IInv, ~torn, pc = "receive_msg", arrived > start
  PROVE  /\ handed < Len(queries) /\ handed + 1 \in DOMAIN queries
         /\ queries[handed + 1] \in Query
         /\ start = queries[handed + 1].begin
         /\ FunctionByte = {queries[handed + 1].function}
         /\ CountByte = {queries[handed + 1].count}
<1>1. queries \in Seq(Query) /\ arrived <= sent
  BY DEF IInv, TypeOK
<1>2. handed \in 0..Len(queries) /\ start = Begin(handed + 1)
  BY DEF IInv, InStep
<1>3. handed + 1 \in DOMAIN queries
  BY <1>1, <1>2, Numbers DEF Begin, IInv
<1>4. handed < Len(queries) /\ queries[handed + 1] \in Query
  BY <1>1, <1>2, <1>3
<1>5. start = queries[handed + 1].begin
  BY <1>2, <1>3 DEF Begin
<1> QED
  BY <1>3, <1>4, <1>5, FoundBytes DEF IInv

(* A part of a message becomes whole, or more of it is read.               *)
LEMMA RecvStep == ASSUME IInv, recv PROVE IInv'
<1> DEFINE whole == arrived - read >= msg_length_computed - p_msg_length
           q == queries[handed + 1]
<1>1. pc = "receive_msg" /\ arrived > read
      /\ UNCHANGED <<queries, sent, open, arrived, start, torn>>
  BY DEF recv, client
<1>2. /\ start \in Nat /\ read \in Nat /\ arrived \in Nat /\ sent \in Nat
      /\ msg_length_computed \in Nat /\ handed \in Nat
      /\ start <= read /\ arrived <= sent /\ read - start <= msg_length_computed
      /\ msg_length_computed <= 256
  BY DEF IInv, TypeOK, p_msg_length, MAX_MESSAGE_LENGTH
<1>3. read' = IF whole THEN start + msg_length_computed ELSE arrived
  BY <1>2 DEF recv, lengthToRead, p_msg_length
<1>4. read' \in Nat /\ start <= read' /\ read' <= arrived
      /\ read' - start <= msg_length_computed
  BY <1>1, <1>2, <1>3 DEF p_msg_length
<1>5. Layout' /\ \A k : Begin(k)' = Begin(k)
  BY <1>1, SameQueries
<1>6. ~torn =>
        /\ handed < Len(queries) /\ handed + 1 \in DOMAIN queries
        /\ q \in Query /\ start = q.begin
        /\ FunctionByte = {q.function} /\ CountByte = {q.count}
        /\ Length(q) = 8 + compute_query_length_header(q.function)
                         + compute_query_length_data(q.function, q.count)
        /\ Length(q) <= 256
  BY <1>1, <1>2, UnderWay, LengthOfQuery DEF MAX_MESSAGE_LENGTH
<1>7. ASSUME msg_length_computed' \in Nat, msg_length_computed <= msg_length_computed',
             msg_length_computed' <= 256, handed' \in Nat,
             pc' \in {"receive_msg", "processMessage", "selectFails"},
             state' \in {"FUNCTION", "BYTE", "COMPLETE"}
      PROVE  TypeOK'
  <2>1. {open, torn}' \subseteq BOOLEAN
    BY <1>1, Zenon DEF IInv, TypeOK
  <2>2. read' - start <= msg_length_computed'
    <3>1. \A a, b, c \in Int : a <= b /\ b <= c => a <= c
      OBVIOUS
    <3>2. msg_length_computed' \in Int /\ msg_length_computed \in Int
          /\ read' - start \in Int
      BY <1>2, <1>4, <1>7
    <3> QED
      BY <1>4, <1>7, <3>1, <3>2
  <2> QED
    BY <1>1, <1>2, <1>4, <1>7, <2>1, <2>2 DEF IInv, TypeOK, p_msg_length, MAX_MESSAGE_LENGTH
<1>8. CASE ~whole /\ UNCHANGED state /\ goOn(msg_length_computed)
  <2>1. UNCHANGED <<state, msg_length_computed, pc, handed>>
    BY <1>8 DEF goOn
  <2>2. TypeOK'
    BY <1>2, <1>7, <2>1 DEF IInv, TypeOK
  <2>3. Framing'
    BY <2>1 DEF IInv, Framing
  <2>4. InStep'
    BY <1>1, <1>5, <2>1 DEF IInv, InStep
  <2> QED
    BY <1>5, <2>2, <2>3, <2>4 DEF IInv
<1>9. ASSUME whole, complete(msg_length_computed), state' \in {"BYTE", "COMPLETE"},
             ~torn => msg_length_computed = Length(q)
      PROVE  IInv'
  <2>1. pc' = "processMessage" /\ handed' = handed + 1
        /\ UNCHANGED msg_length_computed
    BY <1>9 DEF complete
  <2>2. TypeOK'
    BY <1>2, <1>7, <1>9, <2>1
  <2>3. Framing'
    BY <1>9, <2>1 DEF Framing
  <2>4. InStep'
    <3> SUFFICES ASSUME ~torn PROVE InStep'
      BY <1>1 DEF InStep
    <3>1. start' = queries'[handed'].begin
      BY <1>1, <1>6, <2>1
    <3>2. p_msg_length' = Length(queries'[handed'])
      BY <1>1, <1>2, <1>3, <1>9, <2>1 DEF p_msg_length
    <3>3. handed' \in 0..Len(queries') /\ handed' > 0
      <4>1. queries \in Seq(Query)
        BY DEF IInv, TypeOK
      <4> QED
        BY <1>1, <1>2, <1>6, <2>1, <4>1
    <3> QED
      BY <2>1, <3>1, <3>2, <3>3 DEF InStep
  <2> QED
    BY <1>5, <2>2, <2>3, <2>4 DEF IInv
<1>10. CASE whole /\ state = "FUNCTION" /\ state' = "BYTE"
            /\ \E f \in FunctionByte :
                 LET more == compute_query_length_header(f) IN
                 IF more = 0 THEN complete(msg_length_computed)
                             ELSE goOn(msg_length_computed + more)
  <2>1. PICK f \in FunctionByte :
          IF compute_query_length_header(f) = 0 THEN complete(msg_length_computed)
          ELSE goOn(msg_length_computed + compute_query_length_header(f))
    BY <1>10
  <2>2. msg_length_computed = 8
    BY <1>10 DEF IInv, Framing, header_length
  <2>3. f \in Functions
    BY AnyBytes DEF IInv
  <2>4. compute_query_length_header(f) \in {0, 4, 5}
        /\ (f \in Multiple => compute_query_length_header(f) = 5)
    BY <2>3, HeaderLength
  <2>5. ~torn => f = q.function
    BY <1>6
  <2>6. CASE compute_query_length_header(f) = 0
    <3>1. f \notin Multiple
      BY <2>4, <2>6
    <3>2. ~torn => compute_query_length_data(q.function, q.count) = 0
      BY <2>5, <3>1 DEF compute_query_length_data
    <3>3. ~torn => msg_length_computed = Length(q)
      BY <1>6, <2>2, <2>5, <2>6, <3>2
    <3> QED
      BY <1>9, <1>10, <2>1, <2>6, <3>3
  <2>7. CASE compute_query_length_header(f) # 0
    <3>1. msg_length_computed' = 8 + compute_query_length_header(f)
          /\ UNCHANGED <<pc, handed>> /\ state' = "BYTE"
      BY <1>10, <2>1, <2>2, <2>7 DEF goOn
    <3>2. msg_length_computed' \in {12, 13}
      BY <2>4, <2>7, <3>1
    <3>3. TypeOK'
      BY <1>1, <1>2, <1>7, <2>2, <3>1, <3>2
    <3>4. Framing'
      BY <3>1, <3>2 DEF Framing
    <3>5. InStep'
      <4> SUFFICES ASSUME ~torn PROVE InStep'
        BY <1>1 DEF InStep
      <4>1. handed \in 0..Len(queries) /\ start = Begin(handed + 1)
        BY <1>1 DEF IInv, InStep
      <4>2. start' = Begin(handed + 1)'
        BY <1>1, <3>1, <4>1 DEF Begin
      <4> QED
        BY <1>1, <1>6, <2>5, <2>7, <3>1, <4>1, <4>2 DEF InStep
    <3> QED
      BY <1>5, <3>3, <3>4, <3>5 DEF IInv
  <2> QED
    BY <2>6, <2>7
<1>11. CASE whole /\ state = "BYTE" /\ state' = "COMPLETE"
            /\ \E f \in FunctionByte, n \in CountByte :
                 LET more == compute_query_length_data(f, n) IN
                 /\ header_length + 2 + compute_query_length_header(f) = msg_length_computed
                 /\ IF msg_length_computed + more > MAX_MESSAGE_LENGTH
                    THEN /\ pc' = "selectFails"
                         /\ UNCHANGED <<msg_length_computed, handed>>
                    ELSE IF more = 0 THEN complete(msg_length_computed)
                                     ELSE goOn(msg_length_computed + more)
  <2>1. PICK f \in FunctionByte, n \in CountByte :
          IF msg_length_computed + compute_query_length_data(f, n) > 256
          THEN /\ pc' = "selectFails"
               /\ UNCHANGED <<msg_length_computed, handed>>
          ELSE IF compute_query_length_data(f, n) = 0
               THEN complete(msg_length_computed)
               ELSE goOn(msg_length_computed + compute_query_length_data(f, n))
    BY <1>11 DEF MAX_MESSAGE_LENGTH
  <2>2. compute_query_length_data(f, n) \in Nat
    <3>1. f \in Functions /\ n \in 0..255
      BY AnyBytes DEF IInv
    <3>2. compute_query_length_data(f, n) \in 0..255
      BY <3>1, DataLength
    <3> QED
      BY <3>2
  <2>3. ~torn => Length(q) = msg_length_computed + compute_query_length_data(f, n)
    <3> SUFFICES ASSUME ~torn
                 PROVE  Length(q) = msg_length_computed + compute_query_length_data(f, n)
      OBVIOUS
    <3>1. f = q.function /\ n = q.count
      BY <1>6
    <3>2. msg_length_computed = 8 + compute_query_length_header(q.function)
      BY <1>1, <1>11 DEF IInv, InStep
    <3> QED
      BY <1>6, <3>1, <3>2
  <2>4. CASE msg_length_computed + compute_query_length_data(f, n) > 256
    <3>1. pc' = "selectFails" /\ UNCHANGED <<msg_length_computed, handed>> /\ torn
      BY <1>2, <1>6, <2>1, <2>2, <2>3, <2>4
    <3>2. TypeOK'
      BY <1>2, <1>7, <1>11, <3>1
    <3>3. Framing' /\ InStep'
      BY <1>1, <1>11, <3>1 DEF Framing, InStep
    <3> QED
      BY <1>5, <3>2, <3>3 DEF IInv
  <2>5. CASE /\ ~(msg_length_computed + compute_query_length_data(f, n) > 256)
             /\ compute_query_length_data(f, n) = 0
    <3>1. complete(msg_length_computed)
      BY <2>1, <2>5
    <3>2. ~torn => msg_length_computed = Length(q)
      BY <1>2, <2>3, <2>5
    <3> QED
      BY <1>9, <1>11, <3>1, <3>2
  <2>6. CASE /\ ~(msg_length_computed + compute_query_length_data(f, n) > 256)
             /\ compute_query_length_data(f, n) # 0
    <3>1. msg_length_computed' = msg_length_computed + compute_query_length_data(f, n)
          /\ UNCHANGED <<pc, handed>> /\ state' = "COMPLETE"
      BY <1>11, <2>1, <2>6 DEF goOn
    <3>2. TypeOK'
      BY <1>1, <1>2, <1>7, <2>2, <2>6, <3>1
    <3>3. Framing'
      BY <3>1 DEF Framing
    <3>4. InStep'
      <4> SUFFICES ASSUME ~torn PROVE InStep'
        BY <1>1 DEF InStep
      <4>1. handed \in 0..Len(queries) /\ start = Begin(handed + 1)
        BY <1>1 DEF IInv, InStep
      <4>2. start' = Begin(handed + 1)'
        BY <1>1, <3>1, <4>1 DEF Begin
      <4> QED
        BY <1>1, <1>6, <2>3, <3>1, <4>1, <4>2 DEF InStep
    <3> QED
      BY <1>5, <3>2, <3>3, <3>4 DEF IInv
  <2> QED
    BY <2>4, <2>5, <2>6
<1>12. CASE whole /\ state = "COMPLETE" /\ UNCHANGED state
            /\ complete(msg_length_computed)
  <2>1. ~torn => msg_length_computed = Length(q)
    BY <1>1, <1>12 DEF IInv, InStep
  <2> QED
    BY <1>9, <1>12, <2>1
<1> QED
  BY <1>8, <1>10, <1>11, <1>12 DEF recv

LEMMA NextInv == ASSUME IInv, [Next]_vars PROVE IInv'
<1>1. CASE UNCHANGED vars
  <2>1. UNCHANGED <<queries, sent, open, arrived, pc, read, start, state,
                    msg_length_computed, handed, torn>>
    BY <1>1 DEF vars, client, server
  <2> QED
    BY <2>1 DEF IInv, TypeOK, Layout, Framing, InStep, Begin, p_msg_length
<1> QED
  BY <1>1, SendStep, CloseStep, ArriveStep, RecvStep, TimeoutStep,
     ProcessMessageStep, ConnectionClosedStep DEF Next

LEMMA Invariance == Spec => []IInv
  BY InitInv, NextInv, PTL DEF Spec

-----------------------------------------------------------------------------
(* Results.                                                                *)

(* modbus.cc:456-458: no message grows beyond the length computed for it,  *)
(* nor beyond the array it is received in, whatever bytes arrive.          *)
THEOREM TypeCorrect == Spec => []TypeOK
<1>1. IInv => TypeOK
  BY DEF IInv
<1> QED
  BY <1>1, Invariance, PTL

(* modbus.cc:494-565: until a message times out half-way, processMessage   *)
(* gets the queries of the client, whole and one by one, for any number of *)
(* queries of any length, however TCP cuts the stream.                     *)
THEOREM WholeQueriesHold == Spec => []WholeQueries
<1>1. IInv => WholeQueries
  BY DEF IInv, InStep, WholeQueries
<1> QED
  BY <1>1, Invariance, PTL
=============================================================================
