----------------------------- MODULE UDPAppProofs -----------------------------
(***************************************************************************)
(* Proofs about UDPApp, for every number of clients, sockets, fragments,   *)
(* requests and replies, and every limit of threads.                       *)
(***************************************************************************)
EXTENDS UDPApp, FiniteSetTheorems, TLAPS

(***************************************************************************)
(* The inductive invariant: besides the counters it says that only clients *)
(* have client threads and sockets to servers, and that replies carry      *)
(* numbers above 1, because server threads start to count at 1.            *)
(***************************************************************************)
Types ==
  /\ thread \in [Sockets -> Thread \cup {NULL}]
  /\ endpoint \in [Sockets -> Endpoint \cup {NULL}]
  /\ welcome \in [Apps -> BOOLEAN] /\ threadCount \in [Apps -> Int]
  /\ busy \subseteq Clients /\ net \subseteq Packet /\ aborted \in BOOLEAN

ClientsOnly ==
  \A s \in Sockets :
    /\ thread[s] # NULL /\ ~thread[s].isServer => thread[s].app \in Clients
    /\ endpoint[s] # NULL /\ ~endpoint[s].isServer => endpoint[s].app \in Clients

RepliesNumbered ==
  /\ \A s \in Sockets : thread[s] # NULL /\ thread[s].isServer => thread[s].sent >= 1
  /\ \A p \in net : p.isReply => p.number >= 2

(* OneThreadPerTransmission without cardinalities.                         *)
Owns(c, s) == thread[s] # NULL /\ thread[s].app = c /\ ~thread[s].isServer

OneOwned ==
  \A c \in Clients :
    /\ c \notin busy => \A s \in Sockets : ~Owns(c, s)
    /\ c \in busy => \E s \in Sockets : \A t \in Sockets : Owns(c, t) <=> t = s

IInv == Types /\ Admission /\ ClientsOnly /\ RepliesNumbered /\ OneOwned

-----------------------------------------------------------------------------
(* Facts about the constants, and the invariant in its first-order form.   *)

LEMMA Constants ==
  /\ Server \in Apps /\ Clients \subseteq Apps /\ Server \notin Clients
  /\ MaxThreads \in Nat \ {0} /\ Fragments \in Nat \ {0} /\ MaxReplies \in Nat
  /\ IsFiniteSet(Sockets) /\ RequestsPerSession \subseteq Nat
  /\ NULL \notin Thread /\ NULL \notin Endpoint
BY UDPAppAssumption, NullAssumption DEF Apps

LEMMA Finite ==
  ASSUME NEW a
  PROVE  IsFiniteSet(ThreadsOf(a)) /\ Cardinality(ThreadsOf(a)) \in Nat
<1>1. ThreadsOf(a) \in SUBSET Sockets
  BY DEF ThreadsOf
<1>2. IsFiniteSet(ThreadsOf(a))
  BY <1>1, Constants, FS_Subset
<1> QED
  BY <1>2, FS_CardinalityType

(* The counters stay exact when one thread is added or removed, and when   *)
(* one takes the place of another.                                         *)
LEMMA CountAdd ==
  ASSUME NEW a, NEW s \in Sockets, s \notin ThreadsOf(a),
         ThreadsOf(a)' = ThreadsOf(a) \cup {s}
  PROVE  Cardinality(ThreadsOf(a)') = Cardinality(ThreadsOf(a)) + 1
BY Finite, FS_AddElement

LEMMA CountRemove ==
  ASSUME NEW a, NEW s \in Sockets, s \in ThreadsOf(a),
         ThreadsOf(a)' = ThreadsOf(a) \ {s}
  PROVE  Cardinality(ThreadsOf(a)') = Cardinality(ThreadsOf(a)) - 1
BY Finite, FS_RemoveElement

LEMMA CountReplace ==
  ASSUME NEW a, NEW s \in Sockets, NEW r \in Sockets,
         s \in ThreadsOf(a), r \notin ThreadsOf(a),
         ThreadsOf(a)' = (ThreadsOf(a) \ {s}) \cup {r}
  PROVE  Cardinality(ThreadsOf(a)') = Cardinality(ThreadsOf(a))
<1> DEFINE rest == ThreadsOf(a) \ {s}
<1>1. IsFiniteSet(rest) /\ Cardinality(rest) = Cardinality(ThreadsOf(a)) - 1
  BY Finite, FS_RemoveElement
<1>2. r \notin rest
  OBVIOUS
<1>3. Cardinality(rest \cup {r}) = Cardinality(rest) + 1
  BY <1>1, <1>2, FS_AddElement
<1> QED
  BY <1>1, <1>3, Finite

LEMMA OwnedIsOneThread == OneOwned => OneThreadPerTransmission
<1> SUFFICES ASSUME OneOwned, NEW c \in Clients
             PROVE  Cardinality({s \in ThreadsOf(c) : ~thread[s].isServer})
                      = IF c \in busy THEN 1 ELSE 0
  BY DEF OneThreadPerTransmission
<1> DEFINE own == {s \in ThreadsOf(c) : ~thread[s].isServer}
<1>0. own = {s \in Sockets : Owns(c, s)}
  BY DEF ThreadsOf, Owns
<1>1. CASE c \in busy
  <2>1. PICK s \in Sockets : \A t \in Sockets : Owns(c, t) <=> t = s
    BY <1>1 DEF OneOwned
  <2>2. own = {s}
    BY <1>0, <2>1
  <2> QED
    BY <1>1, <2>2, FS_Singleton
<1>2. CASE c \notin busy
  <2>1. own = {}
    BY <1>0, <1>2 DEF OneOwned
  <2> QED
    BY <1>2, <2>1, FS_EmptySet
<1> QED
  BY <1>1, <1>2

(* TypeOK says that the counters never get negative.                       *)
LEMMA IInvTypeOK == IInv => TypeOK
<1> SUFFICES ASSUME IInv PROVE TypeOK
  OBVIOUS
<1>1. \A a \in Apps : threadCount[a] \in Nat
  BY Finite DEF IInv, Admission
<1>2. threadCount \in [Apps -> Nat]
  BY <1>1 DEF IInv, Types
<1> QED
  BY <1>2 DEF IInv, Types, TypeOK

-----------------------------------------------------------------------------
(* Initial states.                                                         *)

LEMMA InitIInv == Init => IInv
<1> SUFFICES ASSUME Init PROVE IInv
  OBVIOUS
<1>1. Types
  <2>1. /\ thread \in [Sockets -> Thread \cup {NULL}]
        /\ endpoint \in [Sockets -> Endpoint \cup {NULL}]
    BY DEF Init
  <2>2. welcome \in [Apps -> BOOLEAN]
    BY Zenon DEF Init
  <2>3. threadCount \in [Apps -> Int]
    BY DEF Init
  <2>4. busy \subseteq Clients /\ net \subseteq Packet /\ aborted \in BOOLEAN
    BY DEF Init
  <2> QED
    BY <2>1, <2>2, <2>3, <2>4 DEF Types
<1>2. Admission
  <2> SUFFICES ASSUME NEW a \in Apps
               PROVE  /\ threadCount[a] = Cardinality(ThreadsOf(a))
                      /\ welcome[a] <=> (a = Server => threadCount[a] < MaxThreads)
    BY DEF Admission
  <2>1. ThreadsOf(a) = {}
    BY DEF Init, ThreadsOf
  <2> QED
    BY <2>1, FS_EmptySet, Constants DEF Init
<1>3. ClientsOnly /\ RepliesNumbered
  BY DEF Init, ClientsOnly, RepliesNumbered
<1>4. OneOwned
  BY DEF Init, OneOwned, Owns
<1> QED
  BY <1>1, <1>2, <1>3, <1>4 DEF IInv

-----------------------------------------------------------------------------
(* Steps that neither add nor remove a thread.                             *)

SameThreads ==
  \A s \in Sockets :
    /\ thread'[s] = NULL <=> thread[s] = NULL
    /\ thread[s] # NULL =>
         /\ thread'[s].app = thread[s].app
         /\ thread'[s].isServer = thread[s].isServer

LEMMA QuietStep ==
  ASSUME IInv, SameThreads, UNCHANGED <<endpoint, welcome, threadCount, busy>>,
         Types', RepliesNumbered'
  PROVE  IInv'
<1>1. \A a : ThreadsOf(a)' = ThreadsOf(a)
  BY DEF SameThreads, ThreadsOf
<1>2. Admission'
  BY <1>1 DEF IInv, Admission
<1>3. ClientsOnly'
  BY DEF IInv, ClientsOnly, SameThreads
<1>4. \A c, s : s \in Sockets => (Owns(c, s)' <=> Owns(c, s))
  BY DEF Owns, SameThreads
<1>5. OneOwned'
  BY <1>4 DEF IInv, OneOwned
<1> QED
  BY <1>2, <1>3, <1>5 DEF IInv

(* transmit adds packets that are of the right kind.                       *)
LEMMA Transmit ==
  ASSUME NEW packets, transmit(packets), packets \subseteq Packet, net \subseteq Packet
  PROVE  net' \subseteq Packet /\ \A p \in net' : p \in net \/ p \in packets
BY DEF transmit

LEMMA ThreadRecord ==
  ASSUME Types, NEW s \in Sockets, thread[s] # NULL
  PROVE  /\ thread[s] \in Thread
         /\ thread[s].app \in Apps /\ thread[s].peer \in Apps
         /\ thread[s].isServer \in BOOLEAN
         /\ thread[s].left \in Int /\ thread[s].sent \in Nat
         /\ thread[s].state \in {"CONNECTED", "DISCONNECTED", "FINISH"}
BY DEF Types, Thread

(* What the steps of a thread write into its record.                       *)
States == {"CONNECTED", "DISCONNECTED", "FINISH"}

LEMMA SentRecord ==
  ASSUME NEW t \in Thread, NEW state \in States, NEW left \in Int
  PROVE  LET u == [t EXCEPT !.left = left, !.state = state]
         IN  /\ u \in Thread
             /\ u.app = t.app /\ u.isServer = t.isServer /\ u.sent = t.sent
<1> DEFINE u == [t EXCEPT !.left = left, !.state = state]
<1>1. u \in Thread
  BY DEF Thread, States
<1>2. u.app = t.app /\ u.isServer = t.isServer /\ u.sent = t.sent
  BY DEF Thread, States
<1> QED
  BY <1>1, <1>2

LEMMA SendRequest ==
  ASSUME IInv, NEW s \in Sockets, thread[s] # NULL, ~thread[s].isServer,
         sendRequest(s), UNCHANGED <<endpoint, welcome, threadCount, busy, aborted>>
  PROVE  IInv'
<1> DEFINE t == thread[s]
           state == IF t.left - 1 <= 0 THEN "DISCONNECTED" ELSE t.state
           u == [t EXCEPT !.left = t.left - 1, !.state = state]
<1>0. Types /\ RepliesNumbered
  BY DEF IInv
<1>1. thread' = [thread EXCEPT ![s] = u]
  BY <1>0 DEF sendRequest, Types
<1>2. u \in Thread /\ u.app = t.app /\ u.isServer = t.isServer /\ u.sent = t.sent
  <2>1. t \in Thread /\ t.left - 1 \in Int /\ state \in States
    BY <1>0, ThreadRecord DEF States
  <2> HIDE DEF t, state
  <2> QED
    BY <2>1, SentRecord DEF u
<1>3. PICK r \in 0..MaxReplies :
        transmit({[from |-> t.app, to |-> t.peer, isReply |-> FALSE, number |-> i,
                   replies |-> r, tag |-> t.left] : i \in 1..Fragments})
  BY DEF sendRequest
<1> DEFINE packets == {[from |-> t.app, to |-> t.peer, isReply |-> FALSE, number |-> i,
                        replies |-> r, tag |-> t.left] : i \in 1..Fragments}
<1>4. \A p \in packets : p \in Packet /\ ~p.isReply
  <2> SUFFICES ASSUME NEW i \in 1..Fragments
               PROVE  LET p == [from |-> t.app, to |-> t.peer, isReply |-> FALSE,
                                number |-> i, replies |-> r, tag |-> t.left]
                      IN  p \in Packet /\ ~p.isReply
    OBVIOUS
  <2>1. /\ t.app \in Apps /\ t.peer \in Apps /\ t.left \in Int
        /\ i \in Nat /\ r \in Nat /\ FALSE \in BOOLEAN
    BY <1>0, ThreadRecord, Constants
  <2> HIDE DEF t
  <2> QED
    BY <2>1 DEF Packet
<1>5. net' \subseteq Packet /\ \A p \in net' : p \in net \/ p \in packets
  BY <1>0, <1>3, <1>4, Transmit DEF Types
<1>6. u # NULL
  BY <1>2, Constants
<1>7. SameThreads
  BY <1>0, <1>1, <1>2, <1>6 DEF Types, SameThreads
<1>8. Types'
  BY <1>0, <1>1, <1>2, <1>5 DEF Types
<1>9. RepliesNumbered'
  BY <1>0, <1>1, <1>2, <1>4, <1>5 DEF Types, RepliesNumbered
<1> QED
  BY <1>7, <1>8, <1>9, QuietStep

LEMMA SendReply ==
  ASSUME IInv, NEW s \in Sockets, thread[s] # NULL, thread[s].isServer,
         sendReply(s), UNCHANGED <<endpoint, welcome, threadCount, busy, aborted>>
  PROVE  IInv'
<1> DEFINE t == thread[s]
           state == IF t.left - 1 <= 0 THEN "DISCONNECTED" ELSE t.state
           left == t.left - 1
           sent == t.sent + 1
           u == [t EXCEPT !.left = left, !.sent = sent, !.state = state]
           packet == [from |-> t.app, to |-> t.peer, isReply |-> TRUE,
                      number |-> t.sent + 1, replies |-> 0, tag |-> t.left]
<1>0. Types /\ RepliesNumbered
  BY DEF IInv
<1>1. thread' = [thread EXCEPT ![s] = u]
  BY <1>0 DEF sendReply, Types
<1>2. u \in Thread /\ u.app = t.app /\ u.isServer = t.isServer /\ u.sent = sent
  <2>1. t \in Thread /\ left \in Int /\ sent \in Nat /\ state \in States
    BY <1>0, ThreadRecord DEF States
  <2> HIDE DEF t, state, left, sent
  <2>2. u \in Thread
    BY <2>1 DEF Thread, States
  <2>3. u.app = t.app /\ u.isServer = t.isServer /\ u.sent = sent
    BY <2>1 DEF Thread, States
  <2> QED
    BY <2>2, <2>3
<1>3. transmit({packet})
  BY DEF sendReply
<1>4. packet \in Packet /\ packet.number >= 2
  BY <1>0, ThreadRecord DEF Packet, RepliesNumbered
<1>5. net' \subseteq Packet /\ \A p \in net' : p \in net \/ p \in {packet}
  BY <1>0, <1>3, <1>4, Transmit DEF Types
<1>6. u # NULL
  BY <1>2, Constants
<1>7. SameThreads
  BY <1>0, <1>1, <1>2, <1>6 DEF Types, SameThreads
<1>8. Types'
  BY <1>0, <1>1, <1>2, <1>5 DEF Types
<1>9. RepliesNumbered'
  BY <1>0, <1>1, <1>2, <1>4, <1>5, ThreadRecord DEF Types, RepliesNumbered
<1> QED
  BY <1>7, <1>8, <1>9, QuietStep

LEMMA LastRequestAnswered ==
  ASSUME IInv, NEW s \in Sockets, thread[s] # NULL,
         thread' = [thread EXCEPT ![s].state = "FINISH"],
         UNCHANGED <<endpoint, welcome, threadCount, busy, net, aborted>>
  PROVE  IInv'
<1> DEFINE u == [thread[s] EXCEPT !.state = "FINISH"]
<1>0. Types /\ RepliesNumbered
  BY DEF IInv
<1>1. thread' = [thread EXCEPT ![s] = u]
  BY <1>0 DEF Types
<1>2. u \in Thread /\ u.app = thread[s].app /\ u.isServer = thread[s].isServer
        /\ u.sent = thread[s].sent
  BY <1>0, ThreadRecord DEF Thread
<1>3. u # NULL
  BY <1>2, Constants
<1>4. SameThreads
  BY <1>0, <1>1, <1>2, <1>3 DEF Types, SameThreads
<1>5. Types'
  BY <1>0, <1>1, <1>2 DEF Types
<1>6. RepliesNumbered'
  BY <1>0, <1>1, <1>2 DEF Types, RepliesNumbered
<1> QED
  BY <1>4, <1>5, <1>6, QuietStep

-----------------------------------------------------------------------------
(* Steps that add a thread, remove one, or put one in another's place: what *)
(* they do to the sets of threads.                                         *)

LEMMA ThreadAdded ==
  ASSUME Types, NEW r \in Sockets, thread[r] = NULL, NEW new \in Thread,
         thread' = [thread EXCEPT ![r] = new]
  PROVE  \A a : /\ r \notin ThreadsOf(a)
                /\ ThreadsOf(a)' = IF a = new.app THEN ThreadsOf(a) \cup {r}
                                                  ELSE ThreadsOf(a)
<1>1. new # NULL
  BY Constants
<1> QED
  BY <1>1 DEF Types, ThreadsOf

LEMMA ThreadRemoved ==
  ASSUME Types, NEW s \in Sockets, thread[s] # NULL,
         thread' = [thread EXCEPT ![s] = NULL]
  PROVE  \A a : /\ s \in ThreadsOf(a) <=> a = thread[s].app
                /\ ThreadsOf(a)' = IF a = thread[s].app THEN ThreadsOf(a) \ {s}
                                                        ELSE ThreadsOf(a)
BY DEF Types, ThreadsOf

LEMMA ThreadReplaced ==
  ASSUME Types, NEW s \in Sockets, thread[s] # NULL,
         NEW r \in Sockets, thread[r] = NULL, NEW new \in Thread,
         new.app = thread[s].app,
         thread' = [[thread EXCEPT ![s] = NULL] EXCEPT ![r] = new]
  PROVE  \A a : /\ r \notin ThreadsOf(a) /\ (s \in ThreadsOf(a) <=> a = thread[s].app)
                /\ ThreadsOf(a)' = IF a = new.app THEN (ThreadsOf(a) \ {s}) \cup {r}
                                                  ELSE ThreadsOf(a)
<1>1. new # NULL /\ r # s
  BY Constants
<1>2. \A x \in Sockets : thread'[x] = IF x = r THEN new
                                      ELSE IF x = s THEN NULL ELSE thread[x]
  BY DEF Types
<1> QED
  BY <1>1, <1>2 DEF ThreadsOf

(* The records of new threads and sockets.                                 *)
LEMMA NewRecords ==
  ASSUME NEW a \in Apps, NEW peer \in Apps, NEW isServer \in BOOLEAN,
         NEW left \in Int, NEW sent \in Nat
  PROVE  /\ [app |-> a, peer |-> peer, isServer |-> isServer,
             state |-> "CONNECTED", left |-> left, sent |-> sent] \in Thread
         /\ [app |-> a, peer |-> peer, isServer |-> isServer] \in Endpoint
BY DEF Thread, Endpoint

(* Sockets that are closed, or left alone, stay of their kind.             *)
Closing(sockets) ==
  /\ sockets \in [Sockets -> Endpoint \cup {NULL}]
  /\ \A x \in Sockets : sockets[x] = endpoint[x] \/ sockets[x] = NULL

LEMMA ClosingSockets ==
  ASSUME Types, NEW s \in Sockets
  PROVE  Closing(endpoint) /\ Closing([endpoint EXCEPT ![s] = NULL])
BY DEF Types, Closing

-----------------------------------------------------------------------------
(* The steps of a client: a session starts, a session ends.                *)

LEMMA TransmissionStart ==
  ASSUME IInv, NEW c \in Clients, transmissionStart(c)
  PROVE  IInv'
<1>0. Types /\ Admission /\ ClientsOnly /\ RepliesNumbered /\ OneOwned
  BY DEF IInv
<1>1. PICK r \in Sockets, requests \in RequestsPerSession :
        /\ FreeSocket(r)
        /\ endpoint' = [endpoint EXCEPT ![r] =
             [app |-> c, peer |-> Server, isServer |-> FALSE]]
        /\ thread' = [thread EXCEPT ![r] =
             [app |-> c, peer |-> Server, isServer |-> FALSE,
              state |-> "CONNECTED", left |-> requests, sent |-> 0]]
  BY DEF transmissionStart, startThread
<1> DEFINE new == [app |-> c, peer |-> Server, isServer |-> FALSE,
                   state |-> "CONNECTED", left |-> requests, sent |-> 0]
           socket == [app |-> c, peer |-> Server, isServer |-> FALSE]
<1>2. /\ c \notin busy /\ busy' = busy \cup {c}
      /\ threadCount' = [threadCount EXCEPT ![c] = @ + 1]
      /\ UNCHANGED <<welcome, net, aborted>> /\ thread[r] = NULL
  BY <1>1 DEF transmissionStart, FreeSocket
<1>3. new \in Thread /\ socket \in Endpoint /\ c \in Apps
  <2>1. c \in Apps /\ Server \in Apps /\ FALSE \in BOOLEAN /\ requests \in Int /\ 0 \in Nat
    BY Constants
  <2> QED
    BY <2>1, NewRecords
<1>4. /\ new.app = c /\ new.isServer = FALSE /\ new # NULL
      /\ socket.app = c /\ socket.isServer = FALSE
  BY <1>3, Constants
<1>5. thread' = [thread EXCEPT ![r] = new] /\ endpoint' = [endpoint EXCEPT ![r] = socket]
  BY <1>1
<1> HIDE DEF new, socket
<1>6. Types'
  BY <1>0, <1>2, <1>3, <1>5 DEF Types
<1>7. Admission'
  <2> SUFFICES ASSUME NEW a \in Apps
               PROVE  /\ threadCount'[a] = Cardinality(ThreadsOf(a)')
                      /\ welcome'[a] <=> (a = Server => threadCount'[a] < MaxThreads)
    BY DEF Admission
  <2>1. CASE a = c
    <3>1. Cardinality(ThreadsOf(a)') = Cardinality(ThreadsOf(a)) + 1
      BY <1>0, <1>2, <1>3, <1>4, <1>5, <2>1, ThreadAdded, CountAdd
    <3> QED
      BY <1>0, <1>2, <2>1, <3>1, Constants DEF Types, Admission
  <2>2. CASE a # c
    <3>1. ThreadsOf(a)' = ThreadsOf(a)
      BY <1>0, <1>2, <1>3, <1>4, <1>5, <2>2, ThreadAdded
    <3> QED
      BY <1>0, <1>2, <2>2, <3>1 DEF Types, Admission
  <2> QED
    BY <2>1, <2>2
<1>8. ClientsOnly'
  BY <1>0, <1>2, <1>3, <1>4, <1>5 DEF Types, ClientsOnly
<1>9. RepliesNumbered'
  BY <1>0, <1>2, <1>4, <1>5 DEF Types, RepliesNumbered
<1>10. OneOwned'
  <2>1. \A a : \A s \in Sockets :
          Owns(a, s)' <=> (Owns(a, s) \/ (a = c /\ s = r))
    BY <1>0, <1>2, <1>4, <1>5 DEF Types, Owns
  <2> QED
    BY <1>0, <1>2, <2>1 DEF OneOwned
<1> QED
  BY <1>6, <1>7, <1>8, <1>9, <1>10 DEF IInv

(* A client has at most the thread that its InetUser waits for.            *)
LEMMA OwnerIsBusy ==
  ASSUME IInv, NEW s \in Sockets, thread[s] # NULL, ~thread[s].isServer
  PROVE  /\ thread[s].app \in Clients /\ thread[s].app \in busy
         /\ \A x \in Sockets : Owns(thread[s].app, x) <=> x = s
<1>1. thread[s].app \in Clients
  BY DEF IInv, ClientsOnly
<1>2. Owns(thread[s].app, s)
  BY DEF Owns
<1> QED
  BY <1>1, <1>2 DEF IInv, OneOwned

LEMMA TransmissionOver ==
  ASSUME IInv, NEW s \in Sockets, thread[s] # NULL, ~thread[s].isServer,
         NEW sockets, Closing(sockets),
         thread' = [thread EXCEPT ![s] = NULL], endpoint' = sockets,
         threadCount' = [threadCount EXCEPT ![thread[s].app] = @ - 1],
         rebind(thread[s].app), busy' = busy \ {thread[s].app},
         net' \subseteq net, aborted' = aborted
  PROVE  IInv'
<1>c. PICK c : c = thread[s].app
  OBVIOUS
<1>0. Types /\ Admission /\ ClientsOnly /\ RepliesNumbered /\ OneOwned
  BY DEF IInv
<1>1. c \in Clients /\ c \in busy /\ c \in Apps /\ c # Server
  BY <1>c, OwnerIsBusy, Constants
<1>2. welcome' = welcome
  BY <1>c, <1>1 DEF rebind, maxThreadCount
<1>3. Types'
  BY <1>c, <1>0, <1>1, <1>2 DEF Types, Closing
<1>4. Admission'
  <2> SUFFICES ASSUME NEW a \in Apps
               PROVE  /\ threadCount'[a] = Cardinality(ThreadsOf(a)')
                      /\ welcome'[a] <=> (a = Server => threadCount'[a] < MaxThreads)
    BY DEF Admission
  <2>1. CASE a = c
    <3>1. Cardinality(ThreadsOf(a)') = Cardinality(ThreadsOf(a)) - 1
      BY <1>c, <1>0, <2>1, ThreadRemoved, CountRemove
    <3> QED
      BY <1>c, <1>0, <1>1, <1>2, <2>1, <3>1 DEF Types, Admission
  <2>2. CASE a # c
    <3>1. ThreadsOf(a)' = ThreadsOf(a)
      BY <1>c, <1>0, <2>2, ThreadRemoved
    <3> QED
      BY <1>c, <1>0, <1>1, <1>2, <2>2, <3>1 DEF Types, Admission
  <2> QED
    BY <2>1, <2>2
<1>5. ClientsOnly'
  BY <1>0 DEF Types, Closing, ClientsOnly
<1>6. RepliesNumbered'
  BY <1>0 DEF Types, RepliesNumbered
<1>7. OneOwned'
  <2>1. \A a : \A x \in Sockets : Owns(a, x)' <=> (Owns(a, x) /\ x # s)
    BY <1>0 DEF Types, Owns
  <2>2. \A x \in Sockets : ~Owns(c, x)'
    BY <1>c, <2>1, OwnerIsBusy
  <2>3. \A a \in Clients : a # c => \A x \in Sockets : Owns(a, x)' <=> Owns(a, x)
    BY <1>c, <2>1 DEF Owns
  <2>4. busy' = busy \ {c}
    BY <1>c
  <2> QED
    BY <1>0, <2>2, <2>3, <2>4 DEF OneOwned
<1> QED
  BY <1>3, <1>4, <1>5, <1>6, <1>7 DEF IInv

LEMMA NextTransmission ==
  ASSUME IInv, NEW s \in Sockets, thread[s] # NULL, ~thread[s].isServer,
         NEW sockets, Closing(sockets),
         startThread(thread[s].app, [thread EXCEPT ![s] = NULL], sockets),
         rebind(thread[s].app), UNCHANGED <<threadCount, busy, aborted>>,
         net' \subseteq net
  PROVE  IInv'
<1>c. PICK c : c = thread[s].app
  OBVIOUS
<1>0. Types /\ Admission /\ ClientsOnly /\ RepliesNumbered /\ OneOwned
  BY DEF IInv
<1>1. c \in Clients /\ c \in busy /\ c \in Apps /\ c # Server
  BY <1>c, OwnerIsBusy, Constants
<1>2. welcome' = welcome
  BY <1>c, <1>1 DEF rebind, maxThreadCount
<1>3. PICK r \in Sockets, requests \in RequestsPerSession :
        /\ FreeSocket(r)
        /\ endpoint' = [sockets EXCEPT ![r] =
             [app |-> c, peer |-> Server, isServer |-> FALSE]]
        /\ thread' = [[thread EXCEPT ![s] = NULL] EXCEPT ![r] =
             [app |-> c, peer |-> Server, isServer |-> FALSE,
              state |-> "CONNECTED", left |-> requests, sent |-> 0]]
  BY <1>c DEF startThread
<1> DEFINE new == [app |-> c, peer |-> Server, isServer |-> FALSE,
                   state |-> "CONNECTED", left |-> requests, sent |-> 0]
           socket == [app |-> c, peer |-> Server, isServer |-> FALSE]
<1>4. new \in Thread /\ socket \in Endpoint
  <2>1. Server \in Apps /\ FALSE \in BOOLEAN /\ requests \in Int /\ 0 \in Nat
    BY Constants
  <2> QED
    BY <1>1, <2>1, NewRecords
<1>5. /\ new.app = c /\ new.isServer = FALSE /\ new # NULL
      /\ socket.app = c /\ socket.isServer = FALSE
  BY <1>4, Constants
<1>6. /\ thread' = [[thread EXCEPT ![s] = NULL] EXCEPT ![r] = new]
      /\ endpoint' = [sockets EXCEPT ![r] = socket]
      /\ thread[r] = NULL /\ r # s
  BY <1>3 DEF FreeSocket
<1> HIDE DEF new, socket
<1>7. \A x \in Sockets : /\ thread'[x] = IF x = r THEN new
                                         ELSE IF x = s THEN NULL ELSE thread[x]
                         /\ endpoint'[x] = IF x = r THEN socket ELSE sockets[x]
  BY <1>0, <1>6 DEF Types, Closing
<1>8. Types'
  BY <1>0, <1>2, <1>4, <1>6 DEF Types, Closing
<1>9. Admission'
  <2> SUFFICES ASSUME NEW a \in Apps
               PROVE  /\ threadCount'[a] = Cardinality(ThreadsOf(a)')
                      /\ welcome'[a] <=> (a = Server => threadCount'[a] < MaxThreads)
    BY DEF Admission
  <2>1. Cardinality(ThreadsOf(a)') = Cardinality(ThreadsOf(a))
    <3>1. \A b : /\ r \notin ThreadsOf(b) /\ (s \in ThreadsOf(b) <=> b = thread[s].app)
                 /\ ThreadsOf(b)' = IF b = new.app THEN (ThreadsOf(b) \ {s}) \cup {r}
                                                   ELSE ThreadsOf(b)
      <4>1. new.app = thread[s].app
        BY <1>5, <1>c
      <4> QED
        BY <1>0, <1>4, <1>6, <4>1, ThreadReplaced
    <3>2. CASE a = c
      <4>1. /\ r \notin ThreadsOf(a) /\ s \in ThreadsOf(a)
            /\ ThreadsOf(a)' = (ThreadsOf(a) \ {s}) \cup {r}
        BY <1>5, <1>c, <3>1, <3>2
      <4> QED
        BY <4>1, CountReplace
    <3>3. CASE a # c
      <4>1. ThreadsOf(a)' = ThreadsOf(a)
        BY <1>5, <3>1, <3>3
      <4> QED
        BY <4>1
    <3> QED
      BY <3>2, <3>3
  <2> QED
    BY <1>0, <1>2, <2>1 DEF Admission
<1>10. ClientsOnly'
  BY <1>0, <1>1, <1>5, <1>7 DEF Types, Closing, ClientsOnly
<1>11. RepliesNumbered'
  BY <1>0, <1>5, <1>7 DEF Types, RepliesNumbered
<1>12. OneOwned'
  <2>1. \A a : \A x \in Sockets :
          Owns(a, x)' <=> ((Owns(a, x) /\ x # s) \/ (a = c /\ x = r))
    BY <1>0, <1>5, <1>6, <1>7 DEF Owns
  <2>2. \A x \in Sockets : Owns(c, x)' <=> x = r
    BY <1>c, <2>1, OwnerIsBusy
  <2>3. \A a \in Clients : a # c => \A x \in Sockets : Owns(a, x)' <=> Owns(a, x)
    BY <1>c, <2>1 DEF Owns
  <2> QED
    BY <1>0, <1>1, <2>2, <2>3 DEF OneOwned
<1> QED
  BY <1>8, <1>9, <1>10, <1>11, <1>12 DEF IInv

LEMMA ClientRemoved ==
  ASSUME IInv, NEW s \in Sockets, thread[s] # NULL, ~thread[s].isServer,
         NEW sockets, Closing(sockets), transmissionDone(s, sockets),
         net' \subseteq net, aborted' = aborted
  PROVE  IInv'
BY TransmissionOver, NextTransmission DEF transmissionDone

-----------------------------------------------------------------------------
(* The steps of a server: a request starts a thread, the thread ends.      *)

LEMMA ServerRemoved ==
  ASSUME IInv, NEW s \in Sockets, thread[s] # NULL, thread[s].isServer,
         NEW sockets, Closing(sockets), removeThread(s, sockets),
         net' \subseteq net, aborted' = aborted
  PROVE  IInv'
<1>c. PICK c : c = thread[s].app
  OBVIOUS
<1>0. Types /\ Admission /\ ClientsOnly /\ RepliesNumbered /\ OneOwned
  BY DEF IInv
<1>1. /\ c \in Apps /\ thread' = [thread EXCEPT ![s] = NULL] /\ endpoint' = sockets
      /\ threadCount' = [threadCount EXCEPT ![c] = @ - 1] /\ busy' = busy
  BY <1>c, <1>0, ThreadRecord DEF removeThread
<1>2. welcome' = IF maxThreadCount(c, threadCount[c])
                 THEN [welcome EXCEPT ![c] = TRUE] ELSE welcome
  BY <1>c DEF removeThread, rebind
<1>3. Types'
  <2>1. welcome' \in [Apps -> BOOLEAN]
    BY <1>0, <1>2 DEF Types
  <2>2. threadCount' \in [Apps -> Int]
    BY <1>0, <1>1 DEF Types
  <2> QED
    BY <1>0, <1>1, <2>1, <2>2 DEF Types, Closing
<1>4. Admission'
  <2> SUFFICES ASSUME NEW a \in Apps
               PROVE  /\ threadCount'[a] = Cardinality(ThreadsOf(a)')
                      /\ welcome'[a] <=> (a = Server => threadCount'[a] < MaxThreads)
    BY DEF Admission
  <2>1. CASE a = c
    <3>1. Cardinality(ThreadsOf(a)') = Cardinality(ThreadsOf(a)) - 1
      BY <1>c, <1>0, <1>1, <2>1, ThreadRemoved, CountRemove
    <3>2. threadCount[a] \in Int /\ threadCount'[a] = threadCount[a] - 1
      BY <1>0, <1>1, <2>1 DEF Types
    <3>3. CASE a = Server /\ threadCount[a] = MaxThreads
      <4>1. welcome'[a] = TRUE
        BY <1>0, <1>2, <2>1, <3>3 DEF Types, maxThreadCount
      <4> QED
        BY <1>0, <3>1, <3>2, <3>3, <4>1, Constants DEF Admission
    <3>4. CASE ~(a = Server /\ threadCount[a] = MaxThreads)
      <4>1. welcome'[a] = welcome[a]
        BY <1>2, <2>1, <3>4 DEF maxThreadCount
      <4>2. welcome[a] <=> (a = Server => threadCount[a] < MaxThreads)
        BY <1>0 DEF Admission
      <4>3. (a = Server => threadCount[a] < MaxThreads)
              <=> (a = Server => threadCount'[a] < MaxThreads)
        BY <3>2, <3>4, Constants
      <4> QED
        BY <1>0, <3>1, <3>2, <4>1, <4>2, <4>3 DEF Admission
    <3> QED
      BY <3>3, <3>4
  <2>2. CASE a # c
    <3>1. ThreadsOf(a)' = ThreadsOf(a)
      BY <1>c, <1>0, <1>1, <2>2, ThreadRemoved
    <3>2. welcome'[a] = welcome[a] /\ threadCount'[a] = threadCount[a]
      BY <1>0, <1>1, <1>2, <2>2 DEF Types
    <3> QED
      BY <1>0, <3>1, <3>2 DEF Admission
  <2> QED
    BY <2>1, <2>2
<1>5. ClientsOnly'
  BY <1>0, <1>1 DEF Types, Closing, ClientsOnly
<1>6. RepliesNumbered'
  BY <1>0, <1>1 DEF Types, RepliesNumbered
<1>7. OneOwned'
  <2>1. \A a : \A x \in Sockets : Owns(a, x)' <=> Owns(a, x)
    BY <1>0, <1>1 DEF Types, Owns
  <2> QED
    BY <1>0, <1>1, <2>1 DEF OneOwned
<1> QED
  BY <1>3, <1>4, <1>5, <1>6, <1>7 DEF IInv

LEMMA StartServer ==
  ASSUME IInv, NEW p \in net, startServer(p)
  PROVE  IInv'
<1>0. Types /\ Admission /\ ClientsOnly /\ RepliesNumbered /\ OneOwned
  BY DEF IInv
<1>1. PICK r \in Sockets :
        /\ FreeSocket(r)
        /\ endpoint' = [endpoint EXCEPT ![r] =
             [app |-> p.to, peer |-> p.from, isServer |-> TRUE]]
        /\ thread' = newServerThread(r, p)
  BY DEF startServer
<1> DEFINE new == [app |-> p.to, peer |-> p.from, isServer |-> TRUE,
                   state |-> "CONNECTED", left |-> p.replies, sent |-> p.number]
           socket == [app |-> p.to, peer |-> p.from, isServer |-> TRUE]
<1>2. /\ p.to \in Apps /\ p.from \in Apps /\ p.number = 1
      /\ p.replies \in Int /\ p.number \in Nat
  <2>1. p \in Packet
    BY <1>0 DEF Types
  <2>2. p.to \in Apps /\ p.from \in Apps /\ p.replies \in Nat
    BY <2>1 DEF Packet
  <2> QED
    BY <2>2 DEF startServer
<1>3. new \in Thread /\ socket \in Endpoint
  BY <1>2, NewRecords
<1>4. /\ new.app = p.to /\ new.isServer = TRUE /\ new.sent = 1 /\ new # NULL
      /\ socket.app = p.to /\ socket.isServer = TRUE
  BY <1>2, <1>3, Constants
<1>5. /\ thread' = [thread EXCEPT ![r] = new] /\ thread[r] = NULL
      /\ endpoint' = [endpoint EXCEPT ![r] = socket]
  BY <1>1 DEF newServerThread, FreeSocket
<1> HIDE DEF new, socket
<1>6. /\ threadCount' = [threadCount EXCEPT ![p.to] = @ + 1]
      /\ net' \subseteq net /\ busy' = busy /\ aborted' = aborted
      /\ welcome' = IF maxThreadCount(p.to, threadCount[p.to] + 1)
                    THEN [welcome EXCEPT ![p.to] = FALSE] ELSE welcome
  BY DEF startServer
<1>7. Types'
  <2>1. welcome' \in [Apps -> BOOLEAN]
    BY <1>0, <1>6 DEF Types
  <2>2. threadCount' \in [Apps -> Int]
    BY <1>0, <1>2, <1>6 DEF Types
  <2>3. /\ thread' \in [Sockets -> Thread \cup {NULL}]
        /\ endpoint' \in [Sockets -> Endpoint \cup {NULL}]
    BY <1>0, <1>3, <1>5 DEF Types
  <2> QED
    BY <1>0, <1>6, <2>1, <2>2, <2>3 DEF Types
<1>8. Admission'
  <2> SUFFICES ASSUME NEW a \in Apps
               PROVE  /\ threadCount'[a] = Cardinality(ThreadsOf(a)')
                      /\ welcome'[a] <=> (a = Server => threadCount'[a] < MaxThreads)
    BY DEF Admission
  <2>1. CASE a = p.to
    <3>1. Cardinality(ThreadsOf(a)') = Cardinality(ThreadsOf(a)) + 1
      BY <1>0, <1>3, <1>4, <1>5, <2>1, ThreadAdded, CountAdd
    <3>2. threadCount[a] \in Int /\ threadCount'[a] = threadCount[a] + 1
      BY <1>0, <1>6, <2>1 DEF Types
    <3>3. CASE a = Server /\ threadCount[a] + 1 = MaxThreads
      <4>1. welcome'[a] = FALSE
        BY <1>0, <1>6, <2>1, <3>3 DEF Types, maxThreadCount
      <4> QED
        BY <1>0, <3>1, <3>2, <3>3, <4>1, Constants DEF Admission
    <3>4. CASE ~(a = Server /\ threadCount[a] + 1 = MaxThreads)
      <4>1. welcome'[a] = welcome[a]
        BY <1>6, <2>1, <3>4 DEF maxThreadCount
      <4>2. welcome[a] <=> (a = Server => threadCount[a] < MaxThreads)
        BY <1>0 DEF Admission
      <4>3. (a = Server => threadCount[a] < MaxThreads)
              <=> (a = Server => threadCount'[a] < MaxThreads)
        BY <3>2, <3>4, Constants
      <4> QED
        BY <1>0, <3>1, <3>2, <4>1, <4>2, <4>3 DEF Admission
    <3> QED
      BY <3>3, <3>4
  <2>2. CASE a # p.to
    <3>1. ThreadsOf(a)' = ThreadsOf(a)
      BY <1>0, <1>3, <1>4, <1>5, <2>2, ThreadAdded
    <3>2. welcome'[a] = welcome[a] /\ threadCount'[a] = threadCount[a]
      BY <1>0, <1>6, <2>2 DEF Types
    <3> QED
      BY <1>0, <3>1, <3>2 DEF Admission
  <2> QED
    BY <2>1, <2>2
<1>9. ClientsOnly'
  BY <1>0, <1>4, <1>5 DEF Types, ClientsOnly
<1>10. RepliesNumbered'
  BY <1>0, <1>4, <1>5, <1>6 DEF Types, RepliesNumbered
<1>11. OneOwned'
  <2>1. \A a : \A x \in Sockets : Owns(a, x)' <=> Owns(a, x)
    BY <1>0, <1>4, <1>5 DEF Types, Owns
  <2> QED
    BY <1>0, <1>6, <2>1 DEF OneOwned
<1> QED
  BY <1>7, <1>8, <1>9, <1>10, <1>11 DEF IInv

-----------------------------------------------------------------------------
(* Packets that end without a new thread.                                  *)

LEMMA PacketGone ==
  ASSUME IInv, NEW p, net' = net \ {p}, aborted' \in BOOLEAN,
         UNCHANGED <<thread, endpoint, welcome, threadCount, busy>>
  PROVE  IInv'
<1>0. Types /\ RepliesNumbered
  BY DEF IInv
<1>1. Types'
  BY <1>0 DEF Types
<1>2. SameThreads
  BY DEF SameThreads
<1>3. RepliesNumbered'
  BY <1>0 DEF RepliesNumbered
<1> QED
  BY <1>1, <1>2, <1>3, QuietStep

LEMMA ErrorArrives ==
  ASSUME IInv, NEW p \in net, errorArrives(p)
  PROVE  IInv'
<1>1. PICK s \in Sockets :
        /\ net' = net \ {p}
        /\ \/ /\ thread[s] # NULL
              /\ \/ thread[s].isServer /\ removeThread(s, endpoint)
                 \/ ~thread[s].isServer /\ transmissionDone(s, endpoint)
              /\ aborted' = aborted
           \/ /\ aborted' = TRUE
              /\ UNCHANGED <<thread, endpoint, welcome, threadCount, busy>>
  BY DEF errorArrives
<1>2. net' \subseteq net /\ Closing(endpoint)
  BY <1>1, ClosingSockets DEF IInv
<1>3. CASE thread[s] # NULL /\ aborted' = aborted /\ thread[s].isServer
             /\ removeThread(s, endpoint)
  BY <1>2, <1>3, ServerRemoved
<1>4. CASE thread[s] # NULL /\ aborted' = aborted /\ ~thread[s].isServer
             /\ transmissionDone(s, endpoint)
  BY <1>2, <1>4, ClientRemoved
<1>5. CASE aborted' = TRUE /\ UNCHANGED <<thread, endpoint, welcome, threadCount, busy>>
  BY <1>1, <1>5, PacketGone
<1> QED
  BY <1>1, <1>3, <1>4, <1>5

-----------------------------------------------------------------------------
(* Every step.                                                             *)

LEMMA ClientTimer ==
  ASSUME IInv, NEW s \in Sockets, clientTimer(s)
  PROVE  IInv'
<1>0. thread[s] # NULL /\ ~thread[s].isServer /\ aborted' = aborted
  BY DEF clientTimer
<1>1. CASE sendRequest(s) /\ UNCHANGED <<endpoint, welcome, threadCount, busy>>
  BY <1>0, <1>1, SendRequest
<1>2. CASE /\ thread' = [thread EXCEPT ![s].state = "FINISH"]
           /\ UNCHANGED <<endpoint, welcome, threadCount, busy, net>>
  BY <1>0, <1>2, LastRequestAnswered
<1>3. CASE transmissionDone(s, [endpoint EXCEPT ![s] = NULL]) /\ net' = net
  <2>1. Closing([endpoint EXCEPT ![s] = NULL])
    BY ClosingSockets DEF IInv
  <2>2. net' \subseteq net
    BY <1>3
  <2> QED
    BY <1>0, <1>3, <2>1, <2>2, ClientRemoved
<1> QED
  BY <1>1, <1>2, <1>3 DEF clientTimer

LEMMA ServerTimer ==
  ASSUME IInv, NEW s \in Sockets, serverTimer(s)
  PROVE  IInv'
<1>0. thread[s] # NULL /\ thread[s].isServer /\ aborted' = aborted
  BY DEF serverTimer
<1>1. CASE sendReply(s) /\ UNCHANGED <<endpoint, welcome, threadCount, busy>>
  BY <1>0, <1>1, SendReply
<1>2. CASE removeThread(s, [endpoint EXCEPT ![s] = NULL]) /\ net' = net
  <2>1. Closing([endpoint EXCEPT ![s] = NULL])
    BY ClosingSockets DEF IInv
  <2>2. net' \subseteq net
    BY <1>2
  <2> QED
    BY <1>0, <1>2, <2>1, <2>2, ServerRemoved
<1> QED
  BY <1>1, <1>2 DEF serverTimer

LEMMA NextIInv == IInv /\ [Next]_vars => IInv'
<1> SUFFICES ASSUME IInv, [Next]_vars PROVE IInv'
  OBVIOUS
<1>1. CASE \E c \in Clients : transmissionStart(c)
  BY <1>1, TransmissionStart
<1>2. CASE \E s \in Sockets : clientTimer(s)
  BY <1>2, ClientTimer
<1>3. CASE \E s \in Sockets : serverTimer(s)
  BY <1>3, ServerTimer
<1>4. CASE \E p \in net : startServer(p)
  BY <1>4, StartServer
<1>5. CASE \E p \in net : discard(p) \/ processUndeliverablePacket(p)
  <2>1. PICK p \in net : discard(p) \/ processUndeliverablePacket(p)
    BY <1>5
  <2>2. net' = net \ {p} /\ UNCHANGED <<thread, endpoint, welcome, threadCount, busy, aborted>>
    BY <2>1 DEF discard, processUndeliverablePacket
  <2>3. aborted' \in BOOLEAN
    BY <2>2 DEF IInv, Types
  <2> QED
    BY <2>2, <2>3, PacketGone
<1>6. CASE \E p \in net : errorArrives(p)
  BY <1>6, ErrorArrives
<1>7. CASE UNCHANGED vars
  BY <1>7 DEF vars, IInv, Types, Admission, ThreadsOf, ClientsOnly, RepliesNumbered,
              OneOwned, Owns
<1> QED
  BY <1>1, <1>2, <1>3, <1>4, <1>5, <1>6, <1>7 DEF Next, Network

THEOREM Invariance == Spec => []IInv
BY InitIInv, NextIInv, PTL DEF Spec

(* Every variable keeps its type; above all, no counter gets negative.     *)
THEOREM TypeCorrect == Spec => []TypeOK
BY Invariance, IInvTypeOK, PTL

(* GenericUDPApplication.cc:94-101,305-316: the counter is the number of   *)
(* threads and the welcome socket is closed exactly while the server is    *)
(* overloaded, for every limit and every number of clients.                *)
THEOREM AdmissionHolds == Spec => []Admission
<1>1. IInv => Admission
  BY DEF IInv
<1> QED
  BY <1>1, Invariance, PTL

(* GenericUDPApplication.cc:112-122: InetUser waits exactly while its      *)
(* application has its one client thread.                                  *)
THEOREM OneThread == Spec => []OneThreadPerTransmission
<1>1. IInv => OneThreadPerTransmission
  BY OwnedIsOneThread DEF IInv
<1> QED
  BY <1>1, Invariance, PTL

(* GenericUDPApplication.cc:274-275: no reply starts a server thread,      *)
(* because server threads start with number 1 and count on.                *)
THEOREM RepliesAreInert == Spec => RepliesStartNothing
<1>1. IInv /\ [Next]_vars => [\A p \in net : p.isReply => ~startServer(p)]_vars
  BY DEF IInv, RepliesNumbered, startServer
<1> QED
  BY <1>1, Invariance, PTL DEF Spec, RepliesStartNothing

-----------------------------------------------------------------------------
(* Who may pass the limit: only startServer makes a client known, and it   *)
(* takes packet 1 of a stranger only from the welcome socket.              *)

NothingNew ==
  \A x \in Sockets : \/ endpoint'[x] = endpoint[x] \/ endpoint'[x] = NULL
                     \/ endpoint'[x].isServer = FALSE

LEMMA UnknownStays ==
  ASSUME IInv, NothingNew, NEW c \in Clients, ~Known(c)
  PROVE  ~Known(c)'
<1> SUFFICES ASSUME NEW x \in Sockets,
                    endpoint'[x] = [app |-> Server, peer |-> c, isServer |-> TRUE]
             PROVE  FALSE
  BY DEF Known
<1>1. [app |-> Server, peer |-> c, isServer |-> TRUE] \in Endpoint
  BY Constants DEF Endpoint
<1>2. endpoint'[x] # NULL /\ endpoint'[x].isServer = TRUE
  <2>1. [app |-> Server, peer |-> c, isServer |-> TRUE].isServer = TRUE
    OBVIOUS
  <2>2. [app |-> Server, peer |-> c, isServer |-> TRUE] # NULL
    BY <1>1, Constants
  <2> QED
    BY <2>1, <2>2, Zenon
<1>3. endpoint'[x] = endpoint[x]
  BY <1>2 DEF NothingNew
<1> QED
  BY <1>3 DEF Known

LEMMA RemovalMakesNobodyKnown ==
  ASSUME IInv, NEW s \in Sockets, thread[s] # NULL,
         NEW sockets, Closing(sockets),
         removeThread(s, sockets) \/ transmissionDone(s, sockets)
  PROVE  NothingNew
<1>1. CASE endpoint' = sockets
  BY <1>1 DEF Closing, NothingNew
<1>2. CASE startThread(thread[s].app, [thread EXCEPT ![s] = NULL], sockets)
  <2>1. PICK r \in Sockets :
          endpoint' = [sockets EXCEPT ![r] =
            [app |-> thread[s].app, peer |-> Server, isServer |-> FALSE]]
    BY <1>2 DEF startThread
  <2> QED
    BY <2>1 DEF Closing, NothingNew
<1> QED
  BY <1>1, <1>2 DEF removeThread, transmissionDone

LEMMA StrangerStarts ==
  ASSUME IInv, NEW p \in net, startServer(p), NEW c \in Clients,
         threadCount[Server] >= MaxThreads, ~Known(c)
  PROVE  ~Known(c)'
<1>0. Types /\ Admission /\ RepliesNumbered
  BY DEF IInv
<1>1. PICK r \in Sockets :
        endpoint' = [endpoint EXCEPT ![r] =
          [app |-> p.to, peer |-> p.from, isServer |-> TRUE]]
  BY DEF startServer
<1>2. ~p.isReply /\ Reachable(p)
  BY <1>0 DEF startServer, RepliesNumbered
<1>3. ~welcome[Server]
  BY <1>0, Constants DEF Types, Admission
<1>4. ~(p.to = Server /\ p.from = c)
  <2> SUFFICES ASSUME p.to = Server, p.from = c PROVE FALSE
    OBVIOUS
  <2>1. PICK s \in Sockets :
          endpoint[s] = [app |-> p.to, peer |-> p.from, isServer |-> ~p.isReply]
    BY <1>2, <1>3 DEF Reachable
  <2>2. (~p.isReply) = TRUE
    BY <1>2
  <2> QED
    BY <2>1, <2>2 DEF Known
<1> SUFFICES ASSUME NEW x \in Sockets,
                    endpoint'[x] = [app |-> Server, peer |-> c, isServer |-> TRUE]
             PROVE  FALSE
  BY DEF Known
<1>5. CASE x = r
  BY <1>0, <1>1, <1>4, <1>5 DEF Types
<1>6. CASE x # r
  BY <1>0, <1>1, <1>6 DEF Types, Known
<1> QED
  BY <1>5, <1>6

LEMMA OtherSteps ==
  ASSUME IInv, [Next]_vars, \A p \in net : ~startServer(p)
  PROVE  NothingNew
<1>1. CASE \E c \in Clients : transmissionStart(c)
  <2>1. PICK c \in Clients, r \in Sockets :
          endpoint' = [endpoint EXCEPT ![r] =
            [app |-> c, peer |-> Server, isServer |-> FALSE]]
    BY <1>1 DEF transmissionStart, startThread
  <2> QED
    BY <2>1 DEF IInv, Types, NothingNew
<1>2. CASE \E s \in Sockets : clientTimer(s)
  <2>1. PICK s \in Sockets : clientTimer(s)
    BY <1>2
  <2>2. CASE transmissionDone(s, [endpoint EXCEPT ![s] = NULL])
    BY <2>1, <2>2, ClosingSockets, RemovalMakesNobodyKnown DEF clientTimer, IInv
  <2> QED
    BY <2>1, <2>2 DEF clientTimer, NothingNew
<1>3. CASE \E s \in Sockets : serverTimer(s)
  <2>1. PICK s \in Sockets : serverTimer(s)
    BY <1>3
  <2>2. CASE removeThread(s, [endpoint EXCEPT ![s] = NULL])
    BY <2>1, <2>2, ClosingSockets, RemovalMakesNobodyKnown DEF serverTimer, IInv
  <2> QED
    BY <2>1, <2>2 DEF serverTimer, NothingNew
<1>4. CASE \E p \in net : discard(p) \/ processUndeliverablePacket(p)
  BY <1>4 DEF discard, processUndeliverablePacket, NothingNew
<1>5. CASE \E p \in net : errorArrives(p)
  <2>1. PICK p \in net, s \in Sockets :
          \/ thread[s] # NULL
               /\ (removeThread(s, endpoint) \/ transmissionDone(s, endpoint))
          \/ endpoint' = endpoint
    BY <1>5 DEF errorArrives
  <2> QED
    BY <2>1, ClosingSockets, RemovalMakesNobodyKnown DEF IInv, NothingNew
<1>6. CASE UNCHANGED vars
  BY <1>6 DEF vars, NothingNew
<1> QED
  BY <1>1, <1>2, <1>3, <1>4, <1>5, <1>6 DEF Next, Network

(* GenericUDPApplication.cc:276-316: at its limit the server accepts       *)
(* nobody it does not know already, however many clients there are.        *)
THEOREM StrangersStayOut == Spec => StrangersTurnedAway
<1>1. IInv /\ [Next]_vars =>
        [\A c \in Clients : threadCount[Server] >= MaxThreads /\ ~Known(c)
                              => ~Known(c)']_vars
  BY StrangerStarts, OtherSteps, UnknownStays
<1> QED
  BY <1>1, Invariance, PTL DEF Spec, StrangersTurnedAway

-----------------------------------------------------------------------------
(* Client threads only count down.                                         *)

IsClient(s) == thread[s] # NULL /\ ~thread[s].isServer

(* The timers a client thread still needs: one for every request, one to   *)
(* disconnect and one to finish.                                           *)
timersLeft(t) ==
  CASE t.state = "CONNECTED"    -> 2 + (IF t.left > 1 THEN t.left ELSE 1)
    [] t.state = "DISCONNECTED" -> 2
    [] t.state = "FINISH"       -> 1

Nearer(s) == \/ thread'[s] = NULL
             \/ ~thread'[s].isServer /\ timersLeft(thread'[s]) < timersLeft(thread[s])

Kept(s) == thread'[s] = thread[s]

(* GenericUDPApplicationClientThread.cc:88-108: every timer of a client    *)
(* thread brings it nearer to its end, and nothing else sets it back: no   *)
(* reply, no error for another socket, no other thread.                    *)
ClientsCountDown ==
  [][\A s \in Sockets : IsClient(s) => /\ Kept(s) \/ Nearer(s)
                                       /\ clientTimer(s) => Nearer(s)]_vars

(* Another thread may start at once, in a free socket: no third one       *)
(* notices.                                                                *)
LEMMA RemovedNearer ==
  ASSUME NEW u \in Sockets, NEW sockets, NEW s \in Sockets, IsClient(s), Types,
         removeThread(u, sockets) \/ transmissionDone(u, sockets)
  PROVE  IF u = s THEN Nearer(s) ELSE Kept(s)
<1>1. CASE thread' = [thread EXCEPT ![u] = NULL]
  BY <1>1 DEF Nearer, Kept, Types
<1>2. CASE startThread(thread[u].app, [thread EXCEPT ![u] = NULL], sockets)
  <2>1. PICK r \in Sockets : FreeSocket(r) /\ \E t :
          thread' = [[thread EXCEPT ![u] = NULL] EXCEPT ![r] = t]
    BY <1>2 DEF startThread
  <2>2. r # s
    BY <2>1 DEF FreeSocket, IsClient
  <2>3. thread'[s] = IF u = s THEN NULL ELSE thread[s]
    BY <2>1, <2>2 DEF Types
  <2> QED
    BY <2>3 DEF Nearer, Kept
<1> QED
  BY <1>1, <1>2 DEF removeThread, transmissionDone

LEMMA TimerNearer ==
  ASSUME NEW s \in Sockets, IsClient(s), Types, clientTimer(s)
  PROVE  Nearer(s)
<1>0. thread[s] \in Thread
  BY DEF Types, IsClient
<1>1. CASE thread[s].state = "CONNECTED" /\ sendRequest(s)
  <2> DEFINE t == thread[s]
             n == t.left - 1
             state == IF n <= 0 THEN "DISCONNECTED" ELSE t.state
             u == [t EXCEPT !.left = n, !.state = state]
  <2>1. thread' = [thread EXCEPT ![s] = u]
    BY <1>1 DEF sendRequest
  <2>2. thread'[s] = u
    <3> HIDE DEF u
    <3> QED
      BY <2>1 DEF Types
  <2>3. t.left \in Int /\ t.state = "CONNECTED" /\ t.isServer = FALSE
    BY <1>0, <1>1 DEF Thread, IsClient
  <2>4. u.left = n /\ u.state = state /\ u.isServer = FALSE
    BY <1>0, <2>3 DEF Thread
  <2>5. timersLeft(t) = 2 + (IF t.left > 1 THEN t.left ELSE 1)
    BY <2>3 DEF timersLeft
  <2>6. CASE n <= 0
    <3>1. timersLeft(u) = 2
      BY <2>4, <2>6 DEF timersLeft
    <3> HIDE DEF t, u
    <3>2. timersLeft(u) < timersLeft(t)
      BY <2>3, <2>5, <3>1
    <3> QED
      BY <2>2, <2>4, <3>2 DEF Nearer, t
  <2>7. CASE ~(n <= 0)
    <3>1. u.state = "CONNECTED" /\ u.left = n
      BY <2>3, <2>4, <2>7
    <3>2. timersLeft(u) = 2 + (IF n > 1 THEN n ELSE 1)
      BY <3>1 DEF timersLeft
    <3> HIDE DEF t, u
    <3>3. timersLeft(u) < timersLeft(t)
      BY <2>3, <2>5, <2>7, <3>2
    <3> QED
      BY <2>2, <2>4, <3>3 DEF Nearer, t
  <2> QED
    BY <2>6, <2>7
<1>2. CASE thread[s].state = "DISCONNECTED" /\ thread' = [thread EXCEPT ![s].state = "FINISH"]
  <2> DEFINE u == [thread[s] EXCEPT !.state = "FINISH"]
  <2>1. u.state = "FINISH" /\ u.isServer = FALSE
    BY <1>0 DEF Thread, IsClient
  <2>2. thread' = [thread EXCEPT ![s] = u]
    BY <1>2
  <2> HIDE DEF u
  <2>3. thread'[s] = u
    BY <2>2 DEF Types
  <2>4. timersLeft(u) = 1 /\ timersLeft(thread[s]) = 2
    BY <1>2, <2>1 DEF timersLeft
  <2> QED
    BY <2>1, <2>3, <2>4 DEF Nearer
<1>3. CASE transmissionDone(s, [endpoint EXCEPT ![s] = NULL])
  BY <1>3, RemovedNearer
<1> QED
  BY <1>1, <1>2, <1>3 DEF clientTimer

LEMMA StepNearer ==
  ASSUME Types, [Next]_vars, NEW s \in Sockets, IsClient(s)
  PROVE  Kept(s) \/ Nearer(s)
<1>1. CASE \E c \in Clients : transmissionStart(c)
  <2>1. PICK r \in Sockets : FreeSocket(r) /\ \E t : thread' = [thread EXCEPT ![r] = t]
    BY <1>1 DEF transmissionStart, startThread
  <2>2. r # s
    BY <2>1 DEF FreeSocket, IsClient
  <2> QED
    BY <2>1, <2>2 DEF Kept, Types
<1>2. CASE \E u \in Sockets : clientTimer(u)
  <2>1. PICK u \in Sockets : clientTimer(u)
    BY <1>2
  <2>2. CASE u = s
    BY <2>1, <2>2, TimerNearer
  <2>3. CASE u # s
    <3>1. CASE transmissionDone(u, [endpoint EXCEPT ![u] = NULL])
      BY <2>3, <3>1, RemovedNearer
    <3>2. CASE sendRequest(u)
      BY <2>3, <3>2 DEF sendRequest, Kept, Types
    <3>3. CASE thread' = [thread EXCEPT ![u].state = "FINISH"]
      BY <2>3, <3>3 DEF Kept, Types
    <3> QED
      BY <2>1, <3>1, <3>2, <3>3 DEF clientTimer
  <2> QED
    BY <2>2, <2>3
<1>3. CASE \E u \in Sockets : serverTimer(u)
  <2>1. PICK u \in Sockets : serverTimer(u)
    BY <1>3
  <2>2. u # s
    BY <2>1 DEF serverTimer, IsClient
  <2>3. CASE sendReply(u)
    BY <2>2, <2>3 DEF sendReply, Kept, Types
  <2>4. CASE removeThread(u, [endpoint EXCEPT ![u] = NULL])
    BY <2>2, <2>4, RemovedNearer
  <2> QED
    BY <2>1, <2>3, <2>4 DEF serverTimer
<1>4. CASE \E p \in net : startServer(p)
  <2>1. PICK r \in Sockets : FreeSocket(r) /\ \E t : thread' = [thread EXCEPT ![r] = t]
    BY <1>4 DEF startServer, newServerThread
  <2>2. r # s
    BY <2>1 DEF FreeSocket, IsClient
  <2> QED
    BY <2>1, <2>2 DEF Kept, Types
<1>5. CASE \E p \in net : errorArrives(p)
  <2>1. PICK u \in Sockets : \/ removeThread(u, endpoint) \/ transmissionDone(u, endpoint)
                             \/ thread' = thread
    BY <1>5 DEF errorArrives
  <2> QED
    BY <2>1, RemovedNearer DEF Kept
<1>6. CASE UNCHANGED thread
  BY <1>6 DEF Kept
<1>7. (\E p \in net : discard(p) \/ processUndeliverablePacket(p)) \/ UNCHANGED vars
        => UNCHANGED thread
  BY DEF discard, processUndeliverablePacket, vars
<1> QED
  BY <1>1, <1>2, <1>3, <1>4, <1>5, <1>6, <1>7 DEF Next, Network

(* GenericUDPApplicationClientThread.cc:88-108: the safety half of         *)
(* TransmissionDone, for every number of requests, packets and threads: a  *)
(* client thread ends after as many timers as timersLeft says, or earlier  *)
(* by an error.                                                            *)
THEOREM ClientsEnd == Spec => ClientsCountDown
<1>1. IInv /\ [Next]_vars =>
        [\A s \in Sockets : IsClient(s) => /\ Kept(s) \/ Nearer(s)
                                           /\ clientTimer(s) => Nearer(s)]_vars
  BY StepNearer, TimerNearer DEF IInv
<1> QED
  BY <1>1, Invariance, PTL DEF Spec, ClientsCountDown
=============================================================================
