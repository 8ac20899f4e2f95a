# scadasim in TLA+

scadasim is an OMNeT++ simulator of SCADA networks. It couples a simulated
network to real Modbus clients through a gateway, and fills the network with
background traffic generated by users, clients and servers (derived from
ReaSE). This directory holds TLA+ modules that model the concurrent and
stateful parts of `src/src`, TLC configurations that check them, and TLAPS
proofs of their main theorems.

## 1. Inventory

| Component | State it keeps | Operations | Talks to |
|---|---|---|---|
| Real-time scheduler (`external/SSScheduler`) | gates, `baseTime` | `startRun`, `getNextEvent`, `receiveUntil`, `executionResumed`, `endRun` | polls the gates; owns the event queue with the kernel |
| Gateway monitor (`external/SSThread`, `SSGate`) | mutex, condition, `nextMsg`, `proxies` | `nextMessage`, `processMessage`, `proxyBinding`, `setup`, `wait`, `notify` | scheduler thread and listener thread, by shared memory |
| Device proxy (`external/SSProxy`) | one notification message, `extAddress` | `initialize`, `handleMessage` | inserted into the queue by the gate |
| Modbus gateway (`external/ModbusGate`) | listening socket, current client, mapping | `listen`, `Open`, `Close` | Modbus library, `SSGate::processMessage` |
| Modbus library (`external/modbus`) | connection, transaction id, mapping | `modbus_listen`, `modbus_manage_query`, client calls | sockets |
| UDP application (`applications/udpApp`) | `threadMap`, `threadCount`, welcome socket; per thread a state and a timer | `transmissionStart`, `handleMessage`, `removeThread`, timers | InetUser (call and callback), UDP layer |
| TCP application (`applications/tcpApp`) | `socketMap`, `threadList`, `threadCount`; per thread a state and a timer | the same, over connections | InetUser, TCP layer |
| TCP layer (`transport/tcp`) | accepted-connection counter | accept, drop, destructor | TCP application |
| Ping application (`applications/pingApp`) | requests left, statistics | timer, `receivePong` | InetUser |
| InetUser (`applications/generic`) | current profile and target | `transmissionDone`, `setApplication` | connection manager, applications |
| Connection manager, traffic profiles (`base`) | servers by profile, sub-managers, dirty flags | `registerServer`, `getServer`, `getForeignServer`, `haveProfile` | InetUser, one another |
| IP layer, trace queue (`networklayer`) | interval counters | packet handling, interval timer | the network |
| Network configurator (`networklayer/autorouting`) | topology | address assignment, routing tables | run once |

Hard behaviour is of two kinds. The gateway has real threads: the kernel and
the listener share a monitor and an event queue. Everything else runs in one
thread of simulated events, where the difficulty is the order in which timers,
packets, ICMP errors and synchronous callbacks hit the counters and maps.

What makes each component correct:

* scheduler and gateway: mutual exclusion, no mutual sleep, the event returned
  is still queued, no notification stays in the queue, no event before its time;
* UDP and TCP applications: the counters match the threads, overload is left
  again, InetUser hears of every end exactly once, a session always ends;
* TCP layer: the counter is the number of accepted connections that exist;
* Modbus library: query boundaries do not depend on how TCP cuts the stream, a
  write stays in the mapping, a response answers its query;
* InetUser and connection manager: a session has a server of its profile, in the
  right system, and the user never stalls;
* trace counters: every packet is counted in exactly one interval.

`PROJECT.json` lists the hazards by line, with the properties that cover them.

## 2. Modules

| Module | Models |
|---|---|
| `SSGate` | scheduler thread, listener thread, monitor, event queue, clock |
| `NotificationBox` | abstract: a one-slot mailbox beside the queue |
| `SSGateProofs` | inductive invariant and theorems about `SSGate` |
| `ModbusLink` | Modbus masters and the gateway's server, over TCP connections |
| `ModbusLinkProofs` | inductive invariant and theorems about `ModbusLink` |
| `ModbusStream` | how the server finds queries in the byte stream |
| `ModbusStreamProofs` | inductive invariant and theorems about `ModbusStream` |
| `UDPApp` | UDP applications of hosts and a server, the network between them |
| `UDPAppProofs` | inductive invariant and theorems about `UDPApp` |
| `TCPConnection` | operators: the state machine of one end of a TCP connection |
| `TCPApp` | TCP applications of hosts and a server, over `TCPConnection` |
| `TCPAppProofs` | inductive invariant and theorems about `TCPApp`: types, counters |
| `TCPSessionProofs` | the phases of a connection, and theorems about `TCPApp`'s sessions |
| `InetUsers` | users, ping sessions, connection managers, traffic profiles |
| `InetUsersProofs` | inductive invariant and theorems about `InetUsers` |
| `Routes` | operators: addresses and routing tables of a topology |
| `IPNetwork` | packets on the routes of `Routes`, queues, traces |
| `IPNetworkProofs` | theorems about `Routes`; inductive invariants and theorems about `IPNetwork` |

For each run there is an `MC` module with the values of the constants that a
configuration cannot write, or only the symmetry.

`IPNetwork` EXTENDS `Routes`, and `TCPApp` EXTENDS `TCPConnection`: they compose
the layers. The others meet at narrow places, each cut where the code has a
callback or a blocking call: `processMessage` between `SSGate` and the two Modbus
modules, `transmissionStart` and `transmissionDone` between `InetUsers` and the
applications, reliable in-order delivery between `IPNetwork` (`InOrder`) and
`TCPApp`.

### SSGate

`pcS` and `pcG` say where the two threads are; one action is a stretch of code
between two points where the other thread can be seen (taking the mutex,
sleeping, waking, releasing). Action names are the function names:
`getNextEvent`, `receiveUntil`, `nextMessageLock` ... `nextMessageReturns`,
`peekAgain`, `doOneEvent` for S; `setup`, `receive`, `processMessageLock` ...
`manageQuery` for G.

* `asleep` is the set of threads on the condition variable. `notify` wakes the
  only one that can be there. Spurious wakeups are a constant.
* The event queue is a bag: `queued[m]` counts the entries of message `m`
  (the gate inserts a notification again while it is still queued), `due[m]` its
  arrival time relative to the simulation time. A message queued twice has had
  its key changed under the heap, so `peekFirst` may then return it early.
* `lag` is the wall clock relative to the simulation time, in ticks of 100 ms,
  saturating at `MaxLag` and `-MaxLead`.
* Undefined behaviour is nondeterminism over its outcomes: `nextMsg` starts
  arbitrary, `retcode` may be `unset` (it then counts as zero or not zero), an
  insertion that races with the kernel's use of the heap may be lost, and
  `setup` under a poll that has already begun sets the history variable
  `clobbered`, after which a signal may miss its sleeper. The monitor properties
  exclude that last case explicitly.

### ModbusLink

Both sides of `modbus.cc` over TCP, and the loop of `ModbusGate::listen`. A
master has at most one call under way: `call` sends the query, `modbus_receive`
or `timeout` ends it, and after an error `error_treat` has closed the connection
and `modbus_connect` opens another. `connection[c]` holds the queries and responses
under way in TCP, whether the master has closed, and whether the next `recv` of
the server fails. The server accepts one connection at a time from the backlog.

* `processMessage` is the wait in the monitor, of any length: `SSGate` models
  what happens there.
* A master that closes with responses unread, or to which a response is sent
  after it closed, resets the connection. `receiveFails` is what the server makes
  of that.
* When nothing has come before a timeout, `modbus_receive` reads a length and a
  response that nobody has written. `staleException` is the case in which they
  look like an exception: the call returns one and the connection stays. Such a
  connection is `confused`, and the properties about calls exclude it.
* Messages are whole: a query is sent with one `send` and read as one.
  A function reads or writes one register, or is not implemented
  (`report_slave_id`); `legal` abstracts the address check.
* Every master has a register of its own, so that a value can only come from
  one of its own calls.

### ModbusStream

`receive_msg` takes the length of a query from its function code, then from its
byte count, and reads no further than it knows. Bytes are known by their place
in the stream: `sent` by the client, `arrived`, `read`; `start` is where the
message under way begins, and `state` and `msg_length_computed` are the locals.
`arrive` cuts the stream anywhere. `timeout` drops what was read of a message;
then the place where the next one starts is inside a query, and its function
code and byte count may be anything (`FunctionByte`, `CountByte`). `torn` is the
history of that, for the connection. Connections follow one another; the server's
variables are those of the function, so the model would show what one leaves to the
next. A message longer than its array makes the server reconnect like a master,
as in `ModbusLink`, and ends the service.

### UDPApp

`thread[s]` is the entry of `threadMap` for socket `s` (of whatever
application), `endpoint[s]` what the UDP layer knows of it. The two differ after
an ICMP error, which deletes the socket object without closing the socket.
`welcome` says whether the welcome socket is bound. `busy` is the set of
clients InetUser waits for. Client and server threads have their code's states
(`CONNECTED`, `DISCONNECTED`, `FINISH`) and one timer, always pending, that may
fire at any time.

* A client thread's end reports to InetUser, which in the same step either
  starts the next thread here or turns to another application
  (`transmissionDone`); idle clients are started by `transmissionStart`.
* The network loses packets when they are sent or later, reorders them, and may
  return any as an ICMP error to the socket it came from. `net` is a set:
  fragments of one reply have the same number and are one packet.
* Left out: the branch of `handleMessage` for the `last` flag. The client sets
  the flag to false and the server never sets it, although the comment of
  `sendReply` says it does; hosts that serve other hosts (the registration is
  commented out in `GenericApplication.cc`).

### TCPApp

`tcp[k]` is the state of both ends of connection `k` as `TCPConnection` computes
it, `wire[k]` the segments under way to each end, `client[k]` and `server[k]` the
threads of the two applications on it. A thread has its code's state, the state
its `TCPSocket` object believes in, and one timer. `act` and `arrive` are one event:
TCP takes a segment or a command, changes state, tells the application, and the
application's commands (`send`, `close`) are executed before the event ends.

* `listen` is `processSegmentInListen`; `currentConnectionCount` counts workers,
  `maxThreadCount` is TCP's own limit (0: none), chosen at the start.
* `killed` is the history of connections closed at the thread limit: by design
  their socket is not entered in `socketMap`, and the properties about threads
  treat them apart.
* `aborted` is `opp_error` of the socket class or the kernel: a closed socket is
  closed again, a timer scheduled twice, a message for no thread.
* The reply length a request asks for is drawn from `ReplyLengths`, anew for each request.
  Length 0 is a branch of its own in the server thread (`noReply`): no reply, no timer and no
  close, not even for the last request of a session. The client has no timer then, as only a
  reply sets one, so both threads wait for ever, and the one of the server keeps its place under
  the limit. `empty` remembers of a client thread that its last request was such a one; only
  properties read it. `ClientEnds` and `ServerEnds` except these connections (`Unanswered`),
  besides the killed ones.
* TCP is reliable and in order once it is established; only the handshake
  is repeated or given up. The time that FIN_WAIT_2 waits (ten minutes) is
  longer than anything else: it ends only when nothing else can happen on the
  connection.

### InetUsers

`initialize` and `initializeServer` are the stages of initialisation, in any order
the kernel allows: the global manager before the others, all managers before
the servers. `Draws`, `Targets`, `haveProfile` and `getForeignServer` are the sets of
outcomes of a random search. `user[u]` runs through `transmissionDone`: a loop of
draws, each excluding the profile that has just failed, until a session starts
(`running`), cannot start (`stuck`) or a hundred draws have failed (`error`).

* A ratio of 0 % is never foreign and 100 % always; what lies between is both.
  Once a draw was foreign, the flag stays set in the further draws of the same call
  (`Draws`).
* A hundred random draws of a network are taken to find one with a server if
  there is one. `Attempts` = 4 and `Half` = 2 stand for 100 and 50.
* TCP and UDP sessions just end here. Ping sessions are modelled: their timer,
  lost and late pongs.

### Routes and IPNetwork

`Routes` computes, for any topology given as constants, what
`TGMNetworkConfigurator` computes before the simulation starts: `addr`, the
default route of a node (its first interface to the next level), the host routes
that differ from it (`setIntraASRoutes`), and the routes between systems
(`createInterASPaths`). `asId` is the number a system's name is read to have.
`disableStubLinks` disables links of topologies that the paths between core routers
do not use, so it has no effect. `Within` stands for the shortest paths of the OMNeT++
library: entry k are the nodes with a path of less than k links. Two assumptions say
what every topology of the repository is like: `LinksAssumption` (an end system hangs on one
edge router, and links lead both ways) and, in `IPNetwork`, `HopLimitAssumption` (hosts of a
system are connected, in no more links than the time to live allows).

`IPNetwork` moves packets along these tables: `line[l]` is the packet on link `l` and
the drop-tail queue behind it; one step handles one packet at one node
(`handlePacketFromNetwork`), which counts it if it traces, and delivers, drops or
queues it. `traceOut` is the trace timer: the first one resets the counters
unwritten.

## 3. Runs

| Run | Instance | Shows |
|---|---|---|
| `ssgate_safety` | 2 proxies, 1 timer, spurious wakeups, timers may stop | `TypeOK`, `LockDiscipline`, `SleepJustified`, `ReturnedEventIsQueued` |
| `ssgate_live` | 1 proxy, 1 timer always pending, fairness | `ImplementsBox`, `ListenerReleased`, `NotificationDelivered` |
| `ssgate_early` | 1 proxy | finding: an event is handed out before its time |
| `modbus_safety` | 2 masters, 2 connections, backlog 2 | `TypeOK`, `AnswersItsQuery`, `Coherent`, `NoSendAfterReset` |
| `modbus_serve` | 1 master, 2 connections, fairness | finding: the gateway never accepts again |
| `modbus_stream` | connection after connection of 2 queries in 3 formats | `TypeOK`, `WholeQueries`, `QueriesServed` |
| `udp` | 2 clients, 3 sockets, 1 server thread, 2 requests, fairness | `TypeOK`, `Admission`, `OneThreadPerTransmission`, `RepliesStartNothing`, `StrangersTurnedAway`, `TransmissionDone` |
| `tcp` | 2 clients, 2 connections, 1 server thread, requests with and without a reply, TCP with 1 worker or no limit, fairness | `TypeOK`, `NoError`, `AcceptedConnections`, `ThreadLimit`, `SessionComplete`, `RepliesBeforeClose`, `ClientEnds`, `ServerEnds` |
| `tcp_killed` | the same, no limit in TCP, every request asks for a reply | finding: a connection killed at the limit gets a thread later |
| `users` | 2 systems, 3 users, 4 servers, flat and hierarchical, fairness | `TypeOK`, `TargetServesProfile`, `Locality`, `SearchSucceeds`, `PingsSent`, `UserGoesOn` |
| `network` | 12 nodes in 2 systems, 3 packets, fairness | `TypeOK`, `IntraASRoutes`, `DeliveredToAddressee`, `TraceAddsUp`, `InOrder`, `Arrives` |
| `routes_interas` | the same, 1 packet, 10 hops | finding: no packet reaches another system |

Bounds.

* `SSGate`: `MaxDelay`, `MaxLag` and `UsecAsMs` of 2 tell apart the three cases of
  `receiveUntil` (a slice, the rest, no wait) and a clock that is behind or ahead
  by more than one event. `MaxQueued` of 2 lets a notification be queued twice,
  which is where the heap order breaks; further copies behave as the second. Two
  proxies give two notifications in the queue at once.
* `ModbusLink`: two connections are one in service and one waiting, of one master
  that has given the first up or of two. Identifiers wrap at `MaxTid` = 1,
  enough to tell a query from the one before it; two values tell a write from the
  one it replaces. One connection at a time is `confused`, once.
* `ModbusStream`: the functions are one of each format (fixed, with a byte count,
  header only); stray counts are those of a short message, the longest that fits and
  the first that does not. Two queries give one to begin inside of, or to read
  into from the one before. TCP may cut at every byte.
* `UDPApp`: one server thread and three sockets are an overload with a second
  client turned away; two requests let a known client return; one fragment,
  because what the fragments of a request add (two packets that differ in their
  number) is covered by the proofs, which hold for every number.
* `TCPApp`: one server thread and two connections are an overload; sessions of
  no request (corrected to one) and of two, with replies at once, delayed or not asked
  for (reply length 0; 1 stands for all others), and a TCP with and without a limit of its own.
* `InetUsers`: a profile that nobody serves, one served in one system only, one in
  both; a user with drawn profiles and two with a fixed one.
* `IPNetwork`: a topology in which the default route is not the shortest; `HopLimit`
  = 4 is exactly the longest way within a system, so a detour would
  show; queues of one frame and without limit; three packets make one
  overtake, or be dropped. `routes_interas` allows 10 hops, more than any way between
  two systems has, so that only a missing route can stop a packet there.

`CHECK_DEADLOCK FALSE` is set where the system may stop: in `UDPApp` and `TCPApp`
after `aborted`, and in `UDPApp` when the sockets of the bound are used up by deleted
but unclosed ones; in `TCPApp` when all connections wait for ever, for a thread (killed
ones) or for a reply that was not asked for; in `ModbusStream` after `selectFails` when the client has nothing left to
send; in `InetUsers` when all users are stuck; in `IPNetwork` when all
packets have been sent. `SSGate` and `ModbusLink` check deadlock: the clock always
ticks, and a master can always fail once more.

Fairness. In `SSGate` both threads and the clock run; a mutex is not fair, but
neither thread keeps it while it blocks, so one that finds it free again and
again gets it (strong fairness of the locking steps). Nothing is assumed of
clients, the user, accept failures and spurious wakeups. The rest of the
simulation runs in one thread whose kernel handles every scheduled event: timers
fire, transmissions end (in `IPNetwork` fairness of all links together is enough,
as packets are finitely many), initialisation completes. In `TCPApp` what TCP has taken is
delivered, and a SYN that nobody answers is given up. In `UDPApp` nothing is assumed
of the network. In the Modbus modules the listener thread runs and the
simulation polls; clients owe nothing. In `InetUsers` sessions end, which `UDPApp`
(`TransmissionDone`) and `TCPApp` (`ClientEnds`, with its two exceptions) show.

## 4. Proofs

`SSGateProofs` proves, for all proxies, timers, addresses and bounds allowed by
`SSGateAssumption`:

* `TypeCorrect`: `Spec => []TypeOK`;
* `MutualExclusion`: `Spec => []LockDiscipline`;
* `NoMutualSleep`: `Spec => []SleepJustified`;
* `ReturnedEventQueued`: `Spec => []ReturnedEventIsQueued`;
* `MonitorImplementsBox`: `Spec => ImplementsBox`.

All five follow from one inductive invariant, `IInv`. The checked invariants are
not inductive by themselves: `SleepJustified` needs `SleepersWait` (a sleeper is
at its wait), the refinement needs `SlotFree` (past its test the
listener finds the slot free, unless a wakeup was spurious), and
`ReturnedEventIsQueued` needs `PeekedIsQueued`
for the whole wait: it holds because only the scheduler thread removes events.
`IInv` was checked by TLC on both instances before it was proved. The
refinement maps the slot to `nextMsg` and the box's contents to `queued`; each
step of `SSGate` is an `Offer`, an `Acknowledge`, a `Deliver` or a stutter.

`UDPAppProofs` proves, for all clients, sockets, thread limits, fragments, requests,
replies and packets allowed by `UDPAppAssumption`:

* `TypeCorrect`: `Spec => []TypeOK`;
* `AdmissionHolds`: `Spec => []Admission`;
* `OneThread`: `Spec => []OneThreadPerTransmission`;
* `RepliesAreInert`: `Spec => RepliesStartNothing`;
* `StrangersStayOut`: `Spec => StrangersTurnedAway`;
* `ClientsEnd`: `Spec => ClientsCountDown`.

Here, too, one inductive invariant carries all: the types, `Admission` (the counter
is the cardinality of the set of threads, so each action comes with a lemma on
what it does to that set), `ClientsOnly` (only clients have client threads, and
their sockets say so), `RepliesNumbered` (a server thread has already counted the
request, so no reply gets number 1) and `OneOwned` (a waiting client has exactly one
client thread, an idle one none).

`timersLeft` is the number of timers a client thread still needs. Each of its timers takes
it down or ends the thread, and no other step of the system brings it up
(`ClientsCountDown`): with the fairness of timers that is `TransmissionDone`, of which this is
the part that needs no fairness. TLC checked it before it was proved.

`ModbusStreamProofs` proves, for all function codes, byte counts and numbers of
queries allowed by `ModbusStreamAssumption`:

* `TypeCorrect`: `Spec => []TypeOK`, with the bounds on what is received;
* `WholeQueriesHold`: `Spec => []WholeQueries`.

`WholeQueries` speaks of the moment a message is handed over. Its inductive form
follows the message byte by byte: `Layout` (the queries lie one behind the other
in the stream), `Framing` (the length computed so far, also for a message that
begins inside a query) and `InStep` (until a message is torn, the message under
way is the query after those handed over, and the length computed is the sum of the
parts announced so far). The lemma `LengthOfQuery` says that header and data, as the
server computes them, add up to what the client sent. `IInv` was checked by TLC before
it was proved.

`TCPAppProofs` proves, for all clients, connections and limits allowed by
`TCPAppAssumption` and `NullAssumption` (no thread is mistaken for none):

* `TypeCorrect`: `Spec => []TypeOK`;
* `AcceptedConnectionsHold`: `Spec => []AcceptedConnections`;
* `ThreadLimitHolds`: `Spec => []ThreadLimit`.

The counters are cardinalities, as in `UDPAppProofs`: `CountedOff` says what a
transition of a server's end does to the set of workers, `ServerChange` what a callback
does to the set of threads. The types are stronger than `TypeOK`: no end is ever in
`LISTEN` (`Transition`: the worker's own transitions end it instead), which is why no
worker leaves the count twice. `RequestsLeft` (a connected client has a
request left to send) keeps the number of requests from getting negative.

`TCPSessionProofs` proves, under the same assumptions:

* `NoErrorHolds`: `Spec => []NoError`;
* `SessionCompleteHolds`: `Spec => []SessionComplete`;
* `RepliesBeforeCloseHolds`: `Spec => []RepliesBeforeClose`.

None of the three is inductive, nor are they together: whether a thread may be called,
set its timer or close its socket depends on what TCP will tell it, and that on the
states of both ends and on the segments between them. `SInv` therefore says which
combinations of the two ends, the segments under way in either direction and the two
threads a connection can be in. They fall into phases: `Waiting`,
`Connecting`, `Opening` (the first request is on its way), `Talking` (which a connection never
leaves after a request that asks for no reply), `LastReply` (the
server's end has sent its FIN behind the last reply), `ClosingInTurn` or `ClosingAtOnce`
(the two FINs follow one another, or cross), `Finished`, and off this way `Abandoned` (an
end gave up) and `Killed` (closed at the thread limit, with all that may still happen to
it). Each action comes with a lemma that leads from phase to phase; `Row` is an
entry of TCP's table with the segments and the callback that go with it, `Effect` what an
end and its thread make of a segment, `Elsewhere` that other connections stay in their
phase. `SInv` was checked by TLC, with and without a limit of TCP, before it was proved.

`ModbusLinkProofs` proves, for all masters, connections, values and bounds allowed by
`ModbusLinkAssumption` and `NullAssumption`, and for masters that reconnect after errors
(`Reconnect`, which every theorem assumes; without it a late response is taken for
the answer to the next query):

* `TypeCorrect`: `Spec /\ Reconnect => []TypeOK`;
* `AnswersItsQueryHolds`: `Spec /\ Reconnect => []AnswersItsQuery`;
* `CoherentHolds`: `Spec /\ Reconnect => []Coherent`;
* `NoSendAfterResetHolds`: `Spec /\ Reconnect => []NoSendAfterReset`.

`Coherent` is a matter of where queries may still be. `Serving` says that one connection
is in service and the waiting ones have not been answered; `Calling` that the connection
of a master is its own, open and not reset; `Talking` that a query is in one place at a
time (on its way, in the server, or answered), that a response under way fits it,
and that a master with an answer has the connection in service: a query it gave up before
lies on a connection whose service is over. `IInv` was checked by TLC before it was proved.

`InetUsersProofs` proves, for all systems, users, servers and configuration files
allowed by `InetUsersAssumption` and `FixedProfilesAssumption`:

* `TypeCorrect`: `Spec => []TypeOK`;
* `TargetServesProfileHolds`: `Spec => []TargetServesProfile`;
* `LocalityHolds`: `Spec => []Locality`;
* `PingsSentHolds`: `Spec => PingsSent`;
* `SearchSucceedsHolds`: `Spec /\ OneUnserved(isFlat) => []SearchSucceeds`, for three
  or more attempts (the code has 100).

The lemma `Found` says where each way to a server leads. `Locality` needs that users wait
until all managers and servers have started, and that then a topology with several systems
is no longer taken for a flat one, whatever the order of the start. `Owes`
(requests sent and requests left make up the session) carries `PingsSent`.

`OneUnserved` is what the comment of the code says may happen: one profile has no
server that a user could be sent to, all others have, also for a draw that is foreign.
`MCInetUsers` states it as an assumption, so that the run confirms that its instance is such a
case. Then an attempt can only fail with that profile (`OthersFound`), and
`Tried` says what has been tried when the next attempt begins: nothing, that profile
once, or a second time in attempt `Half`, which excludes nothing. So no search makes
more than three attempts. TLC checked the invariant, `FInv`, before it was proved. With two such
profiles a search may alternate between them until it gives up.

`IPNetworkProofs` proves, for all topologies allowed by `RoutesAssumption`, which fit
the digits of an address (`FitsAssumption`), and for all queues and trace timers:

* `TypeCorrect`: `Spec => []TypeOK`;
* `AddressesDiffer`: no two nodes have the same address;
* `WithinIsShortest`, `WithinIsComplete`: what `Within` computes is the lengths of the
  shortest paths, and a node it does not find has no path;
* `RoutesLead`: every route of a table leads over an existing link, or has no interface;
* `DeliveredToAddresseeHolds`: `Spec => []DeliveredToAddressee`;
* `TraceAddsUpHolds`: `Spec => []TraceAddsUp`;
* `NothingLostHolds`: `Spec => []NothingLost`;
* `InOrderHolds`: `Spec => []InOrder`;

and, with `LinksAssumption`, the second one with `HopLimitAssumption` as well,

* `ShortestWay`: at each node the route taken for an addressee in the same system leads
  to a node that is one link nearer;
* `IntraASRoutesHold`: `Spec => []IntraASRoutes`.

Addresses differ because systems and the nodes of a system are numbered
without gaps or repetitions (`Index`, `Numbered`) and the numbers are digits of the
address (`Digits`). Packets under way keep the address of their addressee and time
to live, and every written interval is one a router has counted (`Counted`).

The theorems on routes are about what a recursive function computes for every topology. The
induction theorems of the library take an operator as a parameter and cannot be used;
`Induction` derives from `WFMin` (< on the natural numbers is well founded) that a set with 0,
and with n + 1 whenever it has n, has every natural number, and that is enough for sets such
as {k : entry k is right}. The reference of `WithinIsShortest` is a path, a sequence of
linked nodes (`IsPath`). For `WithinIsComplete` the entries grow until one adds nothing
(`Settled`: there are more entries than nodes), and from then on none does. So the first hop
calculated for a node leads one link nearer (`FirstHop`). That a packet takes this hop is another
matter, as a table holds only the host routes that differ from the default route:
`Table` says that the route that matches, or else the default route, is the
calculated one. An end system always uses its default route, which is right because
it has no other link (`EndSystem`), and no shortest path leads through another one, which
would not forward (`Through`).

`IntraASRoutes` (IP drops no packet for its own system) is not inductive: `RInv` adds
`OnCourses`, that every packet on a link has at least as many hops left as there are links
to its addressee, and that it is not on its way to an end system that is not its
addressee. `NothingLost` says where each packet is: delivered, dropped, without a route, or
on a link; it uses that no route leads to an interface that does not exist (`RoutesLead`). With
the fairness of links this is `Arrives`, of which it is the part that needs no fairness.
TLC checked both before they were proved.

`InOrder` speaks of the end of a way, its inductive form, `OInv`, of the way itself. There is a
sequence of nodes for every source and addressee (`Ways`), and a packet that has made k hops is
on the link from its node k + 1 to its node k + 2 (`OnLink`); the ways grow with the
packets, so that no definition by recursion over the routes is needed. Of two packets
of a pair the one that has made more hops is the older one (`Apart`), and so is
the one in front if they have made equally many (`InTurn`); what has been
delivered is older than what is under way (`Later`). `HeadEnters` and `OrderedJoined` say
that leaving a queue and joining one keep this. `ArrivesFirst` is why a packet is delivered in its
turn: no way leads past its addressee. Circular routes are allowed: a packet on
one never arrives. TLC checked `OInv` with the ways computed from the
routing tables before it was proved.

Every invariant, safety action property and refinement that a passing run checks is
proved. Only model-checked are the properties that need fairness, which the prover cannot
treat: `ListenerReleased`, `NotificationDelivered`, `QueriesServed`, `TransmissionDone`,
`ClientEnds`, `ServerEnds`, `UserGoesOn` and `Arrives`.

## 5. Findings

1. `SSScheduler.cc:92`: a stray semicolon makes every result of the last wait
   count as a message, and a deadline that passes a second boundary is invalid
   (`SSThread.cc:65`), so an event can be handed out early (`ssgate_early`).
2. `modbus.cc:155`: one reset connection and the server behaves like a master: it
   reconnects, to an address that does not exist, and serves nobody afterwards
   (`modbus_serve`).
3. `GenericTCPApplication.cc:180`: a connection closed at the thread limit is not
   remembered. Its request, already under way, may be given a thread when the limit is
   left again; that thread can neither reply nor end (`tcp_killed`).
4. `TGMNetworkConfigurator.h:91`: the number of a system is read from where the
   names of another kind of topology had it, so it is always 0, all core
   routers count as one system, and none has a route to another
   (`routes_interas`).

Seen while modelling, and contradicted by a text of the repository, without a run of
its own:

* the last request of a session does not close the connection if it asks for a reply of
  length 0 (`GenericTCPApplicationServerThread.cc:59`): neither thread ends, and the session
  neither. The comment of the method says "In case this was the last request (information
  contained in the message) set doClose to true and close socket" (lines 47-48), that of the
  client "After a maximum number of requests has been sent, the socket is closed and the thread
  removed" (`GenericTCPApplicationClientThread.cc:11-12`). `noReply` models it, and `ClientEnds`
  and `ServerEnds` except it;
* a client that is known to a UDP server can exceed its thread limit, as only the welcome socket
  is closed (`GenericUDPApplication.cc:308-315`). The comments say "limiting the number of UDP connections that may open
  at the same time" (lines 14-15) and "this server will accept no more connection attempts" (line
  311); `StrangersTurnedAway` is what holds;
* `previousProfileId` is set to -1 and never again (`InetUser.cc:31`, `:88`), so a user may use
  the same profile twice in a row, although "it is assured that the same profile ID is not used
  twice in a row" (`InetUser.cc:83`). In `InetUsers` a first draw excludes nothing;
* the parser of the profiles looks for `<RequestPerSession>` (`TrafficProfileManager.cc:128`),
  the file of the simulations has `<RequestsPerSession>` (`traffic_profiles.parameters:5`): its
  values are never read, and the number of requests is the default of 1 (`TransmissionConfig.h:65`)
  and a random part. The modules take any value, as files with the other name do.

Seen while modelling, where no text of the repository says otherwise:

* a poll clears `nextMsg` whatever ended its wait; with an empty event queue a
  notification is then looked at only when something else ends the wait
  (`SSGate.cc:49`);
* a second ICMP error for the same UDP socket ends the simulation
  (`GenericUDPApplication.cc:242`; `aborted` in `UDPApp`);
* a Modbus response is never matched by its transaction identifier
  (`modbus.cc:644`): that is harmless as long as masters reconnect after errors
  (`AnswersItsQuery`), and not with `NOP_ON_ERROR`;
* `modbus_receive` may use an uninitialised length (`modbus.cc:612`,
  `staleException`);
* after a timeout inside a query the rest of it is read as the next query
  (`torn` in `ModbusStream`);
* a client whose TCP server is overloaded waits for ever (`ClientEnds`);
* the trace of a queue cannot be switched on: its message is scheduled before it
  is created (`DropTailTraceQueue.cc:28`); a pong that comes late is counted for the
  next session (`GenericICMPPingApplication.cc:147`).

## 6. Not modelled

Attack traffic, packet logging, generated message classes, NED files and
simulation configurations: generators, I/O or data. A user whose fixed profile is not
in the configuration file (it gets the last one that is). The Modbus/TCP application
has empty methods. A second run in one process (`endRun` leaves dangling gates), and
what subclasses of `SSProxy` do. `remote_ip` of the gateway, the serial line, and in
`modbus_manage_query` everything about several registers or bits. In IP: options,
multicast, fragments, bit errors, spoofing, and the ICMP errors sent for dropped
packets (`UDPApp` has them as a choice of the network). Weights of random
choices, delays, message lengths (but for replies of length 0 in `TCPApp`; a request is taken to
have at least one byte) and statistics.

## 7. Plan

What could follow:

1. `ModbusLink` composed with the monitor of `SSGate`, and with `ModbusStream`, which would
   let a torn query have an effect on the mapping.
2. `remote_ip`, and the bounds of the mapping in `modbus_manage_query` for functions on
   several registers.
3. An abstract start-and-done protocol between InetUser and its applications that
   `UDPApp` and `TCPApp` implement.
4. Proofs: what the liveness properties of `TCPApp`, `InetUsers` and `SSGate` need of
   safety, as `ClientsEnd` and `NothingLostHolds` do for `TransmissionDone` and `Arrives`; and
   packets between systems, once their routes are repaired (finding 4).
