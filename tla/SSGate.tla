------------------------------- MODULE SSGate -------------------------------
(***************************************************************************)
(* The gateway between the simulation and the outside world:               *)
(* src/external/SSThread.cc, SSGate.cc, SSScheduler.cc, SSProxy.cc and the *)
(* listener thread of ModbusGate.cc.                                       *)
(*                                                                         *)
(* Two threads share one mutex, one condition variable and the flag        *)
(* nextMsg.  "S" is the simulation thread, which runs                      *)
(* SSScheduler::getNextEvent and the event handlers; "G" is the listener   *)
(* thread, which runs SSGate::processMessage for every query it receives   *)
(* and inserts the notification message of a proxy in the event queue.     *)
(*                                                                         *)
(* Time is counted in ticks of 100 ms and relative to the simulation time: *)
(* due[m] is the arrival time of message m minus the simulation time, lag  *)
(* the wall clock (minus baseTime) minus the simulation time.              *)
(***************************************************************************)
EXTENDS Integers, Sequences

CONSTANTS
  Proxies,           (* SSProxy modules; also names their notificationMsg  *)
  Timers,            (* other messages of the event queue                  *)
  Addresses,         (* external addresses a query can come from           *)
  AddrOf,            (* the extAddress parameter of each proxy             *)
  NULL,
  MaxDelay,          (* bound: longest delay of a timer, in ticks          *)
  MaxLag, MaxLead,   (* bounds: where the clock saturates                  *)
  MaxQueued,         (* bound: times a notification is queued              *)
  UsecAsMs,          (* a tick in microseconds, waited for as milliseconds *)
  SpuriousWakeups,   (* does pthread_cond_wait return without a signal?    *)
  PersistentTimers   (* is a timer always scheduled again?                 *)

Msgs == Proxies \cup Timers

ASSUME SSGateAssumption ==
  /\ Proxies \cap Timers = {}
  /\ NULL \notin Msgs \cup Addresses
  /\ AddrOf \in [Proxies -> Addresses]
  /\ {MaxDelay, MaxLag, MaxLead, MaxQueued, UsecAsMs} \subseteq Nat \ {0}
  /\ {SpuriousWakeups, PersistentTimers} \subseteq BOOLEAN

VARIABLES
  pcS, pcG,    (* where each thread is                                     *)
  mutex,       (* its holder, or "free"                                    *)
  asleep,      (* the threads blocked on the condition variable            *)
  nextMsg,
  proxies,     (* SSGate::proxies, in the order of binding                 *)
  queued,      (* simulation.msgQueue: how often each message is in it     *)
  due, lag,
  peeked,      (* msg of getNextEvent                                      *)
  target,      (* targetTime of getNextEvent                               *)
  waitKind,    (* which call of nextMessage receiveUntil is in             *)
  patience,    (* ticks left of a timed wait                               *)
  retcode,     (* retcode of nextMessage                                   *)
  ext,         (* extAddress of the query being processed                  *)
  clobbered    (* history: did setup() reinitialise a monitor in use?      *)

monitor   == <<mutex, asleep, nextMsg>>
queue     == <<queued, due>>
scheduler == <<peeked, target, waitKind, patience, retcode>>
vars      == <<pcS, pcG, monitor, proxies, queue, lag, scheduler, ext, clobbered>>

SHolding == {"holding", "clearing"}
GHolding == {"holding", "notifying"}

Init ==
  /\ pcS = "initialize" /\ pcG = "setup"
  /\ mutex = "free" /\ asleep = {} /\ nextMsg \in BOOLEAN
  /\ proxies = <<>>
  /\ queued = [m \in Msgs |-> 0] /\ due = [m \in Msgs |-> 0] /\ lag = 0
  /\ peeked = NULL /\ target = 0 /\ waitKind = "slice"
  /\ patience = 0 /\ retcode = "unset"
  /\ ext = NULL /\ clobbered = FALSE

(***************************************************************************)
(* pthread_cond_signal: there is at most one other thread to wake.  After  *)
(* the condition variable was reinitialised under a sleeper, the signal    *)
(* may miss it.                                                            *)
(***************************************************************************)
notify ==
  \/ asleep' = {}
  \/ clobbered /\ UNCHANGED asleep

(* The saturating clock: beyond the bounds time is no longer told apart.   *)
Clamp(t) == IF t > MaxLag THEN MaxLag ELSE IF t < -MaxLead THEN -MaxLead ELSE t

(* Fault: the queue is not checked for being empty of the message.         *)
peekFirst_Unchecked(m) == \A n \in Msgs : queued[n] > 0 => due[m] <= due[n]

(***************************************************************************)
(* msgQueue.peekFirst().  Inserting a queued notification again changes    *)
(* its arrival time under the heap: its old entry keeps its place.         *)
(***************************************************************************)
peekFirst(m) ==
  /\ queued[m] > 0
  /\ \/ queued[m] > 1
     \/ \A n \in Msgs : queued[n] > 0 => due[m] <= due[n]

QueueEmpty == \A m \in Msgs : queued[m] = 0

PeekInto ==
  \/ \E m \in Msgs : peekFirst(m) /\ peeked' = m
  \/ QueueEmpty /\ peeked' = NULL

-----------------------------------------------------------------------------
(* The simulation thread.                                                  *)

(* SSProxy::initialize: the listener may already be running.               *)
proxyBinding(p) ==
  /\ pcS = "initialize" /\ \A i \in DOMAIN proxies : proxies[i] # p
  /\ proxies' = Append(proxies, p)
  /\ UNCHANGED <<pcS, pcG, monitor, queue, lag, scheduler, ext, clobbered>>

(* Any other module schedules its first self-message in initialize().      *)
initializeTimer(t) ==
  /\ pcS = "initialize" /\ queued[t] = 0
  /\ \E d \in 1..MaxDelay : due' = [due EXCEPT ![t] = d]
  /\ queued' = [queued EXCEPT ![t] = 1]
  /\ UNCHANGED <<pcS, pcG, monitor, proxies, lag, scheduler, ext, clobbered>>

initialized ==
  /\ pcS = "initialize"
  /\ \A p \in Proxies : \E i \in DOMAIN proxies : proxies[i] = p
  /\ PersistentTimers => \A t \in Timers : queued[t] > 0
  /\ pcS' = "getNextEvent"
  /\ UNCHANGED <<pcG, monitor, proxies, queue, lag, scheduler, ext, clobbered>>

(* getNextEvent up to receiveUntil; without an event the target is LONG_MAX *)
getNextEvent ==
  /\ pcS = "getNextEvent"
  /\ PeekInto
  /\ target' = IF peeked' = NULL THEN 0 ELSE due[peeked']
  /\ pcS' = "receiveUntil"
  /\ UNCHANGED <<pcG, monitor, proxies, queue, lag, waitKind, patience, retcode,
                 ext, clobbered>>

(* Fault: the target time is looked at only while it is ahead.             *)
receiveUntil_NoTimeCheck ==
  /\ pcS = "receiveUntil"
  /\ pcS' = "nextMessage"
  /\ \/ /\ peeked = NULL \/ target - lag # 1
        /\ waitKind' = "slice" /\ patience' = 1
     \/ /\ peeked # NULL /\ target - lag = 1
        /\ waitKind' = "rest" /\ patience' = UsecAsMs
  /\ UNCHANGED <<pcG, monitor, proxies, queue, lag, peeked, target, retcode,
                 ext, clobbered>>

(***************************************************************************)
(* receiveUntil reads the clock and either waits a slice of 100 ms, or     *)
(* waits for the rest at once - handing microseconds to a parameter in     *)
(* milliseconds -, or returns 0 and leaves the event peeked before.        *)
(***************************************************************************)
receiveUntil ==
  /\ pcS = "receiveUntil"
  /\ \/ /\ peeked = NULL \/ target - lag >= 2
        /\ pcS' = "nextMessage" /\ waitKind' = "slice" /\ patience' = 1
     \/ /\ peeked # NULL /\ target - lag = 1
        /\ pcS' = "nextMessage" /\ waitKind' = "rest" /\ patience' = UsecAsMs
     \/ /\ peeked # NULL /\ target - lag <= 0
        /\ pcS' = "doOneEvent" /\ UNCHANGED <<waitKind, patience>>
  /\ UNCHANGED <<pcG, monitor, proxies, queue, lag, peeked, target, retcode,
                 ext, clobbered>>

(* SSThread::lock in nextMessage.  Before setup() the mutex is raw memory: *)
(* locking it works, or fails with a code nobody looks at.                 *)
nextMessageLock ==
  /\ pcS = "nextMessage"
  /\ \/ mutex = "free" /\ mutex' = "S"
     \/ pcG = "setup" /\ UNCHANGED mutex
  /\ pcS' = "holding"
  /\ UNCHANGED <<pcG, asleep, nextMsg, proxies, queue, lag, scheduler, ext, clobbered>>

(* nextMsg is already set: retcode stays uninitialised.                    *)
nextMessagePending ==
  /\ pcS = "holding" /\ nextMsg
  /\ pcS' = "clearing"
  /\ UNCHANGED <<pcG, monitor, proxies, queue, lag, scheduler, ext, clobbered>>

(* SSThread::wait(ms): the deadline is valid, the thread goes to sleep.    *)
wait ==
  /\ pcS = "holding" /\ ~nextMsg
  /\ asleep' = asleep \cup {"S"} /\ mutex' = "free"
  /\ pcS' = "waiting" /\ retcode' = "ok"
  /\ UNCHANGED <<pcG, nextMsg, proxies, queue, lag, peeked, target, waitKind,
                 patience, ext, clobbered>>

(* SSThread::wait(ms): tv_nsec passes 10^9 and the call fails at once.     *)
waitInvalid ==
  /\ pcS = "holding" /\ ~nextMsg
  /\ pcS' = "clearing" /\ retcode' = "error"
  /\ UNCHANGED <<pcG, monitor, proxies, queue, lag, peeked, target, waitKind,
                 patience, ext, clobbered>>

(* The wait times out, or ends without a signal; the mutex is still to be  *)
(* taken.                                                                  *)
waitEnds ==
  /\ pcS = "waiting" /\ "S" \in asleep
  /\ asleep' = asleep \ {"S"}
  /\ \/ patience = 0 /\ retcode' = "error"
     \/ SpuriousWakeups /\ UNCHANGED retcode
  /\ UNCHANGED <<pcS, pcG, mutex, nextMsg, proxies, queue, lag, peeked, target,
                 waitKind, patience, ext, clobbered>>

waitReturns ==
  /\ pcS = "waiting" /\ "S" \notin asleep /\ mutex = "free"
  /\ mutex' = "S" /\ pcS' = "clearing"
  /\ UNCHANGED <<pcG, asleep, nextMsg, proxies, queue, lag, scheduler, ext,
                 clobbered>>

(* Fault: the flag is cleared without a signal.                            *)
nextMessageReturns_NoNotify ==
  /\ pcS = "clearing"
  /\ nextMsg' = FALSE /\ mutex' = "free"
  /\ retcode' = "unset" /\ patience' = 0
  /\ \/ /\ waitKind = "rest" \/ retcode \in {"ok", "unset"}
        /\ pcS' = "peekAgain"
     \/ /\ waitKind = "slice" /\ retcode \in {"error", "unset"}
        /\ pcS' \in {"receiveUntil", "interrupted"}
  /\ UNCHANGED <<pcG, asleep, proxies, queue, lag, peeked, target, waitKind, ext,
                 clobbered>>

(***************************************************************************)
(* The rest of nextMessage, and what receiveUntil makes of its result.  A  *)
(* zero ends receiveUntil; so does any result of the last wait, whose "if" *)
(* is followed by a semicolon.  Otherwise ev.idle() may report the user's  *)
(* interrupt.                                                              *)
(***************************************************************************)
nextMessageReturns ==
  /\ pcS = "clearing"
  /\ nextMsg' = FALSE /\ notify /\ mutex' = "free"
  /\ retcode' = "unset" /\ patience' = 0
  /\ \/ /\ waitKind = "rest" \/ retcode \in {"ok", "unset"}
        /\ pcS' = "peekAgain"
     \/ /\ waitKind = "slice" /\ retcode \in {"error", "unset"}
        /\ pcS' \in {"receiveUntil", "interrupted"}
  /\ UNCHANGED <<pcG, proxies, queue, lag, peeked, target, waitKind, ext, clobbered>>

(* receiveUntil returned 1.  An empty queue looks like an interrupt.       *)
peekAgain ==
  /\ pcS = "peekAgain"
  /\ PeekInto
  /\ pcS' = IF peeked' = NULL THEN "interrupted" ELSE "doOneEvent"
  /\ UNCHANGED <<pcG, monitor, proxies, queue, lag, target, waitKind, patience,
                 retcode, ext, clobbered>>

(* The kernel advances the simulation time to the event and handles it:    *)
(* SSProxy::handleMessage, or a module that may schedule its timer again.  *)
doOneEvent ==
  /\ pcS = "doOneEvent"
  /\ lag' = Clamp(lag - due[peeked])
  /\ \/ /\ peeked \in Proxies \/ ~PersistentTimers
        /\ queued' = [queued EXCEPT ![peeked] = @ - 1]
        /\ due' = [m \in Msgs |->
                    IF queued'[m] = 0 THEN 0 ELSE Clamp(due[m] - due[peeked])]
     \/ /\ peeked \in Timers
        /\ UNCHANGED queued
        /\ \E d \in 1..MaxDelay :
             due' = [m \in Msgs |->
                      IF m = peeked THEN d
                      ELSE IF queued[m] = 0 THEN 0
                      ELSE Clamp(due[m] - due[peeked])]
  /\ pcS' = "getNextEvent" /\ peeked' = NULL /\ target' = 0 /\ waitKind' = "slice"
  /\ UNCHANGED <<pcG, monitor, proxies, patience, retcode, ext, clobbered>>

(* The user resumes the simulation: baseTime is set so that the wall clock *)
(* shows the simulation time.                                              *)
executionResumed ==
  /\ pcS = "interrupted"
  /\ lag' = 0 /\ pcS' = "getNextEvent"
  /\ UNCHANGED <<pcG, monitor, proxies, queue, scheduler, ext, clobbered>>

(* The user or a time limit ends the run: Close() joins the listener.      *)
endRun ==
  /\ pcS \in {"getNextEvent", "interrupted"}
  /\ pcS' = "joining"
  /\ UNCHANGED <<pcG, monitor, proxies, queue, lag, scheduler, ext, clobbered>>

joined ==
  /\ pcS = "joining" /\ pcG = "exited"
  /\ pcS' = "ended"
  /\ UNCHANGED <<pcG, monitor, proxies, queue, lag, scheduler, ext, clobbered>>

-----------------------------------------------------------------------------
(* The listener thread.                                                    *)

(* SSThread::run starts with setup(), in the new thread.                   *)
setup ==
  /\ pcG = "setup"
  /\ nextMsg' = FALSE /\ mutex' = "free"
  /\ clobbered' = (pcS \in SHolding \cup {"waiting"})
  /\ pcG' = "listen"
  /\ UNCHANGED <<pcS, asleep, proxies, queue, lag, scheduler, ext>>

(* modbus_listen delivers a query; its address goes to processMessage.     *)
receive(a) ==
  /\ pcG = "listen"
  /\ \A p \in Proxies : AddrOf[p] = a => queued[p] < MaxQueued
  /\ ext' = a /\ pcG' = "processMessage"
  /\ UNCHANGED <<pcS, monitor, proxies, queue, lag, scheduler, clobbered>>

(* The client closed the connection and accept() fails: listen() returns.  *)
acceptFails ==
  /\ pcG = "listen"
  /\ pcG' = "exited"
  /\ UNCHANGED <<pcS, monitor, proxies, queue, lag, scheduler, ext, clobbered>>

processMessageLock ==
  /\ pcG = "processMessage" /\ mutex = "free"
  /\ mutex' = "G" /\ pcG' = "holding"
  /\ UNCHANGED <<pcS, asleep, nextMsg, proxies, queue, lag, scheduler, ext,
                 clobbered>>

(* Fault: the notification that is still pending is not waited for.        *)
processMessageTest_NoWait ==
  /\ pcG = "holding"
  /\ pcG' = "notifying"
  /\ UNCHANGED <<pcS, monitor, proxies, queue, lag, scheduler, ext, clobbered>>

(* if (nextMsg) wait(): tested once, not in a loop.                        *)
processMessageTest ==
  /\ pcG = "holding"
  /\ IF nextMsg
     THEN /\ asleep' = asleep \cup {"G"} /\ mutex' = "free"
          /\ pcG' = "waiting"
     ELSE /\ pcG' = "notifying" /\ UNCHANGED <<asleep, mutex>>
  /\ UNCHANGED <<pcS, nextMsg, proxies, queue, lag, scheduler, ext, clobbered>>

spuriousWakeup ==
  /\ SpuriousWakeups
  /\ pcG = "waiting" /\ "G" \in asleep
  /\ asleep' = asleep \ {"G"}
  /\ UNCHANGED <<pcS, pcG, mutex, nextMsg, proxies, queue, lag, scheduler, ext,
                 clobbered>>

processMessageWakes ==
  /\ pcG = "waiting" /\ "G" \notin asleep /\ mutex = "free"
  /\ mutex' = "G" /\ pcG' = "notifying"
  /\ UNCHANGED <<pcS, asleep, nextMsg, proxies, queue, lag, scheduler, ext,
                 clobbered>>

(* getProxyDestination: the first proxy bound to the address, or none.     *)
getProxyDestination(a, p) ==
  \E i \in DOMAIN proxies :
     /\ proxies[i] = p /\ AddrOf[p] = a
     /\ \A j \in 1..(i - 1) : AddrOf[proxies[j]] # a

NoDestination(a) == \A i \in DOMAIN proxies : AddrOf[proxies[i]] # a

(* The simulation thread is in msgQueue, which no lock protects.           *)
InQueueCode == pcS \in {"getNextEvent", "peekAgain", "doOneEvent"}

(* Fault: a notification still queued is taken out before it is inserted.  *)
insert_CancelFirst(p) ==
  \/ queued' = [queued EXCEPT ![p] = 1] /\ due' = [due EXCEPT ![p] = lag]
  \/ InQueueCode /\ queued' = [queued EXCEPT ![p] = 0] /\ UNCHANGED due

(* setArrival and msgQueue.insert.  An insertion that races with the       *)
(* simulation thread's use of the heap may be lost.                        *)
insert(p) ==
  \/ queued' = [queued EXCEPT ![p] = @ + 1] /\ due' = [due EXCEPT ![p] = lag]
  \/ InQueueCode /\ UNCHANGED queue

(* The rest of processMessage for a proxy p.                               *)
processMessageNotify(p) ==
  /\ pcG = "notifying"
  /\ getProxyDestination(ext, p)
  /\ insert(p)
  /\ nextMsg' = TRUE /\ notify /\ mutex' = "free"
  /\ pcG' = "manageQuery"
  /\ UNCHANGED <<pcS, proxies, lag, scheduler, ext, clobbered>>

(* Fault: the early way out forgets to unlock.                             *)
processMessageIgnores_NoUnlock ==
  /\ pcG = "notifying"
  /\ NoDestination(ext)
  /\ pcG' = "manageQuery"
  /\ UNCHANGED <<pcS, monitor, proxies, queue, lag, scheduler, ext, clobbered>>

processMessageIgnores ==
  /\ pcG = "notifying"
  /\ NoDestination(ext)
  /\ mutex' = "free" /\ pcG' = "manageQuery"
  /\ UNCHANGED <<pcS, asleep, nextMsg, proxies, queue, lag, scheduler, ext,
                 clobbered>>

(* modbus_manage_query answers the client, and listen() loops.             *)
manageQuery ==
  /\ pcG = "manageQuery"
  /\ pcG' = "listen" /\ ext' = NULL
  /\ UNCHANGED <<pcS, monitor, proxies, queue, lag, scheduler, clobbered>>

-----------------------------------------------------------------------------
(* The wall clock, for the simulation time and for a timed wait.           *)
Tick ==
  /\ lag' = Clamp(lag + 1)
  /\ patience' = IF "S" \in asleep /\ patience > 0 THEN patience - 1 ELSE patience
  /\ UNCHANGED <<pcS, pcG, monitor, proxies, queue, peeked, target, waitKind,
                 retcode, ext, clobbered>>

Setting ==
  \/ \E p \in Proxies : proxyBinding(p)
  \/ \E t \in Timers : initializeTimer(t)
  \/ initialized

NextMessage ==
  \/ nextMessageLock \/ nextMessagePending \/ wait \/ waitInvalid
  \/ waitEnds \/ waitReturns \/ nextMessageReturns

ProcessMessage ==
  \/ processMessageLock \/ processMessageTest \/ spuriousWakeup
  \/ processMessageWakes \/ processMessageIgnores
  \/ \E p \in Proxies : processMessageNotify(p)

Simulation ==
  Setting \/ getNextEvent \/ receiveUntil \/ NextMessage \/ peekAgain \/ doOneEvent

User == executionResumed \/ endRun \/ joined

Listener ==
  \/ setup \/ acceptFails \/ manageQuery \/ ProcessMessage
  \/ \E a \in Addresses : receive(a)

Next == Simulation \/ User \/ Listener \/ Tick

Spec == Init /\ [][Next]_vars

(***************************************************************************)
(* Both threads and the clock run.  A mutex is not fair, but neither       *)
(* thread holds it while it blocks on anything but the condition, so a     *)
(* thread that finds it free again and again gets it.  A deadline is       *)
(* invalid only in a part of each second.  Clients, the user, accept       *)
(* failures and spurious wakeups owe nothing.                              *)
(***************************************************************************)
Fairness ==
  /\ WF_vars(Simulation) /\ WF_vars(Tick)
  /\ SF_vars(nextMessageLock) /\ SF_vars(waitReturns) /\ SF_vars(wait)
  /\ WF_vars(waitEnds /\ patience = 0)
  /\ WF_vars(setup) /\ WF_vars(manageQuery)
  /\ SF_vars(processMessageLock) /\ SF_vars(processMessageWakes)
  /\ WF_vars(processMessageTest) /\ WF_vars(processMessageIgnores)
  /\ \A p \in Proxies : WF_vars(processMessageNotify(p))

FairSpec == Spec /\ Fairness
-----------------------------------------------------------------------------
(* Properties.                                                             *)

(* Types of the variables of the two threads, the monitor and the queue.   *)
TypeOK ==
  /\ pcS \in {"initialize", "getNextEvent", "receiveUntil", "nextMessage",
              "holding", "waiting", "clearing", "peekAgain", "doOneEvent",
              "interrupted", "joining", "ended"}
  /\ pcG \in {"setup", "listen", "processMessage", "holding", "waiting",
              "notifying", "manageQuery", "exited"}
  /\ mutex \in {"free", "S", "G"} /\ asleep \subseteq {"S", "G"}
  /\ nextMsg \in BOOLEAN /\ clobbered \in BOOLEAN
  /\ proxies \in Seq(Proxies)
  /\ queued \in [Msgs -> Nat] /\ due \in [Msgs -> Int] /\ lag \in Int
  /\ peeked \in Msgs \cup {NULL} /\ target \in Int
  /\ waitKind \in {"slice", "rest"} /\ patience \in Nat
  /\ retcode \in {"unset", "ok", "error"}
  /\ ext \in Addresses \cup {NULL}

(* SSGate.cc:43-51,70-90: unless setup() hit a monitor in use, the mutex   *)
(* is held by exactly the thread that is between lock and unlock.          *)
LockDiscipline ==
  ~clobbered /\ pcG # "setup" =>
    /\ pcS \in SHolding <=> mutex = "S"
    /\ pcG \in GHolding <=> mutex = "G"

(* SSGate.cc:45-50,71-86: each thread sleeps only while the flag says that *)
(* the other one has to move, so they never wait for each other.           *)
SleepJustified ==
  ~clobbered =>
    /\ "S" \in asleep => ~nextMsg
    /\ "G" \in asleep => nextMsg

(* SSScheduler.cc:108,137: msg is peeked before the wait and returned      *)
(* after it; whatever the listener did meanwhile, it is still queued.      *)
ReturnedEventIsQueued == pcS = "doOneEvent" => peeked # NULL /\ queued[peeked] > 0

(* SSGate.cc:71-87: the monitor implements the one-slot mailbox, whatever  *)
(* the interleaving.                                                       *)
Box == INSTANCE NotificationBox WITH
         slot <- nextMsg, pending <- [p \in Proxies |-> queued[p]],
         MayOverwrite <- SpuriousWakeups

ImplementsBox == Box!Spec

Stopped == pcS \in {"interrupted", "joining", "ended"}

(* SSGate.cc:50,72: as long as the scheduler keeps polling the gate, the   *)
(* listener does not stay blocked in processMessage.                       *)
ListenerReleased ==
  []<>(pcS = "nextMessage") => ((pcG = "waiting" /\ ~clobbered) ~> (pcG # "waiting"))

(* SSScheduler.cc:99-138: with a timer always pending, a notification that *)
(* is in the queue is handled by its proxy unless the run stops.           *)
NotificationDelivered ==
  \A p \in Proxies :
     (queued[p] > 0) ~> (Stopped \/ (pcS = "doOneEvent" /\ peeked = p))

(* SSScheduler.cc:121: "if needed, wait until that time arrives": no event *)
(* is handed to the kernel before its time.                                *)
WaitedUntilThatTime == pcS = "doOneEvent" => lag >= due[peeked]
=============================================================================
