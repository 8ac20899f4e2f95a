----------------------------- MODULE SSGateProofs ---------------------------
(***************************************************************************)
(* Proofs about SSGate, for every set of proxies, timers and addresses and *)
(* every value of the bounds.                                              *)
(***************************************************************************)
EXTENDS SSGate, TLAPS

(***************************************************************************)
(* The inductive invariant: besides the checked invariants it says who can *)
(* be asleep, and that the listener, once past its only test of nextMsg,   *)
(* still finds it cleared unless a spurious wakeup let it through.         *)
(***************************************************************************)
SleepersWait ==
  /\ "S" \in asleep => pcS = "waiting"
  /\ "G" \in asleep => pcG = "waiting"

SlotFree ==
  ~SpuriousWakeups /\ (pcG = "notifying" \/ (pcG = "waiting" /\ "G" \notin asleep))
    => ~nextMsg

PeekedIsQueued ==
  /\ peeked # NULL => queued[peeked] > 0
  /\ pcS = "doOneEvent" => peeked # NULL

IInv ==
  /\ TypeOK
  /\ LockDiscipline
  /\ SleepersWait
  /\ SleepJustified
  /\ SlotFree
  /\ PeekedIsQueued

-----------------------------------------------------------------------------
(* Facts about the constants, the clock and the next-state relation.       *)

LEMMA ConstantTypes ==
  /\ MaxDelay \in Nat /\ MaxLag \in Nat /\ MaxLead \in Nat /\ UsecAsMs \in Nat
  /\ NULL \notin Msgs
  /\ Proxies \subseteq Msgs /\ Timers \subseteq Msgs
BY SSGateAssumption DEF Msgs

LEMMA ClampInt == \A t \in Int : Clamp(t) \in Int
BY ConstantTypes DEF Clamp

(* Every step is one of the actions, by name.                              *)
LEMMA NextCases ==
  ASSUME Next
  PROVE  \/ \E p \in Proxies : proxyBinding(p) \/ processMessageNotify(p)
         \/ \E t \in Timers : initializeTimer(t)
         \/ \E a \in Addresses : receive(a)
         \/ initialized
         \/ getNextEvent
         \/ receiveUntil
         \/ nextMessageLock
         \/ nextMessagePending
         \/ wait
         \/ waitInvalid
         \/ waitEnds
         \/ waitReturns
         \/ nextMessageReturns
         \/ peekAgain
         \/ doOneEvent
         \/ executionResumed
         \/ endRun
         \/ joined
         \/ setup
         \/ acceptFails
         \/ processMessageLock
         \/ processMessageTest
         \/ spuriousWakeup
         \/ processMessageWakes
         \/ processMessageIgnores
         \/ manageQuery
         \/ Tick
BY Zenon DEF Next, Simulation, User, Listener, Setting, NextMessage, ProcessMessage

-----------------------------------------------------------------------------
(* Types.  Only the count of the event being handled needs more than       *)
(* TypeOK: it must be queued to be taken out.                              *)
LEMMA NextTypeOK ==
  ASSUME TypeOK, PeekedIsQueued, [Next]_vars PROVE TypeOK'
<1> USE DEF TypeOK, monitor, queue, scheduler
<1>1. ASSUME NEW p \in Proxies, proxyBinding(p) PROVE TypeOK'
  BY <1>1 DEF proxyBinding
<1>2. ASSUME NEW p \in Proxies, processMessageNotify(p) PROVE TypeOK'
  <2>1. queued' \in [Msgs -> Nat] /\ due' \in [Msgs -> Int]
    BY <1>2, ConstantTypes DEF processMessageNotify, insert
  <2>2. asleep' \subseteq {"S", "G"}
    BY <1>2 DEF processMessageNotify, notify
  <2> QED
    BY <1>2, <2>1, <2>2 DEF processMessageNotify
<1>3. ASSUME NEW t \in Timers, initializeTimer(t) PROVE TypeOK'
  BY <1>3, ConstantTypes DEF initializeTimer
<1>4. ASSUME NEW a \in Addresses, receive(a) PROVE TypeOK'
  BY <1>4 DEF receive
<1>5. CASE initialized
  BY <1>5 DEF initialized
<1>6. CASE getNextEvent
  BY <1>6, ConstantTypes DEF getNextEvent, PeekInto, peekFirst
<1>7. CASE receiveUntil
  BY <1>7, ConstantTypes DEF receiveUntil
<1>8. CASE nextMessageLock
  BY <1>8 DEF nextMessageLock
<1>9. CASE nextMessagePending
  BY <1>9 DEF nextMessagePending
<1>10. CASE wait
  BY <1>10 DEF wait
<1>11. CASE waitInvalid
  BY <1>11 DEF waitInvalid
<1>12. CASE waitEnds
  BY <1>12 DEF waitEnds
<1>13. CASE waitReturns
  BY <1>13 DEF waitReturns
<1>14. CASE nextMessageReturns
  BY <1>14 DEF nextMessageReturns, notify
<1>15. CASE peekAgain
  BY <1>15 DEF peekAgain, PeekInto, peekFirst
<1>16. CASE doOneEvent
  <2>1. peeked \in Msgs /\ due[peeked] \in Int
    BY <1>16, ConstantTypes DEF doOneEvent, PeekedIsQueued
  <2>2. \A m \in Msgs : Clamp(due[m] - due[peeked]) \in Int
    BY <2>1, ClampInt
  <2>3. queued[peeked] - 1 \in Nat
    BY <1>16, <2>1 DEF doOneEvent, PeekedIsQueued
  <2>4. queued' \in [Msgs -> Nat]
    BY <1>16, <2>1, <2>3 DEF doOneEvent
  <2>5. due' \in [Msgs -> Int]
    BY <1>16, <2>2, ConstantTypes DEF doOneEvent
  <2>6. lag' \in Int
    BY <1>16, <2>1, ClampInt DEF doOneEvent
  <2> QED
    BY <1>16, <2>4, <2>5, <2>6 DEF doOneEvent
<1>17. CASE executionResumed
  BY <1>17 DEF executionResumed
<1>18. CASE endRun
  BY <1>18 DEF endRun
<1>19. CASE joined
  BY <1>19 DEF joined
<1>20. CASE setup
  <2>1. clobbered' \in BOOLEAN
    <3>1. CASE pcS \in SHolding \cup {"waiting"}
      BY <1>20, <3>1 DEF setup
    <3>2. CASE ~(pcS \in SHolding \cup {"waiting"})
      BY <1>20, <3>2 DEF setup
    <3> QED
      BY <3>1, <3>2
  <2> QED
    BY <1>20, <2>1 DEF setup
<1>21. CASE acceptFails
  BY <1>21 DEF acceptFails
<1>22. CASE processMessageLock
  BY <1>22 DEF processMessageLock
<1>23. CASE processMessageTest
  <2>1. /\ pcG' \in {"waiting", "notifying"} /\ mutex' \in {"free", mutex}
        /\ asleep' \in {asleep, asleep \cup {"G"}}
    BY <1>23 DEF processMessageTest
  <2>2. UNCHANGED <<pcS, nextMsg, proxies, queue, lag, scheduler, ext, clobbered>>
    BY <1>23 DEF processMessageTest
  <2> QED
    BY <2>1, <2>2
<1>24. CASE spuriousWakeup
  BY <1>24 DEF spuriousWakeup
<1>25. CASE processMessageWakes
  BY <1>25 DEF processMessageWakes
<1>26. CASE processMessageIgnores
  BY <1>26 DEF processMessageIgnores
<1>27. CASE manageQuery
  BY <1>27 DEF manageQuery
<1>28. CASE Tick
  <2>1. lag' \in Int
    BY <1>28, ClampInt DEF Tick
  <2>2. patience' \in Nat
    BY <1>28 DEF Tick
  <2> QED
    BY <1>28, <2>1, <2>2 DEF Tick
<1>29. CASE UNCHANGED vars
  BY <1>29 DEF vars
<1> QED
  BY <1>1, <1>2, <1>3, <1>4, <1>5, <1>6, <1>7, <1>8, <1>9, <1>10, <1>11,
     <1>12, <1>13, <1>14, <1>15, <1>16, <1>17, <1>18, <1>19, <1>20, <1>21,
     <1>22, <1>23, <1>24, <1>25, <1>26, <1>27, <1>28, <1>29, NextCases

(* Only the simulation thread takes messages out, and it forgets the one   *)
(* it takes.                                                               *)
LEMMA NextPeekedIsQueued ==
  ASSUME TypeOK, PeekedIsQueued, [Next]_vars PROVE PeekedIsQueued'
<1> USE DEF TypeOK, PeekedIsQueued, monitor, queue, scheduler
<1>1. ASSUME NEW p \in Proxies, proxyBinding(p) PROVE PeekedIsQueued'
  <2>1. UNCHANGED <<queued, peeked, pcS>>
    BY <1>1 DEF proxyBinding
  <2> QED
    BY <2>1
<1>2. ASSUME NEW p \in Proxies, processMessageNotify(p) PROVE PeekedIsQueued'
  <2>1. UNCHANGED <<peeked, pcS>> /\ \A m \in Msgs : queued'[m] >= queued[m]
    BY <1>2, ConstantTypes DEF processMessageNotify, insert
  <2>2. TypeOK'
    BY NextTypeOK
  <2>3. ASSUME peeked # NULL PROVE queued'[peeked] > 0
    <3>1. peeked \in Msgs /\ queued[peeked] \in Nat /\ queued[peeked] > 0
      BY <2>3
    <3>2. queued'[peeked] \in Nat /\ queued'[peeked] >= queued[peeked]
      BY <2>1, <2>2, <3>1
    <3> QED
      BY <3>1, <3>2
  <2> QED
    BY <2>1, <2>3
<1>3. ASSUME NEW t \in Timers, initializeTimer(t) PROVE PeekedIsQueued'
  BY <1>3, ConstantTypes DEF initializeTimer
<1>4. ASSUME NEW a \in Addresses, receive(a) PROVE PeekedIsQueued'
  BY <1>4 DEF receive
<1>5. CASE initialized
  BY <1>5 DEF initialized
<1>6. CASE getNextEvent
  BY <1>6, ConstantTypes DEF getNextEvent, PeekInto, peekFirst
<1>7. CASE receiveUntil
  BY <1>7 DEF receiveUntil
<1>8. CASE nextMessageLock
  BY <1>8 DEF nextMessageLock
<1>9. CASE nextMessagePending
  BY <1>9 DEF nextMessagePending
<1>10. CASE wait
  BY <1>10 DEF wait
<1>11. CASE waitInvalid
  BY <1>11 DEF waitInvalid
<1>12. CASE waitEnds
  BY <1>12 DEF waitEnds
<1>13. CASE waitReturns
  BY <1>13 DEF waitReturns
<1>14. CASE nextMessageReturns
  BY <1>14 DEF nextMessageReturns
<1>15. CASE peekAgain
  BY <1>15 DEF peekAgain, PeekInto, peekFirst
<1>16. CASE doOneEvent
  BY <1>16 DEF doOneEvent
<1>17. CASE executionResumed
  BY <1>17 DEF executionResumed
<1>18. CASE endRun
  BY <1>18 DEF endRun
<1>19. CASE joined
  BY <1>19 DEF joined
<1>20. CASE setup
  BY <1>20 DEF setup
<1>21. CASE acceptFails
  BY <1>21 DEF acceptFails
<1>22. CASE processMessageLock
  BY <1>22 DEF processMessageLock
<1>23. CASE processMessageTest
  BY <1>23 DEF processMessageTest
<1>24. CASE spuriousWakeup
  BY <1>24 DEF spuriousWakeup
<1>25. CASE processMessageWakes
  BY <1>25 DEF processMessageWakes
<1>26. CASE processMessageIgnores
  BY <1>26 DEF processMessageIgnores
<1>27. CASE manageQuery
  BY <1>27 DEF manageQuery
<1>28. CASE Tick
  BY <1>28 DEF Tick
<1>29. CASE UNCHANGED vars
  BY <1>29 DEF vars
<1> QED
  BY <1>1, <1>2, <1>3, <1>4, <1>5, <1>6, <1>7, <1>8, <1>9, <1>10, <1>11,
     <1>12, <1>13, <1>14, <1>15, <1>16, <1>17, <1>18, <1>19, <1>20, <1>21,
     <1>22, <1>23, <1>24, <1>25, <1>26, <1>27, <1>28, <1>29, NextCases

(* The conjuncts about the monitor, together.                              *)
MonitorInv == LockDiscipline /\ SleepersWait /\ SleepJustified /\ SlotFree

(* The monitor: who holds the mutex, who sleeps, and why.                  *)
LEMMA NextMonitorInv ==
  ASSUME TypeOK, MonitorInv, [Next]_vars PROVE MonitorInv'
<1> USE DEF TypeOK, MonitorInv, LockDiscipline, SleepersWait, SleepJustified,
           SlotFree, SHolding, GHolding, monitor, queue, scheduler
<1>1. ASSUME NEW p \in Proxies, proxyBinding(p) PROVE MonitorInv'
  BY <1>1 DEF proxyBinding
<1>2. ASSUME NEW p \in Proxies, processMessageNotify(p) PROVE MonitorInv'
  BY <1>2 DEF processMessageNotify, notify
<1>3. ASSUME NEW t \in Timers, initializeTimer(t) PROVE MonitorInv'
  BY <1>3 DEF initializeTimer
<1>4. ASSUME NEW a \in Addresses, receive(a) PROVE MonitorInv'
  BY <1>4 DEF receive
<1>5. CASE initialized
  BY <1>5 DEF initialized
<1>6. CASE getNextEvent
  BY <1>6 DEF getNextEvent
<1>7. CASE receiveUntil
  BY <1>7 DEF receiveUntil
<1>8. CASE nextMessageLock
  BY <1>8 DEF nextMessageLock
<1>9. CASE nextMessagePending
  BY <1>9 DEF nextMessagePending
<1>10. CASE wait
  BY <1>10 DEF wait
<1>11. CASE waitInvalid
  BY <1>11 DEF waitInvalid
<1>12. CASE waitEnds
  BY <1>12 DEF waitEnds
<1>13. CASE waitReturns
  BY <1>13 DEF waitReturns
<1>14. CASE nextMessageReturns
  BY <1>14 DEF nextMessageReturns, notify
<1>15. CASE peekAgain
  BY <1>15 DEF peekAgain
<1>16. CASE doOneEvent
  BY <1>16 DEF doOneEvent
<1>17. CASE executionResumed
  BY <1>17 DEF executionResumed
<1>18. CASE endRun
  BY <1>18 DEF endRun
<1>19. CASE joined
  BY <1>19 DEF joined
<1>20. CASE setup
  BY <1>20 DEF setup
<1>21. CASE acceptFails
  BY <1>21 DEF acceptFails
<1>22. CASE processMessageLock
  BY <1>22 DEF processMessageLock
<1>23. CASE processMessageTest
  BY <1>23 DEF processMessageTest
<1>24. CASE spuriousWakeup
  BY <1>24 DEF spuriousWakeup
<1>25. CASE processMessageWakes
  BY <1>25 DEF processMessageWakes
<1>26. CASE processMessageIgnores
  BY <1>26 DEF processMessageIgnores
<1>27. CASE manageQuery
  BY <1>27 DEF manageQuery
<1>28. CASE Tick
  BY <1>28 DEF Tick
<1>29. CASE UNCHANGED vars
  BY <1>29 DEF vars
<1> QED
  BY <1>1, <1>2, <1>3, <1>4, <1>5, <1>6, <1>7, <1>8, <1>9, <1>10, <1>11,
     <1>12, <1>13, <1>14, <1>15, <1>16, <1>17, <1>18, <1>19, <1>20, <1>21,
     <1>22, <1>23, <1>24, <1>25, <1>26, <1>27, <1>28, <1>29, NextCases

-----------------------------------------------------------------------------
(* The inductive invariant and what follows from it.                       *)

LEMMA InitIInv == Init => IInv
<1> SUFFICES ASSUME Init PROVE IInv
  OBVIOUS
<1>1. TypeOK
  <2>1. proxies \in Seq(Proxies)
    BY DEF Init
  <2>2. queued \in [Msgs -> Nat] /\ due \in [Msgs -> Int]
    BY DEF Init
  <2>3. nextMsg \in BOOLEAN
    BY DEF Init
  <2>4. clobbered \in BOOLEAN
    BY DEF Init
  <2>5. asleep \subseteq {"S", "G"}
    BY DEF Init
  <2> QED
    BY <2>1, <2>2, <2>3, <2>4, <2>5 DEF Init, TypeOK
<1>2. MonitorInv
  BY DEF Init, MonitorInv, LockDiscipline, SleepersWait, SleepJustified, SlotFree
<1>3. PeekedIsQueued
  BY DEF Init, PeekedIsQueued
<1> QED
  BY <1>1, <1>2, <1>3 DEF IInv, MonitorInv

LEMMA NextIInv == IInv /\ [Next]_vars => IInv'
BY NextTypeOK, NextMonitorInv, NextPeekedIsQueued DEF IInv, MonitorInv

LEMMA IInvHolds == Spec => []IInv
BY InitIInv, NextIInv, PTL DEF Spec

(* SSThread.cc, SSGate.cc, SSScheduler.cc: every variable of the threads,  *)
(* the monitor and the queue keeps its type; in particular no message is   *)
(* taken out of the queue more often than it was put in.                   *)
THEOREM TypeCorrect == Spec => []TypeOK
BY IInvHolds, PTL DEF IInv

(* SSGate.cc:43-51,70-90: unless setup() ran under the simulation thread's *)
(* first poll, the mutex excludes the two threads from each other.         *)
THEOREM MutualExclusion == Spec => []LockDiscipline
BY IInvHolds, PTL DEF IInv

(* SSGate.cc:45-50,71-86: neither thread sleeps without a reason only the  *)
(* other one can remove, and never both.                                   *)
THEOREM NoMutualSleep ==
  Spec => [](SleepJustified /\ (~clobbered => ~({"S", "G"} \subseteq asleep)))
<1>1. IInv => SleepJustified /\ (~clobbered => ~({"S", "G"} \subseteq asleep))
  BY DEF IInv, SleepJustified
<1> QED
  BY <1>1, IInvHolds, PTL

(* SSScheduler.cc:108,137: the event handed to the kernel is still queued, *)
(* though it was peeked before a wait in which the listener could insert.  *)
THEOREM ReturnedEventQueued == Spec => []ReturnedEventIsQueued
<1>1. IInv => ReturnedEventIsQueued
  BY DEF IInv, PeekedIsQueued, ReturnedEventIsQueued
<1> QED
  BY <1>1, IInvHolds, PTL

-----------------------------------------------------------------------------
(* The monitor implements the one-slot mailbox.                            *)

LEMMA InitBox == Init => Box!Init
BY ConstantTypes DEF Init, Box!Init

(* The steps that move the slot or a notification; the others stutter.     *)
LEMMA NotifyIsOffer ==
  ASSUME IInv, NEW p \in Proxies, processMessageNotify(p)
  PROVE  Box!Offer(p)
<1>1. ~nextMsg \/ SpuriousWakeups
  BY SSGateAssumption DEF IInv, SlotFree, processMessageNotify
<1>2. nextMsg' = TRUE
  BY DEF processMessageNotify
<1>3. CASE queued' = [queued EXCEPT ![p] = @ + 1]
  BY <1>1, <1>2, <1>3, ConstantTypes DEF Box!Offer, IInv, TypeOK
<1>4. CASE queued' = queued
  BY <1>1, <1>2, <1>4 DEF Box!Offer
<1> QED
  BY <1>3, <1>4 DEF processMessageNotify, insert, queue

LEMMA EventIsDelivery ==
  ASSUME IInv, doOneEvent
  PROVE  (\E p \in Proxies : Box!Deliver(p)) \/ UNCHANGED Box!box
<1> USE DEF IInv, TypeOK
<1>1. peeked \in Msgs /\ queued[peeked] > 0 /\ nextMsg' = nextMsg
  BY DEF doOneEvent, PeekedIsQueued, monitor
<1>2. CASE queued' = [queued EXCEPT ![peeked] = @ - 1] /\ peeked \in Proxies
  BY <1>1, <1>2, ConstantTypes DEF Box!Deliver
<1>3. CASE queued' = [queued EXCEPT ![peeked] = @ - 1] /\ peeked \in Timers
  BY <1>1, <1>3, ConstantTypes, SSGateAssumption DEF Box!box
<1>4. CASE queued' = queued
  BY <1>1, <1>4 DEF Box!box
<1> QED
  BY <1>1, <1>2, <1>3, <1>4 DEF doOneEvent, Msgs

LEMMA TimerIsStutter ==
  ASSUME IInv, NEW t \in Timers, initializeTimer(t)
  PROVE  UNCHANGED Box!box
BY ConstantTypes, SSGateAssumption DEF IInv, TypeOK, initializeTimer, monitor, Box!box

LEMMA NextBox == IInv /\ [Next]_vars => [Box!Next]_(Box!box)
<1> SUFFICES ASSUME IInv, [Next]_vars PROVE [Box!Next]_(Box!box)
  OBVIOUS
<1> USE DEF Box!Next, Box!box, monitor, queue
<1>1. ASSUME NEW p \in Proxies, processMessageNotify(p) PROVE Box!Next
  BY <1>1, NotifyIsOffer
<1>2. ASSUME doOneEvent PROVE [Box!Next]_(Box!box)
  BY <1>2, EventIsDelivery DEF Box!Next
<1>3. ASSUME NEW t \in Timers, initializeTimer(t) PROVE UNCHANGED Box!box
  BY <1>3, TimerIsStutter
<1>4. ASSUME setup \/ nextMessageReturns PROVE Box!Next
  BY <1>4 DEF setup, nextMessageReturns, Box!Acknowledge
<1>5. ASSUME nextMsg' = nextMsg, queued' = queued PROVE UNCHANGED Box!box
  BY <1>5
<1>6. ASSUME NEW p \in Proxies, proxyBinding(p) PROVE UNCHANGED Box!box
  BY <1>6 DEF proxyBinding
<1>7. ASSUME NEW a \in Addresses, receive(a) PROVE UNCHANGED Box!box
  BY <1>7 DEF receive
<1>8. ASSUME \/ initialized \/ getNextEvent \/ receiveUntil \/ nextMessageLock
             \/ nextMessagePending \/ wait \/ waitInvalid \/ waitEnds
             \/ waitReturns \/ peekAgain \/ executionResumed \/ endRun \/ joined
      PROVE UNCHANGED Box!box
  BY <1>8, <1>5 DEF initialized, getNextEvent, receiveUntil, nextMessageLock,
     nextMessagePending, wait, waitInvalid, waitEnds, waitReturns, peekAgain,
     executionResumed, endRun, joined
<1>9. ASSUME \/ acceptFails \/ processMessageLock \/ processMessageTest
             \/ spuriousWakeup \/ processMessageWakes \/ processMessageIgnores
             \/ manageQuery \/ Tick \/ UNCHANGED vars
      PROVE UNCHANGED Box!box
  BY <1>9, <1>5 DEF acceptFails, processMessageLock, processMessageTest,
     spuriousWakeup, processMessageWakes, processMessageIgnores, manageQuery,
     Tick, vars
<1> QED
  BY <1>1, <1>2, <1>3, <1>4, <1>6, <1>7, <1>8, <1>9, NextCases

(* SSGate.cc:71-87: whatever the two threads and the clock do, a           *)
(* notification enters the queue only through a free slot (unless wakeups  *)
(* can be spurious) and leaves it only by being delivered.                 *)
THEOREM MonitorImplementsBox == Spec => ImplementsBox
<1>1. Init => Box!Init
  BY InitBox
<1>2. IInv /\ [Next]_vars => [Box!Next]_(Box!box)
  BY NextBox
<1> QED
  BY <1>1, <1>2, IInvHolds, PTL DEF Spec, Box!Spec, ImplementsBox

=============================================================================
