-------------------------- MODULE InetUsersProofs --------------------------
(***************************************************************************)
(* Proofs about InetUsers: for any systems, users, servers and profiles, a *)
(* session runs against a server of its profile, in the right system, and  *)
(* a ping session sends what it reports.                                   *)
(***************************************************************************)
EXTENDS InetUsers, TLAPS

network == <<isFlat, managers, isFlatNet, subCM, registered>>

(* Where the server of a running session is.                               *)
Near(u, p, isForeign, t) ==
  IF isForeign THEN AS[t] # AS[u]
  ELSE AS[t] # AS[u] => \A s \in Servers : AS[s] = AS[u] => Offer[s].profile # p

(* A target that serves p, where a session of u may find it.               *)
Serves(u, p, isForeign, t) ==
  /\ t \in registered /\ Offer[t].profile = p
  /\ ~isFlat => Near(u, p, isForeign, t)

(* A ping session owes the requests it has not sent.                       *)
Owes(a) == a.left \in Nat /\ a.sent + a.left = a.requests

Good(u) ==
  /\ user[u].pc # "wakeup" => Started
  /\ user[u].pc = "getServer" => user[u].runs < Attempts
  /\ user[u].pc = "running" =>
       /\ user[u].target # NONE =>
            Serves(u, user[u].profile, user[u].isForeign, user[u].target)
       /\ GET_APP_TYPE(user[u].profile) = "ICMP" => Owes(ping[u])

IInv ==
  /\ TypeOK
  /\ ~isFlat /\ managers \cap Networks # {} => ~isFlatNet
  /\ \A u \in Users : Good(u)

-----------------------------------------------------------------------------
(* Where the managers find a server.                                       *)

LEMMA Found ==
  ASSUME IInv, Started, NEW u \in Users, NEW p, NEW f \in BOOLEAN, NEW old,
         NEW t \in Targets(Manager(u), p, f, old)
  PROVE  /\ t \in Servers \cup {NONE}
         /\ t # NONE => Serves(u, p, f, t)
<1> DEFINE m == Manager(u)
           known == {s \in registered : Manager(s) = m /\ Offer[s].profile = p}
<1>1. /\ registered = Servers /\ managers = Managers /\ NONE \notin Servers
      /\ subCM \subseteq Networks
  BY InetUsersAssumption DEF IInv, TypeOK, Started, InetUsersAssumption
<1>2. haveProfile(m, p, old) = IF known = {} THEN {NONE} ELSE known
  BY DEF haveProfile
<1>3. \A s \in Users \cup Servers : AS[s] \in Networks /\ (~isFlat => Manager(s) = AS[s])
  BY InetUsersAssumption DEF InetUsersAssumption, Manager
<1>4. ~isFlat => ~isFlatNet
  BY <1>1, <1>3 DEF IInv, Managers
<1>5. CASE t \in haveProfile(m, p, old) /\ (isFlatNet \/ ~f)
  <2>1. t \in known \cup {NONE}
    BY <1>2, <1>5
  <2>2. t \in known => Serves(u, p, f, t)
    BY <1>1, <1>3, <1>4, <1>5 DEF Serves, Near
  <2> QED
    BY <1>1, <2>1, <2>2
<1>6. CASE t \in getForeignServer(m, p, old) /\ ~isFlatNet
           /\ (f \/ NONE \in haveProfile(m, p, old))
  <2>1. t = NONE \/ \E n \in subCM \ {m} : t \in haveProfile(n, p, old) /\ t # NONE
    BY <1>6 DEF getForeignServer
  <2>2. SUFFICES ASSUME NEW n \in subCM \ {m}, t \in haveProfile(n, p, old), t # NONE
                 PROVE  t \in Servers /\ Serves(u, p, f, t)
    BY <2>1
  <2>3. t \in registered /\ Manager(t) = n /\ Offer[t].profile = p
    BY <2>2 DEF haveProfile
  <2>4. ~f => known = {}
    BY <1>1, <1>2, <1>6
  <2> QED
    BY <1>1, <1>3, <2>2, <2>3, <2>4 DEF Serves, Near
<1> QED
  BY <1>5, <1>6 DEF Targets

(* A fixed profile is one of the file, and so is the ratio that goes with  *)
(* it.                                                                     *)
LEMMA FixedProfile ==
  ASSUME NEW u \in Users, attachedProfileId(u) # NONE
  PROVE  attachedProfileId(u) \in profiles /\ WAN(attachedProfileId(u)) \subseteq BOOLEAN
<1>1. attachedProfileId(u) \in profiles
  BY FixedProfilesAssumption DEF FixedProfilesAssumption, attachedProfileId
<1>2. \E e \in ConfigFile : e.labelled /\ e.id = attachedProfileId(u)
  BY <1>1 DEF profiles
<1> QED
  BY <1>1, <1>2, InetUsersAssumption DEF WAN, InetUsersAssumption

-----------------------------------------------------------------------------
(* The step of one user.                                                   *)

LEMMA UserStep ==
  ASSUME IInv, UNCHANGED network, NEW u \in Users, NEW r \in User,
         user' = [user EXCEPT ![u] = r],
         ping' \in [Users -> [requests : Nat, left : Nat \cup {-1}, sent : Nat, received : Nat]],
         \A n \in Users \ {u} : ping'[n] = ping[n],
         pongs' \in [Users -> 0..MaxPongs],
         r.pc # "wakeup" => Started,
         r.pc = "getServer" => r.runs < Attempts,
         r.pc = "running" =>
           /\ r.target # NONE => Serves(u, r.profile, r.isForeign, r.target)
           /\ GET_APP_TYPE(r.profile) = "ICMP" => Owes(ping'[u])
  PROVE  IInv'
<1>1. TypeOK /\ user \in [Users -> User]
  BY DEF IInv, TypeOK
<1>2. user'[u] = r /\ \A n \in Users \ {u} : user'[n] = user[n]
  BY <1>1
<1>3. TypeOK'
  BY <1>1 DEF TypeOK, network, Managers
<1>4. Good(u)'
  BY <1>2 DEF Good, Started, Managers, Serves, Near, Owes, network
<1>5. ASSUME NEW n \in Users \ {u} PROVE Good(n)'
  <2>1. Good(n)
    BY DEF IInv
  <2> QED
    BY <1>2, <2>1 DEF Good, Started, Managers, Serves, Near, Owes, network
<1> QED
  BY <1>3, <1>4, <1>5 DEF IInv, network

(* A user that asks for a new session keeps the pings of the last one.     *)
LEMMA AsksAgain ==
  ASSUME TypeOK, NEW u \in Users
  PROVE  /\ requestServer(user[u]) \in User
         /\ requestServer(user[u]).pc = "getServer"
         /\ requestServer(user[u]).runs < Attempts
<1>1. user[u] \in User /\ 0 \in 0..Attempts /\ 0 < Attempts
  BY InetUsersAssumption DEF TypeOK, InetUsersAssumption
<1> QED
  BY <1>1 DEF requestServer, User

LEMMA WakeupStep ==
  ASSUME IInv, UNCHANGED network, NEW u \in Users, wakeup(u)
  PROVE  IInv'
<1>1. TypeOK /\ Started
  BY DEF IInv, wakeup
<1>2. user' = [user EXCEPT ![u] = requestServer(user[u])] /\ UNCHANGED <<ping, pongs>>
  BY DEF wakeup
<1> QED
  BY <1>1, <1>2, AsksAgain, UserStep DEF TypeOK

LEMMA TransmissionDoneStep ==
  ASSUME IInv, UNCHANGED network, NEW u \in Users, transmissionDone(u)
  PROVE  IInv'
<1>1. TypeOK /\ Started
  BY DEF IInv, Good, transmissionDone
<1>2. user' = [user EXCEPT ![u] = requestServer(user[u])] /\ UNCHANGED <<ping, pongs>>
  BY DEF transmissionDone
<1> QED
  BY <1>1, <1>2, AsksAgain, UserStep DEF TypeOK

LEMMA StartStep ==
  ASSUME IInv, UNCHANGED <<network, pongs>>, Started, NEW u \in Users,
         NEW r \in User, NEW t \in Servers \cup {NONE},
         t # NONE => Serves(u, r.profile, r.isForeign, t),
         transmissionStart(u, r, t)
  PROVE  IInv'
<1> DEFINE next == [r EXCEPT !.target = t,
                             !.pc = IF startable(r.profile, t) THEN "running" ELSE "stuck"]
<1>1. TypeOK /\ user' = [user EXCEPT ![u] = next]
  BY DEF IInv, transmissionStart
<1>2. /\ next \in User /\ next.pc \in {"running", "stuck"} /\ next.target = t
      /\ next.profile = r.profile /\ next.isForeign = r.isForeign
  BY DEF User
<1>3. CASE GET_APP_TYPE(r.profile) = "ICMP"
  <2>1. PICK n \in RequestsPerSession :
          ping' = [ping EXCEPT ![u] = [requests |-> n, left |-> n, sent |-> 0, received |-> 0]]
    BY <1>3 DEF transmissionStart
  <2>2. n \in Nat
    BY InetUsersAssumption DEF InetUsersAssumption
  <2>3. Owes(ping'[u])
    BY <1>1, <2>1, <2>2 DEF TypeOK, Owes
  <2> HIDE DEF next
  <2> QED
    BY <1>1, <1>2, <2>1, <2>2, <2>3, UserStep DEF TypeOK
<1>4. CASE GET_APP_TYPE(r.profile) # "ICMP"
  <2>1. ping' = ping
    BY <1>4 DEF transmissionStart
  <2> HIDE DEF next
  <2> QED
    BY <1>1, <1>2, <1>4, <2>1, UserStep DEF TypeOK
<1> QED
  BY <1>3, <1>4

LEMMA GetServerStep ==
  ASSUME IInv, UNCHANGED network, NEW u \in Users, getServer(u)
  PROVE  IInv'
<1>1. /\ TypeOK /\ Started /\ user[u] \in User /\ user[u].pc = "getServer"
      /\ user[u].runs < Attempts /\ user[u].runs \in Nat /\ Attempts \in Nat /\ pongs' = pongs
  BY InetUsersAssumption DEF IInv, TypeOK, Good, getServer, User, InetUsersAssumption
<1>2. PICK d \in Draws(excluded(user[u])) :
        \E t \in Targets(Manager(u), d.profile, d.isForeign, user[u].target) :
          LET next == [user[u] EXCEPT !.profile = d.profile, !.isForeign = d.isForeign,
                                      !.runs = @ + 1, !.except = d.profile]
          IN  IF t # NONE THEN transmissionStart(u, next, t)
              ELSE /\ user' = [user EXCEPT ![u] = [next EXCEPT !.target = NONE,
                        !.pc = IF next.runs < Attempts THEN "getServer" ELSE "error"]]
                   /\ UNCHANGED ping
  BY DEF getServer
<1> DEFINE next == [user[u] EXCEPT !.profile = d.profile, !.isForeign = d.isForeign,
                                   !.runs = @ + 1, !.except = d.profile]
           failed == [next EXCEPT !.target = NONE,
                        !.pc = IF next.runs < Attempts THEN "getServer" ELSE "error"]
<1>3. d.profile \in profiles /\ d.isForeign \in BOOLEAN
  BY DEF Draws
<1>4. PICK t \in Targets(Manager(u), d.profile, d.isForeign, user[u].target) :
        IF t # NONE THEN transmissionStart(u, next, t)
        ELSE user' = [user EXCEPT ![u] = failed] /\ UNCHANGED ping
  BY <1>2
<1>5. next \in User /\ next.profile = d.profile /\ next.isForeign = d.isForeign
  <2>1. user[u].runs + 1 \in 0..Attempts /\ d.profile \in profiles \cup {NONE}
    BY <1>1, <1>3
  <2> DEFINE n == user[u].runs + 1  p == d.profile  f == d.isForeign
  <2>2. n \in 0..Attempts /\ p \in profiles \cup {NONE} /\ f \in BOOLEAN
        /\ next = [user[u] EXCEPT !.profile = p, !.isForeign = f, !.runs = n, !.except = p]
    BY <1>3, <2>1
  <2> HIDE DEF n, p, f, next
  <2>3. next \in User /\ next.profile = p /\ next.isForeign = f
    BY <1>1, <2>2 DEF User
  <2> QED
    BY <2>3 DEF p, f
<1>6. failed \in User /\ failed.pc \in {"getServer", "error"}
      /\ (failed.pc = "getServer" => failed.runs < Attempts)
  BY <1>1, <1>5 DEF User
<1>7. t \in Servers \cup {NONE} /\ (t # NONE => Serves(u, d.profile, d.isForeign, t))
  BY <1>1, <1>3, Found
<1> HIDE DEF next, failed
<1>8. CASE t # NONE
  BY <1>1, <1>4, <1>5, <1>7, <1>8, StartStep DEF network
<1>9. CASE t = NONE
  BY <1>1, <1>4, <1>6, <1>9, UserStep DEF TypeOK
<1> QED
  BY <1>8, <1>9

LEMMA GetFixServerStep ==
  ASSUME IInv, UNCHANGED network, NEW u \in Users, getFixServer(u)
  PROVE  IInv'
<1> DEFINE p == attachedProfileId(u)
<1>1. TypeOK /\ Started /\ user[u] \in User /\ p # NONE /\ pongs' = pongs
  BY DEF IInv, TypeOK, Good, getFixServer
<1>2. PICK f \in WAN(p) : \E t \in Targets(Manager(u), p, f, user[u].target) :
        transmissionStart(u, [user[u] EXCEPT !.profile = p, !.isForeign = f], t)
  BY DEF getFixServer
<1>3. PICK t \in Targets(Manager(u), p, f, user[u].target) :
        transmissionStart(u, [user[u] EXCEPT !.profile = p, !.isForeign = f], t)
  BY <1>2
<1> DEFINE next == [user[u] EXCEPT !.profile = p, !.isForeign = f]
<1>4. p \in profiles /\ f \in BOOLEAN
  BY <1>1, FixedProfile
<1> HIDE DEF p
<1>5. next \in User /\ next.profile = p /\ next.isForeign = f
  BY <1>1, <1>4 DEF User
<1>6. t \in Servers \cup {NONE} /\ (t # NONE => Serves(u, p, f, t))
  BY <1>1, <1>4, Found
<1>7. transmissionStart(u, next, t)
  BY <1>3
<1> HIDE DEF next
<1> QED
  BY <1>1, <1>5, <1>6, <1>7, StartStep DEF network

LEMMA SendPingStep ==
  ASSUME IInv, UNCHANGED network, NEW u \in Users, sendPing(u)
  PROVE  IInv'
<1> DEFINE a == ping[u]
           next == [a EXCEPT !.left = @ - 1,
                             !.sent = IF requestsToSend(ping[u]) THEN @ + 1 ELSE @]
<1>1. /\ TypeOK /\ Started /\ user[u] \in User /\ user[u].pc = "running"
      /\ Owes(a)
      /\ a \in [requests : Nat, left : Nat \cup {-1}, sent : Nat, received : Nat]
      /\ MaxPongs \in Nat /\ pongs[u] \in 0..MaxPongs
  BY InetUsersAssumption DEF IInv, TypeOK, Good, sendPing, InetUsersAssumption
<1>2. ping' = [ping EXCEPT ![u] = next]
  BY <1>1 DEF sendPing, TypeOK
<1>3. /\ next \in [requests : Nat, left : Nat \cup {-1}, sent : Nat, received : Nat]
      /\ requestsToSend(a) => Owes(next)
  <2> DEFINE l == a.left - 1
             k == IF requestsToSend(ping[u]) THEN a.sent + 1 ELSE a.sent
  <2>1. /\ l \in Nat \cup {-1} /\ k \in Nat
        /\ requestsToSend(a) => l \in Nat /\ k + l = a.requests
    BY <1>1 DEF requestsToSend, Owes
  <2>2. next = [a EXCEPT !.left = l, !.sent = k]
    OBVIOUS
  <2> HIDE DEF l, k, next, a
  <2> QED
    BY <1>1, <2>1, <2>2 DEF Owes
<1> HIDE DEF a, next
<1>4. /\ ping' \in [Users -> [requests : Nat, left : Nat \cup {-1}, sent : Nat, received : Nat]]
      /\ ping'[u] = next /\ \A n \in Users \ {u} : ping'[n] = ping[n]
  BY <1>1, <1>2, <1>3 DEF TypeOK
<1>5. CASE requestsToSend(ping[u])
  <2>1. user' = [user EXCEPT ![u] = user[u]]
    BY <1>1, <1>5 DEF sendPing, TypeOK
  <2>2. PICK n \in {pongs[u], pongs[u] + 1} : n <= MaxPongs /\ pongs' = [pongs EXCEPT ![u] = n]
    BY <1>5 DEF sendPing
  <2>3. n \in 0..MaxPongs
    BY <1>1, <2>2
  <2>4. pongs' \in [Users -> 0..MaxPongs]
    BY <1>1, <2>2, <2>3 DEF TypeOK
  <2>5. Good(u) /\ Owes(ping'[u])
    BY <1>3, <1>4, <1>5 DEF IInv, a
  <2> QED
    BY <1>1, <1>4, <2>1, <2>4, <2>5, UserStep DEF Good
<1>6. CASE ~requestsToSend(ping[u])
  <2>1. user' = [user EXCEPT ![u] = requestServer(user[u])] /\ pongs' = pongs
    BY <1>6 DEF sendPing
  <2> QED
    BY <1>1, <1>4, <2>1, AsksAgain, UserStep DEF TypeOK
<1> QED
  BY <1>5, <1>6

LEMMA ReceivePongStep ==
  ASSUME IInv, UNCHANGED network, NEW u \in Users, receivePong(u)
  PROVE  IInv'
<1> DEFINE a == ping[u]
           next == [a EXCEPT !.received = @ + 1]
<1>1. /\ TypeOK /\ user[u] \in User /\ Good(u)
      /\ a \in [requests : Nat, left : Nat \cup {-1}, sent : Nat, received : Nat]
      /\ pongs[u] \in 0..MaxPongs /\ MaxPongs \in Nat
  BY InetUsersAssumption DEF IInv, TypeOK, InetUsersAssumption
<1>2. /\ ping' = [ping EXCEPT ![u] = next]
      /\ user' = [user EXCEPT ![u] = user[u]]
      /\ pongs' \in [Users -> 0..MaxPongs]
  BY <1>1 DEF receivePong, TypeOK
<1>3. /\ next \in [requests : Nat, left : Nat \cup {-1}, sent : Nat, received : Nat]
      /\ Owes(a) => Owes(next)
  BY <1>1 DEF Owes
<1> HIDE DEF next
<1>4. /\ ping' \in [Users -> [requests : Nat, left : Nat \cup {-1}, sent : Nat, received : Nat]]
      /\ ping'[u] = next /\ \A n \in Users \ {u} : ping'[n] = ping[n]
  BY <1>1, <1>2, <1>3 DEF TypeOK
<1> QED
  BY <1>1, <1>2, <1>3, <1>4, UserStep DEF Good

-----------------------------------------------------------------------------
(* The start of the network: users wait until it is complete.              *)

LEMMA StartUpStep ==
  ASSUME IInv, UNCHANGED <<isFlat, user, ping, pongs>>, ~Started,
         isFlatNet' \in BOOLEAN, managers' \subseteq Managers, subCM' \subseteq Networks,
         registered' \subseteq Servers,
         ~isFlat /\ managers' \cap Networks # {} => ~isFlatNet'
  PROVE  IInv'
<1>1. TypeOK'
  BY DEF IInv, TypeOK, Managers
<1>2. \A u \in Users : user[u].pc = "wakeup"
  BY DEF IInv, Good
<1> QED
  BY <1>1, <1>2 DEF IInv, Good

LEMMA ManagerStep ==
  ASSUME IInv, NEW m \in {Top} \cup Networks, initialize(m)
  PROVE  IInv'
<1>1. /\ TypeOK /\ m \in Managers \ managers /\ ~Started
      /\ managers' = managers \cup {m} /\ registerConnectionManager(m)
      /\ UNCHANGED <<isFlat, registered, user, ping, pongs>> /\ Top \notin Networks
  BY InetUsersAssumption DEF IInv, initialize, Started, InetUsersAssumption
<1>2. CASE m = Top
  BY <1>1, <1>2, StartUpStep DEF IInv, TypeOK, registerConnectionManager
<1>3. CASE m # Top
  BY <1>1, <1>3, StartUpStep DEF IInv, TypeOK, registerConnectionManager, addSubCM
<1> QED
  BY <1>2, <1>3

LEMMA ServerStep ==
  ASSUME IInv, NEW s \in Servers, initializeServer(s)
  PROVE  IInv'
<1>1. /\ TypeOK /\ ~Started /\ registered' = registered \cup {s}
      /\ isFlatNet' = IF Manager(s) = Top THEN TRUE ELSE isFlatNet
      /\ UNCHANGED <<isFlat, managers, subCM, user, ping, pongs>>
  BY DEF IInv, initializeServer, registerServer, Started
<1>2. ~isFlat => Manager(s) # Top
  BY InetUsersAssumption DEF InetUsersAssumption, Manager
<1> QED
  BY <1>1, <1>2, StartUpStep DEF IInv, TypeOK

-----------------------------------------------------------------------------
(* The invariant.                                                          *)

LEMMA InitInv == Init => IInv
<1> SUFFICES ASSUME Init PROVE IInv
  OBVIOUS
<1>1. 0 \in 0..Attempts /\ 0 \in 0..MaxPongs
  BY InetUsersAssumption DEF InetUsersAssumption
<1>2. user \in [Users -> User]
  BY <1>1 DEF Init, User
<1>3. TypeOK
  BY <1>1, <1>2 DEF Init, TypeOK
<1>4. \A u \in Users : Good(u)
  BY DEF Init, Good
<1> QED
  BY <1>3, <1>4 DEF IInv, Init

LEMMA NextInv == IInv /\ [Next]_vars => IInv'
<1> SUFFICES ASSUME IInv, [Next]_vars PROVE IInv'
  OBVIOUS
<1>1. CASE UNCHANGED vars
  BY <1>1 DEF vars, IInv, TypeOK, Good, Started, Managers, Serves, Near, Owes
<1>2. ASSUME NEW u \in Users, UNCHANGED network,
             \/ wakeup(u) \/ getServer(u) \/ getFixServer(u)
             \/ transmissionDone(u) \/ sendPing(u) \/ receivePong(u)
      PROVE  IInv'
  BY <1>2, WakeupStep, GetServerStep, GetFixServerStep, TransmissionDoneStep, SendPingStep,
     ReceivePongStep
<1> QED
  BY <1>1, <1>2, ManagerStep, ServerStep DEF Next, network

LEMMA Invariance == Spec => []IInv
<1> QED
  BY InitInv, NextInv, PTL DEF Spec

(* The state has its types, whatever the topology and the profiles: no     *)
(* search goes past its last attempt, and no ping session counts below -1. *)
THEOREM TypeCorrect == Spec => []TypeOK
<1>1. IInv => TypeOK
  BY DEF IInv
<1> QED
  BY <1>1, Invariance, PTL

(* ConnectionManager.cc:301-306, TransmissionConfig.h:188-191: no session  *)
(* runs against the target of the last one when no server is found.        *)
THEOREM TargetServesProfileHolds == Spec => []TargetServesProfile
<1>1. IInv => TargetServesProfile
  BY DEF IInv, Good, Serves, TargetServesProfile
<1> QED
  BY <1>1, Invariance, PTL

(* ConnectionManager.cc:145-171,217-279: foreign sessions leave their      *)
(* system, others only when they must.                                     *)
THEOREM LocalityHolds == Spec => []Locality
<1>1. IInv => Locality
  BY DEF IInv, Good, Serves, Near, Locality
<1> QED
  BY <1>1, Invariance, PTL

(* GenericICMPPingApplication.cc:57-67: a ping session that ends has sent  *)
(* the requests it reports.                                                *)
THEOREM PingsSentHolds == Spec => PingsSent
<1> DEFINE Ends(u) ==
      user[u].pc = "running" /\ user'[u].pc = "getServer"
        /\ GET_APP_TYPE(user[u].profile) = "ICMP"
      => ping[u].sent = ping[u].requests
<1>1. ASSUME IInv, [Next]_vars, NEW u \in Users PROVE Ends(u)
  <2> SUFFICES ASSUME user[u].pc = "running", user'[u].pc = "getServer",
                      GET_APP_TYPE(user[u].profile) = "ICMP"
               PROVE  ping[u].sent = ping[u].requests
    OBVIOUS
  <2>1. user' # user
    OBVIOUS
  <2>2. /\ user \in [Users -> User] /\ Owes(ping[u])
        /\ ping[u].sent \in Nat /\ ping[u].requests \in Nat
    BY <1>1 DEF IInv, TypeOK, Good
  <2>3. PICK n \in Users : \/ wakeup(n) \/ getServer(n) \/ getFixServer(n)
                           \/ transmissionDone(n) \/ sendPing(n) \/ receivePong(n)
    BY <1>1, <2>1 DEF Next, vars, initialize, initializeServer, registerServer
  <2>4. \A x : user' = [user EXCEPT ![n] = x] => n = u
    BY <2>2
  <2>5. ~wakeup(n) /\ ~transmissionDone(n) /\ ~receivePong(n)
    BY <2>2, <2>4 DEF wakeup, transmissionDone, receivePong
  <2>6. ~getServer(n) /\ ~getFixServer(n)
    BY <2>2, <2>4 DEF getServer, getFixServer, transmissionStart
  <2>7. sendPing(u) /\ ~requestsToSend(ping[u])
    BY <2>2, <2>3, <2>4, <2>5, <2>6 DEF sendPing
  <2> QED
    BY <2>2, <2>7 DEF requestsToSend, Owes
<1>2. IInv /\ [Next]_vars => \A u \in Users : Ends(u)
  BY <1>1
<1>3. IInv /\ UNCHANGED vars => \A u \in Users : Ends(u)
  BY <1>2
<1> QED
  BY <1>2, Invariance, PTL DEF Spec, PingsSent

-----------------------------------------------------------------------------
(* A search that succeeds: the profile without a server is tried in the    *)
(* first attempt or in attempt Half, and never in two others.              *)

(* What the attempts of a search have tried.                               *)
Tried(r, bad) ==
  \/ r.runs = 0 /\ r.except = NONE
  \/ r.runs = 1 /\ r.except = bad
  \/ r.runs = 2 /\ r.except = bad /\ Half = 2

Searches(u, bad) ==
  /\ user[u].pc # "error"
  /\ user[u].pc = "getServer" /\ attachedProfileId(u) = NONE => Tried(user[u], bad)

FInv(bad) ==
  /\ IInv
  /\ bad \in profiles /\ OnlyUnserved(bad, isFlat)
  /\ ~isFlat => subCM = managers \cap Networks
  /\ isFlat => isFlatNet
  /\ \A u \in Users : Searches(u, bad)

(* Any other profile is found, foreign or not.                             *)
LEMMA OthersFound ==
  ASSUME NEW bad, FInv(bad), Started, NEW u \in Users, attachedProfileId(u) = NONE,
         NEW except \in {NONE, bad}, NEW d \in Draws(except), d.profile # bad, NEW old
  PROVE  NONE \notin Targets(Manager(u), d.profile, d.isForeign, old)
<1> DEFINE p == d.profile
           f == d.isForeign
           m == Manager(u)
<1>1. /\ IInv /\ registered = Servers /\ managers = Managers /\ NONE \notin Servers
      /\ AS \in [Users \cup Servers -> Networks] /\ Top \notin Networks
  BY InetUsersAssumption DEF FInv, Started, InetUsersAssumption
<1>2. p \in profiles \ {bad} /\ (f => TRUE \in WAN(p) \cup WAN(bad))
  BY DEF Draws
<1> HIDE DEF p, f
<1>3. PICK s \in Servers :
        Offer[s].profile = p /\ (isFlat \/ AS[s] # AS[u] \/ TRUE \notin WAN(p) \cup WAN(bad))
  BY <1>2 DEF FInv, OnlyUnserved
<1>4. ASSUME NEW n, Manager(s) = n
      PROVE  s \in haveProfile(n, p, old) /\ NONE \notin haveProfile(n, p, old)
  BY <1>1, <1>3, <1>4 DEF haveProfile
<1>5. CASE isFlat
  <2>1. isFlatNet /\ Manager(s) = m
    BY <1>5 DEF FInv, Manager
  <2> QED
    BY <1>4, <2>1 DEF Targets, p, f
<1>6. CASE ~isFlat /\ AS[s] = AS[u]
  <2>1. ~f /\ Manager(s) = m
    BY <1>2, <1>3, <1>6 DEF Manager
  <2> QED
    BY <1>4, <2>1 DEF Targets, p, f
<1>7. CASE ~isFlat /\ AS[s] # AS[u]
  <2>1. AS[s] \in Networks /\ AS[u] \in Networks /\ m = AS[u] /\ Manager(s) = AS[s]
    BY <1>1, <1>7 DEF Manager
  <2>2. AS[s] \in subCM \ {m} /\ ~isFlatNet
    BY <1>1, <1>7, <2>1 DEF FInv, IInv, Managers
  <2>3. s \in haveProfile(AS[s], p, old) /\ s # NONE
    BY <1>1, <1>4, <2>1
  <2>4. NONE \notin getForeignServer(m, p, old)
    BY <2>2, <2>3 DEF getForeignServer
  <2> QED
    BY <2>2, <2>4 DEF Targets, p, f
<1> QED
  BY <1>5, <1>6, <1>7

(* A step of a user that leaves the managers alone.                        *)
LEMMA SearchStep ==
  ASSUME NEW bad, FInv(bad), IInv', UNCHANGED network, NEW u \in Users, NEW r,
         user' = [user EXCEPT ![u] = r], r.pc # "error",
         r.pc = "getServer" /\ attachedProfileId(u) = NONE => Tried(r, bad)
  PROVE  FInv(bad)'
<1>1. user'[u] = r /\ \A n \in Users \ {u} : user'[n] = user[n]
  BY DEF FInv, IInv, TypeOK
<1>2. ASSUME NEW n \in Users PROVE Searches(n, bad)'
  BY <1>1 DEF FInv, Searches
<1> QED
  BY <1>2 DEF FInv, network

LEMMA RequestTries ==
  ASSUME NEW bad, NEW u \in Users, IInv
  PROVE  requestServer(user[u]).pc = "getServer" /\ Tried(requestServer(user[u]), bad)
<1>1. user[u] \in User
  BY DEF IInv, TypeOK
<1> QED
  BY <1>1 DEF requestServer, Tried, User

(* A transmission starts: the search is over.                              *)
LEMMA StartTries ==
  ASSUME NEW bad, FInv(bad), IInv', UNCHANGED network, NEW u \in Users,
         NEW r \in User, NEW t, transmissionStart(u, r, t)
  PROVE  FInv(bad)'
<1> DEFINE next == [r EXCEPT !.target = t,
                             !.pc = IF startable(r.profile, t) THEN "running" ELSE "stuck"]
<1>1. user' = [user EXCEPT ![u] = next] /\ next.pc \in {"running", "stuck"}
  BY DEF transmissionStart, User
<1> HIDE DEF next
<1> QED
  BY <1>1, SearchStep

LEMMA GetServerTries ==
  ASSUME NEW bad, FInv(bad), Attempts >= 3, IInv', UNCHANGED network, NEW u \in Users, getServer(u)
  PROVE  FInv(bad)'
<1> DEFINE e == excluded(user[u])
<1>1. /\ IInv /\ TypeOK /\ Started /\ user[u] \in User /\ user[u].pc = "getServer"
      /\ attachedProfileId(u) = NONE /\ user[u].runs \in Nat /\ Attempts \in Nat
      /\ Half \in 2..Attempts /\ Tried(user[u], bad)
  BY InetUsersAssumption
     DEF FInv, IInv, TypeOK, Good, Searches, getServer, User, InetUsersAssumption
<1>2. PICK d \in Draws(e) :
        \E t \in Targets(Manager(u), d.profile, d.isForeign, user[u].target) :
          LET next == [user[u] EXCEPT !.profile = d.profile, !.isForeign = d.isForeign,
                                      !.runs = @ + 1, !.except = d.profile]
          IN  IF t # NONE THEN transmissionStart(u, next, t)
              ELSE /\ user' = [user EXCEPT ![u] = [next EXCEPT !.target = NONE,
                        !.pc = IF next.runs < Attempts THEN "getServer" ELSE "error"]]
                   /\ UNCHANGED ping
  BY DEF getServer
<1> DEFINE n == user[u].runs + 1
           p == d.profile
           f == d.isForeign
           next == [user[u] EXCEPT !.profile = p, !.isForeign = f, !.runs = n, !.except = p]
           failed == [next EXCEPT !.target = NONE,
                        !.pc = IF next.runs < Attempts THEN "getServer" ELSE "error"]
<1>3. PICK t \in Targets(Manager(u), p, f, user[u].target) :
        IF t # NONE THEN transmissionStart(u, next, t)
        ELSE user' = [user EXCEPT ![u] = failed] /\ UNCHANGED ping
  BY <1>2
<1>4. p \in profiles \ {e} /\ f \in BOOLEAN
  BY DEF Draws
<1>5. e \in {NONE, bad} /\ (e # bad => n = 1 \/ (n = 2 /\ Half = 2))
  BY <1>1 DEF excluded, Tried
<1>6. t = NONE => p = bad
  BY <1>1, <1>3, <1>5, OthersFound
<1> HIDE DEF n, p, f, e
<1>7. next.runs = n /\ next.except = p /\ next.pc = "getServer"
  BY <1>1 DEF User
<1>8. CASE t # NONE
  <2>1. n \in 0..Attempts
    BY <1>1 DEF IInv, Good, n
  <2>2. next \in User
    BY <1>1, <1>4, <2>1 DEF User
  <2> HIDE DEF next
  <2> QED
    BY <1>3, <1>8, <2>2, StartTries
<1>9. CASE t = NONE
  <2>1. p = bad /\ (n = 1 \/ (n = 2 /\ Half = 2)) /\ n < Attempts
    BY <1>1, <1>4, <1>5, <1>6, <1>9
  <2>2. failed.pc = "getServer" /\ failed.runs = n /\ failed.except = bad
    BY <1>1, <1>7, <2>1 DEF User
  <2>3. Tried(failed, bad)
    BY <2>1, <2>2 DEF Tried
  <2>4. user' = [user EXCEPT ![u] = failed]
    BY <1>3, <1>9
  <2> HIDE DEF failed
  <2> QED
    BY <2>2, <2>3, <2>4, SearchStep
<1> QED
  BY <1>8, <1>9

LEMMA GetFixServerTries ==
  ASSUME NEW bad, FInv(bad), IInv', UNCHANGED network, NEW u \in Users, getFixServer(u)
  PROVE  FInv(bad)'
<1> DEFINE p == attachedProfileId(u)
<1>1. user[u] \in User /\ p # NONE
  BY DEF FInv, IInv, TypeOK, getFixServer
<1>2. PICK f \in WAN(p) : \E t \in Targets(Manager(u), p, f, user[u].target) :
        transmissionStart(u, [user[u] EXCEPT !.profile = p, !.isForeign = f], t)
  BY DEF getFixServer
<1>3. PICK t : transmissionStart(u, [user[u] EXCEPT !.profile = p, !.isForeign = f], t)
  BY <1>2
<1>4. p \in profiles /\ f \in BOOLEAN
  BY <1>1, FixedProfile
<1> DEFINE next == [user[u] EXCEPT !.profile = p, !.isForeign = f]
<1> HIDE DEF p
<1>5. next \in User
  BY <1>1, <1>4 DEF User
<1>6. transmissionStart(u, next, t)
  BY <1>3
<1> HIDE DEF next
<1> QED
  BY <1>5, <1>6, StartTries

LEMMA UserTries ==
  ASSUME NEW bad, FInv(bad), Attempts >= 3, IInv', UNCHANGED network, NEW u \in Users,
         \/ wakeup(u) \/ getServer(u) \/ getFixServer(u)
         \/ transmissionDone(u) \/ sendPing(u) \/ receivePong(u)
  PROVE  FInv(bad)'
<1>1. IInv /\ user \in [Users -> User] /\ Searches(u, bad)
  BY DEF FInv, IInv, TypeOK
<1>2. CASE user' = [user EXCEPT ![u] = requestServer(user[u])]
  BY <1>1, <1>2, RequestTries, SearchStep
<1>3. CASE user' = user
  <2>1. user' = [user EXCEPT ![u] = user[u]]
    BY <1>1, <1>3
  <2> QED
    BY <1>1, <2>1, SearchStep DEF Searches
<1>4. wakeup(u) \/ transmissionDone(u) => user' = [user EXCEPT ![u] = requestServer(user[u])]
  BY DEF wakeup, transmissionDone
<1>5. sendPing(u) => user' = user \/ user' = [user EXCEPT ![u] = requestServer(user[u])]
  BY DEF sendPing
<1>6. receivePong(u) => user' = user
  BY DEF receivePong
<1> QED
  BY <1>2, <1>3, <1>4, <1>5, <1>6, GetServerTries, GetFixServerTries

(* The network while it starts.                                            *)
LEMMA ManagersTry ==
  ASSUME NEW bad, FInv(bad), IInv', NEW m \in {Top} \cup Networks, initialize(m)
  PROVE  FInv(bad)'
<1>1. /\ m \in Managers /\ managers' = managers \cup {m} /\ registerConnectionManager(m)
      /\ UNCHANGED <<isFlat, user>> /\ Top \notin Networks
  BY InetUsersAssumption DEF initialize, InetUsersAssumption
<1>2. /\ ~isFlat => subCM' = managers' \cap Networks
      /\ isFlat => isFlatNet'
  BY <1>1 DEF FInv, registerConnectionManager, addSubCM, Managers
<1>3. \A u \in Users : Searches(u, bad)'
  BY <1>1 DEF FInv, Searches
<1> QED
  BY <1>1, <1>2, <1>3 DEF FInv

LEMMA ServersTry ==
  ASSUME NEW bad, FInv(bad), IInv', NEW s \in Servers, initializeServer(s)
  PROVE  FInv(bad)'
<1>1. /\ isFlat => isFlatNet'
      /\ UNCHANGED <<isFlat, managers, subCM, user>>
  BY DEF FInv, initializeServer, registerServer
<1>2. \A u \in Users : Searches(u, bad)'
  BY <1>1 DEF FInv, Searches
<1> QED
  BY <1>1, <1>2 DEF FInv

LEMMA InitTries ==
  ASSUME NEW bad \in profiles, Init, OnlyUnserved(bad, isFlat)
  PROVE  FInv(bad)
<1>1. \A u \in Users : Searches(u, bad)
  BY DEF Init, Searches
<1> QED
  BY <1>1, InitInv DEF Init, FInv

LEMMA NextTries ==
  ASSUME NEW bad, FInv(bad), Attempts >= 3, [Next]_vars
  PROVE  FInv(bad)'
<1>1. IInv'
  BY NextInv DEF FInv
<1>2. CASE UNCHANGED vars
  BY <1>1, <1>2 DEF vars, FInv, Searches
<1>3. ASSUME NEW u \in Users, UNCHANGED network,
             \/ wakeup(u) \/ getServer(u) \/ getFixServer(u)
             \/ transmissionDone(u) \/ sendPing(u) \/ receivePong(u)
      PROVE  FInv(bad)'
  BY <1>1, <1>3, UserTries
<1> QED
  BY <1>1, <1>2, <1>3, ManagersTry, ServersTry DEF Next, network

(* InetUser.cc:85-112: as long as all profiles but one lead to a server, no*)
(* user gives up and ends the simulation; three attempts would do.         *)
THEOREM SearchSucceedsHolds ==
  Attempts >= 3 => (Spec /\ OneUnserved(isFlat) => []SearchSucceeds)
<1> SUFFICES ASSUME Attempts >= 3 PROVE Spec /\ OneUnserved(isFlat) => []SearchSucceeds
  OBVIOUS
<1> DEFINE Searching == \E bad : FInv(bad)
<1>1. Init /\ OneUnserved(isFlat) => Searching
  BY InitTries DEF OneUnserved
<1>2. Searching /\ [Next]_vars => Searching'
  BY NextTries
<1>3. Searching => SearchSucceeds
  BY DEF FInv, Searches, SearchSucceeds
<1> HIDE DEF Searching
<1> QED
  BY <1>1, <1>2, <1>3, PTL DEF Spec
=============================================================================
