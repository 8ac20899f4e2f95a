----------------------------- MODULE InetUsers -----------------------------
(***************************************************************************)
(* src/applications/generic (InetUser, GenericApplication), the ping       *)
(* application and src/base (ConnectionManager, TrafficProfileManager).    *)
(*                                                                         *)
(* Every autonomous system has a connection manager where its servers      *)
(* register, and the managers register with a global one; in a flat        *)
(* topology there is only the global one.  A user asks its manager for a   *)
(* random profile and a server, runs a session of that profile, and asks   *)
(* again.  The sessions of TCP and UDP are modules of their own: here they *)
(* just end.                                                               *)
(***************************************************************************)
EXTENDS Integers, FiniteSets

CONSTANTS
  Networks,      (* autonomous systems                                     *)
  Users, Servers,
  AS,            (* AS of a user or a server                               *)
  profileNumber, (* of a user's applications                               *)
  Offer,         (* server: the profile and the port it registers          *)
  ConfigFile,    (* entries: id (-1: none), labelled, wan                  *)
  Attempts, Half,      (* 100 and 50 in the code                           *)
  RequestsPerSession,  (* the values a ping session takes                  *)
  MaxPongs,      (* bound: pings of a user under way; others are lost      *)
  Top, NONE

ASSUME InetUsersAssumption ==
  /\ Top \notin Networks /\ NONE \notin Servers \cup Int
  /\ AS \in [Users \cup Servers -> Networks]
  /\ \A e \in ConfigFile : e.wan \in (SUBSET BOOLEAN) \ {{}}
  /\ profileNumber \in [Users -> Int]
  /\ Attempts \in Nat /\ Half \in 2..Attempts /\ MaxPongs \in Nat /\ RequestsPerSession \subseteq Nat

VARIABLES
  isFlat,      (* the topology has only the global manager                 *)
  managers,    (* connection managers that are initialised                 *)
  isFlatNet,   (* of the global manager                                    *)
  subCM,       (* of the global manager                                    *)
  registered,  (* servers that are registered                              *)
  user,        (* state of a user, its current profile and target          *)
  ping,        (* ping application of a user                               *)
  pongs        (* pings and pongs of a user under way                      *)

vars == <<isFlat, managers, isFlatNet, subCM, registered, user, ping, pongs>>

GET_APP_TYPE(id) ==
  CASE id \in 0..10 -> "TCP" [] id \in 11..20 -> "UDP" [] id \in 21..30 -> "ICMP"
    [] OTHER -> "NOTSET"

(* setApplication: only a positive number fixes a user's profile.          *)
attachedProfileId(u) == IF profileNumber[u] > 0 THEN profileNumber[u] ELSE NONE

(* TrafficProfileManager: the valid entries; wan is the set of outcomes of *)
(* comparing WANRatio with a random number: 0% is never foreign, 100% is   *)
(* always, and what lies between is both.                                  *)
profiles == {e.id : e \in {e \in ConfigFile : e.labelled /\ e.id # -1}}
WAN(p) == (CHOOSE e \in ConfigFile : e.labelled /\ e.id = p).wan

(* A fixed profile is in the file: getFixTrafficProfile would take the last*)
(* entry for one that is not.                                              *)
ASSUME FixedProfilesAssumption ==
  \A u \in Users : profileNumber[u] > 0 => profileNumber[u] \in profiles

User == [pc : {"wakeup", "getServer", "running", "stuck", "error"},
         profile : profiles \cup {NONE}, isForeign : BOOLEAN,
         target : Servers \cup {NONE}, runs : 0..Attempts, except : profiles \cup {NONE}]

Init ==
  /\ isFlat \in BOOLEAN
  /\ managers = {} /\ isFlatNet = TRUE /\ subCM = {} /\ registered = {}
  /\ user = [u \in Users |-> [pc |-> "wakeup", profile |-> NONE, isForeign |-> FALSE,
                              target |-> NONE, runs |-> 0, except |-> NONE]]
  /\ ping = [u \in Users |-> [requests |-> 0, left |-> 0, sent |-> 0, received |-> 0]]
  /\ pongs = [u \in Users |-> 0]

-----------------------------------------------------------------------------
(* Connection managers.                                                    *)

Managers == {Top} \cup (IF isFlat THEN {} ELSE Networks)
Manager(x) == IF isFlat THEN Top ELSE AS[x]
Started == managers = Managers /\ registered = Servers

addSubCM(m) == subCM' = subCM \cup {m} /\ isFlatNet' = FALSE

(* registerConnectionManager: the first manager becomes the top manager,   *)
(* the others are added to it.                                             *)
registerConnectionManager(m) ==
  \/ m = Top /\ UNCHANGED <<subCM, isFlatNet>>
  \/ m # Top /\ addSubCM(m)

(* initialize: the global manager comes first in the NED files.            *)
initialize(m) ==
  /\ m \in Managers \ managers
  /\ m # Top => Top \in managers
  /\ managers' = managers \cup {m}
  /\ registerConnectionManager(m)
  /\ UNCHANGED <<isFlat, registered, user, ping, pongs>>

registerServer(s) ==
  /\ registered' = registered \cup {s}
  /\ isFlatNet' = (IF Manager(s) = Top THEN TRUE ELSE isFlatNet)
  /\ UNCHANGED <<isFlat, managers, subCM, user, ping, pongs>>

(* GenericApplication initialises in a later stage than the managers, and  *)
(* registers a server with the manager of its system.                      *)
initializeServer(s) ==
  /\ managers = Managers /\ s \notin registered
  /\ registerServer(s)

(* Fault: an unknown profile leaves the target as it was.                  *)
haveProfile_Stale(m, p, old) ==
  LET known == {s \in registered : Manager(s) = m /\ Offer[s].profile = p}
  IN  IF known = {} THEN {old} ELSE known

(* haveProfile: the targets manager m may write over the old one.  Servers *)
(* register without a module id, so the caller's id excludes none of them. *)
haveProfile(m, p, old) ==
  LET known == {s \in registered : Manager(s) = m /\ Offer[s].profile = p}
  IN  IF known = {} THEN {NONE} ELSE known

(* Fault: the network that asks is not left out.                           *)
getForeignServer_Own(m, p, old) ==
  LET found == (UNION {haveProfile(n, p, old) : n \in subCM}) \ {NONE}
  IN  IF found = {} THEN {NONE} ELSE found

(* getForeignServer: a hundred draws find a network with a server if there *)
(* is one.                                                                 *)
getForeignServer(m, p, old) ==
  LET found == (UNION {haveProfile(n, p, old) : n \in subCM \ {m}}) \ {NONE}
  IN  IF found = {} THEN {NONE} ELSE found

(* getServer, after the profile is drawn.                                  *)
Targets(m, p, isForeign, old) ==
  LET local == haveProfile(m, p, old) IN
  IF isFlatNet \/ (~isForeign /\ NONE \notin local) THEN local
  ELSE getForeignServer(m, p, old)

(* getServer draws until the profile is not the excluded one; once a draw  *)
(* was foreign, isForeign stays set.                                       *)
Draws(except) ==
  {d \in [profile : profiles \ {except}, isForeign : BOOLEAN] :
     \/ d.isForeign \in WAN(d.profile)
     \/ d.isForeign /\ except # NONE /\ TRUE \in WAN(except)}

-----------------------------------------------------------------------------
(* Users.                                                                  *)

(* Fault: the attempts of the last search count.                           *)
requestServer_Counted(r) == [r EXCEPT !.pc = "getServer", !.except = NONE]

(* transmissionDone up to its loop; previousProfileId is never assigned,   *)
(* so the profile of the last session may be drawn again.                  *)
requestServer(r) ==
  [r EXCEPT !.pc = "getServer", !.runs = 0, !.except = NONE]

(* Fault: a ping needs a port, too.                                        *)
startable_Port(p, t) == t # NONE /\ Offer[t].port > 0

(* A session of TCP or UDP needs a port.                                   *)
startable(p, t) ==
  GET_APP_TYPE(p) = "ICMP" \/ (t # NONE /\ Offer[t].port > 0)

(* The end of transmissionDone: a transmission starts, or none ever will.  *)
transmissionStart(u, r, t) ==
  /\ user' = [user EXCEPT ![u] = [r EXCEPT !.target = t,
       !.pc = IF startable(r.profile, t) THEN "running" ELSE "stuck"]]
  /\ IF GET_APP_TYPE(r.profile) = "ICMP"
     THEN \E n \in RequestsPerSession :
            ping' = [ping EXCEPT ![u] =
              [requests |-> n, left |-> n, sent |-> 0, received |-> 0]]
     ELSE UNCHANGED ping

(* handleMessage: the wakeup at startTime.                                 *)
wakeup(u) ==
  /\ Started /\ user[u].pc = "wakeup"
  /\ user' = [user EXCEPT ![u] = requestServer(@)]
  /\ UNCHANGED <<ping, pongs>>

(* Fault: a failed profile is not excluded from the next draw.             *)
excluded_None(r) == NONE

(* The profile that the next draw excludes: the one that just failed, but  *)
(* not in the attempt Half.                                                *)
excluded(r) == IF r.runs + 1 = Half THEN NONE ELSE r.except

(* One pass through the loop of transmissionDone.                          *)
getServer(u) ==
  LET r == user[u] IN
  /\ r.pc = "getServer" /\ attachedProfileId(u) = NONE
  /\ \E d \in Draws(excluded(r)) :
       \E t \in Targets(Manager(u), d.profile, d.isForeign, r.target) :
         LET next == [r EXCEPT !.profile = d.profile, !.isForeign = d.isForeign,
                               !.runs = @ + 1, !.except = d.profile]
         IN  IF t # NONE THEN transmissionStart(u, next, t)
             ELSE /\ user' = [user EXCEPT ![u] = [next EXCEPT !.target = NONE,
                       !.pc = IF next.runs < Attempts THEN "getServer" ELSE "error"]]
                  /\ UNCHANGED ping
  /\ UNCHANGED pongs

(* A user with a fixed profile asks once.                                  *)
getFixServer(u) ==
  LET p == attachedProfileId(u) IN
  /\ user[u].pc = "getServer" /\ p # NONE
  /\ \E f \in WAN(p) : \E t \in Targets(Manager(u), p, f, user[u].target) :
       transmissionStart(u, [user[u] EXCEPT !.profile = p, !.isForeign = f], t)
  /\ UNCHANGED pongs

(* The application of a TCP or UDP session reports its end.                *)
transmissionDone(u) ==
  /\ user[u].pc = "running" /\ GET_APP_TYPE(user[u].profile) # "ICMP"
  /\ user' = [user EXCEPT ![u] = requestServer(@)]
  /\ UNCHANGED <<ping, pongs>>

-----------------------------------------------------------------------------
(* Ping application.                                                       *)

(* Fault: the counter is decremented before it is tested.                  *)
requestsToSend_PreDecrement(a) == a.left > 1

(* "if (noRequestsToSend--)".                                              *)
requestsToSend(a) == a.left # 0

(* The timer: a ping, or the end of the session.  A ping may be lost, and  *)
(* so may its pong.                                                        *)
sendPing(u) ==
  /\ user[u].pc = "running" /\ GET_APP_TYPE(user[u].profile) = "ICMP"
  /\ ping' = [ping EXCEPT ![u].left = @ - 1,
                          ![u].sent = IF requestsToSend(ping[u]) THEN @ + 1 ELSE @]
  /\ IF requestsToSend(ping[u])
     THEN /\ \E n \in {pongs[u], pongs[u] + 1} :
               n <= MaxPongs /\ pongs' = [pongs EXCEPT ![u] = n]
          /\ UNCHANGED user
     ELSE /\ user' = [user EXCEPT ![u] = requestServer(@)]
          /\ UNCHANGED pongs

(* A pong counts for the session in which it arrives.                      *)
receivePong(u) ==
  /\ pongs[u] > 0
  /\ pongs' = [pongs EXCEPT ![u] = @ - 1]
  /\ ping' = [ping EXCEPT ![u].received = @ + 1]
  /\ UNCHANGED user

Next ==
  \/ \E m \in {Top} \cup Networks : initialize(m)
  \/ \E s \in Servers : initializeServer(s)
  \/ /\ \E u \in Users : \/ wakeup(u) \/ getServer(u) \/ getFixServer(u)
                         \/ transmissionDone(u) \/ sendPing(u) \/ receivePong(u)
     /\ UNCHANGED <<isFlat, managers, isFlatNet, subCM, registered>>

Spec == Init /\ [][Next]_vars

(* The kernel runs every initialisation and every timer; sessions end.     *)
Fairness ==
  /\ \A m \in {Top} \cup Networks : WF_vars(initialize(m))
  /\ \A s \in Servers : WF_vars(initializeServer(s))
  /\ \A u \in Users :
       WF_vars(/\ wakeup(u) \/ getServer(u) \/ getFixServer(u)
                  \/ transmissionDone(u) \/ sendPing(u)
               /\ UNCHANGED <<isFlat, managers, isFlatNet, subCM, registered>>)

FairSpec == Spec /\ Fairness

-----------------------------------------------------------------------------
(* Properties.                                                             *)

TypeOK ==
  /\ isFlat \in BOOLEAN /\ isFlatNet \in BOOLEAN
  /\ managers \subseteq Managers /\ subCM \subseteq Networks
  /\ registered \subseteq Servers
  /\ user \in [Users -> User]
  /\ ping \in [Users -> [requests : Nat, left : Nat \cup {-1}, sent : Nat, received : Nat]]
  /\ pongs \in [Users -> 0..MaxPongs]

(* ConnectionManager.cc:301-306, TransmissionConfig.h:188-191: the target  *)
(* record is reused from session to session, yet a session never runs      *)
(* against a server of another profile.                                    *)
TargetServesProfile ==
  \A u \in Users :
    user[u].pc = "running" /\ user[u].target # NONE =>
      /\ user[u].target \in registered
      /\ Offer[user[u].target].profile = user[u].profile

(* ConnectionManager.cc:145-171,217-279: in a topology with several        *)
(* systems a foreign session has its server in another one, and any other  *)
(* leaves its own system only if that has no such server.                  *)
Locality ==
  \A u \in Users :
    (user[u].pc = "running" /\ user[u].target # NONE /\ ~isFlat) =>
      IF user[u].isForeign THEN AS[user[u].target] # AS[u]
      ELSE AS[user[u].target] # AS[u] =>
             \A s \in Servers : AS[s] = AS[u] => Offer[s].profile # user[u].profile

(* No profile but bad is without a server: the draw of another leads a user*)
(* without a fixed profile to one.  A draw of p is foreign if p may be, or *)
(* if the profile drawn before it, the excluded one, was.                  *)
OnlyUnserved(bad, flat) ==
  \A p \in profiles \ {bad}, u \in Users :
    attachedProfileId(u) = NONE =>
      \E s \in Servers :
        /\ Offer[s].profile = p
        /\ flat \/ AS[s] # AS[u] \/ TRUE \notin WAN(p) \cup WAN(bad)

OneUnserved(flat) == \E bad \in profiles : OnlyUnserved(bad, flat)

(* InetUser.cc:85-112, "it is possible that a profile is returned but no   *)
(* server exists for this profile": one such profile never ends the        *)
(* simulation, because it is drawn at most twice in a search.              *)
SearchSucceeds == \A u \in Users : user[u].pc # "error"

(* GenericICMPPingApplication.cc:57-67: a ping session reports exactly the *)
(* requests it was to send.                                                *)
PingsSent ==
  [][\A u \in Users :
       user[u].pc = "running" /\ user'[u].pc = "getServer"
         /\ GET_APP_TYPE(user[u].profile) = "ICMP"
       => ping[u].sent = ping[u].requests]_vars

(* Some server a draw of profile p leads to has a port, whatever the draw. *)
Served(u, p) ==
  \A f \in WAN(p) : \E s \in Servers :
    /\ Offer[s].profile = p
    /\ isFlat \/ ~f \/ AS[s] # AS[u]

(* InetUser.cc:38-76: a user goes on from session to session for ever,     *)
(* unless its fixed profile may be sent where no server is.                *)
UserGoesOn ==
  \A u \in Users :
    attachedProfileId(u) = NONE \/ Served(u, attachedProfileId(u)) => []<>(user[u].pc = "running")
=============================================================================
