--------------------------- MODULE NotificationBox --------------------------
(***************************************************************************)
(* What the gateway promises the simulation, without threads: a mailbox    *)
(* with one slot beside the event queue.  A notification for a proxy       *)
(* enters the queue only together with a claim on the slot, the slot must  *)
(* be free for that, and the simulation acknowledges it before the next    *)
(* notification is admitted.  Notifications leave the queue one by one,    *)
(* each by being delivered.                                                *)
(***************************************************************************)
EXTENDS Integers

CONSTANTS Proxies, MayOverwrite

VARIABLES slot, pending

box == <<slot, pending>>

Init == slot \in BOOLEAN /\ pending = [p \in Proxies |-> 0]

(* The insertion may be lost: nothing protects the queue itself.           *)
Offer(p) ==
  /\ ~slot \/ MayOverwrite
  /\ slot' = TRUE
  /\ \/ pending' = [pending EXCEPT ![p] = @ + 1]
     \/ UNCHANGED pending

Acknowledge == slot' = FALSE /\ UNCHANGED pending

Deliver(p) ==
  /\ pending[p] > 0
  /\ pending' = [pending EXCEPT ![p] = @ - 1]
  /\ UNCHANGED slot

Next == Acknowledge \/ \E p \in Proxies : Offer(p) \/ Deliver(p)

Spec == Init /\ [][Next]_box
=============================================================================
