--------------------------- MODULE TriggerChannel ---------------------------
(***************************************************************************)
(* What the transactional outbox promises to the rest of the platform      *)
(* (messaging/outbox.py): a trigger whose transaction committed is handed  *)
(* to the transport, and nothing else ever is.  Delivery is at least once  *)
(* and unordered, so the channel is a set that grows.                      *)
(***************************************************************************)
CONSTANT Messages

VARIABLES
    accepted,   \* triggers whose transaction committed
    delivered   \* triggers the transport has been given at least once

vars == <<accepted, delivered>>

Init == accepted = {} /\ delivered = {}

Accept(m) ==
    /\ m \notin accepted
    /\ accepted' = accepted \cup {m}
    /\ UNCHANGED delivered

Deliver(m) ==
    /\ m \in accepted
    /\ delivered' = delivered \cup {m}
    /\ UNCHANGED accepted

Next == \E m \in Messages : Accept(m) \/ Deliver(m)

Spec == Init /\ [][Next]_vars

(* Every accepted trigger is delivered in the end. *)
FairSpec == Spec /\ \A m \in Messages : WF_vars(Deliver(m))

=============================================================================
