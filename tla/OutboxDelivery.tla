---------------------------- MODULE OutboxDelivery ----------------------------
(***************************************************************************)
(* What the outbox promises, with no relay, lock, retry, clock or message  *)
(* in sight: an event committed to the outbox stays there until it is      *)
(* published or dead-lettered, it is marked published only when JetStream  *)
(* holds it, and only such an event is ever deleted.  PollingRelay is      *)
(* shown to implement this specification.                                  *)
(***************************************************************************)
CONSTANT Events

VARIABLES
    state,      \* the life cycle of every event (OutboxEvent's state machine)
    delivered   \* the events JetStream has stored at least once

vars == <<state, delivered>>

States == {"absent", "pending", "published", "failed", "purged"}

TypeOK ==
    /\ state \in [Events -> States]
    /\ delivered \subseteq Events

Init ==
    /\ state = [e \in Events |-> "absent"]
    /\ delivered = {}

InState(s) == {e \in Events : state[e] = s}

(* Some events of state "from" move to state "to".                         *)
Move(S, to) == state' = [e \in Events |-> IF e \in S THEN to ELSE state[e]]

Stage(e) ==
    /\ state[e] = "absent"
    /\ Move({e}, "pending")
    /\ UNCHANGED delivered

(* Delivery and the record of it are separate: an event may be delivered   *)
(* while it is pending, and again (a stutter here) at any later time.      *)
Deliver(e) ==
    /\ state[e] # "absent"
    /\ delivered' = delivered \union {e}
    /\ UNCHANGED state

(* One commit of the relay settles some events of its batch.               *)
Settle(published, failed) ==
    /\ published \subseteq InState("pending") \intersect delivered
    /\ failed \subseteq InState("pending") \ published
    /\ state' = [e \in Events |-> IF e \in published THEN "published"
                                  ELSE IF e \in failed THEN "failed"
                                  ELSE state[e]]
    /\ UNCHANGED delivered

Requeue(S) ==
    /\ S \subseteq InState("failed")
    /\ Move(S, "pending")
    /\ UNCHANGED delivered

Purge(S) ==
    /\ S \subseteq InState("published")
    /\ Move(S, "purged")
    /\ UNCHANGED delivered

Next ==
    \/ \E e \in Events : Stage(e) \/ Deliver(e)
    \/ \E P, F \in SUBSET Events : Settle(P, F)
    \/ \E S \in SUBSET Events : Requeue(S) \/ Purge(S)

Spec == Init /\ [][Next]_vars

-----------------------------------------------------------------------------
(* At-least-once delivery: an event the outbox calls published, or has     *)
(* deleted, is one JetStream holds; and nothing is delivered that no       *)
(* transaction committed.                                                  *)
AtLeastOnce ==
    /\ \A e \in Events : state[e] \in {"published", "purged"} => e \in delivered
    /\ \A e \in delivered : state[e] # "absent"

=============================================================================
