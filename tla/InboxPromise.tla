----------------------------- MODULE InboxPromise -----------------------------
(***************************************************************************)
(* What InboxDeduplicator promises a consumer group, with no transaction,  *)
(* lock, failure or redelivery in sight: an event is applied once, for     *)
(* good, and a message is acknowledged only when its event has been        *)
(* applied.  Inbox is shown to implement this specification.               *)
(***************************************************************************)
EXTENDS Naturals

CONSTANTS Groups, Events, Copies, EventOf

VARIABLES
    effects,    \* how often each group has applied each event
    acked       \* the messages each group has acknowledged

vars == <<effects, acked>>

Init ==
    /\ effects = [k \in Groups \X Events |-> 0]
    /\ acked = [g \in Groups |-> {}]

Apply(g, e) ==
    /\ effects[<<g, e>>] = 0
    /\ effects' = [effects EXCEPT ![<<g, e>>] = 1]
    /\ UNCHANGED acked

(* Again, for a message that is acknowledged already, is a stutter.        *)
Ack(g, m) ==
    /\ effects[<<g, EventOf[m]>>] = 1
    /\ acked' = [acked EXCEPT ![g] = @ \union {m}]
    /\ UNCHANGED effects

Next ==
    \E g \in Groups : \/ \E e \in Events : Apply(g, e)
                      \/ \E m \in Copies : Ack(g, m)

Spec == Init /\ [][Next]_vars

=============================================================================
