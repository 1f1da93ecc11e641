-------------------------- MODULE TransactionPromise --------------------------
(***************************************************************************)
(* What outbox_transaction promises a handler, with no session, flush or   *)
(* database call in sight: a block's domain change and its event become    *)
(* durable in one step, while the block is being left and never after; an  *)
(* event_id is used once; and "ok" is said only of what is durable.        *)
(* OutboxTransaction is shown to implement this specification.             *)
(***************************************************************************)
CONSTANTS
    Blocks,     \* the blocks
    EventId     \* block -> the event_id of its event

VARIABLES
    changed,    \* blocks whose domain change is durable
    published,  \* blocks whose event is durable
    outcome     \* block -> how it ended, as its handler sees it

vars == <<changed, published, outcome>>

Init ==
    /\ changed = {}
    /\ published = {}
    /\ outcome = [b \in Blocks |-> "none"]

Persist(b) ==
    /\ outcome[b] = "none"
    /\ \A c \in published : EventId[c] # EventId[b]
    /\ changed' = changed \union {b}
    /\ published' = published \union {b}
    /\ UNCHANGED outcome

(* A block that is durable may still end with an exception, when the       *)
(* answer of the database is lost; one that is not cannot end well.        *)
End(b, o) ==
    /\ outcome[b] = "none"
    /\ o = "ok" => b \in published
    /\ outcome' = [outcome EXCEPT ![b] = o]
    /\ UNCHANGED <<changed, published>>

Next ==
    \E b \in Blocks : \/ Persist(b)
                      \/ \E o \in {"ok", "error", "cancelled"} : End(b, o)

Spec == Init /\ [][Next]_vars

=============================================================================
