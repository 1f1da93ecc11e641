-------------------------------- MODULE Inbox --------------------------------
(***************************************************************************)
(* The consumer's side (nats_outbox/core/inbox.py): handlers that receive  *)
(* JetStream messages, ask InboxDeduplicator.is_duplicate inside a         *)
(* database transaction, apply the event's business effect in the same     *)
(* transaction and acknowledge the message.  The handler is the one of the *)
(* module's usage section; JetStream redelivers whatever is not            *)
(* acknowledged, to any consumer of the group, and holds several copies of *)
(* an event the relay published more than once.                            *)
(***************************************************************************)
EXTENDS Naturals

CONSTANTS
    Consumers,   \* handler tasks
    Groups,      \* values of consumer_group
    GroupOf,     \* consumer -> its group
    Events,      \* event ids
    Copies,      \* the stream's messages
    EventOf,     \* message -> the event_id it carries
    MaxFailures, \* bound: crashes and exceptions of handlers
    NoMessage    \* "the consumer has no message"

ASSUME InboxAssumption ==
    /\ GroupOf \in [Consumers -> Groups]
    /\ EventOf \in [Copies -> Events]
    /\ MaxFailures \in Nat
    /\ NoMessage \notin Copies

VARIABLES
    phase,      \* consumer -> where its handler stands
    message,    \* consumer -> the message it handles
    inbox,      \* committed rows of inbox_events
    effects,    \* committed business effects, by group and event
    acked,      \* messages acknowledged, by group
    failures    \* failures so far

vars == <<phase, message, inbox, effects, acked, failures>>

Phases == {"idle", "begun",  \* transaction open, is_duplicate called
           "new",            \* row inserted, not committed
           "handled",        \* business effect applied, not committed
           "duplicate",      \* is_duplicate returned TRUE
           "done"}           \* transaction over, message not yet acknowledged

Key(c) == <<GroupOf[c], EventOf[message[c]]>>

(* A row this consumer has inserted and not yet committed.                 *)
Inserting(c) == phase[c] \in {"new", "handled"}

TypeOK ==
    /\ phase \in [Consumers -> Phases]
    /\ message \in [Consumers -> Copies \union {NoMessage}]
    /\ inbox \subseteq Groups \X Events
    /\ effects \in [Groups \X Events -> Nat]
    /\ acked \in [Groups -> SUBSET Copies]
    /\ failures \in Nat

Init ==
    /\ phase = [c \in Consumers |-> "idle"]
    /\ message = [c \in Consumers |-> NoMessage]
    /\ inbox = {}
    /\ effects = [k \in Groups \X Events |-> 0]
    /\ acked = [g \in Groups |-> {}]
    /\ failures = 0

-----------------------------------------------------------------------------
(* A message not yet acknowledged may be delivered at any time, also while *)
(* another consumer of the group is handling it.                           *)
Deliver(c) ==
    /\ phase[c] = "idle"
    /\ \E m \in Copies \ acked[GroupOf[c]] : message' = [message EXCEPT ![c] = m]
    /\ phase' = [phase EXCEPT ![c] = "begun"]
    /\ UNCHANGED <<inbox, effects, acked, failures>>

(* Faulty variant: a SELECT first, and an INSERT if it found nothing.      *)
IsDuplicateBySelect(c) ==
    /\ phase[c] = "begun"
    /\ phase' = [phase EXCEPT ![c] = IF Key(c) \in inbox THEN "duplicate" ELSE "new"]
    /\ UNCHANGED <<message, inbox, effects, acked, failures>>

(* Faulty variant: the row is committed by is_duplicate, not with the effect. *)
IsDuplicateCommitting(c) ==
    /\ phase[c] = "begun"
    /\ \A d \in Consumers : Inserting(d) => Key(d) # Key(c)
    /\ phase' = [phase EXCEPT ![c] = IF Key(c) \in inbox THEN "duplicate" ELSE "new"]
    /\ inbox' = inbox \union {Key(c)}
    /\ UNCHANGED <<message, effects, acked, failures>>

(* INSERT ... ON CONFLICT DO NOTHING RETURNING id: waits for a transaction *)
(* that has inserted the same key, and returns a row unless the key is     *)
(* committed by then.                                                      *)
IsDuplicate(c) ==
    /\ phase[c] = "begun"
    /\ \A d \in Consumers : Inserting(d) => Key(d) # Key(c)
    /\ phase' = [phase EXCEPT ![c] = IF Key(c) \in inbox THEN "duplicate" ELSE "new"]
    /\ UNCHANGED <<message, inbox, effects, acked, failures>>

(* The business logic runs in the same transaction.                        *)
Handle(c) ==
    /\ phase[c] = "new"
    /\ phase' = [phase EXCEPT ![c] = "handled"]
    /\ UNCHANGED <<message, inbox, effects, acked, failures>>

(* Faulty variant: the effect is committed without its inbox row.          *)
CommitEffectOnly(c) ==
    /\ phase[c] = "handled"
    /\ effects' = [effects EXCEPT ![Key(c)] = @ + 1]
    /\ phase' = [phase EXCEPT ![c] = "done"]
    /\ UNCHANGED <<message, inbox, acked, failures>>

(* session.begin() exits: inbox row and effect are committed together.     *)
Commit(c) ==
    /\ phase[c] = "handled"
    /\ inbox' = inbox \union {Key(c)}
    /\ effects' = [effects EXCEPT ![Key(c)] = @ + 1]
    /\ phase' = [phase EXCEPT ![c] = "done"]
    /\ UNCHANGED <<message, acked, failures>>

(* Faulty variant: the early return for a duplicate skips the ACK as well. *)
SkipUnacknowledged(c) ==
    /\ phase[c] = "duplicate"
    /\ phase' = [phase EXCEPT ![c] = "idle"]
    /\ message' = [message EXCEPT ![c] = NoMessage]
    /\ UNCHANGED <<inbox, effects, acked, failures>>

(* The early return for a duplicate: an empty transaction.                 *)
Skip(c) ==
    /\ phase[c] = "duplicate"
    /\ phase' = [phase EXCEPT ![c] = "done"]
    /\ UNCHANGED <<message, inbox, effects, acked, failures>>

Ack(c) ==
    /\ phase[c] = "done"
    /\ acked' = [acked EXCEPT ![GroupOf[c]] = @ \union {message[c]}]
    /\ phase' = [phase EXCEPT ![c] = "idle"]
    /\ message' = [message EXCEPT ![c] = NoMessage]
    /\ UNCHANGED <<inbox, effects, failures>>

(* The handler raises, is cancelled or dies: its transaction, if one is    *)
(* open, rolls back, and the message will be delivered again.              *)
Fail(c) ==
    /\ phase[c] # "idle"
    /\ failures < MaxFailures
    /\ failures' = failures + 1
    /\ phase' = [phase EXCEPT ![c] = "idle"]
    /\ message' = [message EXCEPT ![c] = NoMessage]
    /\ UNCHANGED <<inbox, effects, acked>>

(* Nothing left to deliver: the consumers wait for messages.               *)
Drained == \A c \in Consumers : phase[c] = "idle" /\ acked[GroupOf[c]] = Copies

HandlerStep(c) ==
    Deliver(c) \/ IsDuplicate(c) \/ Handle(c) \/ Commit(c) \/ Skip(c) \/ Ack(c)

Next ==
    \/ \E c \in Consumers : HandlerStep(c) \/ Fail(c)
    \/ Drained /\ UNCHANGED vars

Spec == Init /\ [][Next]_vars

(* JetStream redelivers, a handler that is called runs, and the lock an    *)
(* INSERT waits for is granted.                                            *)
FairSpec == Spec /\ \A c \in Consumers : WF_vars(HandlerStep(c))

-----------------------------------------------------------------------------
(* Each group applies each event at most once, however many copies it      *)
(* receives, and what the inbox says is exactly what was applied.          *)
ExactlyOnceEffect ==
    \A k \in Groups \X Events : effects[k] = IF k \in inbox THEN 1 ELSE 0

(* A message is acknowledged only when its event has been applied, by the  *)
(* consumer that acknowledges it or by another.                            *)
AckedApplied ==
    \A g \in Groups : \A m \in acked[g] : effects[<<g, EventOf[m]>>] > 0

(* Every message is eventually acknowledged by every group that has a      *)
(* consumer: an INSERT never waits for ever.                               *)
EventuallyAcked ==
    \A c \in Consumers : <>(acked[GroupOf[c]] = Copies)

(* The consumers implement the promise of the inbox.                       *)
GroupPromise == INSTANCE InboxPromise

ImplementsInboxPromise == GroupPromise!Spec

(* Why: at most one consumer has an uncommitted row for a key, and only    *)
(* one that the inbox does not have.                                       *)
Inv ==
    /\ TypeOK
    /\ ExactlyOnceEffect
    /\ AckedApplied
    /\ \A c \in Consumers : phase[c] # "idle" => message[c] \in Copies
    /\ \A c \in Consumers : Inserting(c) => Key(c) \notin inbox
    /\ \A c, d \in Consumers :
          c # d /\ Inserting(c) /\ Inserting(d) => Key(c) # Key(d)
    /\ \A c \in Consumers : phase[c] \in {"duplicate", "done"} => Key(c) \in inbox

=============================================================================
