----------------------------- MODULE OutboxSystem -----------------------------
(***************************************************************************)
(* The whole chain, as the example application (examples/fastapi_app.py)   *)
(* puts it together: requests that create users in outbox_transaction      *)
(* blocks, an outbox that keeps OutboxDelivery's promise, the stream, and  *)
(* consumers with an inbox.  The parts are the other modules; this one     *)
(* says which of their steps happen together.  PollingRelay implements     *)
(* OutboxDelivery, so the promise stands for the relay here.               *)
(***************************************************************************)
EXTENDS Naturals

CONSTANTS
    Sessions,     \* database sessions of the application
    Requests,     \* POST /users requests; a client's retry is a new one
    EmailOf,      \* request -> the e-mail address it registers
    NoBlock,      \* "the session is in no block"
    Consumers, Groups, GroupOf,  \* consumers of the stream
    Copies,       \* copies of events the stream may come to hold
    EventOf,      \* copy -> the request whose event it is
    MaxFailures,  \* bound: failures of consumers
    NoMessage     \* "the consumer has no message"

ASSUME SystemAssumption ==
    /\ NoBlock \notin Requests
    /\ NoMessage \notin Copies
    /\ GroupOf \in [Consumers -> Groups]
    /\ EventOf \in [Copies -> Requests]
    /\ MaxFailures \in Nat

VARIABLES
    phase, block, objects, pending, db, outcome,  \* OutboxTransaction
    state,                                        \* OutboxDelivery
    stored,                                       \* copies the stream holds
    cphase, message, inbox, effects, acked, failures  \* Inbox

app        == <<phase, block, objects, pending, db, outcome>>
relay      == <<state, stored>>
consumer   == <<cphase, message, inbox, effects, acked, failures>>
systemVars == <<app, relay, consumer>>

(* Each request draws an event_id and a user id of its own.                *)
Tx == INSTANCE OutboxTransaction WITH
    Blocks  <- Requests,
    Ids     <- Requests,
    EventId <- [r \in Requests |-> r],
    Reuse   <- FALSE

Delivery == INSTANCE OutboxDelivery WITH
    Events    <- Requests,
    delivered <- {EventOf[c] : c \in stored}

Inbox == INSTANCE Inbox WITH
    Events <- Requests,
    phase  <- cphase

SystemInit == Tx!Init /\ stored = {} /\ Delivery!Init /\ Inbox!Init

-----------------------------------------------------------------------------
(* Faulty variant: the e-mail column is not unique.                        *)
RegisteredNever(r) == FALSE

(* users.email is unique: the INSERT of a second user is refused, and the  *)
(* request answered with 400.                                              *)
Registered(r) ==
    \E q \in Requests : Tx!Domain(q) \in db /\ EmailOf[q] = EmailOf[r]

(* create_user up to the commit, and from the commit on.                   *)
CreateUser(s) ==
    /\ Tx!HandlerStep(s)
    /\ UNCHANGED <<relay, consumer>>

(* COMMIT: the user and the outbox row of its event become visible.        *)
CommitUser(s) ==
    /\ phase[s] = "committing" /\ ~Registered(block[s])
    /\ UNCHANGED <<stored, consumer>>
    /\ Tx!Apply(s)
    /\ IF Tx!Event(block[s]) \in objects[s]
       THEN Delivery!Stage(block[s])
       ELSE UNCHANGED state

(* A relay publishes an event, for the first time or again.                *)
Publish(c) ==
    /\ state[EventOf[c]] # "absent"
    /\ stored' = stored \union {c}
    /\ UNCHANGED <<app, state, consumer>>

(* A commit of a relay that settles event r, perhaps among others.         *)
Settle(r) ==
    /\ UNCHANGED <<app, stored, consumer>>
    /\ \E P, F \in SUBSET Requests : r \in P \union F /\ Delivery!Settle(P, F)

Operate ==
    /\ UNCHANGED <<app, stored, consumer>>
    /\ \E S \in SUBSET Requests \ {{}} : Delivery!Requeue(S) \/ Delivery!Purge(S)

(* A consumer receives what the stream holds.                              *)
Consume(c) ==
    /\ Inbox!HandlerStep(c)
    /\ cphase[c] = "idle" => message'[c] \in stored
    /\ UNCHANGED <<app, relay>>

ConsumerFails(c) ==
    /\ Inbox!Fail(c)
    /\ UNCHANGED <<app, relay>>

SystemNext ==
    \/ \E s \in Sessions : CreateUser(s) \/ CommitUser(s)
    \/ \E c \in Copies : Publish(c)
    \/ \E r \in Requests : Settle(r)
    \/ Operate
    \/ \E c \in Consumers : Consume(c) \/ ConsumerFails(c)

SystemSpec == SystemInit /\ [][SystemNext]_systemVars

(* A pending event is settled in the end, which is PollingRelay's          *)
(* EventuallySettled, and the consumers are as fair as Inbox's.            *)
FairSystemSpec ==
    /\ SystemSpec
    /\ \A r \in Requests : WF_systemVars(Settle(r))
    /\ \A c \in Consumers : WF_systemVars(Consume(c))

-----------------------------------------------------------------------------
(* End to end, exactly once: however often a client retries, the relay     *)
(* publishes and JetStream redelivers, each consumer group applies one     *)
(* event for one e-mail address, once, and only for a user that exists.    *)
OneEffectPerUser ==
    \A g \in Groups : \A q, r \in Requests :
        effects[<<g, r>>] > 0 =>
            /\ effects[<<g, r>>] = 1
            /\ Tx!Domain(r) \in db
            /\ effects[<<g, q>>] > 0 /\ EmailOf[q] = EmailOf[r] => q = r

(* End to end, at least once: a user that was created is seen by every     *)
(* group that has a consumer, unless its event was dead-lettered.          *)
EveryUserSeen ==
    \A r \in Requests, c \in Consumers :
        Tx!Domain(r) \in db ~>
            effects[<<GroupOf[c], r>>] > 0 \/ state[r] = "failed"

(* End to end, the chain implements the promise: users appear one by one,  *)
(* each with an address of its own, and everything a consumer applies is   *)
(* one user, once, and stays.                                              *)
ChainPromise == INSTANCE SystemPromise WITH
    users <- {r \in Requests : Tx!Domain(r) \in db}

ImplementsSystemPromise == ChainPromise!Spec

-----------------------------------------------------------------------------
(* How the parts hang together: an inductive invariant, given the parts'   *)
(* own.  The outbox has a row for exactly the committed events, one user   *)
(* has an address, and what a consumer handles or has applied is an event  *)
(* the stream holds, which only a committed one is.                        *)
SystemInv ==
    /\ state \in [Requests -> Delivery!States]
    /\ \A r \in Requests : state[r] # "absent" <=> Tx!Event(r) \in db
    /\ \A q, r \in Requests :
          Tx!Domain(q) \in db /\ Tx!Domain(r) \in db /\ EmailOf[q] = EmailOf[r] => q = r
    /\ stored \subseteq {m \in Copies : state[EventOf[m]] # "absent"}
    /\ \A c \in Consumers : message[c] \in stored \union {NoMessage}
    /\ \A g \in Groups, r \in Requests :
          <<g, r>> \in inbox => \E m \in stored : EventOf[m] = r

=============================================================================
