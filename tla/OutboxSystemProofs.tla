-------------------------- MODULE OutboxSystemProofs --------------------------
(***************************************************************************)
(* Theorems about OutboxSystem, for any number of sessions, requests,      *)
(* copies, consumers and groups: what the application, the outbox and the  *)
(* inbox each guarantee adds up to one effect per user and group.          *)
(***************************************************************************)
EXTENDS OutboxSystemProducer

LOCAL INSTANCE InboxProofs WITH
    Events <- Requests,
    phase  <- cphase

-----------------------------------------------------------------------------
(* The consumers behave as Inbox alone.                                    *)

LEMMA SameConsumerStep ==
    ASSUME NEW c \in Consumers
    PROVE  /\ Inbox!HandlerStep(c) <=> HandlerStep(c)
           /\ Inbox!Fail(c) <=> Fail(c)
BY DEF HandlerStep, Inbox!HandlerStep, Deliver, Inbox!Deliver, IsDuplicate, Inbox!IsDuplicate,
       Handle, Inbox!Handle, Commit, Inbox!Commit, Skip, Inbox!Skip, Ack, Inbox!Ack,
       Fail, Inbox!Fail, Key, Inbox!Key, Inserting, Inbox!Inserting

LEMMA SameConsumerInv == Inv => Inbox!Inv
BY DEF Inv, Inbox!Inv, TypeOK, Inbox!TypeOK, ExactlyOnceEffect, Inbox!ExactlyOnceEffect,
       AckedApplied, Inbox!AckedApplied, Key, Inbox!Key, Inserting, Inbox!Inserting,
       Phases, Inbox!Phases

THEOREM ConsumerSound == SystemSpec => []Inbox!Inv
<1>1. SystemInit => Init
  BY DEF SystemInit, Inbox!Init, Init
<1>2. [SystemNext]_systemVars => [Next]_vars
  <2> SUFFICES ASSUME [SystemNext]_systemVars PROVE Next \/ UNCHANGED vars
    BY DEF vars
  <2>1. ASSUME NEW c \in Consumers, Consume(c) \/ ConsumerFails(c) PROVE Next
    BY <2>1, SameConsumerStep DEF Consume, ConsumerFails, Next
  <2>2. CASE (\E s \in Sessions : CreateUser(s) \/ CommitUser(s))
             \/ (\E c \in Copies : Publish(c)) \/ (\E r \in Requests : Settle(r)) \/ Operate
    BY <2>2 DEF CreateUser, CommitUser, Publish, Settle, Operate, consumer, vars
  <2>3. CASE UNCHANGED systemVars
    BY <2>3 DEF systemVars, consumer, vars
  <2> QED
    BY <2>1, <2>2, <2>3 DEF SystemNext
<1>3. SystemSpec => Spec
  BY <1>1, <1>2, PTL DEF SystemSpec, Spec
<1>4. InboxAssumption
  BY SystemAssumption
<1>5. Spec => []Inv
  BY <1>4, InboxInvariance
<1> QED
  BY <1>3, <1>5, SameConsumerInv, PTL

-----------------------------------------------------------------------------
(* The outbox inside the system keeps its promise.                         *)

(* What a commit of the application's adds to the database: the user and   *)
(* its event, and no such event was there.                                 *)
LEMMA Committed ==
    ASSUME Tx!Inv, NEW s \in Sessions, CommitUser(s)
    PROVE  /\ block[s] \in Requests
           /\ db' = db \union {Tx!Domain(block[s]), Tx!Event(block[s])}
           /\ Delivery!Stage(block[s])
           /\ ~Registered(block[s])
           /\ UNCHANGED <<stored, consumer>>
<1>1. /\ block[s] \in Requests
      /\ objects[s] = {Tx!Domain(block[s]), Tx!Event(block[s])}
  BY DEF Tx!Inv, Tx!TypeOK, Tx!SessionSound, CommitUser
<1> QED
  BY <1>1 DEF CommitUser, Tx!Apply

LEMMA EventsDistinct ==
    ASSUME NEW q \in Requests, NEW r \in Requests
    PROVE  /\ Tx!Domain(q) # Tx!Event(r)
           /\ Tx!Domain(q) = Tx!Domain(r) => q = r
           /\ Tx!Event(q) = Tx!Event(r) => q = r
BY DEF Tx!Domain, Tx!Event

(* The system's outbox implements OutboxDelivery, with the relay and the   *)
(* commands of the operator in place: the promise PollingRelay keeps is    *)
(* the one the other parts are composed with.                              *)
THEOREM DeliverySound == SystemSpec => Delivery!Spec
<1>1. SystemInit => Delivery!Init
  BY DEF SystemInit, Delivery!Init
<1>2. Tx!Inv /\ [SystemNext]_systemVars => [Delivery!Next]_(Delivery!vars)
  <2> SUFFICES ASSUME Tx!Inv, [SystemNext]_systemVars
               PROVE  Delivery!Next \/ UNCHANGED Delivery!vars
    OBVIOUS
  <2>1. ASSUME NEW s \in Sessions, CommitUser(s) PROVE Delivery!Next
    BY <2>1, Committed DEF Delivery!Next
  <2>2. ASSUME NEW c \in Copies, Publish(c) PROVE Delivery!Next
    <3>1. EventOf[c] \in Requests
      BY SystemAssumption
    <3>2. {EventOf[m] : m \in stored}' = {EventOf[m] : m \in stored} \union {EventOf[c]}
      BY <2>2 DEF Publish
    <3>3. Delivery!Deliver(EventOf[c])
      BY <2>2, <3>2 DEF Publish, Delivery!Deliver
    <3> QED
      BY <3>1, <3>3 DEF Delivery!Next
  <2>3. ASSUME NEW r \in Requests, Settle(r) PROVE Delivery!Next
    BY <2>3 DEF Settle, Delivery!Next
  <2>4. CASE Operate
    BY <2>4 DEF Operate, Delivery!Next
  <2>5. CASE \/ \E s \in Sessions : CreateUser(s)
             \/ \E c \in Consumers : Consume(c) \/ ConsumerFails(c)
    BY <2>5 DEF CreateUser, Consume, ConsumerFails, relay, Delivery!vars
  <2>6. CASE UNCHANGED systemVars
    BY <2>6 DEF systemVars, relay, Delivery!vars
  <2> QED
    BY <2>1, <2>2, <2>3, <2>4, <2>5, <2>6 DEF SystemNext
<1> QED
  BY <1>1, <1>2, ProducerSound, PTL DEF SystemSpec, Delivery!Spec

-----------------------------------------------------------------------------
(* How the parts hang together.                                            *)

(* The clauses of SystemInv about the producer's side and about the        *)
(* consumers', which different steps disturb.                              *)
ProducerSide ==
    /\ state \in [Requests -> Delivery!States]
    /\ \A r \in Requests : state[r] # "absent" <=> Tx!Event(r) \in db
    /\ \A q, r \in Requests :
          Tx!Domain(q) \in db /\ Tx!Domain(r) \in db /\ EmailOf[q] = EmailOf[r] => q = r

ConsumerSide ==
    /\ stored \subseteq {m \in Copies : state[EventOf[m]] # "absent"}
    /\ \A c \in Consumers : message[c] \in stored \union {NoMessage}
    /\ \A g \in Groups, r \in Requests :
          <<g, r>> \in inbox => \E m \in stored : EventOf[m] = r

LEMMA Sides == SystemInv <=> ProducerSide /\ ConsumerSide
BY DEF SystemInv, ProducerSide, ConsumerSide

(* A commit of the application's: only the two clauses about it change,    *)
(* and what was staged stays staged.                                       *)
LEMMA CommitKeepsProducerSide ==
    ASSUME Tx!Inv, ProducerSide, NEW s \in Sessions, CommitUser(s)
    PROVE  /\ ProducerSide'
           /\ \A r \in Requests : state[r] # "absent" => state'[r] # "absent"
<1> DEFINE b == block[s]
<1>1. /\ b \in Requests
      /\ db' = db \union {Tx!Domain(b), Tx!Event(b)}
      /\ ~Registered(b)
  BY Committed
<1>2. state' = [r \in Requests |-> IF r \in {b} THEN "pending" ELSE state[r]]
  BY Committed DEF Delivery!Stage, Delivery!Move
<1>3. state'[b] = "pending" /\ \A r \in Requests \ {b} : state'[r] = state[r]
  BY <1>1, <1>2
<1>4. state' \in [Requests -> Delivery!States]
  BY <1>2 DEF ProducerSide, Delivery!States
<1>5. \A r \in Requests : state'[r] # "absent" <=> Tx!Event(r) \in db'
  BY <1>1, <1>3, EventsDistinct DEF ProducerSide
<1>6. ASSUME NEW q \in Requests, NEW r \in Requests,
             Tx!Domain(q) \in db', Tx!Domain(r) \in db', EmailOf[q] = EmailOf[r]
      PROVE  q = r
  <2>1. \A t \in Requests : Tx!Domain(t) \in db' => t = b \/ Tx!Domain(t) \in db
    BY <1>1, EventsDistinct
  <2>2. \A t \in Requests : Tx!Domain(t) \in db => EmailOf[t] # EmailOf[b]
    BY <1>1 DEF Registered
  <2> QED
    BY <1>1, <1>6, <2>1, <2>2 DEF ProducerSide
<1> QED
  BY <1>3, <1>4, <1>5, <1>6 DEF ProducerSide

(* Relays and operators move rows about and never make one absent.         *)
LEMMA OutboxKeepsProducerSide ==
    ASSUME ProducerSide, (\E r \in Requests : Settle(r)) \/ Operate
    PROVE  /\ ProducerSide'
           /\ \A r \in Requests : state[r] # "absent" => state'[r] # "absent"
<1>1. db' = db
  BY DEF Settle, Operate, app
<1>2. /\ state' \in [Requests -> Delivery!States]
      /\ \A r \in Requests : state'[r] # "absent" <=> state[r] # "absent"
  <2>1. ASSUME NEW F, NEW G, Delivery!Settle(F, G)
        PROVE  /\ state' \in [Requests -> Delivery!States]
               /\ \A r \in Requests : state'[r] # "absent" <=> state[r] # "absent"
    BY <2>1 DEF Delivery!Settle, Delivery!InState, Delivery!States, ProducerSide
  <2>2. ASSUME NEW R, Delivery!Requeue(R) \/ Delivery!Purge(R)
        PROVE  /\ state' \in [Requests -> Delivery!States]
               /\ \A r \in Requests : state'[r] # "absent" <=> state[r] # "absent"
    BY <2>2 DEF Delivery!Requeue, Delivery!Purge, Delivery!Move, Delivery!InState,
                Delivery!States, ProducerSide
  <2> QED
    BY <2>1, <2>2 DEF Settle, Operate
<1> QED
  BY <1>1, <1>2 DEF ProducerSide

(* What is staged stays staged, so the stream, the consumers and the inbox *)
(* stay sound whatever else a step of the producer's side does.            *)
LEMMA StagedKeepsConsumerSide ==
    ASSUME ConsumerSide, UNCHANGED <<stored, consumer>>,
           \A r \in Requests : state[r] # "absent" => state'[r] # "absent"
    PROVE  ConsumerSide'
BY SystemAssumption DEF ConsumerSide, consumer

(* A consumer takes what the stream holds, and what it adds to the inbox   *)
(* is the event of the message it has.                                     *)
LEMMA ConsumeKeepsConsumerSide ==
    ASSUME ConsumerSide, Inbox!Inv, NEW c \in Consumers, Consume(c) \/ ConsumerFails(c)
    PROVE  ConsumerSide'
<1>1. UNCHANGED <<state, stored>>
  BY DEF Consume, ConsumerFails, relay
<1>2. message \in [Consumers -> Copies \union {NoMessage}] /\ GroupOf[c] \in Groups
  BY SystemAssumption DEF Inbox!Inv, Inbox!TypeOK
<1>3. \/ \E m \in stored : message' = [message EXCEPT ![c] = m]
      \/ message' = [message EXCEPT ![c] = NoMessage]
      \/ message' = message
  <2>1. CASE Inbox!Deliver(c)
    <3>1. cphase[c] = "idle"
      BY <2>1 DEF Inbox!Deliver
    <3>2. Consume(c)
      BY <3>1 DEF ConsumerFails, Inbox!Fail
    <3>3. PICK m \in Copies : message' = [message EXCEPT ![c] = m]
      BY <2>1 DEF Inbox!Deliver
    <3>4. message'[c] = m
      BY <1>2, <3>3
    <3> QED
      BY <3>1, <3>2, <3>3, <3>4 DEF Consume
  <2>2. CASE Inbox!Ack(c) \/ Inbox!Fail(c)
    BY <2>2 DEF Inbox!Ack, Inbox!Fail
  <2>3. CASE Inbox!IsDuplicate(c) \/ Inbox!Handle(c) \/ Inbox!Commit(c) \/ Inbox!Skip(c)
    BY <2>3 DEF Inbox!IsDuplicate, Inbox!Handle, Inbox!Commit, Inbox!Skip
  <2> QED
    BY <2>1, <2>2, <2>3 DEF Consume, ConsumerFails, Inbox!HandlerStep
<1>4. \A d \in Consumers : message'[d] \in stored \union {NoMessage}
  BY <1>2, <1>3 DEF ConsumerSide
<1>5. inbox' = inbox \/ \E m \in stored : inbox' = inbox \union {<<GroupOf[c], EventOf[m]>>}
  <2>1. CASE Inbox!Commit(c)
    <3>1. message[c] \in stored
      BY <2>1, SystemAssumption DEF Inbox!Commit, Inbox!Inv, ConsumerSide
    <3> QED
      BY <2>1, <3>1 DEF Inbox!Commit, Inbox!Key
  <2>2. CASE ~Inbox!Commit(c)
    BY <2>2 DEF Consume, ConsumerFails, Inbox!HandlerStep, Inbox!Deliver, Inbox!IsDuplicate,
                Inbox!Handle, Inbox!Skip, Inbox!Ack, Inbox!Fail
  <2> QED
    BY <2>1, <2>2
<1>6. \A g \in Groups, r \in Requests :
         <<g, r>> \in inbox' => \E m \in stored : EventOf[m] = r
  BY <1>5 DEF ConsumerSide
<1> QED
  BY <1>1, <1>4, <1>6 DEF ConsumerSide

LEMMA SystemInvNext ==
    SystemInv /\ Tx!Inv /\ Inbox!Inv /\ [SystemNext]_systemVars => SystemInv'
<1> SUFFICES ASSUME ProducerSide, ConsumerSide, Tx!Inv, Inbox!Inv, [SystemNext]_systemVars
             PROVE  ProducerSide' /\ ConsumerSide'
  BY Sides DEF SystemInv, ProducerSide, ConsumerSide
<1>1. ASSUME NEW s \in Sessions, CreateUser(s) PROVE ProducerSide' /\ ConsumerSide'
  <2>1. db' = db
    BY <1>1 DEF CreateUser, Tx!HandlerStep, Tx!Enter, Tx!Add, Tx!PublishEvent, Tx!BodyRaises,
                Tx!Exit, Tx!Reject, Tx!Return, Tx!LoseAnswer, Tx!Cancel, Tx!Close, Tx!Open,
                Tx!Raise, Tx!Leave
  <2> QED
    BY <1>1, <2>1, StagedKeepsConsumerSide DEF CreateUser, ProducerSide, relay
<1>2. ASSUME NEW s \in Sessions, CommitUser(s) PROVE ProducerSide' /\ ConsumerSide'
  BY <1>2, Committed, CommitKeepsProducerSide, StagedKeepsConsumerSide
<1>3. ASSUME NEW c \in Copies, Publish(c) PROVE ProducerSide' /\ ConsumerSide'
  <2>1. /\ stored' = stored \union {c}
        /\ UNCHANGED <<db, state, message, inbox>>
    BY <1>3 DEF Publish, app, consumer
  <2>2. state[EventOf[c]] # "absent"
    BY <1>3 DEF Publish
  <2> QED
    BY <2>1, <2>2 DEF ProducerSide, ConsumerSide
<1>4. CASE (\E r \in Requests : Settle(r)) \/ Operate
  <2>1. UNCHANGED <<stored, consumer>>
    BY <1>4 DEF Settle, Operate
  <2> QED
    BY <1>4, <2>1, OutboxKeepsProducerSide, StagedKeepsConsumerSide
<1>5. ASSUME NEW c \in Consumers, Consume(c) \/ ConsumerFails(c)
      PROVE  ProducerSide' /\ ConsumerSide'
  <2>1. UNCHANGED <<db, state>>
    BY <1>5 DEF Consume, ConsumerFails, app, relay
  <2> QED
    BY <1>5, <2>1, ConsumeKeepsConsumerSide DEF ProducerSide
<1>6. CASE UNCHANGED systemVars
  <2>1. UNCHANGED <<db, state, stored, message, inbox>>
    BY <1>6 DEF systemVars, app, relay, consumer
  <2> QED
    BY <2>1 DEF ProducerSide, ConsumerSide
<1> QED
  BY <1>1, <1>2, <1>3, <1>4, <1>5, <1>6 DEF SystemNext

(* The parts hang together in every reachable state.                       *)
THEOREM PartsFit == SystemSpec => []SystemInv
<1>1. SystemInit => SystemInv
  BY DEF SystemInit, SystemInv, Tx!Init, Delivery!Init, Delivery!States, Inbox!Init
<1>2. SystemInv /\ Tx!Inv /\ Inbox!Inv /\ [SystemNext]_systemVars => SystemInv'
  BY SystemInvNext
<1> QED
  BY <1>1, <1>2, ProducerSound, ConsumerSound, PTL DEF SystemSpec

(* Exactly once, end to end: however often clients retry, relays publish   *)
(* and JetStream redelivers, a group applies one event for one address,    *)
(* once, and only for a user that is committed.                            *)
THEOREM EndToEnd == SystemSpec => []OneEffectPerUser
<1>1. SystemInv /\ Tx!Inv /\ Inbox!Inv => OneEffectPerUser
  <2> SUFFICES ASSUME SystemInv, Tx!Inv, Inbox!Inv, NEW g \in Groups,
                      NEW q \in Requests, NEW r \in Requests, effects[<<g, r>>] > 0
               PROVE  /\ effects[<<g, r>>] = 1
                      /\ Tx!Domain(r) \in db
                      /\ effects[<<g, q>>] > 0 /\ EmailOf[q] = EmailOf[r] => q = r
    BY DEF OneEffectPerUser
  <2>1. \A t \in Requests : effects[<<g, t>>] > 0 =>
            effects[<<g, t>>] = 1 /\ <<g, t>> \in inbox
    BY DEF Inbox!Inv, Inbox!ExactlyOnceEffect
  <2>2. \A t \in Requests : <<g, t>> \in inbox => Tx!Event(t) \in db
    BY DEF SystemInv
  <2>3. \A t \in Requests : Tx!Event(t) \in db => Tx!Domain(t) \in db
    BY DEF Tx!Inv, Tx!Atomic
  <2> QED
    BY <2>1, <2>2, <2>3 DEF SystemInv
<1> QED
  BY <1>1, PartsFit, ProducerSound, ConsumerSound, PTL

-----------------------------------------------------------------------------
(* The chain implements SystemPromise.                                     *)

(* The commit of a request's block creates its user.                       *)
LEMMA CommitCreates ==
    ASSUME Tx!Inv, NEW s \in Sessions, CommitUser(s)
    PROVE  \E r \in Requests : ChainPromise!Create(r)
<1>1. /\ block[s] \in Requests
      /\ db' = db \union {Tx!Domain(block[s]), Tx!Event(block[s])}
      /\ ~Registered(block[s])
      /\ UNCHANGED effects
  BY Committed DEF consumer
<1>2. {r \in Requests : Tx!Domain(r) \in db}' =
      {r \in Requests : Tx!Domain(r) \in db} \union {block[s]}
  BY <1>1, EventsDistinct
<1> QED
  BY <1>1, <1>2 DEF ChainPromise!Create, Registered

(* What a consumer commits is the first effect of a user that exists: its  *)
(* message came from the stream, which holds events of such users only.    *)
LEMMA ConsumeApplies ==
    ASSUME Tx!Inv, Inbox!Inv, SystemInv, NEW c \in Consumers, Inbox!Commit(c),
           UNCHANGED db
    PROVE  \E r \in Requests, g \in Groups : ChainPromise!Apply(g, r)
<1> DEFINE g == GroupOf[c] r == EventOf[message[c]]
<1>1. /\ message[c] \in stored /\ g \in Groups /\ r \in Requests
      /\ Inbox!Key(c) = <<g, r>> /\ <<g, r>> \notin inbox
  <2>1. message[c] \in Copies /\ Inbox!Key(c) \notin inbox
    BY DEF Inbox!Commit, Inbox!Inv, Inbox!Inserting
  <2>2. message[c] \in stored
    BY <2>1, SystemAssumption DEF SystemInv
  <2> QED
    BY <2>1, <2>2, SystemAssumption DEF Inbox!Key
<1>2. Tx!Domain(r) \in db
  <2>1. state[r] # "absent"
    BY <1>1 DEF SystemInv
  <2> QED
    BY <1>1, <2>1 DEF SystemInv, Tx!Inv, Tx!Atomic
<1>3. effects[<<g, r>>] = 0
  BY <1>1 DEF Inbox!Inv, Inbox!ExactlyOnceEffect
<1>4. effects' = [effects EXCEPT ![<<g, r>>] = 1]
  BY <1>1, <1>3 DEF Inbox!Commit, Inbox!Inv, Inbox!TypeOK
<1> QED
  BY <1>1, <1>2, <1>3, <1>4 DEF ChainPromise!Apply

(* The whole chain, with every retry, duplicate and crash in it, is the    *)
(* two steps of SystemPromise: users are created, once for each address,   *)
(* and each group applies each of them, once and for good.                 *)
THEOREM ChainKeepsPromise == SystemSpec => ImplementsSystemPromise
<1>1. SystemInit => ChainPromise!Init
  BY DEF SystemInit, Tx!Init, Inbox!Init, ChainPromise!Init
<1>2. Tx!Inv /\ Inbox!Inv /\ SystemInv /\ [SystemNext]_systemVars
         => [ChainPromise!Next]_(ChainPromise!vars)
  <2> SUFFICES ASSUME Tx!Inv, Inbox!Inv, SystemInv, [SystemNext]_systemVars
               PROVE  ChainPromise!Next \/ UNCHANGED ChainPromise!vars
    OBVIOUS
  <2>1. ASSUME NEW s \in Sessions, CommitUser(s) PROVE ChainPromise!Next
    BY <2>1, CommitCreates DEF ChainPromise!Next
  <2>2. ASSUME NEW c \in Consumers, Consume(c) \/ ConsumerFails(c)
        PROVE  ChainPromise!Next \/ UNCHANGED <<db, effects>>
    <3>1. UNCHANGED db
      BY <2>2 DEF Consume, ConsumerFails, app
    <3>2. CASE Inbox!Commit(c)
      BY <3>1, <3>2, ConsumeApplies DEF ChainPromise!Next
    <3>3. CASE ~Inbox!Commit(c)
      BY <2>2, <3>1, <3>3 DEF Consume, ConsumerFails, Inbox!HandlerStep, Inbox!Deliver,
         Inbox!IsDuplicate, Inbox!Handle, Inbox!Skip, Inbox!Ack, Inbox!Fail
    <3> QED
      BY <3>2, <3>3
  <2>3. ASSUME NEW s \in Sessions, CreateUser(s) PROVE UNCHANGED <<db, effects>>
    BY <2>3 DEF CreateUser, consumer, Tx!HandlerStep, Tx!Enter, Tx!Add, Tx!PublishEvent,
       Tx!BodyRaises, Tx!Exit, Tx!Reject, Tx!Return, Tx!LoseAnswer, Tx!Cancel, Tx!Close,
       Tx!Open, Tx!Raise, Tx!Leave
  <2>4. CASE (\E c \in Copies : Publish(c)) \/ (\E r \in Requests : Settle(r)) \/ Operate
    BY <2>4 DEF Publish, Settle, Operate, app, consumer, ChainPromise!vars
  <2>5. CASE UNCHANGED systemVars
    BY <2>5 DEF systemVars, app, consumer, ChainPromise!vars
  <2> QED
    BY <2>1, <2>2, <2>3, <2>4, <2>5 DEF SystemNext, ChainPromise!vars
<1> QED
  BY <1>1, <1>2, PartsFit, ProducerSound, ConsumerSound, PTL
     DEF SystemSpec, ImplementsSystemPromise, ChainPromise!Spec

=============================================================================
