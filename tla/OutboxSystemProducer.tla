------------------------- MODULE OutboxSystemProducer -------------------------
(***************************************************************************)
(* The application inside OutboxSystem behaves as OutboxTransaction alone, *)
(* so what OutboxTransactionProofs proves of it holds in the system.       *)
(***************************************************************************)
EXTENDS OutboxSystem, TLAPS

LOCAL INSTANCE OutboxTransactionProofs WITH
    Blocks  <- Requests,
    Ids     <- Requests,
    EventId <- [r \in Requests |-> r],
    Reuse   <- FALSE

(* Every definition of the application's steps, for both instances.        *)
LEMMA SameHandlerStep ==
    ASSUME NEW s \in Sessions PROVE Tx!HandlerStep(s) <=> HandlerStep(s)
BY DEF HandlerStep, Tx!HandlerStep, Enter, Tx!Enter, Add, Tx!Add,
       PublishEvent, Tx!PublishEvent, BodyRaises, Tx!BodyRaises, Exit, Tx!Exit,
       Reject, Tx!Reject, Return, Tx!Return, LoseAnswer, Tx!LoseAnswer,
       Cancel, Tx!Cancel, Close, Tx!Close, Open, Tx!Open, Raise, Tx!Raise,
       Leave, Tx!Leave, Domain, Tx!Domain, Event, Tx!Event

LEMMA SameApply ==
    ASSUME NEW s \in Sessions PROVE Tx!Apply(s) <=> Apply(s)
BY DEF Apply, Tx!Apply, Conflicts, Tx!Conflicts, Event, Tx!Event

LEMMA SameInv == Inv => Tx!Inv
BY DEF Inv, Tx!Inv, TypeOK, Tx!TypeOK, SessionSound, Tx!SessionSound, Atomic, Tx!Atomic,
       RetriesApplyOnce, Tx!RetriesApplyOnce, Domain, Tx!Domain, Event, Tx!Event,
       Objects, Tx!Objects, Phases, Tx!Phases, Outcomes, Tx!Outcomes

(* The system's steps are steps of the application or leave it alone.      *)
THEOREM ProducerSound == SystemSpec => []Tx!Inv
<1>1. SystemInit => Init
  BY DEF SystemInit, Tx!Init, Init
<1>2. [SystemNext]_systemVars => [Next]_vars
  <2> SUFFICES ASSUME [SystemNext]_systemVars PROVE Next \/ UNCHANGED vars
    BY DEF vars
  <2>1. ASSUME NEW s \in Sessions, CreateUser(s) \/ CommitUser(s) PROVE Next
    BY <2>1, SameHandlerStep, SameApply DEF CreateUser, CommitUser, Next
  <2>2. CASE (\E c \in Copies : Publish(c)) \/ (\E r \in Requests : Settle(r)) \/ Operate
             \/ \E c \in Consumers : Consume(c) \/ ConsumerFails(c)
    BY <2>2 DEF Publish, Settle, Operate, Consume, ConsumerFails, app, vars
  <2>3. CASE UNCHANGED systemVars
    BY <2>3 DEF systemVars, app, vars
  <2> QED
    BY <2>1, <2>2, <2>3 DEF SystemNext
<1>3. SystemSpec => Spec
  BY <1>1, <1>2, PTL DEF SystemSpec, Spec
<1>4. EventIdAssumption /\ NoBlockAssumption
  BY SystemAssumption
<1>5. Spec => []Inv
  BY <1>4, Invariance
<1> QED
  BY <1>3, <1>5, SameInv, PTL

=============================================================================
