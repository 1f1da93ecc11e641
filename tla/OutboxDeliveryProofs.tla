------------------------- MODULE OutboxDeliveryProofs -------------------------
(***************************************************************************)
(* The delivery promise keeps its word: at-least-once holds of             *)
(* OutboxDelivery for every set of events, and hence of everything that    *)
(* implements it.                                                          *)
(***************************************************************************)
EXTENDS OutboxDelivery, TLAPS

Promise == TypeOK /\ AtLeastOnce

LEMMA InitPromise == Init => Promise
BY DEF Init, Promise, TypeOK, AtLeastOnce, States

LEMMA NextPromise == Promise /\ [Next]_vars => Promise'
<1> SUFFICES ASSUME Promise, [Next]_vars PROVE Promise'
  OBVIOUS
<1> USE DEF Promise, TypeOK, AtLeastOnce, States
<1>1. ASSUME NEW e \in Events, Stage(e) PROVE Promise'
  BY <1>1 DEF Stage, Move
<1>2. ASSUME NEW e \in Events, Deliver(e) PROVE Promise'
  BY <1>2 DEF Deliver
<1>3. ASSUME NEW P \in SUBSET Events, NEW F \in SUBSET Events, Settle(P, F)
      PROVE  Promise'
  BY <1>3 DEF Settle, InState
<1>4. ASSUME NEW S \in SUBSET Events, Requeue(S) PROVE Promise'
  BY <1>4 DEF Requeue, InState, Move
<1>5. ASSUME NEW S \in SUBSET Events, Purge(S) PROVE Promise'
  BY <1>5 DEF Purge, InState, Move
<1>6. CASE UNCHANGED vars
  BY <1>6 DEF vars
<1> QED
  BY <1>1, <1>2, <1>3, <1>4, <1>5, <1>6 DEF Next

(* An event called published, or deleted, is one JetStream holds, and      *)
(* JetStream holds only events that were committed to the outbox.          *)
THEOREM PromiseKept == Spec => []AtLeastOnce
<1>1. Promise => AtLeastOnce
  BY DEF Promise
<1> QED
  BY <1>1, InitPromise, NextPromise, PTL DEF Spec

=============================================================================
