----------------------------- MODULE InboxProofs -----------------------------
(***************************************************************************)
(* Theorems about Inbox, for any number of consumers, groups, events,      *)
(* copies and failures: an event is applied at most once in each group,    *)
(* and a message is acknowledged only after its event was applied.         *)
(***************************************************************************)
EXTENDS Inbox, TLAPS

(* The key of a consumer that has a message is one of the table's keys.    *)
LEMMA KeyType ==
    ASSUME TypeOK, NEW c \in Consumers, message[c] \in Copies
    PROVE  Key(c) \in Groups \X Events
BY InboxAssumption DEF TypeOK, Key

LEMMA InitInvariant == Init => Inv
<1> SUFFICES ASSUME Init PROVE Inv
  OBVIOUS
<1>1. TypeOK
  BY InboxAssumption DEF Init, TypeOK, Phases
<1>2. ExactlyOnceEffect
  BY DEF Init, ExactlyOnceEffect
<1>3. AckedApplied
  BY DEF Init, AckedApplied
<1>4. \A c \in Consumers : phase[c] = "idle"
  BY DEF Init
<1> QED
  BY <1>1, <1>2, <1>3, <1>4 DEF Inv, Inserting

(* A step that moves one consumer c to another phase and touches neither   *)
(* the tables nor the acknowledgements: what remains to show is that the   *)
(* new phase is one c may be in.                                           *)
LEMMA PhaseStep ==
    ASSUME Inv, NEW c \in Consumers, NEW p \in Phases, NEW m \in Copies \union {NoMessage},
           phase' = [phase EXCEPT ![c] = p],
           message' = [message EXCEPT ![c] = m],
           failures' \in Nat,
           UNCHANGED <<inbox, effects, acked>>,
           p # "idle" => m \in Copies,
           p \in {"new", "handled"} =>
               /\ <<GroupOf[c], EventOf[m]>> \notin inbox
               /\ \A d \in Consumers \ {c} :
                     Inserting(d) => Key(d) # <<GroupOf[c], EventOf[m]>>,
           p \in {"duplicate", "done"} => <<GroupOf[c], EventOf[m]>> \in inbox
    PROVE  Inv'
<1> USE DEF Inv
<1>1. TypeOK'
  BY DEF TypeOK
<1>2. ExactlyOnceEffect'
  BY DEF ExactlyOnceEffect
<1>3. AckedApplied'
  BY DEF AckedApplied
<1>4. phase'[c] = p /\ message'[c] = m /\ Key(c)' = <<GroupOf[c], EventOf[m]>>
  BY DEF TypeOK, Key
<1>5. \A d \in Consumers \ {c} :
         phase'[d] = phase[d] /\ message'[d] = message[d] /\ Key(d)' = Key(d)
  BY DEF TypeOK, Key
<1>6. (\A d \in Consumers : phase[d] # "idle" => message[d] \in Copies)'
  BY <1>4, <1>5
<1>7. (\A d \in Consumers : Inserting(d) => Key(d) \notin inbox)'
  BY <1>4, <1>5 DEF Inserting
<1>8. (\A d, e \in Consumers :
          d # e /\ Inserting(d) /\ Inserting(e) => Key(d) # Key(e))'
  BY <1>4, <1>5 DEF Inserting
<1>9. (\A d \in Consumers : phase[d] \in {"duplicate", "done"} => Key(d) \in inbox)'
  BY <1>4, <1>5
<1> QED
  BY <1>1, <1>2, <1>3, <1>6, <1>7, <1>8, <1>9

(* The same for a consumer that keeps its message.                         *)
LEMMA HandlerPhaseStep ==
    ASSUME Inv, NEW c \in Consumers, NEW p \in Phases \ {"idle"},
           phase[c] # "idle",
           phase' = [phase EXCEPT ![c] = p],
           UNCHANGED <<message, inbox, effects, acked, failures>>,
           p \in {"new", "handled"} =>
               /\ Key(c) \notin inbox
               /\ \A d \in Consumers \ {c} : Inserting(d) => Key(d) # Key(c),
           p \in {"duplicate", "done"} => Key(c) \in inbox
    PROVE  Inv'
<1>1. message[c] \in Copies /\ failures' \in Nat
  BY DEF Inv, TypeOK
<1>2. message' = [message EXCEPT ![c] = message[c]]
  BY DEF Inv, TypeOK
<1>3. Key(c) = <<GroupOf[c], EventOf[message[c]]>>
  BY DEF Key
<1> QED
  BY <1>1, <1>2, <1>3, PhaseStep

(* The commit: the key was in nobody's inbox and is in no other            *)
(* transaction, so the effect is the first one and stays the only one.     *)
LEMMA CommitStep ==
    ASSUME Inv, NEW c \in Consumers, Commit(c)
    PROVE  Inv'
<1> DEFINE k == Key(c)
<1>1. message[c] \in Copies /\ k \in Groups \X Events /\ k \notin inbox
  <2>1. message[c] \in Copies /\ TypeOK
    BY DEF Inv, Commit
  <2>2. Inserting(c)
    BY DEF Commit, Inserting
  <2> QED
    BY <2>1, <2>2, KeyType DEF Inv
<1>2. /\ phase' = [phase EXCEPT ![c] = "done"]
      /\ inbox' = inbox \union {k}
      /\ effects' = [effects EXCEPT ![k] = @ + 1]
      /\ UNCHANGED <<message, acked, failures>>
  BY DEF Commit
<1>3. \A d \in Consumers : Key(d)' = Key(d)
  BY <1>2 DEF Key
<1>4. \A d \in Consumers \ {c} : Inserting(d) => Key(d) # k
  BY DEF Inv, Commit, Inserting
<1>5. \A d \in Consumers \ {c} : phase'[d] = phase[d]
  BY <1>2 DEF Inv, TypeOK
<1>6. phase'[c] = "done"
  BY <1>2 DEF Inv, TypeOK
<1> HIDE DEF k
<1>7. TypeOK'
  <2>1. effects[k] \in Nat
    BY <1>1 DEF Inv, TypeOK
  <2>2. effects' \in [Groups \X Events -> Nat]
    BY <1>1, <1>2, <2>1 DEF Inv, TypeOK
  <2> QED
    BY <1>1, <1>2, <2>2 DEF Inv, TypeOK, Phases
<1>8. ExactlyOnceEffect'
  <2>1. effects[k] = 0
    BY <1>1 DEF Inv, ExactlyOnceEffect
  <2>2. effects'[k] = 1
    BY <1>1, <1>2, <2>1 DEF Inv, TypeOK
  <2>3. \A l \in Groups \X Events : l # k => effects'[l] = effects[l]
    BY <1>2 DEF Inv, TypeOK
  <2> QED
    BY <1>2, <2>2, <2>3 DEF Inv, ExactlyOnceEffect
<1>9. AckedApplied'
  <2> SUFFICES ASSUME NEW g \in Groups, NEW m \in acked[g]
               PROVE  effects'[<<g, EventOf[m]>>] > 0
    BY <1>2 DEF AckedApplied
  <2>1. effects[<<g, EventOf[m]>>] > 0
    BY DEF Inv, AckedApplied
  <2>2. <<g, EventOf[m]>> \in Groups \X Events
    BY InboxAssumption DEF Inv, TypeOK
  <2>3. effects[<<g, EventOf[m]>>] = 1
    BY <2>1, <2>2 DEF Inv, ExactlyOnceEffect
  <2>4. <<g, EventOf[m]>> \in inbox
    BY <2>2, <2>3 DEF Inv, ExactlyOnceEffect
  <2>5. <<g, EventOf[m]>> \in inbox'
    BY <1>2, <2>4
  <2> QED
    BY <1>8, <2>2, <2>5 DEF ExactlyOnceEffect
<1>10. (\A d \in Consumers : phase[d] # "idle" => message[d] \in Copies)'
  BY <1>1, <1>2, <1>5, <1>6 DEF Inv
<1>11. (\A d \in Consumers : Inserting(d) => Key(d) \notin inbox)'
  BY <1>2, <1>3, <1>4, <1>5, <1>6 DEF Inv, Inserting
<1>12. (\A d, e \in Consumers :
           d # e /\ Inserting(d) /\ Inserting(e) => Key(d) # Key(e))'
  BY <1>3, <1>5, <1>6 DEF Inv, Inserting
<1>13. (\A d \in Consumers : phase[d] \in {"duplicate", "done"} => Key(d) \in inbox)'
  BY <1>2, <1>3, <1>5, <1>6 DEF Inv, k
<1> QED
  BY <1>7, <1>8, <1>9, <1>10, <1>11, <1>12, <1>13 DEF Inv

(* The acknowledgement: the consumer is done, so its event is in the inbox *)
(* and has been applied, by this consumer or by another.                   *)
LEMMA AckStep ==
    ASSUME Inv, NEW c \in Consumers, Ack(c)
    PROVE  Inv'
<1>1. message[c] \in Copies /\ Key(c) \in Groups \X Events /\ Key(c) \in inbox
  BY KeyType DEF Inv, Ack
<1>2. effects[Key(c)] = 1
  BY <1>1 DEF Inv, ExactlyOnceEffect
<1>3. TypeOK'
  BY <1>1, InboxAssumption DEF Inv, Ack, TypeOK, Phases
<1>4. ExactlyOnceEffect'
  BY DEF Inv, Ack, ExactlyOnceEffect
<1>5. AckedApplied'
  <2> SUFFICES ASSUME NEW g \in Groups, NEW m \in acked'[g]
               PROVE  effects[<<g, EventOf[m]>>] > 0
    BY DEF Ack, AckedApplied
  <2>1. CASE m \in acked[g]
    BY <2>1 DEF Inv, AckedApplied
  <2>2. CASE m \notin acked[g]
    <3>1. g = GroupOf[c] /\ m = message[c]
      BY <2>2 DEF Inv, Ack, TypeOK
    <3> QED
      BY <1>2, <3>1 DEF Key
  <2> QED
    BY <2>1, <2>2
<1>6. /\ phase'[c] = "idle"
      /\ \A d \in Consumers \ {c} :
            phase'[d] = phase[d] /\ message'[d] = message[d] /\ Key(d)' = Key(d)
  BY DEF Inv, Ack, TypeOK, Key
<1>7. inbox' = inbox
  BY DEF Ack
<1> QED
  BY <1>3, <1>4, <1>5, <1>6, <1>7 DEF Inv, Inserting

LEMMA NextInvariant == Inv /\ [Next]_vars => Inv'
<1> SUFFICES ASSUME Inv, [Next]_vars PROVE Inv'
  OBVIOUS
<1>1. phase \in [Consumers -> Phases] /\ failures \in Nat
      /\ message \in [Consumers -> Copies \union {NoMessage}]
  BY DEF Inv, TypeOK
<1>2. ASSUME NEW c \in Consumers, Deliver(c) PROVE Inv'
  <2>1. PICK m \in Copies : message' = [message EXCEPT ![c] = m]
    BY <1>2 DEF Deliver
  <2> QED
    BY <1>1, <1>2, <2>1, PhaseStep DEF Deliver, Phases
<1>3. ASSUME NEW c \in Consumers, IsDuplicate(c) PROVE Inv'
  <2>1. CASE Key(c) \in inbox
    BY <1>3, <2>1, HandlerPhaseStep DEF IsDuplicate, Phases
  <2>2. CASE Key(c) \notin inbox
    BY <1>3, <2>2, HandlerPhaseStep DEF IsDuplicate, Phases
  <2> QED
    BY <2>1, <2>2
<1>4. ASSUME NEW c \in Consumers, Handle(c) PROVE Inv'
  <2>1. Inserting(c)
    BY <1>4 DEF Handle, Inserting
  <2>2. /\ Key(c) \notin inbox
        /\ \A d \in Consumers \ {c} : Inserting(d) => Key(d) # Key(c)
    BY <2>1 DEF Inv
  <2> QED
    BY <1>4, <2>2, HandlerPhaseStep DEF Handle, Phases
<1>5. ASSUME NEW c \in Consumers, Commit(c) PROVE Inv'
  BY <1>5, CommitStep
<1>6. ASSUME NEW c \in Consumers, Skip(c) PROVE Inv'
  <2>1. Key(c) \in inbox
    BY <1>6 DEF Inv, Skip
  <2> QED
    BY <1>6, <2>1, HandlerPhaseStep DEF Skip, Phases
<1>7. ASSUME NEW c \in Consumers, Ack(c) PROVE Inv'
  BY <1>7, AckStep
<1>8. ASSUME NEW c \in Consumers, Fail(c) PROVE Inv'
  <2>1. failures' \in Nat /\ "idle" \in Phases
    BY <1>1, <1>8 DEF Fail, Phases
  <2>2. /\ phase' = [phase EXCEPT ![c] = "idle"]
        /\ message' = [message EXCEPT ![c] = NoMessage]
        /\ UNCHANGED <<inbox, effects, acked>>
    BY <1>8 DEF Fail
  <2> QED
    BY <2>1, <2>2, PhaseStep
<1>9. CASE UNCHANGED vars
  <2>1. \A c \in Consumers : Key(c)' = Key(c) /\ Inserting(c)' = Inserting(c)
    BY <1>9 DEF vars, Key, Inserting
  <2>2. TypeOK' /\ ExactlyOnceEffect' /\ AckedApplied'
    BY <1>9 DEF vars, Inv, TypeOK, ExactlyOnceEffect, AckedApplied
  <2> QED
    BY <1>9, <2>1, <2>2 DEF vars, Inv
<1> QED
  BY <1>2, <1>3, <1>4, <1>5, <1>6, <1>7, <1>8, <1>9 DEF Next, HandlerStep

(* Inv holds in every reachable state of the consumers, whatever they      *)
(* receive and wherever they fail.                                         *)
THEOREM InboxInvariance == Spec => []Inv
BY InitInvariant, NextInvariant, PTL DEF Spec

(* Each group applies each event at most once, and exactly when the inbox  *)
(* says so: is_duplicate and the effect share one transaction.             *)
THEOREM ExactlyOnce == Spec => []ExactlyOnceEffect
<1>1. Inv => ExactlyOnceEffect
  BY DEF Inv
<1> QED
  BY <1>1, InboxInvariance, PTL

(* A message is acknowledged only when its event has been applied, so a    *)
(* handler that fails never makes the group miss an event.                 *)
THEOREM NothingSkipped == Spec => []AckedApplied
<1>1. Inv => AckedApplied
  BY DEF Inv
<1> QED
  BY <1>1, InboxInvariance, PTL

-----------------------------------------------------------------------------
(* The consumers implement InboxPromise.                                   *)

(* What a commit applies was not applied before.                           *)
LEMMA CommitApplies ==
    ASSUME Inv, NEW c \in Consumers, Commit(c)
    PROVE  \E g \in Groups, e \in Events : GroupPromise!Apply(g, e)
<1> DEFINE g == GroupOf[c] e == EventOf[message[c]]
<1>1. /\ message[c] \in Copies /\ Key(c) \in Groups \X Events /\ Key(c) \notin inbox
      /\ Key(c) = <<g, e>> /\ g \in Groups /\ e \in Events
  BY KeyType, InboxAssumption DEF Inv, Commit, Inserting, Key
<1>2. effects[<<g, e>>] = 0
  BY <1>1 DEF Inv, ExactlyOnceEffect
<1>3. effects' = [effects EXCEPT ![<<g, e>>] = 1] /\ UNCHANGED acked
  BY <1>1, <1>2 DEF Commit, Inv, TypeOK
<1> QED
  BY <1>1, <1>2, <1>3 DEF GroupPromise!Apply

(* A consumer that acknowledges finds its event applied.                   *)
LEMMA AckAcknowledges ==
    ASSUME Inv, NEW c \in Consumers, Ack(c)
    PROVE  \E g \in Groups, m \in Copies : GroupPromise!Ack(g, m)
<1>1. /\ message[c] \in Copies /\ GroupOf[c] \in Groups
      /\ Key(c) \in Groups \X Events /\ Key(c) \in inbox
  BY KeyType, InboxAssumption DEF Inv, Ack
<1>2. effects[<<GroupOf[c], EventOf[message[c]]>>] = 1
  BY <1>1 DEF Inv, ExactlyOnceEffect, Key
<1> QED
  BY <1>1, <1>2 DEF Ack, GroupPromise!Ack

(* The consumers implement InboxPromise: an effect is applied once and     *)
(* stays, and no message is acknowledged before its event has been applied.*)
THEOREM InboxRefinement == Spec => ImplementsInboxPromise
<1>1. Init => GroupPromise!Init
  BY DEF Init, GroupPromise!Init
<1>2. Inv /\ [Next]_vars => [GroupPromise!Next]_(GroupPromise!vars)
  <2> SUFFICES ASSUME Inv, [Next]_vars PROVE GroupPromise!Next \/ UNCHANGED GroupPromise!vars
    OBVIOUS
  <2>1. ASSUME NEW c \in Consumers, Commit(c) PROVE GroupPromise!Next
    BY <2>1, CommitApplies DEF GroupPromise!Next
  <2>2. ASSUME NEW c \in Consumers, Ack(c) PROVE GroupPromise!Next
    BY <2>2, AckAcknowledges DEF GroupPromise!Next
  <2>3. \/ \E c \in Consumers : Commit(c) \/ Ack(c)
        \/ UNCHANGED <<effects, acked>>
    BY DEF Next, HandlerStep, Deliver, IsDuplicate, Handle, Skip, Fail, vars
  <2> QED
    BY <2>1, <2>2, <2>3 DEF GroupPromise!vars
<1> QED
  BY <1>1, <1>2, InboxInvariance, PTL DEF Spec, ImplementsInboxPromise, GroupPromise!Spec

=============================================================================
