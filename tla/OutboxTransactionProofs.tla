----------------------- MODULE OutboxTransactionProofs -----------------------
(***************************************************************************)
(* Proofs about OutboxTransaction for any number of sessions and blocks,   *)
(* on the condition that no handler goes on with a session of which it has *)
(* caught a cancellation.                                                  *)
(***************************************************************************)
EXTENDS OutboxTransaction, TLAPS

LEMMA ObjectsDistinct ==
    ASSUME NEW b \in Blocks, NEW c \in Blocks
    PROVE  /\ Domain(b) \in Objects /\ Event(b) \in Objects
           /\ Domain(b) # Event(c)
           /\ Domain(b) = Domain(c) => b = c
           /\ Event(b) = Event(c) => b = c
BY DEF Domain, Event, Objects

LEMMA InitInv == Init => Inv
BY NoBlockAssumption
   DEF Init, Inv, TypeOK, SessionSound, Atomic, RetriesApplyOnce, Phases, Outcomes

(* A step that leaves the committed objects alone and a block, if at all,  *)
(* with an outcome.                                                        *)
LEMMA EnterKeepsInv ==
    ASSUME ~Reuse, Inv, NEW s \in Sessions, NEW b \in Blocks, Enter(s, b)
    PROVE  Inv'
<1> USE DEF Inv
<1>1. TypeOK'
  BY DEF TypeOK, Enter, Phases
<1>2. phase[s] = "free" /\ objects[s] = {} /\ block[s] = NoBlock /\ b # NoBlock
  BY NoBlockAssumption DEF Enter, SessionSound
<1>3. \A t \in Sessions : SessionSound(t)'
  BY <1>2 DEF SessionSound, Enter, TypeOK
<1>4. \A t, u \in Sessions : t # u /\ block'[t] # NoBlock => block'[t] # block'[u]
  BY <1>2 DEF Enter, TypeOK
<1>5. \A c \in Blocks : Domain(c) \in db' /\ outcome'[c] = "none" =>
          \E t \in Sessions : block'[t] = c /\ phase'[t] = "applied"
  BY <1>2 DEF Enter, TypeOK
<1>6. Atomic' /\ RetriesApplyOnce'
  BY DEF Enter, Atomic, RetriesApplyOnce
<1> QED
  BY <1>1, <1>3, <1>4, <1>5, <1>6

LEMMA BodyKeepsInv ==
    ASSUME ~Reuse, Inv, NEW s \in Sessions, Add(s) \/ PublishEvent(s) \/ Exit(s)
    PROVE  Inv'
<1> USE DEF Inv
<1>1. phase[s] = "body" /\ block[s] \in Blocks /\ block[s] # NoBlock
  BY DEF Add, PublishEvent, Exit, SessionSound, TypeOK
<1>2. Domain(block[s]) \in Objects /\ Event(block[s]) \in Objects
  BY <1>1, ObjectsDistinct
<1>3. UNCHANGED <<block, db, outcome>>
  BY DEF Add, PublishEvent, Exit
<1>4. TypeOK'
  BY <1>2 DEF TypeOK, Add, PublishEvent, Exit, Phases
<1>5. ASSUME NEW t \in Sessions PROVE SessionSound(t)'
  <2>1. CASE t # s
    BY <1>3, <2>1 DEF SessionSound, TypeOK, Add, PublishEvent, Exit
  <2>2. CASE t = s
    BY <1>1, <1>3, <2>2 DEF SessionSound, TypeOK, Add, PublishEvent, Exit
  <2> QED
    BY <2>1, <2>2
<1>6. \A b \in Blocks : Domain(b) \in db' /\ outcome'[b] = "none" =>
          \E t \in Sessions : block'[t] = b /\ phase'[t] = "applied"
  BY <1>1, <1>3 DEF TypeOK, Add, PublishEvent, Exit
<1>7. Atomic' /\ RetriesApplyOnce'
  BY <1>3 DEF Atomic, RetriesApplyOnce
<1> QED
  BY <1>3, <1>4, <1>5, <1>6, <1>7

(* The commit adds the two objects of one block, and only if no event of   *)
(* the same event_id is there.                                             *)
LEMMA ApplyKeepsInv ==
    ASSUME ~Reuse, Inv, NEW s \in Sessions, Apply(s)
    PROVE  Inv'
<1> USE DEF Inv
<1> DEFINE b == block[s]
<1>1. /\ b \in Blocks /\ b # NoBlock /\ outcome[b] = "none"
      /\ objects[s] = {Domain(b), Event(b)}
      /\ db' = db \union {Domain(b), Event(b)}
  BY DEF Apply, SessionSound, TypeOK
<1>2. UNCHANGED <<block, pending, outcome>>
  BY DEF Apply
<1>3. \A c \in Blocks : Event(c) \in db => EventId[c] # EventId[b]
  BY <1>1 DEF Apply, Conflicts
<1>4. TypeOK'
  BY <1>1, ObjectsDistinct DEF TypeOK, Apply, Phases
<1>5. ASSUME NEW t \in Sessions PROVE SessionSound(t)'
  <2>1. CASE t # s
    BY <1>1, <1>2, <2>1 DEF SessionSound, TypeOK, Apply
  <2>2. CASE t = s
    BY <1>1, <1>2, <2>2 DEF SessionSound, TypeOK, Apply
  <2> QED
    BY <2>1, <2>2
<1>6. ASSUME NEW c \in Blocks, Domain(c) \in db', outcome'[c] = "none"
      PROVE  \E t \in Sessions : block'[t] = c /\ phase'[t] = "applied"
  <2>1. CASE c = b
    BY <1>2, <2>1 DEF Apply, TypeOK
  <2>2. CASE c # b
    <3>1. Domain(c) \in db
      BY <1>1, <1>6, <2>2, ObjectsDistinct
    <3>2. PICK t \in Sessions : block[t] = c /\ phase[t] = "applied"
      BY <1>2, <1>6, <3>1
    <3>3. t # s
      BY <2>2, <3>2
    <3> QED
      BY <1>2, <3>2, <3>3 DEF Apply, TypeOK
  <2> QED
    BY <2>1, <2>2
<1>7. Atomic'
  BY <1>1, ObjectsDistinct DEF Atomic
<1>8. RetriesApplyOnce'
  <2> SUFFICES ASSUME NEW c \in Blocks, NEW d \in Blocks, EventId[c] = EventId[d],
                      Domain(c) \in db', Domain(d) \in db'
               PROVE  c = d
    BY DEF RetriesApplyOnce
  <2>1. \A x \in Blocks : Domain(x) \in db' => x = b \/ Event(x) \in db
    BY <1>1, ObjectsDistinct DEF Atomic
  <2>2. \A x \in Blocks : Domain(x) \in db' => x = b \/ Domain(x) \in db
    BY <1>1, ObjectsDistinct
  <2> QED
    BY <1>3, <2>1, <2>2 DEF RetriesApplyOnce
<1> QED
  BY <1>2, <1>4, <1>5, <1>6, <1>7, <1>8

(* Every way out of a block: its objects are dropped or, after a           *)
(* cancellation in the body, stay in a session that is never used again.   *)
LEMMA LeaveKeepsInv ==
    ASSUME ~Reuse, Inv, NEW s \in Sessions, block[s] \in Blocks,
           NEW o \in Outcomes \ {"none"},
           NEW p \in {"free", "cancelled", "closed"}, Leave(s, o, p),
           objects' \in [Sessions -> SUBSET Objects],
           \A t \in Sessions \ {s} : objects'[t] = objects[t],
           p \in {"free", "closed"} => objects'[s] = {},
           UNCHANGED db
    PROVE  Inv'
<1> USE DEF Inv
<1>1. TypeOK'
  BY DEF TypeOK, Leave, Phases
<1>2. ASSUME NEW t \in Sessions PROVE SessionSound(t)'
  <2>1. CASE t # s
    BY <2>1 DEF SessionSound, TypeOK, Leave
  <2>2. CASE t = s
    BY <2>2 DEF SessionSound, TypeOK, Leave
  <2> QED
    BY <2>1, <2>2
<1>3. \A t, u \in Sessions : t # u /\ block'[t] # NoBlock => block'[t] # block'[u]
  BY DEF Leave, TypeOK
<1>4. \A b \in Blocks : Domain(b) \in db' /\ outcome'[b] = "none" =>
          \E t \in Sessions : block'[t] = b /\ phase'[t] = "applied"
  BY DEF Leave, TypeOK
<1>5. Atomic' /\ RetriesApplyOnce'
  BY DEF Atomic, RetriesApplyOnce
<1> QED
  BY <1>1, <1>2, <1>3, <1>4, <1>5

LEMMA OpenCloseKeepsInv ==
    ASSUME ~Reuse, Inv, NEW s \in Sessions, Open(s) \/ Close(s)
    PROVE  Inv'
<1> USE DEF Inv
<1>1. TypeOK'
  BY DEF TypeOK, Open, Close, Phases
<1>2. UNCHANGED <<block, pending, db, outcome>>
  BY DEF Open, Close
<1>3. \A t \in Sessions : SessionSound(t)'
  BY <1>2 DEF SessionSound, TypeOK, Open, Close
<1>4. \A b \in Blocks : Domain(b) \in db' /\ outcome'[b] = "none" =>
          \E t \in Sessions : block'[t] = b /\ phase'[t] = "applied"
  BY <1>2 DEF Open, Close, TypeOK
<1>5. Atomic' /\ RetriesApplyOnce'
  BY <1>2 DEF Atomic, RetriesApplyOnce
<1> QED
  BY <1>1, <1>2, <1>3, <1>4, <1>5

LEMMA NextKeepsInv == ~Reuse /\ Inv /\ [Next]_vars => Inv'
<1> SUFFICES ASSUME ~Reuse, Inv, [Next]_vars PROVE Inv'
  OBVIOUS
<1>1. ASSUME NEW s \in Sessions, NEW b \in Blocks, Enter(s, b) PROVE Inv'
  BY <1>1, EnterKeepsInv
<1>2. ASSUME NEW s \in Sessions, Add(s) \/ PublishEvent(s) \/ Exit(s) PROVE Inv'
  BY <1>2, BodyKeepsInv
<1>3. ASSUME NEW s \in Sessions, Apply(s) PROVE Inv'
  BY <1>3, ApplyKeepsInv
<1>4. ASSUME NEW s \in Sessions,
             BodyRaises(s) \/ Reject(s) \/ Return(s) \/ LoseAnswer(s) \/ Cancel(s)
      PROVE  Inv'
  <2>1. block[s] \in Blocks /\ objects \in [Sessions -> SUBSET Objects]
    BY <1>4 DEF Inv, TypeOK, SessionSound, BodyRaises, Reject, Return, LoseAnswer, Cancel
  <2>2. CASE BodyRaises(s) \/ Reject(s) \/ LoseAnswer(s)
    <3>1. Leave(s, "error", "free") /\ objects' = [objects EXCEPT ![s] = {}]
                                    /\ UNCHANGED db
      BY <2>2 DEF BodyRaises, Reject, LoseAnswer, Raise
    <3> QED
      BY <2>1, <3>1, LeaveKeepsInv DEF Outcomes
  <2>3. CASE Return(s)
    <3>1. objects[s] = {}
      BY <2>3 DEF Return, Inv, SessionSound
    <3>2. Leave(s, "ok", "free") /\ UNCHANGED <<objects, db>>
      BY <2>3 DEF Return
    <3> QED
      BY <2>1, <3>1, <3>2, LeaveKeepsInv DEF Outcomes
  <2>4. CASE Cancel(s)
    <3>1. CASE Leave(s, "cancelled", "cancelled") /\ UNCHANGED <<objects, db>>
      BY <2>1, <3>1, LeaveKeepsInv DEF Outcomes
    <3>2. CASE /\ Leave(s, "cancelled", "closed")
               /\ objects' = [objects EXCEPT ![s] = {}]
               /\ UNCHANGED db
      BY <2>1, <3>2, LeaveKeepsInv DEF Outcomes
    <3> QED
      BY <2>4, <3>1, <3>2 DEF Cancel
  <2> QED
    BY <1>4, <2>2, <2>3, <2>4
<1>5. ASSUME NEW s \in Sessions, Open(s) \/ Close(s) PROVE Inv'
  BY <1>5, OpenCloseKeepsInv
<1>6. CASE UNCHANGED vars
  BY <1>6 DEF vars, Inv, TypeOK, SessionSound, Atomic, RetriesApplyOnce
<1> QED
  BY <1>1, <1>2, <1>3, <1>4, <1>5, <1>6 DEF Next, HandlerStep

-----------------------------------------------------------------------------
(* The inductive invariant holds in every reachable state.                 *)
THEOREM Invariance == ASSUME ~Reuse PROVE Spec => []Inv
<1>1. Init => Inv
  BY InitInv
<1>2. Inv /\ [Next]_vars => Inv'
  BY NextKeepsInv
<1> QED
  BY <1>1, <1>2, PTL DEF Spec

(* A domain change is committed exactly with its event.                    *)
THEOREM Atomicity == ASSUME ~Reuse PROVE Spec => []Atomic
<1>1. Inv => Atomic
  BY DEF Inv
<1> QED
  BY <1>1, Invariance, PTL

(* Attempts that share an event_id take effect once.                       *)
THEOREM Idempotence == ASSUME ~Reuse PROVE Spec => []RetriesApplyOnce
<1>1. Inv => RetriesApplyOnce
  BY DEF Inv
<1> QED
  BY <1>1, Invariance, PTL

(* A handler is told "ok" only of work that is there, and of work that is  *)
(* there an outcome comes only after the database has committed it.        *)
THEOREM Honesty == ASSUME ~Reuse PROVE Spec => OutcomeHonest
<1> DEFINE Honest(b) == outcome'[b] # outcome[b] =>
               /\ outcome'[b] = "ok" => {Domain(b), Event(b)} \subseteq db
               /\ Domain(b) \in db => \E s \in Sessions : block[s] = b /\ phase[s] = "applied"
<1>1. Inv /\ [Next]_vars => [\A b \in Blocks : Honest(b)]_vars
  <2> SUFFICES ASSUME Inv, [Next]_vars, NEW b \in Blocks, outcome'[b] # outcome[b]
               PROVE  Honest(b)
    OBVIOUS
  <2>1. PICK s \in Sessions :
           BodyRaises(s) \/ Reject(s) \/ Return(s) \/ LoseAnswer(s) \/ Cancel(s)
    BY DEF Next, HandlerStep, Enter, Add, PublishEvent, Exit, Close, Open, Apply, vars
  <2>2. PICK o \in Outcomes, p \in Phases : Leave(s, o, p) /\ (o = "ok" => Return(s))
    BY <2>1 DEF BodyRaises, Reject, Return, LoseAnswer, Cancel, Raise, Outcomes, Phases
  <2>3. b = block[s] /\ outcome'[b] = o
    BY <2>2 DEF Leave, Inv, TypeOK
  <2>4. b # NoBlock /\ outcome[b] = "none"
    BY <2>3, NoBlockAssumption DEF Inv, SessionSound
  <2>5. Domain(b) \in db => \E t \in Sessions : block[t] = b /\ phase[t] = "applied"
    BY <2>4 DEF Inv
  <2>6. o = "ok" => {Domain(b), Event(b)} \subseteq db
    BY <2>2, <2>3 DEF Return, Inv, SessionSound
  <2> QED
    BY <2>3, <2>5, <2>6
<1>2. Spec => []Inv
  BY Invariance
<1> QED
  BY <1>1, <1>2, PTL DEF Spec, OutcomeHonest

-----------------------------------------------------------------------------
(* The blocks implement TransactionPromise.                                *)

(* A commit makes exactly one block durable, with both of its objects.     *)
LEMMA ApplyPersists ==
    ASSUME Inv, NEW s \in Sessions, Apply(s)
    PROVE  TxPromise!Persist(block[s]) /\ block[s] \in Blocks
<1> DEFINE b == block[s]
<1>1. /\ b \in Blocks /\ outcome[b] = "none"
      /\ db' = db \union {Domain(b), Event(b)}
      /\ UNCHANGED outcome
  BY DEF Apply, Inv, TypeOK, SessionSound
<1>2. \A c \in Blocks : Event(c) \in db => EventId[c] # EventId[b]
  BY <1>1 DEF Apply, Conflicts, Inv, SessionSound
<1>3. {c \in Blocks : Domain(c) \in db}' = {c \in Blocks : Domain(c) \in db} \union {b}
  BY <1>1, ObjectsDistinct
<1>4. {c \in Blocks : Event(c) \in db}' = {c \in Blocks : Event(c) \in db} \union {b}
  BY <1>1, ObjectsDistinct
<1> QED
  BY <1>1, <1>2, <1>3, <1>4 DEF TxPromise!Persist

(* Every way out of a block ends it, and only Return calls it a success.   *)
LEMMA LeaveEnds ==
    ASSUME Inv, NEW s \in Sessions, block[s] \in Blocks, NEW o, NEW p, Leave(s, o, p),
           o = "ok" => phase[s] = "applied", UNCHANGED db
    PROVE  TxPromise!End(block[s], o)
<1>1. block[s] # NoBlock
  BY NoBlockAssumption
<1>2. outcome[block[s]] = "none"
  BY <1>1 DEF Inv, SessionSound
<1>3. o = "ok" => Event(block[s]) \in db
  BY DEF Inv, SessionSound
<1> QED
  BY <1>2, <1>3 DEF Leave, TxPromise!End

LEMMA NextImplements == Inv /\ [Next]_vars => [TxPromise!Next]_(TxPromise!vars)
<1> SUFFICES ASSUME Inv, [Next]_vars PROVE TxPromise!Next \/ UNCHANGED TxPromise!vars
  OBVIOUS
<1>1. ASSUME NEW s \in Sessions, Apply(s) PROVE TxPromise!Next
  BY <1>1, ApplyPersists DEF TxPromise!Next
<1>2. ASSUME NEW s \in Sessions,
             BodyRaises(s) \/ Reject(s) \/ Return(s) \/ LoseAnswer(s) \/ Cancel(s)
      PROVE  TxPromise!Next
  <2>1. block[s] \in Blocks
    BY <1>2 DEF Inv, TypeOK, SessionSound, BodyRaises, Reject, Return, LoseAnswer, Cancel
  <2>2. PICK o \in {"ok", "error", "cancelled"}, p \in Phases :
           /\ Leave(s, o, p) /\ UNCHANGED db
           /\ o = "ok" => phase[s] = "applied"
    BY <1>2 DEF BodyRaises, Reject, Return, LoseAnswer, Cancel, Raise, Phases
  <2> QED
    BY <2>1, <2>2, LeaveEnds DEF TxPromise!Next
<1>3. CASE UNCHANGED <<db, outcome>>
  BY <1>3 DEF TxPromise!vars
<1>4. \/ \E s \in Sessions : Apply(s)
      \/ \E s \in Sessions :
            BodyRaises(s) \/ Reject(s) \/ Return(s) \/ LoseAnswer(s) \/ Cancel(s)
      \/ UNCHANGED <<db, outcome>>
  BY DEF Next, HandlerStep, Enter, Add, PublishEvent, Exit, Close, Open, vars
<1> QED
  BY <1>1, <1>2, <1>3, <1>4

(* The blocks implement TransactionPromise: both objects of a block become *)
(* durable in the same step, before the handler hears how it ended, and a  *)
(* block that ended without becoming durable never does.                   *)
THEOREM TransactionRefinement == ASSUME ~Reuse PROVE Spec => ImplementsTransactionPromise
<1>1. Init => TxPromise!Init
  BY DEF Init, TxPromise!Init
<1>2. Spec => []Inv
  BY Invariance
<1> QED
  BY <1>1, <1>2, NextImplements, PTL DEF Spec, ImplementsTransactionPromise, TxPromise!Spec

=============================================================================
