-------------------------- MODULE OutboxTransaction --------------------------
(***************************************************************************)
(* The producer's side (nats_outbox/core/outbox.py): request handlers      *)
(* enter outbox_transaction blocks on their SQLAlchemy sessions.  The body *)
(* of a block changes a domain object and stages one event; leaving the    *)
(* block must commit both or neither, whatever happens at an await: the    *)
(* body raises, the task is cancelled, the database rejects the commit or  *)
(* its answer is lost.                                                     *)
(***************************************************************************)
CONSTANTS
    Sessions,   \* the sessions, each used by one task at a time
    Blocks,     \* the blocks to be entered; a retry is a block of its own
    Ids,        \* the values event_id can take
    EventId,    \* block -> the event_id its event gets
    Reuse,      \* TRUE: a handler enters a block on a session of which it has
                \* caught a cancellation
    NoBlock     \* "the session is in no block"

ASSUME EventIdAssumption == EventId \in [Blocks -> Ids]
ASSUME NoBlockAssumption == NoBlock \notin Blocks

VARIABLES
    phase,      \* session -> where its handler stands
    block,      \* session -> the block it is in
    objects,    \* session -> objects added to the session and not committed
    pending,    \* session -> the OutboxTransaction's _pending_events
    db,         \* the committed objects
    outcome     \* block -> how the block ended, as its handler sees it

vars == <<phase, block, objects, pending, db, outcome>>

(* The domain object and the event of a block.                             *)
Domain(b) == [kind |-> "domain", block |-> b]
Event(b)  == [kind |-> "event", block |-> b]
Objects   == [kind : {"domain", "event"}, block : Blocks]

Phases == {"free",        \* between two blocks
           "body",        \* in the body of the block
           "committing",  \* session.commit() has been called
           "applied",     \* the database has committed, the answer is on its way
           "cancelled",   \* left by a CancelledError, not yet closed
           "closed"}      \* the session is closed or its connection unusable

Outcomes == {"none", "ok", "error", "cancelled"}

TypeOK ==
    /\ phase \in [Sessions -> Phases]
    /\ block \in [Sessions -> Blocks \union {NoBlock}]
    /\ objects \in [Sessions -> SUBSET Objects]
    /\ pending \in [Sessions -> SUBSET Objects]
    /\ db \subseteq Objects
    /\ outcome \in [Blocks -> Outcomes]

Init ==
    /\ phase = [s \in Sessions |-> "free"]
    /\ block = [s \in Sessions |-> NoBlock]
    /\ objects = [s \in Sessions |-> {}]
    /\ pending = [s \in Sessions |-> {}]
    /\ db = {}
    /\ outcome = [b \in Blocks |-> "none"]

-----------------------------------------------------------------------------
(* async with outbox_transaction(session) as tx: the wrapper starts with   *)
(* an empty list; the session is used as it is found.                      *)
Enter(s, b) ==
    /\ phase[s] = "free" \/ (Reuse /\ phase[s] = "cancelled")
    /\ outcome[b] = "none"
    /\ \A t \in Sessions : block[t] # b
    /\ phase' = [phase EXCEPT ![s] = "body"]
    /\ block' = [block EXCEPT ![s] = b]
    /\ pending' = [pending EXCEPT ![s] = {}]
    /\ UNCHANGED <<objects, db, outcome>>

(* tx.add(instance)                                                        *)
Add(s) ==
    /\ phase[s] = "body"
    /\ Domain(block[s]) \notin objects[s]
    /\ objects' = [objects EXCEPT ![s] = @ \union {Domain(block[s])}]
    /\ UNCHANGED <<phase, block, pending, db, outcome>>

(* tx.publish_event(...): the event is not in the session yet.             *)
PublishEvent(s) ==
    /\ phase[s] = "body"
    /\ Event(block[s]) \notin pending[s]
    /\ pending' = [pending EXCEPT ![s] = @ \union {Event(block[s])}]
    /\ UNCHANGED <<phase, block, objects, db, outcome>>

(* Faulty variant: the commit is issued before the events are flushed.     *)
ExitUnflushed(s) ==
    /\ phase[s] = "body"
    /\ Domain(block[s]) \in objects[s]
    /\ Event(block[s]) \in pending[s]
    /\ phase' = [phase EXCEPT ![s] = "committing"]
    /\ UNCHANGED <<block, objects, pending, db, outcome>>

(* The body is done: _flush_events adds the events to the session, with no *)
(* await before session.commit() takes over.                               *)
Exit(s) ==
    /\ phase[s] = "body"
    /\ Domain(block[s]) \in objects[s]
    /\ Event(block[s]) \in pending[s]
    /\ objects' = [objects EXCEPT ![s] = @ \union pending[s]]
    /\ phase' = [phase EXCEPT ![s] = "committing"]
    /\ UNCHANGED <<block, pending, db, outcome>>

(* The block is left with outcome o and the session kept in phase p.       *)
Leave(s, o, p) ==
    /\ outcome' = [outcome EXCEPT ![block[s]] = o]
    /\ block' = [block EXCEPT ![s] = NoBlock]
    /\ phase' = [phase EXCEPT ![s] = p]
    /\ pending' = [pending EXCEPT ![s] = {}]

(* Faulty variant: the exception is passed on without a rollback.          *)
RaiseWithoutRollback(s) ==
    /\ Leave(s, "error", "free")
    /\ UNCHANGED <<objects, db>>

(* except Exception: rollback() expunges everything the session added.     *)
Raise(s) ==
    /\ Leave(s, "error", "free")
    /\ objects' = [objects EXCEPT ![s] = {}]
    /\ UNCHANGED db

BodyRaises(s) == phase[s] = "body" /\ Raise(s)

-----------------------------------------------------------------------------
(* session.commit(): INSERTs and COMMIT, at the database.                  *)

(* Faulty variant: the table has no unique constraint on event_id.         *)
ConflictsNever(s) == FALSE

(* uq_outbox_event_id                                                      *)
Conflicts(s) ==
    \E b, c \in Blocks :
        /\ Event(b) \in objects[s] /\ Event(c) \in db
        /\ EventId[b] = EventId[c]

(* An IntegrityError, for this constraint or one of the domain's.          *)
Reject(s) == phase[s] = "committing" /\ Raise(s)

Apply(s) ==
    /\ phase[s] = "committing"
    /\ ~Conflicts(s)
    /\ db' = db \union objects[s]
    /\ objects' = [objects EXCEPT ![s] = {}]
    /\ phase' = [phase EXCEPT ![s] = "applied"]
    /\ UNCHANGED <<block, pending, outcome>>

(* Faulty variant: session.commit() is not awaited.                        *)
ReturnWithoutAwait(s) ==
    /\ phase[s] = "committing"
    /\ Leave(s, "ok", "free")
    /\ UNCHANGED <<objects, db>>

Return(s) ==
    /\ phase[s] = "applied"
    /\ Leave(s, "ok", "free")
    /\ UNCHANGED <<objects, db>>

(* The connection breaks after the database has committed: the handler     *)
(* gets an exception for a transaction that is there.  A COMMIT that the   *)
(* server applies after the driver gave up is not told from one applied    *)
(* just before: nothing reads the table in between, and an INSERT of the   *)
(* same event_id waits for the transaction in doubt.                       *)
LoseAnswer(s) == phase[s] = "applied" /\ Raise(s)

(* CancelledError is no Exception: nothing is rolled back.  In the body    *)
(* the session keeps its objects; in the middle of a database call the     *)
(* driver drops the connection, and the transaction with it unless it has  *)
(* been applied.                                                           *)
Cancel(s) ==
    \/ /\ phase[s] = "body"
       /\ Leave(s, "cancelled", "cancelled")
       /\ UNCHANGED <<objects, db>>
    \/ /\ phase[s] \in {"committing", "applied"}
       /\ Leave(s, "cancelled", "closed")
       /\ objects' = [objects EXCEPT ![s] = {}]
       /\ UNCHANGED db

(* async with AsyncSession(...): leaving it rolls back what is left.       *)
Close(s) ==
    /\ phase[s] \in {"free", "cancelled"}
    /\ phase' = [phase EXCEPT ![s] = "closed"]
    /\ objects' = [objects EXCEPT ![s] = {}]
    /\ UNCHANGED <<block, pending, db, outcome>>

(* The next request comes with a new session.                              *)
Open(s) ==
    /\ phase[s] = "closed"
    /\ phase' = [phase EXCEPT ![s] = "free"]
    /\ UNCHANGED <<block, objects, pending, db, outcome>>

(* Every step of a handler but the database's commit.                      *)
HandlerStep(s) ==
    \/ \E b \in Blocks : Enter(s, b)
    \/ Add(s) \/ PublishEvent(s) \/ BodyRaises(s) \/ Exit(s)
    \/ Reject(s) \/ Return(s) \/ LoseAnswer(s)
    \/ Cancel(s) \/ Close(s) \/ Open(s)

Next == \E s \in Sessions : HandlerStep(s) \/ Apply(s)

Spec == Init /\ [][Next]_vars

-----------------------------------------------------------------------------
(* Domain change and event are persisted together or not at all, wherever  *)
(* the block was interrupted.                                              *)
Atomic == \A b \in Blocks : Domain(b) \in db <=> Event(b) \in db

(* A block that returns normally is persisted; and what is persisted is    *)
(* the work of a block that tried to commit, never of one whose body       *)
(* failed: only a broken connection or a cancellation during commit()      *)
(* leaves the handler with an exception for work that is there.            *)
OutcomeHonest ==
    [][\A b \in Blocks : outcome'[b] # outcome[b] =>
          /\ outcome'[b] = "ok" => {Domain(b), Event(b)} \subseteq db
          /\ Domain(b) \in db => \E s \in Sessions : block[s] = b /\ phase[s] = "applied"
      ]_vars

(* A handler that passes the event_id of an earlier attempt may retry      *)
(* after any exception: the change is applied once.                        *)
RetriesApplyOnce ==
    \A b, c \in Blocks :
        EventId[b] = EventId[c] /\ Domain(b) \in db /\ Domain(c) \in db => b = c

(* The blocks implement the promise: under this mapping each of their      *)
(* steps is a step of TransactionPromise or leaves it unchanged.           *)
TxPromise == INSTANCE TransactionPromise WITH
    changed   <- {b \in Blocks : Domain(b) \in db},
    published <- {b \in Blocks : Event(b) \in db}

ImplementsTransactionPromise == TxPromise!Spec

-----------------------------------------------------------------------------
(* Why the blocks are atomic while no session outlives a cancellation: an  *)
(* inductive invariant.  A session holds the objects of its own block      *)
(* only, and both of them by the time it commits.                          *)
SessionSound(s) ==
    /\ block[s] = NoBlock <=> phase[s] \in {"free", "cancelled", "closed"}
    /\ phase[s] \in {"free", "closed", "applied"} => objects[s] = {}
    /\ phase[s] = "body" => /\ objects[s] \subseteq {Domain(block[s])}
                            /\ pending[s] \subseteq {Event(block[s])}
    /\ phase[s] = "committing" => objects[s] = {Domain(block[s]), Event(block[s])}
    /\ phase[s] = "applied" => {Domain(block[s]), Event(block[s])} \subseteq db
    /\ block[s] # NoBlock => outcome[block[s]] = "none"

Inv ==
    /\ TypeOK
    /\ \A s \in Sessions : SessionSound(s)
    /\ \A s, t \in Sessions : s # t /\ block[s] # NoBlock => block[s] # block[t]
    /\ \A b \in Blocks : Domain(b) \in db /\ outcome[b] = "none" =>
          \E s \in Sessions : block[s] = b /\ phase[s] = "applied"
    /\ Atomic
    /\ RetriesApplyOnce

=============================================================================
