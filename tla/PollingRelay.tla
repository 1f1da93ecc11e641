----------------------------- MODULE PollingRelay -----------------------------
(***************************************************************************)
(* The polling relay (nats_outbox/relay/polling.py): any number of relay   *)
(* processes that share one outbox table, the JetStream server they        *)
(* publish to, and the cleanup and requeue commands that run beside them.  *)
(*                                                                         *)
(* A relay's tick is one database transaction.  It locks a batch of due    *)
(* rows, publishes the batch one event at a time, each time changing only  *)
(* its in-memory copy of the row, and commits all the copies at the end.   *)
(* Every await is a point where the other processes, the clock and the     *)
(* faults act, so each stretch between two awaits is one action here.      *)
(***************************************************************************)
EXTENDS OutboxTable, Sequences, FiniteSets

CONSTANTS
    Relays,         \* the relay processes
    NoStream,       \* events whose subject no JetStream stream covers
    BatchSize,      \* OutboxSettings.batch_size
    Window,         \* JetStream's duplicate window
    Metrics,        \* TRUE: the relay is built with an OutboxMetrics
    StageOffsets,   \* scheduled_at relative to the commit of the producer
    OrderedCommits, \* TRUE: producers commit in the order of their row ids
    NatsFaults,     \* TRUE: a publish may time out, before or after the ACK
    MaxFaults,      \* bound: crashes, lost connections, failed gauge queries
    MaxTime,        \* bound: the clock stops here unless a retry is due later
    NoEvent         \* "no publish in progress"

ASSUME RelayAssumption ==
    /\ NoStream \subseteq Events
    /\ BatchSize \in Nat \ {0}
    /\ Window \in Nat \ {0}
    /\ StageOffsets \subseteq Int
    /\ Metrics \in BOOLEAN /\ OrderedCommits \in BOOLEAN /\ NatsFaults \in BOOLEAN
    /\ MaxFaults \in Nat
    /\ MaxTime \in Nat
    /\ NoEvent \notin Events

VARIABLES
    now,     \* the clock
    staged,  \* events whose producer has committed them
    rows,    \* committed contents of outbox_events, by id
    held,    \* relay -> rows its open transaction has locked
    phase,   \* relay -> where its loop stands
    todo,    \* relay -> events of the batch it has still to process
    work,    \* relay -> its session's copies of the batch's rows
    cur,     \* relay -> the event it is publishing
    wire,    \* relay -> progress of that publish
    late,    \* messages still in transit that no relay waits for any more
    stream,  \* JetStream: every copy stored, in order
    dedup,   \* JetStream: time of the last copy stored, by Nats-Msg-Id
    faults   \* faults so far

session == <<held, phase, todo, work, cur, wire>>
server  == <<late, stream, dedup>>
vars    == <<now, staged, rows, session, server, faults>>

Phases == {"down",     \* the process is not running
           "idle",     \* between two ticks
           "tick",     \* in the loop over the batch
           "commit",   \* loop and gauge done, about to commit
           "doomed"}   \* the server has put the transaction in its failed state

NoCopies == [e \in Events |-> NoRow]

TypeOK ==
    /\ now \in Nat
    /\ staged \subseteq Events
    /\ rows \in [Events -> Row \union {NoRow}]
    /\ held \in [Relays -> SUBSET Events]
    /\ phase \in [Relays -> Phases]
    /\ todo \in [Relays -> SUBSET Events]
    /\ work \in [Relays -> [Events -> Row \union {NoRow}]]
    /\ cur \in [Relays -> Events \union {NoEvent}]
    /\ wire \in [Relays -> {"none", "sent", "acked"}]
    /\ late \subseteq Events
    /\ stream \in Seq(Events)
    /\ dedup \in [Events -> Nat \union {NoTime}]
    /\ faults \in Nat

Init ==
    /\ now = 0
    /\ staged = {}
    /\ rows = NoCopies
    /\ held = [r \in Relays |-> {}]
    /\ phase = [r \in Relays |-> "down"]
    /\ todo = [r \in Relays |-> {}]
    /\ work = [r \in Relays |-> NoCopies]
    /\ cur = [r \in Relays |-> NoEvent]
    /\ wire = [r \in Relays |-> "none"]
    /\ late = {}
    /\ stream = << >>
    /\ dedup = [e \in Events |-> NoTime]
    /\ faults = 0

-----------------------------------------------------------------------------
(* Producers: a transaction that staged event e commits.  The row's id and *)
(* scheduled_at were drawn earlier, inside the transaction, so neither     *)
(* follows the order of the commits unless the producers make it.          *)

Stage(e) ==
    /\ e \notin staged
    /\ OrderedCommits => \A f \in Events : f < e => f \in staged
    /\ \E o \in StageOffsets :
          /\ now + o >= 0
          /\ rows' = [rows EXCEPT ![e] = NewRow(now + o)]
    /\ staged' = staged \union {e}
    /\ UNCHANGED <<now, session, server, faults>>

-----------------------------------------------------------------------------
(* The tick of relay r.                                                    *)

Locked == UNION {held[r] : r \in Relays}

(* Faulty variant: SELECT without FOR UPDATE SKIP LOCKED.                  *)
AvailableIgnoringLocks ==
    {e \in Events : rows[e] # NoRow /\ IsDue(rows[e], now)}

(* What the SELECT ... FOR UPDATE SKIP LOCKED may return rows from.        *)
Available ==
    {e \in Events \ Locked : rows[e] # NoRow /\ IsDue(rows[e], now)}

(* ORDER BY scheduled_at, id LIMIT batch_size.                             *)
IsBatch(S, from) ==
    /\ S \subseteq from
    /\ Cardinality(S) <= BatchSize
    /\ S = from \/ Cardinality(S) = BatchSize
    /\ \A e \in S, f \in from \ S : Before(rows, e, f)

Fetch(r) ==
    /\ phase[r] = "idle"
    /\ \E S \in SUBSET Available :
          /\ S # {}
          /\ IsBatch(S, Available)
          /\ held' = [held EXCEPT ![r] = S]
          /\ todo' = [todo EXCEPT ![r] = S]
          /\ work' = [work EXCEPT ![r] =
                         [e \in Events |-> IF e \in S THEN rows[e] ELSE NoRow]]
    /\ phase' = [phase EXCEPT ![r] = "tick"]
    /\ UNCHANGED <<now, staged, rows, cur, wire, server, faults>>

(* A tick that finds nothing returns 0 and leaves no trace.                *)
EmptyTick(r) ==
    /\ phase[r] = "idle"
    /\ Available = {}
    /\ UNCHANGED vars

Publish(r) ==
    /\ phase[r] = "tick"
    /\ cur[r] = NoEvent
    /\ \E e \in todo[r] :
          /\ \A f \in todo[r] \ {e} : Before(work[r], e, f)
          /\ cur' = [cur EXCEPT ![r] = e]
    /\ wire' = [wire EXCEPT ![r] = "sent"]
    /\ UNCHANGED <<now, staged, rows, held, phase, todo, work, server, faults>>

(* _process_event leaves the row it worked on as "row".                    *)
Processed(r, row) ==
    /\ work' = [work EXCEPT ![r][cur[r]] = row]
    /\ todo' = [todo EXCEPT ![r] = @ \ {cur[r]}]
    /\ cur' = [cur EXCEPT ![r] = NoEvent]
    /\ wire' = [wire EXCEPT ![r] = "none"]
    /\ UNCHANGED <<held, phase>>

(* Faulty variant: the session is never closed, its locks stay.            *)
EndSessionKeepingLocks(r, p) ==
    /\ phase' = [phase EXCEPT ![r] = p]
    /\ todo' = [todo EXCEPT ![r] = {}]
    /\ work' = [work EXCEPT ![r] = NoCopies]
    /\ cur' = [cur EXCEPT ![r] = NoEvent]
    /\ wire' = [wire EXCEPT ![r] = "none"]
    /\ UNCHANGED held

(* The session is gone: the transaction is rolled back, its locks freed.   *)
EndSession(r, p) ==
    /\ held' = [held EXCEPT ![r] = {}]
    /\ phase' = [phase EXCEPT ![r] = p]
    /\ todo' = [todo EXCEPT ![r] = {}]
    /\ work' = [work EXCEPT ![r] = NoCopies]
    /\ cur' = [cur EXCEPT ![r] = NoEvent]
    /\ wire' = [wire EXCEPT ![r] = "none"]

(* The except branch.  When _backoff itself raises, the exception leaves   *)
(* the handler, _tick and the transaction: the whole batch rolls back.     *)
RecordFailure(r, row) ==
    \/ \E failed \in FailureOutcomes(row, now) : Processed(r, failed)
    \/ FailureOutcomes(row, now) = {} /\ EndSession(r, "idle")

(* Faulty variant: the publish is not awaited.                             *)
PublishOkWithoutAck(r) ==
    /\ phase[r] = "tick"
    /\ wire[r] = "sent"
    /\ Processed(r, MarkPublished(work[r][cur[r]], now))
    /\ UNCHANGED <<now, staged, rows, server, faults>>

(* The ACK arrives.  With metrics the success path then calls observe() on *)
(* a histogram that has labels, without giving them: prometheus_client     *)
(* raises ValueError, and the except branch runs on the published row.     *)
PublishOk(r) ==
    /\ phase[r] = "tick"
    /\ wire[r] = "acked"
    /\ LET row == MarkPublished(work[r][cur[r]], now) IN
          IF Metrics THEN RecordFailure(r, row) ELSE Processed(r, row)
    /\ UNCHANGED <<now, staged, rows, server, faults>>

(* Faulty variant: the publisher logs the error and returns normally.      *)
PublishErrSwallowed(r) ==
    /\ phase[r] = "tick"
    /\ cur[r] # NoEvent
    /\ cur[r] \in NoStream \/ NatsFaults
    /\ Processed(r, MarkPublished(work[r][cur[r]], now))
    /\ UNCHANGED <<now, staged, rows, server, faults>>

(* Faulty variant: published_at is assigned before the publish.            *)
PublishErrAfterMarking(r) ==
    /\ phase[r] = "tick"
    /\ cur[r] # NoEvent
    /\ cur[r] \in NoStream \/ NatsFaults
    /\ RecordFailure(r, [work[r][cur[r]] EXCEPT !.published_at = now])
    /\ UNCHANGED <<now, staged, rows, server, faults>>

(* Faulty variant: the relay tries again at once, inside the tick.         *)
PublishErrBusyRetrying(r) ==
    /\ phase[r] = "tick"
    /\ cur[r] # NoEvent
    /\ cur[r] \in NoStream \/ NatsFaults
    /\ wire' = [wire EXCEPT ![r] = "sent"]
    /\ UNCHANGED <<now, staged, rows, held, phase, todo, work, cur, server, faults>>

(* publish() raises: nobody listens on the subject, or no ACK came in      *)
(* time, in which case the message may still be on its way.                *)
PublishErr(r) ==
    /\ phase[r] = "tick"
    /\ cur[r] # NoEvent
    /\ cur[r] \in NoStream \/ NatsFaults
    /\ RecordFailure(r, work[r][cur[r]])
    /\ late' = late \union (IF wire[r] = "sent" THEN {cur[r]} \ NoStream ELSE {})
    /\ UNCHANGED <<now, staged, rows, stream, dedup, faults>>

(* The end of _tick: the pending gauge is refreshed if there are metrics.  *)
(* A query the server rejects is swallowed, but the transaction is then in *)
(* PostgreSQL's failed state, where COMMIT means ROLLBACK.                 *)
UpdatePendingGauge(r) ==
    /\ phase[r] = "tick"
    /\ cur[r] = NoEvent
    /\ todo[r] = {}
    /\ \/ phase' = [phase EXCEPT ![r] = "commit"] /\ UNCHANGED faults
       \/ /\ Metrics /\ held[r] # {}
          /\ faults < MaxFaults
          /\ faults' = faults + 1
          /\ phase' = [phase EXCEPT ![r] = "doomed"]
    /\ UNCHANGED <<now, staged, rows, held, todo, work, cur, wire, server>>

(* Faulty variant: the updates are sent on a fresh connection, without the *)
(* transaction that held the locks.                                        *)
CommitWithoutLock(r) ==
    /\ phase[r] = "commit"
    /\ rows' = [e \in Events |-> IF work[r][e] # NoRow THEN work[r][e] ELSE rows[e]]
    /\ EndSession(r, "idle")
    /\ UNCHANGED <<now, staged, server, faults>>

(* session.begin() exits: the copies of the whole batch become the rows.   *)
Commit(r) ==
    /\ phase[r] = "commit"
    /\ held[r] # {}
    /\ rows' = [e \in Events |-> IF e \in held[r] THEN work[r][e] ELSE rows[e]]
    /\ EndSession(r, "idle")
    /\ UNCHANGED <<now, staged, server, faults>>

(* The COMMIT of a doomed transaction, or one sent on a lost connection.   *)
Rollback(r) ==
    /\ phase[r] = "doomed" \/ (phase[r] = "commit" /\ held[r] = {})
    /\ EndSession(r, "idle")
    /\ UNCHANGED <<now, staged, rows, server, faults>>

-----------------------------------------------------------------------------
(* Faults and restarts of relay r.                                         *)

(* The database drops the connection: the server rolls back and frees the  *)
(* locks at once; the relay learns of it only at its next statement, after *)
(* it has published the rest of the batch.                                 *)
Disconnect(r) ==
    /\ held[r] # {}
    /\ faults < MaxFaults
    /\ faults' = faults + 1
    /\ held' = [held EXCEPT ![r] = {}]
    /\ UNCHANGED <<now, staged, rows, phase, todo, work, cur, wire, server>>

(* The process dies or its task is cancelled; CancelledError passes every  *)
(* "except Exception".  A message it had sent may still arrive.            *)
Abort(r) ==
    /\ phase[r] # "down"
    /\ faults < MaxFaults
    /\ faults' = faults + 1
    /\ late' = late \union (IF wire[r] = "sent" THEN {cur[r]} \ NoStream ELSE {})
    /\ EndSession(r, "down")
    /\ UNCHANGED <<now, staged, rows, stream, dedup>>

Start(r) ==
    /\ phase[r] = "down"
    /\ phase' = [phase EXCEPT ![r] = "idle"]
    /\ UNCHANGED <<now, staged, rows, held, todo, work, cur, wire, server, faults>>

-----------------------------------------------------------------------------
(* JetStream (external).  A message whose Nats-Msg-Id was stored less than *)
(* a window ago is acknowledged as a duplicate and not stored again.       *)

IsDuplicate(e) == dedup[e] # NoTime /\ now < dedup[e] + Window

Accept(e) ==
    IF IsDuplicate(e)
    THEN UNCHANGED <<stream, dedup>>
    ELSE /\ stream' = Append(stream, e)
         /\ dedup' = [dedup EXCEPT ![e] = now]

Store(r) ==
    /\ wire[r] = "sent"
    /\ cur[r] \notin NoStream
    /\ Accept(cur[r])
    /\ wire' = [wire EXCEPT ![r] = "acked"]
    /\ UNCHANGED <<now, staged, rows, held, phase, todo, work, cur, late, faults>>

(* A message nobody waits for arrives after all, or is lost.               *)
StoreLate(e) ==
    /\ e \in late
    /\ Accept(e)
    /\ late' = late \ {e}
    /\ UNCHANGED <<now, staged, rows, session, faults>>

LoseLate(e) ==
    /\ e \in late
    /\ late' = late \ {e}
    /\ UNCHANGED <<now, staged, rows, session, stream, dedup, faults>>

-----------------------------------------------------------------------------
(* The cleanup and requeue commands, each one statement in a transaction.  *)

Expired == {e \in Events : rows[e] # NoRow /\ IsExpired(rows[e], now)}
Failed  == {e \in Events : rows[e] # NoRow /\ rows[e].status = "failed"}

RunCleanup ==
    /\ Expired # {}
    /\ rows' = [e \in Events |-> IF e \in Expired THEN NoRow ELSE rows[e]]
    /\ UNCHANGED <<now, staged, session, server, faults>>

(* With --event-id one failed event, without it all of them.               *)
Requeue ==
    /\ now < MaxTime
    /\ \E S \in {Failed} \union {{e} : e \in Failed} :
          /\ S # {}
          /\ rows' = [e \in Events |-> IF e \in S THEN Requeued(rows[e], now)
                                                  ELSE rows[e]]
    /\ UNCHANGED <<now, staged, session, server, faults>>

-----------------------------------------------------------------------------
AdvanceTime ==
    /\ \/ now < MaxTime
       \/ \E e \in Events : /\ rows[e] # NoRow
                            /\ rows[e].status = "pending"
                            /\ now < rows[e].scheduled_at
    /\ now' = now + 1
    /\ UNCHANGED <<staged, rows, session, server, faults>>

(* The steps of a relay that is neither stopped nor cut off, and of the    *)
(* server it waits for.                                                    *)
RelayStep(r) ==
    \/ Fetch(r) \/ Publish(r) \/ Store(r) \/ PublishOk(r) \/ PublishErr(r)
    \/ UpdatePendingGauge(r) \/ Commit(r) \/ Rollback(r)

Next ==
    \/ \E e \in Events : Stage(e) \/ StoreLate(e) \/ LoseLate(e)
    \/ \E r \in Relays : \/ RelayStep(r) \/ EmptyTick(r)
                         \/ Disconnect(r) \/ Abort(r) \/ Start(r)
    \/ RunCleanup
    \/ Requeue
    \/ AdvanceTime

Spec == Init /\ [][Next]_vars

(* The event loop runs a relay that can go on, every publish has a         *)
(* timeout, the supervisor restarts a relay that stopped, time passes.     *)
(* Producers, operators and late messages are owed nothing.                *)
Fairness ==
    /\ WF_vars(AdvanceTime)
    /\ \A r \in Relays : WF_vars(RelayStep(r)) /\ WF_vars(Start(r))

FairSpec == Spec /\ Fairness

-----------------------------------------------------------------------------
Delivered == {stream[i] : i \in 1 .. Len(stream)}

(* FOR UPDATE SKIP LOCKED: no two relays work on the same row, and a row   *)
(* is locked only while it is pending, so the requeue and cleanup commands *)
(* never meet a tick on a row.                                             *)
LocksExclusive ==
    /\ \A r, s \in Relays : r # s => held[r] \intersect held[s] = {}
    /\ \A r \in Relays : \A e \in held[r] :
          rows[e] # NoRow /\ rows[e].status = "pending"

(* What a relay computes a row's next value from is never stale: as long   *)
(* as it holds the lock, the copy it has not yet processed is the row.     *)
CopiesCurrent ==
    \A r \in Relays : \A e \in held[r] \intersect todo[r] :
        work[r][e] = rows[e]

(* At-least-once: a committed event is in the table, pending or failed, or *)
(* JetStream holds it.  It leaves the pending set through a commit, and    *)
(* the table through the cleanup, only after it was stored; and JetStream  *)
(* holds nothing that was not committed first.                             *)
NothingLost ==
    /\ \A e \in staged : \/ e \in Delivered
                         \/ rows[e] # NoRow /\ rows[e].status \in {"pending", "failed"}
    /\ Delivered \union late \subseteq staged

(* The retry arithmetic of one row: a pending event has attempts left, a   *)
(* dead-letter has used them all, and last_error is set exactly on rows    *)
(* that failed.                                                            *)
WithinBudget(row) ==
    /\ row.status = "pending" => row.retry_count < MaxRetries
    /\ row.status = "failed" => row.retry_count = MaxRetries
    /\ row.retry_count = 0 => row.last_error = "null"
    /\ row.retry_count > 0 => row.last_error = "error"

(* It stays inside max_retries across crashes, lost commits and requeues.  *)
RetryBudget ==
    \A e \in Events : rows[e] # NoRow => WithinBudget(rows[e])

(* published_at is "NULL until published", so a dead-letter has none.      *)
DeadLetterUnpublished ==
    \A e \in Events : rows[e] # NoRow /\ rows[e].status # "published" =>
        rows[e].published_at = NoTime

(* With replicas, SKIP LOCKED and no faults nothing is published twice,    *)
(* however short the duplicate window.                                     *)
NoDuplicatePublishes ==
    \A i, j \in 1 .. Len(stream) : stream[i] = stream[j] => i = j

(* First copies reach the stream in the order of the row ids.              *)
FirstCopiesInOrder ==
    \A i \in 1 .. Len(stream) :
        \A e \in Delivered : e < stream[i] => \E j \in 1 .. i : stream[j] = e

-----------------------------------------------------------------------------
(* Why the safety properties hold: an inductive invariant.  Besides them   *)
(* it says what a relay's session is allowed to remember at any point of   *)
(* a tick, lock or no lock, because a relay that has lost its connection   *)
(* goes on publishing from that memory.                                    *)

RowSound(e, row) ==
    /\ WithinBudget(row)
    /\ row.status = "published" => e \in Delivered

TableSound ==
    \A e \in Events :
        /\ rows[e] # NoRow => e \in staged /\ RowSound(e, rows[e])
        /\ rows[e] = NoRow /\ e \in staged => e \in Delivered

SessionSound(r) ==
    /\ phase[r] \in {"down", "idle"} => held[r] = {} /\ cur[r] = NoEvent
    /\ cur[r] # NoEvent => cur[r] \in todo[r]
    /\ wire[r] # "none" => cur[r] # NoEvent
    /\ wire[r] = "acked" => cur[r] \in Delivered
    /\ \A e \in held[r] \union todo[r] : work[r][e] # NoRow
    /\ \A e \in todo[r] : e \in staged /\ work[r][e].status = "pending"
    /\ \A e \in Events : work[r][e] # NoRow => RowSound(e, work[r][e])

ServerSound ==
    /\ Delivered \union late \subseteq staged
    /\ \A e \in Events : dedup[e] # NoTime => e \in Delivered

Inv ==
    /\ TypeOK
    /\ LocksExclusive
    /\ CopiesCurrent
    /\ TableSound
    /\ \A r \in Relays : SessionSound(r)
    /\ ServerSound

-----------------------------------------------------------------------------
(* A committed row only moves forward: one commit charges at most one      *)
(* attempt, a retry is never scheduled into the past of the attempt it     *)
(* follows, a published row can only be deleted, and only JetStream's copy *)
(* makes that possible.                                                    *)
LegalChange(e) ==
    LET old == rows[e] new == rows'[e] IN
    \/ new = old
    \/ old = NoRow /\ e \notin staged /\ new.status = "pending"
    \/ /\ old # NoRow /\ new # NoRow /\ old.status = "pending"
       /\ new.retry_count \in {old.retry_count, old.retry_count + 1}
       /\ new.status = "pending" => /\ new.retry_count = old.retry_count + 1
                                    /\ new.scheduled_at > old.scheduled_at
       /\ new.status = "published" => e \in Delivered
    \/ /\ old # NoRow /\ new # NoRow
       /\ old.status = "failed" /\ new.status = "pending" /\ new.retry_count = 0
    \/ /\ old # NoRow /\ new = NoRow
       /\ old.status = "published" /\ e \in Delivered

RowsMoveForward == [][\A e \in Events : LegalChange(e)]_vars

(* Every pending event is eventually settled: published or dead-lettered.  *)
EventuallySettled ==
    \A e \in Events :
        (rows[e] # NoRow /\ rows[e].status = "pending")
            ~> (rows[e] # NoRow /\ rows[e].status # "pending")

(* Every lock is eventually released, whatever the relay meets.            *)
LocksReleased == \A r \in Relays : held[r] # {} ~> held[r] = {}

(* With NATS up, every event a stream covers is delivered, despite relays  *)
(* that crash and connections that drop.                                   *)
EventuallyDelivered ==
    \A e \in Events \ NoStream : e \in staged ~> e \in Delivered

(* The relay implements the outbox's promise: under this mapping each of   *)
(* its steps is a step of OutboxDelivery or leaves it unchanged.           *)
Life(e) ==
    IF rows[e] # NoRow THEN rows[e].status
    ELSE IF e \in staged THEN "purged" ELSE "absent"

Delivery == INSTANCE OutboxDelivery WITH
    state     <- [e \in Events |-> Life(e)],
    delivered <- Delivered

ImplementsDelivery == Delivery!Spec

=============================================================================
