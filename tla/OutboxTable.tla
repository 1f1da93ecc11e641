------------------------------ MODULE OutboxTable ------------------------------
(***************************************************************************)
(* The rows of table outbox_events (nats_outbox/core/models.py) and the    *)
(* transitions the relay, the cleanup and the requeue command apply to     *)
(* them.  Constant-level: no state.  An event is named by the primary key  *)
(* of its row, a natural number; subject, payload, headers and aggregate   *)
(* columns are abstracted away, event_id is the key itself, and updated_at *)
(* is left out because nothing reads it.  Times are natural numbers.       *)
(***************************************************************************)
EXTENDS Integers

CONSTANTS
    Events,       \* ids of the events an instance can stage
    MaxRetries,   \* OutboxSettings.max_retries
    ExpOverflow,  \* first retry count whose power of two overflows a float (1024)
    Backoff,      \* retry count -> set of delays _backoff may return for it
    Retention,    \* OutboxSettings.retention_days, in the model's unit of time
    NoTime,       \* SQL NULL in a timestamp column
    NoRow         \* "the table has no such row"

Status == {"pending", "published", "failed"}

(* One row of outbox_events.  last_error is NULL or the text of an error.  *)
Row == [status       : Status,
        retry_count  : Nat,
        last_error   : {"null", "error"},
        scheduled_at : Nat,
        published_at : Nat \union {NoTime}]

ASSUME EventsAssumption   == Events \subseteq Nat
ASSUME SettingsAssumption == /\ MaxRetries  \in Nat \ {0}
                             /\ ExpOverflow \in Nat \ {0}
                             /\ Retention   \in Nat \ {0}
ASSUME BackoffAssumption  == \A n \in 1 .. (ExpOverflow - 1) :
                                /\ Backoff[n] # {}
                                /\ Backoff[n] \subseteq Nat \ {0}
ASSUME NullAssumption     == NoTime \notin Nat /\ NoRow \notin Row

-----------------------------------------------------------------------------
(* The row publish_event builds.                                           *)
NewRow(scheduledAt) ==
    [status       |-> "pending",
     retry_count  |-> 0,
     last_error   |-> "null",
     scheduled_at |-> scheduledAt,
     published_at |-> NoTime]

(* Faulty variant: ORDER BY scheduled_at, id DESC.                         *)
BeforeNewestFirst(table, e, f) ==
    \/ table[e].scheduled_at < table[f].scheduled_at
    \/ table[e].scheduled_at = table[f].scheduled_at /\ e > f

(* The relay's SELECT: its WHERE clause and its ORDER BY.                  *)
IsDue(row, t) == row.status = "pending" /\ row.scheduled_at <= t

Before(table, e, f) ==
    \/ table[e].scheduled_at < table[f].scheduled_at
    \/ table[e].scheduled_at = table[f].scheduled_at /\ e < f

(* The assignments of _process_event's success path.                       *)
MarkPublished(row, t) ==
    [row EXCEPT !.status = "published", !.published_at = t]

(* What _process_event's except branch does in any case.                   *)
CountFailure(row) ==
    [row EXCEPT !.retry_count = @ + 1, !.last_error = "error"]

(* The delays _backoff may draw: none when it raises OverflowError, because *)
(* it computes the power before it applies the cap.                        *)
BackoffDelays(n) == IF n < ExpOverflow THEN Backoff[n] ELSE {}

(* Faulty variant: the backoff is taken from the time, not added to it.    *)
FailureOutcomesIntoThePast(row, t) ==
    LET failed == CountFailure(row) IN
    IF failed.retry_count >= MaxRetries
    THEN { [failed EXCEPT !.status = "failed"] }
    ELSE { [failed EXCEPT !.scheduled_at = t - d] :
              d \in BackoffDelays(failed.retry_count) }

(* Faulty variant: dead-lettered only past max_retries.                    *)
FailureOutcomesOneTooMany(row, t) ==
    LET failed == CountFailure(row) IN
    IF failed.retry_count > MaxRetries
    THEN { [failed EXCEPT !.status = "failed"] }
    ELSE { [failed EXCEPT !.scheduled_at = t + d] :
              d \in BackoffDelays(failed.retry_count) }

(* The rows the except branch may leave: a dead-letter, or one rescheduled *)
(* by a delay, if there is one.                                            *)
FailureOutcomes(row, t) ==
    LET failed == CountFailure(row) IN
    IF failed.retry_count >= MaxRetries
    THEN { [failed EXCEPT !.status = "failed"] }
    ELSE { [failed EXCEPT !.scheduled_at = t + d] :
              d \in BackoffDelays(failed.retry_count) }

(* The WHERE clause of run_cleanup.                                        *)
IsExpired(row, t) ==
    row.status = "published" /\ row.published_at # NoTime
                             /\ row.published_at + Retention < t

(* Faulty variant: the requeued row keeps its count of failed attempts.    *)
RequeuedKeepingCount(row, t) ==
    [row EXCEPT !.status = "pending", !.scheduled_at = t, !.last_error = "null"]

(* The UPDATE of the requeue command; published_at is not among its values.*)
Requeued(row, t) ==
    [row EXCEPT !.status = "pending", !.retry_count = 0,
                !.scheduled_at = t, !.last_error = "null"]

=============================================================================
