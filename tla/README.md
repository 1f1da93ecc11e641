# A TLA+ model of nats-outbox

nats-outbox is a transactional outbox for PostgreSQL and NATS JetStream: a
producer commits its domain change and an event row in one transaction, a relay
polls the event table and publishes to JetStream, consumers drop the duplicates
that at-least-once delivery brings. The modules here model that chain, TLC checks
them on small instances, and TLAPS proves the safety properties for every value of the
constants.

## 1. The system

| Part (source under `src/nats_outbox/`) | State | Operations |
|---|---|---|
| Producer transaction, `core/outbox.py` | the session's uncommitted objects, the list of staged events | `add`, `publish_event`, leaving the block (flush, commit, rollback) |
| Outbox table, `core/models.py`, `migrations/` | one row per event: status, retry_count, last_error, scheduled_at, published_at | written by producer, relay, cleanup, requeue |
| Polling relay, `relay/polling.py` | an open transaction with row locks, in-memory copies of the batch | `_tick`, `_process_event`, `run_cleanup`, `_update_pending_gauge` |
| Relay process, `relay/polling.py`, `relay/base.py`, `cli.py`, `observability/metrics.py` | the `_running` flag, the engine, the NATS client, the signal handlers | `start`, `stop`, signals, cancellation, set-up and tear-down |
| Retry delay, `relay/polling.py` | none | `_backoff` |
| Publisher, `publishers/nats_publisher.py` | none | `publish`: one attempt, ACK or exception |
| JetStream (external) | the stream, the duplicate window by `Nats-Msg-Id` | store, acknowledge, drop a duplicate |
| CLI commands, `cli.py` | none | `start`, `cleanup`, `requeue` and its dry run, beside running relays |
| Inbox, `core/inbox.py` | rows of `inbox_events` | `is_duplicate` in a consumer's transaction |
| Metrics, `observability/metrics.py` | counters, a gauge, a histogram | called inside the tick |
| Settings, `settings.py` | constants | validators |
| WAL relay, `relay/wal_tailing.py` | none | a stub that raises |
| Example application, `src/examples/fastapi_app.py` | its users | `POST /users`: a user and its event in one block |

The parts meet in three places: the outbox table (producers, any number of relays,
the CLI), the stream (relays, consumers), and the inbox table (consumers). Nothing
else is shared between processes, so everything that can go wrong between them goes
wrong at a database transaction or at a publish.

What is hard about it:

- a tick is one transaction around many publishes, each an `await`: whatever stops
  it in between undoes the record of what has been published, not the publishes;
- the database may end the transaction before the relay notices, which then goes on
  publishing from memory while another relay has the rows;
- a publish that timed out may still be stored, at any later time;
- replicas, cleanup and requeue touch the same rows at the same time;
- success and failure of a publish share one `try`, so anything that raises after
  the ACK is a failed attempt;
- a cancellation is no `Exception`, and a lost answer to COMMIT is no rollback;
- two consumers may handle two copies of an event at once;
- a stop, a signal, a cancellation or a kill may find the process at any await, and
  the NATS client may be connected, reconnecting or closed for good when it does;
- each part keeps its promise only towards the next one: that they add up to one
  effect for one request is nobody's code.

`PROJECT.json` lists these hazards at their lines, with the properties that cover
each, or the reason why none does.

## 2. The modules

| Module | What it is |
|---|---|
| `OutboxTable` | constant-level: a row, and what relay, cleanup and requeue make of it |
| `RetryDelay` | constant-level: `_backoff` in exact arithmetic, with its theorems |
| `PublishBudget` | `PollingRelay` with two history variables that count its `publish()` calls and requeues |
| `OutboxDelivery`, `OutboxDeliveryProofs` | the promise, as a specification with no relay in it, and what it implies |
| `PollingRelay` | relays, table, JetStream, cleanup, requeue, clock, faults |
| `PollingRelayProofs` | its theorems |
| `OutboxTransaction`, `OutboxTransactionProofs` | the producer's block and its theorems |
| `TransactionPromise`, `InboxPromise`, `SystemPromise` | what the block, the consumers and the whole chain promise, as specifications of two actions each |
| `Inbox`, `InboxProofs` | consumers with the deduplicator, and its theorems |
| `RelayProcess`, `RelayProcessProofs` | one process: the relay loop, the CLI around it, and its theorems |
| `OutboxSystem` | composes `OutboxTransaction`, `OutboxDelivery`, the stream and `Inbox` |
| `OutboxSystemProducer`, `OutboxSystemProofs` | the parts' theorems carried over to the whole, and the end-to-end theorem |
| `MCPollingRelay`, `MCPublishBudget`, `MCOutboxTransaction`, `MCInbox`, `MCOutboxSystem` | the constants TLC runs with |

Operators whose comment begins with "Faulty variant" are not part of a
specification: each is the operator that follows it with a bug this code could
have had, used to see that a property notices.

### PollingRelay

State: `rows` is the committed table; `held` the rows a relay's open transaction has
locked; `work` the ORM copies in its session, `todo` the events of the batch the loop
has not finished; `cur` and `wire` the publish in progress; `phase` where the loop
stands; `late` the messages in transit that nobody waits for; `stream` and `dedup`
JetStream; `staged` (history) the events ever committed; `now` the clock.

One action per stretch of code between two awaits:

| Action | Code |
|---|---|
| `Stage` | a producer's commit makes the row visible (`outbox.py:146-156`) |
| `Fetch`, `EmptyTick` | the SELECT ... FOR UPDATE SKIP LOCKED (`polling.py:204-227`) |
| `Publish` | the call of `publish()` for the next event of the batch |
| `Store` | JetStream stores the message or sees a duplicate; the ACK is on its way |
| `PublishOk` | the ACK: status, published_at, metrics (`polling.py:267-276`) |
| `PublishErr` | no stream, or no ACK in time: the except branch (`polling.py:285-315`) |
| `UpdatePendingGauge` | end of the loop, with the gauge query when metrics are on |
| `Commit`, `Rollback` | `session.begin()` exits |
| `Disconnect` | the server ends the transaction; the relay does not know |
| `Abort`, `Start` | crash or cancellation; restart |
| `StoreLate`, `LoseLate` | fate of a message after its publish call ended |
| `RunCleanup`, `Requeue` | the CLI commands, one statement each |
| `AdvanceTime` | the clock |

`FailureOutcomes` is empty when `_backoff` overflows; the exception then leaves the
tick and `RecordFailure` ends the session with a rollback. With `Metrics`, `PublishOk`
goes through the except branch on the row it has just marked published, because
`observe()` on a labelled histogram raises.

Between reading its clock and the locks being granted the relay changes nothing, so
`Fetch` is one step. SKIP LOCKED rechecks a row it locks against the committed
version, so the batch consists of rows that are due at that step. Any set that the
query's order and limit allow is a possible batch. A relay that finds its connection
gone learns of it at the next statement, which is the gauge query or COMMIT:
`Rollback` covers both.

`OutboxTable` takes the delays of `_backoff` as a constant, a set for each retry count.
`RetryDelay` computes them in tenths of a second: the power of two, the cap of 300 s,
the jitter of a fifth either way, the minimum of 1 s. `Nearest` and `Upward` turn them
into the model's units, and `MCPollingRelay` draws its delays from there.

### OutboxTransaction

A block is entered, adds a domain object, stages an event, leaves. `Exit` is the
flush, which has no await before `session.commit()`. The database then applies
(`Apply`) or rejects (`Reject`), and the answer arrives (`Return`) or is lost
(`LoseAnswer`). `Cancel` skips the rollback, as `except Exception` does. In the body the
objects stay in the session; during a database call the driver drops the connection.
`Reuse` says whether a handler may enter another block on a session it was cancelled
in. The documented pattern closes the session instead, so the passing run and the
theorems take it FALSE, and the violation run takes it TRUE. Sharing one `EventId`
between blocks models a handler that passes `event_id` again on a retry.

`LoseAnswer` and `Cancel` let the database apply a COMMIT before the driver gives up on
it, not after. The two cannot be told apart: nothing reads the table in between, and an
INSERT of the same `event_id` waits for the transaction in doubt.

The abstract `TransactionPromise` has no session in it: `Persist` makes a block's change and
its event durable in one step, while the block is still being left, and `End` says how
the block ended, never "ok" before `Persist`. The refinement mapping reads both sets off
the table; entering, staging, flushing and failing are stutters.

### Inbox

The consumer is the handler of the module's usage section: a transaction that calls
`is_duplicate`, applies its effect and commits, then acknowledges. `IsDuplicate` waits
while another transaction has inserted the same key, as PostgreSQL does, and is
decided by what is committed when the wait is over.

`InboxPromise` is the abstraction: `Apply` raises an effect from 0 to 1, `Ack` acknowledges
a message whose effect is there. A consumer's `Commit` is an `Apply`, its `Ack` an `Ack`;
deliveries, waits, failures and skipped duplicates are stutters.

### OutboxDelivery

Each event is absent, pending, published, failed or purged, and delivered or not. It is
settled as published only if delivered, and purged only if published. `Life` in
`PollingRelay` is the refinement mapping: the status of the row, "purged" for a staged
event without a row, and `delivered` is what the stream holds. A tick's commit is one
`Settle`; locks, retries, the clock and lost transactions are stutters.

### PublishBudget

`retry_count` counts the attempts whose transaction committed; the calls of a transaction
that was rolled back are counted nowhere in the code. `calls` counts every `publish()`
call and `requeues` every new life of a dead-letter. `BudgetNext` is `Next` with these two
updated: it adds no behaviour and forbids none.

### RelayProcess

What a tick does to the table is `PollingRelay`'s business; this module says when a
tick begins, and what becomes of the process. `program` is what runs: one of the four
CLI commands, a relay embedded in a host application, or the WAL stub. `at` is the
await the main coroutine is suspended at. `open` and `nats` are what the process holds,
`handlers` whether `add_signal_handler` has been called, `running` is `_running`,
`stopTask` the task that a signal handler creates, `cancelled` a `CancelledError` that
is on its way, `result` and `done` how the work of a command went. `asked` and `ticks`
are history.

| Action | Code |
|---|---|
| `Configure` | options, settings, strategy; the engine (`cli.py:164-174`) |
| `Connect`, `StartMetrics` | `nats.connect`, the metrics server (`cli.py:176-186`, `metrics.py:132-160`) |
| `EnterLoop` | signal handlers, then `await relay.start()` (`cli.py:193-204`) |
| `Begin`, `BeginWal` | the first step of a host's task |
| `Loop` | the end of a tick or a sleep, and the loop's head (`polling.py:168-183`) |
| `Interrupt` | a `CancelledError` at any of the awaits (`polling.py:175-185`, the `finally` clauses) |
| `Work` | the statement of `cleanup` or `requeue` (`cli.py:219-220`, `242-274`) |
| `Drain`, `Close`, `Dispose` | the `finally` clauses (`cli.py:206-208`, `222-223`, `274`) |
| `Signal`, `RunStop` | SIGTERM or SIGINT, and the task that runs `stop()` (`cli.py:195-201`, `polling.py:187-190`) |
| `HostStop`, `HostCancel` | the host awaits `stop()`, or cancels its task (`relay/base.py`) |
| `Kill`, `Network` | external: the end of the process, the NATS connection |

`asyncio` runs ready callbacks in order. When the stop task is created the main
coroutine may be ready already, so it can take one step before that task, and no
second one: `Resume` is the guard that says so.

### OutboxSystem

The example application, the outbox, the stream and the consumers in one state. The
application is an instance of `OutboxTransaction` with one block per request, the
outbox an instance of `OutboxDelivery`, which `PollingRelay` implements, and the consumers an
instance of `Inbox`. The module adds what joins them: the commit of a block is the
`Stage` of its event (`CommitUser`), a relay may publish a committed event any number of
times, early or late (`Publish`), and a consumer receives only what the stream holds
(`Consume`). The unique column `users.email` is what makes a client's second request for
the same address fail.

Using the promise for the relay, and not the relay itself, keeps the composition small,
and it is sound because of the theorem `Refinement` of `PollingRelayProofs`. `Publish`
allows more copies than a relay produces, so the duplicate window plays no part in what is shown end to end.

Seen from outside the chain has two steps, which is `SystemPromise`: `Create` brings a user
into existence, no second one for its address, and `Apply` is a group's first and only
effect of a user that exists. `CommitUser` and the `Commit` of a consumer map to them, and
everything between them (relays, stream, locks, retries, crashes) is a stutter.

## 3. The runs

| Run | Instance | Checked |
|---|---|---|
| `relay_replicas` | 2 relays, 2 events, metrics, overflow, 1 fault | `TypeOK`, `LocksExclusive`, `CopiesCurrent`, `NothingLost`, the inductive invariant `Inv` |
| `relay_liveness` | 2 relays, 2 events, one without a stream, metrics, lagging commits, NATS faults, 1 fault, fairness | `BudgetInv`, `PublishesBounded`, `RowsMoveForward`, `EventuallySettled`, `LocksReleased` |
| `relay_scale_out` | 2 relays, 3 events, no faults, window 1 | `NoDuplicatePublishes` |
| `relay_single` | 1 relay, 3 events, jitter, NATS up, 2 faults, one event without a stream, fairness | `BudgetInv`, `PublishesBounded`, `RetryBudget`, `DeadLetterUnpublished`, `FirstCopiesInOrder`, `RowsMoveForward`, `ImplementsDelivery`, `EventuallyDelivered` |
| `transaction` | 2 sessions, 3 blocks | `Inv`, `Atomic`, `RetriesApplyOnce`, `OutcomeHonest`, `ImplementsTransactionPromise` |
| `inbox` | 3 consumers, 2 groups, 3 messages of 2 events, fairness | `ExactlyOnceEffect`, `AckedApplied`, `EventuallyAcked`, `Inv`, `ImplementsInboxPromise` |
| `relay_process` | all six programs, fairness | `AtMostOneMoreTick`, `KeepsPolling`, `CleanExit`, `StopHonoured`, `Inv` |
| `outbox_system` | 1 session, 2 requests for one address, 3 copies, 2 consumers of one group, fairness | `OneEffectPerUser`, `EveryUserSeen`, `SystemInv`, `ImplementsSystemPromise` |

What they say, in words:

- `NothingLost`, `ImplementsDelivery`: no committed event is ever marked published
  without being in the stream, nor removed without being published, at any crash.
- `LocksExclusive`, `CopiesCurrent`: while a relay has its locks nobody else changes
  its rows, and once it has lost them it commits nothing.
- `RowsMoveForward`: no stale session, retry or command takes a row back in its life
  cycle; only `requeue` gives a dead-letter a second life.
- `RetryBudget`, `DeadLetterUnpublished`: an event is given up after exactly its last
  attempt, and without metrics a row that is not published has no `published_at`.
- `PublishesBounded`: duplicates are not free. An event is published at most
  `max_retries` times in each of its lives, and once more for each crash, lost connection
  or failed gauge query; no race between replicas and no failure of NATS costs more, as
  long as `max_retries` is a count that `_backoff` can reach without overflowing.
- `NoDuplicatePublishes`, `FirstCopiesInOrder`: what the documentation promises about
  duplicates and order, under the conditions in which it is true.
- `OutcomeHonest`: a block that returns normally is persisted, and nothing is persisted of a
  block that did not get as far as its commit.
- `StopHonoured`, `AtMostOneMoreTick`, `KeepsPolling`: a relay told to end does so, with
  at most one more tick; one not told to end goes on, whatever NATS does.
- `OneEffectPerUser`, `EveryUserSeen`: one effect per user and consumer group, from the
  request to the consumer's commit, and a user is forgotten by a group only if its
  event was dead-lettered.
- `ImplementsTransactionPromise`, `ImplementsInboxPromise`, `ImplementsSystemPromise`: there is
  nothing a handler, a consumer group or a user of the whole chain can see but the steps
  of the promise, in that order, and none of them is ever undone.

Four more runs refute a statement of the repository, each with a finding in
`PROJECT.json`:

| Run | Statement | What the code does |
|---|---|---|
| `relay_metrics` | a dead-letter has no `published_at` | with metrics, every delivered event is charged an attempt, and is dead-lettered when that was its last (`polling.py:275`) |
| `relay_overflow` | a bad payload does not block the queue | `2.0**1024` raises in the error handler and rolls back each batch (`polling.py:390`) |
| `relay_retry_order` | a single relay is strictly FIFO | a retry is rescheduled behind later events (`polling.py:305`) |
| `transaction_cancelled` | an exception rolls the block back | `CancelledError` does not (`outbox.py:252`) |

Smaller divergences of the documentation, read in the code or visible in a model, that
no run is about:

- `docs/comparisons.md:17` says that a lost ACK causes no duplicate. That is so within the
  duplicate window only; the hypothesis of `PublishedOnce` says what is needed without
  the window, and `OneEffectPerUser` what still holds with duplicates.
- The "hard cap" of 300 s holds before the jitter; the longest delay is 360 s
  (`DelayBounds`). The minimum of 1 s is never reached by a retry, whose shortest delay
  is 1.6 s.
- `docs/operations/configuration-reference.md:26` and `:32` say that the relay passes the
  duplicate window on to NATS, and that a background task deletes old events. Neither
  is in the code: the window is only a setting, and `run_cleanup` runs when it is called.
- `cleanup` needs a NATS server although it publishes nothing (`cli.py:216`).
- A host that calls `stop()` before its task has first run is not obeyed: `start()` sets
  the flag afterwards (`polling.py:160`). `HostStop` counts such a call as no request.
- `nc.drain()` raises when the client is reconnecting or closed, so a relay told to
  stop while NATS is away exits with an error and does not dispose of its engine; the
  CLI's help says that it shuts down gracefully (`cli.py:65`). `CleanExit` is worded
  accordingly.
- `events_published_total` is never incremented with metrics on, because the
  histogram raises first (`polling.py:275`).

### Bounds

- Two relays are enough for every race between replicas: locks are pairwise, and a
  third would behave as one of the two at another time. The theorems need no bound.
- Two or three events, batches of up to two: a batch with an event before and
  one after the one that fails, and a batch that leaves something behind.
- `MaxRetries` 2 or 3: a retry that is not the last, and the last.
- `MaxFaults` bounds crashes, lost connections and failed gauge queries together.
  Failing publishes are not bounded by it: `NatsFaults` lets every publish fail.
- `MaxTime` stops the clock, except that it always reaches the next retry. `Requeue`
  is possible before `MaxTime` only, which bounds the rows' second lives. `Window` and
  `Retention` of 1 make the duplicate window and the retention pass inside a run.
- Time is scaled: `MCBackoff`, `MCJitter` and `MCOverflow` are `_backoff`'s delays in units
  of two seconds, and `ExpOverflow` stands for 1024. What matters is that the delays grow, that the window
  may pass before a retry and that the count may reach the overflow.
- `late` is a set: of several delayed copies of one event only one is kept.
- `PublishesBounded` is checked twice. In `relay_liveness` the one fault cuts off one relay in
  the middle of its batch, which then publishes without locks beside the other; there
  `MaxTime` 1 leaves no room for a requeue. `relay_single` has two faults and requeues.
- `MaxFailures` bounds the failing handlers of `Inbox`.
- `RelayProcess` has no bound but that `ticks` counts up to 2, one more than is allowed.
- `OutboxSystem` has one session, because the races between sessions are
  `OutboxTransaction`'s; the second request is a client's retry, which needs the first
  one's commit to be over or under way. Two consumers of one group and two copies of
  one event are the smallest instance with a race for an effect. The other bounds are in
  `Copies` and `MaxFailures`.
- Symmetry of the relays and of the sessions is used in runs without liveness only.

### Fairness

`Fairness` has three parts. Weak fairness of a relay's own step, because the event
loop runs a coroutine that can go on, every publish ends by its timeout, and
`start()` loops. Weak fairness of `Start`, because a relay is deployed under a
supervisor that restarts it (the deployment guide's Kubernetes Deployment does).
Weak fairness of the clock. Nothing is assumed of producers, operators, late messages
or of NATS: with `NatsFaults` a publish may fail every time, which is why
`EventuallySettled` says published or dead-lettered, and why `EventuallyDelivered` is
checked with NATS up. In `Inbox` each handler's next step is weakly fair: JetStream
redelivers, and a lock is released when its holder ends.

In `RelayProcess` the main coroutine and the stop task are weakly fair: the event loop
runs what is ready, and each await ends by an answer, a timeout or the end of a sleep.
Signals, the host, NATS and `Kill` are not fair. In `OutboxSystem`, `Settle` of a pending
event is weakly fair, which is what `EventuallySettled` says of the relays, and the
consumers are as fair as in `Inbox`. Requests are not: a client may go away.

The runs need the faults to be finitely many (`MaxFaults`): a relay that crashes in
every tick makes no progress, in the code as in the model.

## 4. The proofs

`PollingRelayProofs` proves for any set of relays and events, any batch size, retry
limit, window, offsets and bounds:

- `Invariance`: `Spec => []Inv`, from which `TypeCorrectness`, `MutualExclusion`
  (`LocksExclusive`), `FreshCopies` (`CopiesCurrent`), `AtLeastOnceDelivery`
  (`NothingLost`) and `BoundedRetries` (`RetryBudget`) follow;
- `Refinement`: `Spec => Delivery!Spec`, the relay implements `OutboxDelivery`;
- `ForwardOnly`: `Spec => RowsMoveForward`;
- `UnpublishedUntilPublished`: `DeadLetterUnpublished`, for a relay without metrics;
- `PublishedOnce`: `NoDuplicatePublishes`, for any number of relays without metrics, NATS
  faults, crashes and overflow of the backoff (`Calm`), whatever the window;
- `OrderedDelivery`: `FirstCopiesInOrder`, for one relay with ordered producers and NATS up
  (`OneAtATime`), with any crashes and retries;
- `BudgetKept` (`BudgetInv`) and `BoundedPublishes` (`PublishesBounded`), for a
  `max_retries` that `_backoff` can count to.

Why the safety properties are not inductive alone: a relay that has lost its locks
goes on publishing. `SessionSound` says what its memory may still hold: copies of
events that were pending and committed when it read them, marked published only if
JetStream has them. `CopiesCurrent` ties those copies to the rows for as long as the
locks are held, `ServerSound` keeps the stream and the delayed messages to committed
events, and `TableSound` carries `NothingLost` together with the retry arithmetic
that the failure branch relies on. `Commit` is the step that needs all of them.

The last five theorems each need a second invariant on top of `Inv`:

- `ForwardOnly`: a tick starts from rows and writes what `SessionSound` allows, but that each
  copy is a step *forward* from what was read is a fact about the tick as a whole.
  `TicksSound` carries it until the commit, where `CopiesCurrent` says that what was
  read is what is still there.
- `UnpublishedUntilPublished`: `AllClean` says that neither a row nor a copy has a
  `published_at` unless it is published. With metrics the success path marks a copy
  before it fails, and the invariant breaks there.
- `PublishedOnce`: `Once` says that an event the stream has, and whose row is still pending, is in
  hand of a relay that has its locks and has marked it published; so the row leaves
  pending with that relay's commit, and nobody publishes it again. A fault anywhere
  breaks the chain, hence the hypothesis.
- `OrderedDelivery`: `InTurn` says that due times grow with the event ids, that the batch and
  what is left of it are in that order, and that every older event a stream covers is
  delivered before one is published.
- `BudgetKept`: `BudgetInv` keeps an account for each event. A call is paid for by the
  row's `retry_count` once its transaction has committed (`Paid`), by a fault if it was
  broken, and in between by the relay that holds the lock, of which there is one
  (`CallOpen`). A relay cut off from its transaction goes on publishing the batch without
  locks, any number of relays at once; each of them (`Adrift`) was cut off by a fault of its
  own, which pays for the call before it is made. That the batch is written forward is
  `TicksSound`'s part. The hypothesis is needed: when `_backoff` raises, a batch is rolled
  back with its calls counted nowhere and no fault to pay for them, which is the finding
  of `relay_overflow`.

`OutboxTransactionProofs` proves, under `~Reuse`, that `Inv` is invariant, and from it
`Atomicity`, `Idempotence` and `Honesty` (`OutcomeHonest`). The invariant says which objects a session can hold in
each phase: exactly one domain object and its event when the commit is issued. The
hypothesis is needed: `transaction_cancelled` shows what happens without it.
`TransactionRefinement` proves that the blocks implement `TransactionPromise`: the database's
`Apply` is a `Persist` because the session then holds both objects of its own block, whose
`event_id` no committed row has, and every way out of a block is an `End`.

`InboxProofs` proves `InboxInvariance`, `ExactlyOnce` (`ExactlyOnceEffect`) and `NothingSkipped`
(`AckedApplied`) from `Inv`: at most one transaction has inserted a key that the inbox
does not have, which is what the wait of the INSERT is for, so a commit is always the
first for its key. `InboxRefinement` proves that the consumers implement `InboxPromise`
with the same invariant. `OutboxDeliveryProofs` proves that the promise implies
`AtLeastOnce`, which `Refinement` carries over to the relay.

`RelayProcessProofs` proves `Invariance`, `BoundedStop` (`AtMostOneMoreTick`), `Polling`
(`KeepsPolling`) and `CleanExits` (`CleanExit`) for any set of programs. `RequestUnderWay`
says that a request is always on its way until it takes effect: as a pending
cancellation, as a stop task that the coroutine can overtake once, or as a cleared flag.
`PlaceSound` says what the process holds and has done at each await, which is what
decides what an exit from there leaves behind.

`RetryDelay` proves for every retry count: `DelayBounds` (between 1 s and 360 s),
`DelaysGrow` (until the cap cuts in, each delay is longer than any the attempt before
could draw), `DelaysCapped` (240 s to 360 s from the ninth attempt on) and
`DelaysSuitable`: in any unit, the delays are what `BackoffAssumption` asks for. `Power` is a
recursive function, so these are inductions. The library's induction theorems take the
predicate as an operator, which no prover here can instantiate; `WFMin`, the existence of
minimal elements, takes sets, and `NatInduct` derives induction for a set of numbers from it.
`PowerDef` then shows that the recursive definition defines a function: any number of
powers can be computed (`Approximated`), and all ways to compute one agree (`Agree`).

`OutboxSystemProducer` and `OutboxSystemProofs` reuse the parts' theorems. Each shows that a step of
the system is a step of the part or leaves it alone, that the part's assumptions hold,
and then instantiates the part's theorem: `ProducerSound`, `ConsumerSound` (the parts'
invariants hold in the system) and `DeliverySound` (the outbox in the system keeps the
promise). `PartsFit` proves `SystemInv`, which ties them: the outbox has a row for exactly
the committed events, the stream holds copies of those only, an address belongs to one
user, and what a consumer has applied was in the stream. `EndToEnd` is
`OneEffectPerUser`: at most once from the inbox, only for committed users from the ties,
one per address from the unique column and from `Atomic`. `ChainKeepsPromise` is the
refinement: the chain implements `SystemPromise`. What a consumer commits is an `Apply`
because its message came from the stream, the stream holds events of committed users
only, and the inbox has no row for it yet. Neither has a hypothesis beyond the
assumptions on the constants.

The assumptions are those of the modules (`SettingsAssumption`, `BackoffAssumption`,
`NullAssumption`, `EventsAssumption`, `RelayAssumption`, `EventIdAssumption`,
`NoBlockAssumption`, `InboxAssumption`, `ProgramsAssumption`, `SystemAssumption`), which TLC
evaluates in every run: the validators' lower bounds, nonempty sets of positive delays,
and null values outside the types. `DocumentedDelays` in `MCPollingRelay` compares the
delays with the documented table, count by count.

Every invariant and action property of the runs, and every refinement, is a theorem. Only
model-checked is what needs fairness, and with it ENABLED, which the provers do not
handle: `EventuallySettled`, `LocksReleased`, `EventuallyDelivered`, `EventuallyAcked`,
`StopHonoured` and `EveryUserSeen`.

## 5. Not modelled

- Subjects, payloads, headers and aggregate columns: the relay only carries them, and
  the publisher forces `Nats-Msg-Id` to the event id. `updated_at` and its trigger:
  nothing reads them. The text of `last_error` beyond its being NULL, so `_truncate` too.
- The values of the counters and of the histogram; nothing in the program reads them.
- Loading of settings, option parsing, logging, output, DDL and migrations. The
  constraints that matter at run time are in the modules that meet them.
- `add_all`, which is `add` in a loop, and a manual flush inside a larger transaction,
  which the docstring excludes. A cancellation during the rollback itself: `Raise` is
  one step. Unique ids of independent events do not collide.
- A handler that calls `is_duplicate` twice in one transaction: the documented usage calls
  it once.
- A clock for each relay. Producers' clocks may run ahead or behind (`StageOffsets`), the
  relays share one, and no property bounds by how much a delay or a retention is missed.
  The cutoff of a cleanup and the `now` of a requeue are taken at their statement.
- The WAL relay beyond its stub: there is nothing to model.
