# Verification of the Meridian Kafka adapter

TLA+ specifications of the adapter in `src/src/meridian_storage/adapters/kafka/`, the TLC
configurations that model-check them on small instances, and TLAPS proofs. File names
below are relative to that directory; `docs/` is `src/docs/`.

## The system

The adapter maps the operations of a streaming Catalog onto Kafka: publish, poll,
acknowledge, negative-acknowledge, read-range, replay, group-position, and a
transactional consume-publish.

| Component | State | Operations | What makes it correct |
|---|---|---|---|
| Group consumer engine (`consumer/__init__.py`, `KafkaConsumerEngine`) | one `_GroupState` per (Subscription, ConsumerGroup): `assignment_epoch`, `assigned`, `inflight`, `attempts`, `acknowledged`, `safe_next`, `paused`, a lock, a Kafka consumer | `poll`, `acknowledge`, `negative_acknowledge`, `recover`, `group_position`, `close`; the callbacks `assigned` and `revoked`; `_expire_inflight`, `_resume_due` | at-least-once: the committed offset passes only processed Events; nothing is stranded; stale tokens are refused; everything is committed in the end |
| Range reader (`consumer/__init__.py`, `KafkaRangeReader`) | a temporary consumer with assigned partitions | `read` | a page and its cursor neither skip nor repeat Events; no group commit |
| Producer engine (`producer/__init__.py`) | idempotency cache (at most 10 000 entries), delivery reports of the batch | `publish`, `close` | a key is produced once per process; receipts belong to the Events |
| Transaction bridge (`transactions/__init__.py`) | lease, `_active`, staged offsets, group metadata | `open`, `begin`, `stage_offset`, `commit`, `abort`, `close` | one transaction at a time; outputs and offsets together |
| Runtime and sessions (`runtime.py`) | the current generation of clients; per session `_active`, `_touched_groups` | `open`, `close`, `rotate_credentials`, `open_session`; `begin`, `execute`, `commit`, `rollback`, `close` | a session's transaction is its own; rotation does not lose or duplicate work; every client is closed in the end |
| Cursor and token codec (`cursor/__init__.py`) | key ring, no mutable state | encode and decode of cursors, positions, delivery tokens | only authentic, unexpired tokens of this scope are accepted |
| Binding configuration (`config.py`) | none | `from_context`, the client dictionaries, the resource look-ups | what is accepted can be used, and resources that refer to each other belong together |
| Operation compiler (`compiler/__init__.py`) | none | `compile`, contract by contract | refuse what the contract or the binding does not allow |
| Probe and physical verification (`probe/`) | none that outlives a call | `probe`, `probe_api_versions`, `validate_api_versions`, `verify_physical` | the runtime opens only when every broker authenticates and is compatible, in bounded time; ready only when the physical mapping matches |
| Client factory, errors, telemetry, canonical JSON, descriptor | none | constructors, error mapping, event sink, serialisation, capability document | - |
| Conformance and release scripts (`src/conformance/`, `src/scripts/`) | none of the adapter's | test tooling | - |

How they interact. A session's `execute` compiles an operation and calls the producer
or the consumer engine of the runtime's *current* generation. `poll` runs the client
library, which calls `assigned` and `revoked` back while the lock is held.
`negative_acknowledge` calls the producer (dead letter) and then `acknowledge`.
`acknowledge` commits through the consumer, or stages the offset in the bridge. A failed
transaction calls `recover`, which throws the `_GroupState` away. `rotate_credentials`
opens a whole second runtime and swaps its clients in. `open` probes the brokers before it
creates the bridge, and `execute` probes them again after the operation, for the
provenance it returns.

What is hard: tokens are decoded before the lock is taken; rebalances, expiry and
delayed redelivery all move the same client position; the safe offset is advanced and the
run of acknowledged offsets removed around a commit that may fail or be ambiguous;
`recover`, restart and group-position changes race with outstanding deliveries;
transactions of several sessions share one producer and one consumer state; rotation
fences the producer in use, and replaces the runtime's fields one by one while sessions
read them without the lock; the probe waits on brokers it does not trust; topics change
while they are verified. The list `hazards` in `PROJECT.json` names each place.

## Modules

| Module | Contents |
|---|---|
| `GroupConsumer` | the group consumer, the client library's consumer, the broker's committed offsets, the other members, time |
| `MCGroupConsumer` | the logs (Events only; with a transaction marker; with an undecodable record and a marker) and the symmetry of the partitions |
| `GroupConsumerProofs` | inductive invariants of `GroupConsumer` and the theorems about it |
| `AtLeastOnceGroup` | what a ConsumerGroup promises, without tokens, rebalances or failures; `GroupConsumer` implements it |
| `GroupConsumerRefinement` | the proof that `GroupConsumer` implements it |
| `TransactionalSessions` | runtime, sessions and bridges over a reduced group consumer |
| `MCTransactionalSessions` | the symmetry of the sessions |
| `TransactionalSessionsProofs`, `ExactlyOnceProofs` | types and serialisation, with all inductive invariants; exactly-once for one session |
| `RangeReader` | `read`, its cursors, and an application that reads a range page by page |
| `MCRangeReader` | the logs |
| `RangeReaderProofs` | theorems about `RangeReader` |
| `ProducerEngine` | `publish` by several threads: idempotency cache, producers' queues, delivery reports |
| `MCProducerEngine` | the batches, and the symmetry of threads and keys |
| `ProducerEngineProofs` | theorems about `ProducerEngine` |
| `RuntimeLifecycle` | the runtime's clients, and the threads that open, rotate, close and use them |
| `MCRuntimeLifecycle` | the instance for TLC |
| `RuntimeLifecycleProofs` | theorems about `RuntimeLifecycle` |
| `Binding` | configuration and compiler as operators |
| `Startup` | a binding from its document to a runtime that serves: parsing, probe, verification, compilation |
| `MCStartup` | documents, operations, and three brokers |
| `StartupProofs` | theorems about `Startup` and the operators of `Binding` it uses |

Operators named in a comment as a *mutant* are variants of a definition with a plausible
mistake in it; no specification uses them. They show that each property notices one.

### GroupConsumer

The variables keep the names of the `_GroupState` fields. `inflight` is a set of records
with the fields of a delivery token, because token and entry carry the same data;
dictionaries with a default are total functions (`NoOffset`, `NoPause`, 0 for a missing
key). `high` and `committed` are the broker's; `position` and `muted` (paused partitions)
the client's; `generation` says whether this member is joining, stable, or dropped by the
coordinator without knowing it ("fenced").

A call that takes `state.lock` is one step, except where it waits while others move:

- `poll`: `PollBegin` takes the lock; `PollScan` is `_expire_inflight` then `_resume_due`,
  once per turn of the loop (`PollScanFails` if a `seek` or `resume` raises in the
  middle); then `consumer.poll` runs the callbacks (`Assigned`, `Revoked`), or returns a
  record (`Deliver`, `HoldBack`, or `HoldBackFails` when its `seek` raises, `Malformed`),
  nothing (`FetchNothing`), or an error (`PollFails`); `PollReturn` hands the deliveries to the
  application. A poll that raises loses the deliveries it has collected, as in the code.
- `acknowledge` and `negative_acknowledge`: `CallBegin` is `decode_delivery`, before the
  lock; the rest follows at any later time: `CallRejected`, `AcknowledgeCall`
  (`AckHeld`, `AckCommits`, `AckCommitFails`), `Redeliver`, or the dead-letter path,
  whose publish and acknowledgement are two steps with the lock held.
- `group_position`: `GroupPositionBegin` reads the committed offsets and compares the
  fingerprint; `GroupPositionCommit` or `GroupPositionFails` follows, with the lock held,
  while the broker and other members go on.
- `Recover`, `Close`, and `Restart` (the process dies anywhere) discard the `_GroupState`.

`resolved` is history: the Events somebody has answered for. An acknowledgement by the
application, a successful dead-letter publish, and another member's commit add to it; a
group-position change asks for everything from its target on to be processed again. A
member that commits for the partition while this one does not own it answers for what
lies below.

Assumptions about the client library and the broker (the map marks them external): the
eager rebalance protocol, since no assignment strategy is configured: a revocation takes
every partition, and the pauses with it; the coordinator refuses commits of a dropped
member; records of one partition are handed out in order, from `position`, leaving out
markers and aborted or compacted records; one clock for tokens, expiry and pauses. The
constant `Env` switches the rest on per run: evictions, other members, failing or
ambiguous commits, failing client calls, failing publishes, records returned from a
paused partition ("leak") and a `seek` back to them that fails, reuse of tokens, and the
administrative calls.

Not in the model: offsets committed for several partitions with a partial failure; a
`recover` overlapping a `poll` that still holds the discarded state (a call that holds a
discarded state is dropped, since it finds a closed consumer); cooperative rebalancing;
lag telemetry.

### AtLeastOnceGroup

The abstract group has four variables: the log's end, the committed offset, what has been
delivered and what has been processed. An Event is processed only after it was delivered,
and the offset is moved only over processed Events and within the log, or by a change of
position. `GroupConsumer` names it `Group`, with `processed <- resolved` and the other
three as they are, and states the refinement as the property `ImplementsGroup`: every
step of the engine, the client, the broker, the other members and the clock is a step of
the abstract group or leaves its variables alone. Assignments, leases, pauses, restarts and
failed calls are stutters. A change of position whose answer is lost may or may not be a
request to process again, so `Reposition` allows both; `BeginAtEnd` is `AutoOffsetReset`
"latest".

### TransactionalSessions

Each session is a thread with a program counter; a bridge call is one step, and so is the
locked part of `acknowledge`. `bridge[g]` is the bridge of generation g: its `_active`
flag, its lease (with the session that took it, which the code's lock does not record),
the staged offset, the group member whose metadata it has, and the transaction that
is open at the broker with its outputs. An output is named by the offset of the Event it
was computed from.

- Core transactions: `BeginCall`, then `LeaseAcquired` or `BeginRaises`; `CorePublish`,
  `CoreAcknowledge`; `CoreCommit` or `CoreRollback`. A failed commit or a rollback
  finishes the bridge, which releases the lease, and *then* the session recovers the
  groups it touched (`Recover`): two steps, as in the code.
- `transactional-consume-publish`: `OperationCall`, `OperationPublish`,
  `OperationAcknowledge`, `OperationCommit`, and the except clause `OperationExcept`,
  which looks at `bridge.active` again. Inside a Core transaction it does not own the
  transaction.
- Every call looks the bridge and the consumer engine up in the runtime (`current`); the
  operation keeps the bridge it began on in a local variable.
- `RotateOpen` is `replacement.open()`: `init_transactions` with the same
  `transactional.id` fences the producers before it (`Initialized`). `RotateFails`,
  `RotateSwap` and `RotateClose` follow. `Close`, `Crash` and `Open` complete the runtime.

The consumer is `GroupConsumer` reduced to one partition, without rebalances, expiry or
negative acknowledgement. The application publishes an output before it acknowledges the
Event, commits when every call of the transaction has succeeded, and rolls back otherwise.
Not in the model: more than one ConsumerGroup per transaction, two rotations at once, a
close of the bridge that overlaps a commit in progress.

### RangeReader

`ReadStart` and `ReadNext` are the part of `read` up to `consumer.assign`: the token is
decoded (`TokenError`, `ScopeError`, `DecodeError`), missing partitions get the watermarks
(`From`, `Until`), and the bounds are checked; `Refusals` is the set of exceptions that may
be raised, because the first wrong partition decides. Watermarks are read at one instant:
appends and deletions of different partitions are independent, so reading them one after
the other gives the same snapshots. Each turn of the loop is a step: `Collect`,
`PassBeyondEnd`, `DecodeRaises`, `EndOfPartition`, `OffsetOutOfRange`, `PollFails`;
`ReadReturns` makes the page, at the limit, at the end, or at the deadline, which may pass
at any time. The locals keep their names and are cleared when the call ends.

Meanwhile records are appended and deleted, partitions are added and keys rotate. Assumed
of the client library: watermark and end-of-partition report both speak of the last stable
offset; a queued end-of-partition report may be older than the last append; a record
fetched before retention deleted it may still be handed out. `origin`, `returned`,
`repeated`, `beyond` and `dropped` are history of the chain of pages. Not in the model: the
size bound of a token.

### ProducerEngine

A thread's `publish` is `PublishCached` (a replay, or the refusal of other data), or
`PublishBegin`, then `ProduceOne` per Event, `FlushReturns`, and `StoreReceipts`, the second
section of the lock; `ProduceRaises` and `FlushRaises` are the exceptions. `queue` holds a
producer's messages until their report has run; `Store` and `Report` are the broker and the
callback, which runs in whichever thread serves the producer, also in `close`. A publish in
a transaction uses the bridge's producer and not the cache; `TransactionEnds` decides
what becomes of its records. `used`, `excused` and `receipts` are history. One partition;
the broker keeps the order of a producer's messages, as idempotence guarantees.

### RuntimeLifecycle

The g-th `open()`, the runtime's own or a replacement's, makes the clients of generation g:
`client[<<kind, g>>]` for the consumer, the producer and the bridge. `field` is what the
runtime's fields refer to. `call[a]` is the administrative call of thread a:

- `open` and `replacement.open()` are `OpenBegin` or `RotateBegin`, `OpenProbe`,
  `OpenReturns`, and `OpenRaises` when the probe or `init_transactions` fails; the bridge
  exists only after the probe, so what `_close_components` finds differs with the step
  that failed. `init_transactions` fences the producers before it (`fenced`), also when its
  answer is lost.
- `rotate_credentials` goes on with `RotateProbe` or `RotateProbeRaises`, outside the lock;
  then `RotateSwap`, one `RotateAssign` per field, because a session reads the fields
  without the lock, and `RotateRelease`, after which the old clients are closed.
  `RotateRefused` is `_require_open` after a close.
- `CloseBegin` clears the fields, and `CloseOne` closes the clients in the order of
  `_close_components`; `CloseRaises` leaves the rest.

A session publishes under one idempotency key and repeats the call while it raises:
`ExecuteBegin` (`_ensure_open`, `compile`), `Dispatch` (the look-ups of the engines),
`Publish` on the engine that was read, closed or not, and `Answer`, the probe after it.
`PublishRaises` is a publish that times out in `produce` or `flush`, or gets an error or no
report: the key is not cached, and the Event may be written all the same. When it is written
is not told apart from whether: one producer keeps the order of its queue, and a later `flush`
returns 0 only once the queue is empty, so it is before anything that producer writes
later. `written`, `abandoned` and `disturbed` are history: the writes of the Event, each with
its generation and whether its publish raised, the clients nobody will close, and whether a
rotation failed or overlapped another one. Not in the model: the eviction of a key from the
cache and publishes that overlap under one key, which `ProducerEngine` has; clients that a
failed `open` had not stored yet, a rotation of a runtime that was never opened, and
transactions, which `TransactionalSessions` has.

### Binding and Startup

`Binding` has the pure parts. `Accepts` is `_from_context`: key ring, profile with TLS mode
and SASL mechanism and the material for them, and the resource map with its references.
`ConfigurationComplete`, `ClientConfiguration` and `Isolation` are the client dictionaries
as far as security and transactions go; `GroupStream` the look-ups; `Compiles` the compiler,
with one operator per contract, and `Command` its result. A document or an operation is a
record; a secret is present and usable or not; references are numbers; the shape of a document
(closed objects, bounded strings and integers, fingerprints) is one Boolean, `wellFormed`. The
two SCRAM mechanisms differ only in the hash and are one.

`Startup` takes a document through `Parse`, `Open`, and the probe: `Listed` is the
metadata with its brokers, then for each `Dial`, `NextAddress`, `Connected`, `Handshake`, `Send`
and `Answer` or `ProbeRaises`, until `Opened`. `Script` is the list of requests the
authentication makes. A broker may answer anything; what it cannot do is show a valid
certificate unless it is in `Trusted`, or sign the last SCRAM message unless it is in
`Genuine`. Time passes only in waits: `expires` is when the wait in progress ends, which
for a connection attempt and for the TLS handshake is a full `timeout` from its own
beginning. `socket.create_connection` also resolves the host name, which no timeout bounds;
that takes no time in the model, and `ProbeBounded` does not count it. `Execute` compiles an
operation, and validates a schema as `_dispatch` does. `VerifyBegin`, `VerifyPartitions` and
`VerifyConfiguration` are `verify_physical`, one request per step, while `TopicChanges`; `seen`
is the history of the topics. Framing, correlation ids and the SCRAM arithmetic are abstracted
to whether the answer satisfies the request.

## Runs

Bounds are constants of the modules: `MaxOffset` (records of a partition), `MaxClock`,
`MaxEpoch` (assignments and revocations), `MaxAttempts`, `MaxIncarnation` (crashes and
recoveries), `MaxCalls` (concurrent calls), `MaxGeneration` (opened clients), `MaxMember`
(group states), `MaxChanges` (changes of topics), `Timeout` and `Addresses` (of the
probe).

| Run | Instance | Properties |
|---|---|---|
| `consumer_rebalance` | 1 partition, 3 Events; evictions, competing member, failing commits | `TypeOK`, `NothingSkipped`, `NoneStranded`, `CommittedMonotonic` |
| `consumer_redelivery` | 2 partitions, 1 Event each; negative acknowledgements with and without delay, dead letters, failing client and publish calls, foreign group-position | `OnlyOwnedDeliveries`, `PausedIsScheduled` |
| `consumer_group_position` | 1 partition, 2 Events; group_position, failing and ambiguous commits, leaked records, whose seek may fail, close | `NothingSkipped`, `GroupPositionAtomic`, `ImplementsGroup` |
| `consumer_crash` | 1 partition, 4 offsets: Event, undecodable, marker, Event; restart, recover, reused tokens, dead letters, failing polls | `NothingSkipped`, `NoneStranded` |
| `consumer_drains` | 1 partition, 2 Events; evictions, expiry; fairness | `EventuallyCommitted` |
| `transactions_exactly_once` | 1 session, 2 Events, 3 generations; every failure, rotation, close, crash | `TypeOK`, `ExactlyOnce` |
| `transactions_serialized` | 2 sessions with Core transactions and plain acknowledgements; failing and ambiguous commits, failing aborts | `Serialized` |
| `range_pages` | a partition with Event, marker, Event, undecodable record, and one added later; start and end bounds, foreign tokens, appends, retention, key rotation, expiry, failing polls | `TypeOK`, `PagesCover`, `PagesNeverRepeat`, `CursorsContinue` |
| `publish_once` | 2 threads, 2 keys, a cache of 1 entry, a queue of 2; transactions, timeouts, failed deliveries, a batch refused in the middle | `TypeOK`, `ReceiptsNameTheirEvents`, `PublishedOnce` |
| `runtime_lifecycle` | 2 threads, 1 session with 2 attempts, 3 generations; opens, probes, publishes and closes fail; fairness | `TypeOK`, `RotationHandsOver`, `ClientsAccountedFor`, `OpenIsWhole`, `RetriesWriteOnce`, `EventuallyReleased` |
| `startup` | about 1 200 documents; 3 brokers, one of them an impostor with a valid certificate and one with an old coordinator, no valid certificate and PLAIN only; 2 addresses, a deadline of 2; every contract; 2 topics and 1 change | `TypeOK`, `AuthenticatedEverywhere`, `AcceptedIsUsable`, `ProbeBounded`, `TransactionsSupported`, `CommandsCoherent`, `VerifiedAtSomeTime` |
| `abort_releases_early` | 2 sessions, a rolled back transaction | `NothingLost`, which is violated |

What they show. The committed offset never passes an unprocessed Event
(`NothingSkipped`), whatever is rewound, revoked, evicted, crashed or lost in between, and
an Event the client has moved past is in flight or will be sought again (`NoneStranded`)
as long as nothing is negatively acknowledged. Nothing of an old assignment survives
(`OnlyOwnedDeliveries`), and a partition paused in the client has a resumption scheduled
(`PausedIsScheduled`). The committed offset never moves back except by a group-position
change (`CommittedMonotonic`), and within one process group-position is a compare-and-set
(`GroupPositionAtomic`). For one session, consuming and publishing are atomic
(`ExactlyOnce`), also when a commit's answer is lost; for several sessions with Core
transactions, the lease keeps the transactions apart and is never leaked (`Serialized`).
A chain of pages returns no Event twice (`PagesNeverRepeat`) and passes none that lay
below the end fixed for its page (`PagesCover`), and a cursor of an open range is accepted
until it expires (`CursorsContinue`). Receipts, replayed ones too, name visible records of
their Events (`ReceiptsNameTheirEvents`), and a key among the last used is produced again
only after a failure its caller saw or in an overlap (`PublishedOnce`). Whatever the
engine does, the group's offset moves only as the abstract group allows
(`ImplementsGroup`).

A client that is open is in a field, belongs to a call in progress, or was left by one of two
known leaks, a close that raised before it and a rotation that found the runtime closed
(`ClientsAccountedFor`); after `close` every other one is closed in the end
(`EventuallyReleased`). An open runtime is whole, also in the middle of a swap
(`OpenIsWhole`), so no session finds a field empty or a closed client in it. Rotations that
neither fail nor overlap hand the transactional id over (`RotationHandsOver`). A publish
that returned is not written again by the same generation of clients, although the session
repeats it because the probe after it raised or the runtime was closed; only a publish that
itself raised may be written a second time (`RetriesWriteOnce`).

The runtime opens only when every broker of the metadata has shown what the binding demands,
on its own connection (`AuthenticatedEverywhere`); accepted settings have the material for
what they select (`AcceptedIsUsable`); the probe ends in a bounded time (`ProbeBounded`);
transactional commands are compiled only where all brokers support them
(`TransactionsSupported`); a compiled command names resources that belong together
(`CommandsCoherent`); and verification speaks of topics as they were at some moment of it
(`VerifiedAtSomeTime`).

Why the bounds are enough. Three Events give a gap in the acknowledged offsets with
something behind it; two are enough wherever a property relates a record to one before
it. `MaxEpoch` 3 lets a partition be assigned, lost and assigned again, which is the
distance over which state can go stale; 4 adds a group-position change. `MaxClock` 1 or 2
lets a delivery expire and its redelivery be outstanding. Two partitions are needed where
partitions are handled in a loop that can fail in the middle. Three generations give a
rotation after a crash or two rotations in a row. A page limit of 2 with three Events
gives a truncated page, and a marker before an Event a jump of the position. A cache of
one entry and three publishes give a store, an eviction and a republished key. Three
generations and two threads give a rotation that overlaps an open, a close or another
rotation; two attempts of a session are a publish that raised, or whose answer was an error, and its
retry; the two after each other need three, which the theorem covers. Three brokers give
one that is fine before one that is not; two addresses and two units of time let the probe
overrun its deadline; `ProbeBounded` is tight there. The clock
stops at its bound, so the safety runs also cover what happens when nothing more
expires.

Fairness. In `runtime_lifecycle` each administrative call that has begun goes on: the
client calls in it have timeouts, and the lock is held only by calls that go on. Nobody has to
call anything, and sessions have no fairness. In `consumer_drains` time passes, the
application polls again and again and acknowledges what it gets; these are what the
adapter's user provides. A poll ends because its deadline is finite. The client joins
its group, learns that it was dropped, and hands out what it can fetch, which is what
the library's background threads do; a thread that waits for the lock gets it. Strong
fairness is used where the step is only now and then possible because polls come and go. Commit
failures are not in `Env` there: a broker that refuses every commit lets nothing progress. The
bounds do not cut the argument short: epochs and attempts allow more evictions and expiries
than the clock lets happen.

`CHECK_DEADLOCK FALSE` is set for the transaction runs, `publish_once`, `runtime_lifecycle`
and `startup`: with all generations used up after a crash, all sessions closed, all
publishes made, the runtime closed, or the binding refused, the system has really
stopped.

## Disagreements between code and documentation

`abort_releases_early` is a run in which TLC finds the documented behaviour violated: a
rolled back transaction releases the lease before the group is recovered; another
session's transaction starts from the safe offset of the aborted one and commits past its
Event. (`docs/architecture.md:21`)

Others, which the model has and a change of a configuration or a property shows, recorded as
hazards:

- two deliveries of a partition are negatively acknowledged; the second `seek` moves the
  client past the first record, which is no longer in flight. It is not delivered again in
  this assignment (`docs/architecture.md:39`);
- a page passes, without returning it, an Event appended beyond the end it fixed when it
  began, and its cursor lies behind that Event
  (`tests/integration/test_runtime_semantics.py:229-242`);
- with "group-position" in `consumer_rebalance`, an Event in flight when the position changes
  is stranded until the next rebalance, because the client is not sought;
- with `MarkerLog` in `consumer_drains`, an offset the client never hands out stops the
  contiguous safe offset for ever, so acknowledged Events are redelivered after every
  restart; the adapter's own transactional producer writes such markers;
- with "other-group-position" in `consumer_rebalance`, `safe_next` survives a revocation
  and, when another member has moved the group back, acknowledging a later delivery
  commits past earlier ones (`docs/architecture.md:37`);
- with `MixedLog` in `consumer_drains`, an undecodable record behind a good one makes the
  polls raise again and again, and `EventuallyCommitted` does not hold;
- a rotation that fails after `replacement.open()` leaves the old runtime with a fenced
  transactional producer, where `docs/security-and-lifecycle.md:20` says that the old clients
  stay active; of two overlapping rotations the fenced one may be swapped in last: both are
  why `RotationHandsOver` has `disturbed`;
- the idempotency cache does not survive a rotation, so a publish repeated after one is
  written again: `RetriesWriteOnce` is per generation, and it excuses writes of a publish that
  raised, which the same generation repeats;
- the probe may take `(Addresses + 1) * Timeout`, where `docs/compatibility.md:18` promises a
  shared deadline;
- verification is not one snapshot, and the dead-letter topic of a Subscription is verified
  only when its Stream is planned too;
- a truncated page of a range with an end bound may not be continued with that end, for
  its cursor may lie beyond it; with `AutoOffsetReset` "latest" a range read overtaken by
  retention jumps over retained Events;
- an ambiguous commit followed by a lower one; a token accepted for a later delivery of the
  record it had acknowledged; a leaked record that mutes its partition; a commit of another
  member between the two requests of group_position; a failed operation that aborts another
  session's transaction; two overlapping publishes under one key that both produce.

## Proofs

Every invariant and action property that a run checks is also proved, for every value of the
constants that satisfies the assumptions stated with them (`LogAssumption`,
`OptionAssumption`, `BoundAssumption`, `LifecycleAssumption`, `ProducerAssumption`,
`StartupAssumption` and so on): any number of partitions, threads, sessions, brokers,
documents, any log, any bound. Some theorems have hypotheses on the environment besides.
Each of them excludes a behaviour in which the property does not hold: TLC finds the
counterexample when the behaviour is added to a run whose bounds leave room for it (a second
generation for a rotation, a restart for the policy "latest" or a foreign group-position).
Most are among the disagreements above.

A property is seldom inductive as it stands. The strengthenings are at the head of the
proof modules, built from named parts with a comment on each; TLC checked each on the
instances of the runs (from a module that extends the proof module) before it was proved.
The proof that a step keeps one has a step per action, and under it one per part that the
action can disturb.

### GroupConsumer

| Theorem | States | Hypotheses |
|---|---|---|
| `TypeCorrect` | `TypeOK` | - |
| `AtLeastOnce` | `NothingSkipped` | "earliest"; no foreign group-position |
| `ConsumerImplementsGroup` | `ImplementsGroup` | as `AtLeastOnce` |
| `DeliveriesAreOwned` | `OnlyOwnedDeliveries` | - |
| `GroupPositionIsCompareAndSet` | `GroupPositionAtomic` | no other member commits or moves the group |
| `CommitsOnlyAdvance` | `CommittedMonotonic` | no commit is ambiguous; no foreign group-position |
| `PausesAreScheduled` | `PausedIsScheduled` | a paused partition returns no record |
| `NothingIsStranded` | `NoneStranded` | "earliest"; no group-position; no negative acknowledgement, or each goes to the dead-letter Stream |

- `TypeCorrect`. The one step that needs an argument about numbers is the rewind: `Min` of
  the expired offsets is one of them (`RewindIsExpired`), because `<` on the naturals is
  well-founded.
- `AtLeastOnce`. A commit is computed from `safe_next`, `acknowledged` and the delivery at
  hand. `SafetyInv` adds that everything below `safe_next` is processed
  (`SafeNextCovered`); that acknowledged offsets are processed
  (`AcknowledgedIsProcessed`); that while a partition has no `safe_next`, everything below
  the client's position is processed (`StartCovered`), so that the first delivery may set
  `safe_next`; that whatever can seek the client back, an in-flight delivery or a pause,
  exists only after that (`SafeNextKnown`); and that a dead letter waiting for its
  acknowledgement was published (`DeadLettersPublished`). With "latest" a delivery that was
  not acknowledged before the first commit is lost in a restart.
- `ConsumerImplementsGroup`. Initial states map to initial states, and each action is a step
  of `AtLeastOnceGroup` or a stutter. `WithinLog` adds to `SafetyInv` what the abstract
  guards ask: what is in flight or acknowledged was delivered, and deliveries, `safe_next`
  and the target of group_position do not lie beyond the log.
- `DeliveriesAreOwned`. `OwnedInv` adds that a joining member owns nothing.
- `CommitsOnlyAdvance`. `safe_next` survives a revocation and may be behind what other
  members have committed since. `SafeNextInv`: it is not behind (`NotBehind`), or everything
  the state still remembers of the partition (client position, in-flight and acknowledged
  offsets, pause) lies above it, so that no run of acknowledged offsets can begin at it and
  nothing is committed from it.
- `PausesAreScheduled`. Inductive as it stands: the client is paused and resumed in the
  steps that make and drop the entry; only a leaked record drops the entry alone.
- `NothingIsStranded`. `StrandedInv` adds that nothing is paused, that what is in flight
  lies below the client's position, so that a rewind never moves it forward, and that a
  delivery counts as an attempt, so that a limit of one sends every negative acknowledgement
  to the dead-letter Stream.

### TransactionalSessions

- `TypeCorrect`, in every environment, with `RuntimeShape`: generations only grow, and the
  one being replaced or called is not newer.
- `CoreSerialized`: `Serialized` for any number of sessions that use Core transactions and
  plain acknowledgements, whichever publish, commit or abort raises and whenever the process
  crashes. `SerializedInv`: a session's transaction is on the bridge the runtime has, and
  there is a lease exactly where there is a transaction. Without the operation, rotation and
  close: an operation that fails aborts another session's transaction, and a swap changes
  the bridge under it.
- `TransactionsExactlyOnce` (`ExactlyOnceProofs`): `ExactlyOnce` for one session that takes
  its deliveries in order and never acknowledges outside a transaction, through Core
  transactions and the operation, rotations, crashes, a close and every failure.
  `ExactlyOnceInv`: only the newest producer is not fenced; a transaction that can still
  commit is the session's, on the runtime's bridge (`BridgeShape`); its outputs are those of
  the Events between the committed and the staged offset, and of those not yet acknowledged
  (`TransactionShape`); the consumer's safe offset is the staged one and exactly the Events
  from there to its position are in flight (`ConsumerShape`), unless the session will
  discard that consumer before it commits again. A commit whose answer is lost leaves a
  transaction that no longer can commit and a consumer that is discarded.

### RangeReader

- `TypeCorrect`; the number of Events in a page is that of a finite set (`TypeInv`).
- `PagesDisjoint` (`PagesNeverRepeat`) and `CursorsStayValid` (`CursorsContinue`), from
  `ChainInv`: what was returned lies below the cursor, what the page holds at or above it,
  and the fetch position is never behind the position the next cursor will have.
- `PagesLoseNothing` (`PagesCover`) with "earliest", from `CoverInv`: cursor and positions
  cover what lies behind them, and what the fetch position has skipped was deleted.

### ProducerEngine

- `TypeCorrect`.
- `ReceiptsAreTrue` (`ReceiptsNameTheirEvents`), from `NamesInv`: cache entries, deliveries of
  calls and messages in a queue name the records of their Events, a late report never
  belongs to another call, and the log only grows.
- `OncePerKey` (`PublishedOnce`) for batches that do not repeat an Event, from `OnceInv`: the
  cache holds the keys used last (`Horizon`), and a key without an excuse has had one
  publish, which has produced what it has deliveries for (`OnePublish`, `OneRecord`). A
  batch with the same Event twice writes it twice, as asked.

### RuntimeLifecycle

`TypeCorrect`, `NoClientLost` (`ClientsAccountedFor`), `OpenRuntimeIsWhole` (`OpenIsWhole`),
`RotationsHandOver` (`RotationHandsOver`) and `RepeatsWriteOnce` (`RetriesWriteOnce`), without
hypotheses. `LifecycleInv` says of each call which clients it has opened and has to close
(`CallShape`, `TargetIsOpen`), that they are its own (`Exclusive`, `Unshared`), that the
runtime does not refer to a client that is being closed (`ClosingIsUnused`), and what the
fields hold at each step of an open and of a swap (`OpenShape`, `SwapShape`); `Unfenced`
that undisturbed calls are not fenced. `WriteInv`: a generation whose
publish of a session's Event returned has the key in its cache, and an engine that has it does
not write again; a key in a cache, and a session past its publish, mean that a publish has
returned.

### Binding and Startup

`TypeCorrect`, and one invariant per question: `SettingsInv`, what `from_context` guarantees,
for `AcceptedSettingsWork` (`AcceptedIsUsable`); `DeadlineInv`, when the wait in progress
ends, for `ProbeEnds` (`ProbeBounded`); `ProbeInv`, that a broker of the metadata is still in
the queue or has shown everything, for `EveryBrokerAuthenticated`
(`AuthenticatedEverywhere`); `CommandInv`, where a command comes from, for
`TransactionsAreSupported` (`TransactionsSupported`) and `CommandsAreCoherent`
(`CommandsCoherent`); `VerifyInv`, that a planned topic is pending or was seen as bound, for
`PlannedIsVerified` (`VerifiedAtSomeTime`). None has a hypothesis.

### Only model-checked

`EventuallyCommitted` and `EventuallyReleased`: liveness under fairness is out of the prover's
reach. `NothingLost`, which does not hold.

## Not modelled, and the plan

Left to prove: `Serialized` with rotation for sessions that hold no transaction across it, and
`NoneStranded` with redeliveries for one outstanding negative acknowledgement at a time; both
need the property restated for the part of the environment in which they hold.

Left to model: two sessions across a rotation, with their transactions; countdown timers in
place of the bounded clock; a group consumer with more than one ConsumerGroup per
transaction.

Not modelled, and why:

- a commit of several partitions that fails for some: the result per partition belongs to
  the client library, and the code does not look at it;
- a `recover` that overlaps a `poll` on the discarded state: the poll finds a closed consumer;
- cooperative rebalancing: no assignment strategy is configured;
- encoding, signatures and size bounds of tokens, canonical JSON: conversions without state,
  of which only the verdict (authentic, unexpired, in scope) reaches an operation;
- error normalisation and telemetry: nothing reads them back; a failed client call is an
  action that raises;
- the client factory and the descriptor: constructors and a static document, whose contracts
  are `Available` of `Binding`;
- conformance and release scripts: test tooling that does not run in the adapter.
