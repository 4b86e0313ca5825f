# TLA+ specifications of easykafka-go

easykafka-go is a Go library over librdkafka with two halves. A *subscriber*
consumes a topic at least once: it owns the offset store, so that only what was
handled, or taken over by an error strategy, is ever committed. A *publisher*
sends records and promises exactly one reported outcome for each record it
accepted, also when it is closed in the middle. The error strategy `retry` ties
the two together: it writes failed messages through a publisher before the
subscriber stores their offsets.

These promises depend on orders of events that tests seldom produce: a rebalance
that hits a half-full batch, a background commit between two stores, a member
that has lost its place in the group, a send racing `Close`, a report that
arrives as a context ends. The modules here model the two halves with those
behaviours, and the retry strategy, the topics it writes to, the options and the
playground on top of them. TLC checks them on small instances; TLAPS proves
at-least-once and when messages are replayed, the publisher's contract, the life
of a shared retry strategy, what becomes of a record in the retry pipeline, whose
failure a message of the playground takes on, and what the options leave of the
clients' configuration, for instances of every size. Every invariant, action
property and refinement that a passing run checks has a proof.

## The parts of the system

| Part | Code | State | Operations that change it | Module |
|---|---|---|---|---|
| Subscriber | `subscribe/subscriber.go` | lifecycle state, batch buffer, what is being processed | `Start`, `run`, the two loops, `dispatchBatch`, `routeBatchFailures`, `storeHighestOffsetPerPartition` | `Subscriber` |
| Batch buffer | `internal/subscribe/batch/batch.go` | buffered messages, time of the first | `Add`, `Flush`, `Drop` | `Subscriber` |
| Consumer driver | `internal/subscribe/subscribedriver/consumer.go` | librdkafka's assignment, positions, offset store; the commit cadence | `SubscribeToTopic`, `rebalanceCallback`, `Poll`, `StoreOffset`, `MaybeCommitStored`, `CommitStored`, `Close` | `SubscribeDriver` |
| Group coordinator, background committer | external | committed offsets, owners, standing of each member | rebalance, eviction, auto commit | `SubscribeDriver` |
| Skip and fail-fast strategies | `internal/subscribe/strategy/*.go` | none | `HandleError` | answers only, in `Subscriber` |
| Retry strategy | `internal/subscribe/strategy/retry.go` | `inUse`, publisher and writers, logger | `Initialize`, `HandleError`, `awaitWrites`, `Close` | `RetryStrategy`, `RetryPipeline` |
| Retry headers, back-off | `internal/subscribe/metadata/*.go`, `retry.go` | headers of a record | `BuildRetryHeaders`, `BuildDLQHeaders`, `computeBackoff`, `WaitUntilRetryTime` | `RetryHeaders`, `RetryPipeline` |
| Options, client configuration | `subscribe/options.go`, `publish/options.go`, `retry.go`, `publisher_config.go`, `publishdriver/config.go`, `managed_keys.go` | the three configurations, the maps given to librdkafka | each `With...`, `New`, `Validate`, `ApplyDefaults`, `ConfigMap` | `Options` |
| Playground | `examples/playground` | two consumers in one process | `handleBatch`, `run` | `Playground` |
| Publisher | `publish/publisher.go` | `closed`, `fatal`, `closeErr`, the report goroutine | `enqueue`, `settle`, `noteFatal`, `Close`, `Ping` | `Publisher` |
| Deliveries, writers | `publish/delivery.go`, `publish/writer.go` | outcome of a record | `Send`, `Wait`, `resolve` | `Publisher` |
| Producer driver | `internal/publish/publishdriver/*.go` | librdkafka's queue, its reports, the events channel | `Produce`, `translate`, `Flush`, `Purge`, `Close` | `Publisher` |

What is hard about them is listed, line by line, under `hazards` in
`PROJECT.json`, with the properties that would catch each going wrong.

## The modules

**`SubscribeDriver`** holds the state of the coordinator (`committed`, `owner`,
`rebalancing`, `membership`) and of each member's librdkafka client (`assigned`,
`position`, `stored`), and one operator per operation of the driver. A committed
or stored offset is the next one to read; 0 in `stored` means nothing is stored.
`membership` follows a member through the eager protocol: `joining`, `awaiting`
(assigned, not told yet), `active`, and `lost`, the state of a member that was
put out of the group and still holds its partitions, because it only learns of
it in a later `Poll`. The coordinator accepts commits from `active` members
only. `Published` is what a commit makes of the store. `intervalMs` keeps the
integer division of the code.

**`Subscriber`** adds the goroutine that `Start` occupies: `pc` says which step
of `run` or of a loop comes next, and there is one action for each. A batch is
handled in the code's order: the handler (`InvokeBatchHandler`), the routing of
failed items one by one, or of the batch as a whole, the store per partition in
any order (the code ranges over a map), the commit. `resolved` is a history
variable: the messages a handler has handled or a strategy has taken over;
`abandoned` keeps the messages in hand when a strategy stopped a member.
Interleaved with these steps are the other members, the coordinator, the
background committer, cancellation and crashes. `Poll` that returns nothing
changes nothing and has no action, except for the batch timeout, which may
expire at any poll.

**`AtLeastOnce`** is the promise to the user of a group: commits move forward
over resolved messages. `Subscriber` refines it with the identity mapping.
`RetryPipeline` refines it for the source topic (`SourceGroup`): there a message
is resolved when it was processed or stands in the retry topic or the DLQ.

**`Publisher`** models one goroutine per `Send` with its `Wait`, the driver's
`translate`, the report goroutine, any number of `Close` calls and a `Ping`.
`lifecycle`, a `sync.RWMutex`, is modelled by who holds or waits for it: a
`Close` waiting for the write lock keeps new readers out. librdkafka holds
records (`held`), makes a report of each (`inside`), and hands reports to the
channel (`events`) while its handle is open; destroying the handle loses what
is still inside. A fatal failure purges the queue. `settle` is split where the
user's callback runs, so that other goroutines can observe the state between
callback and resolution.

**`DeliveryContract`** is the promise to the user of a publisher, which
`Publisher` refines: an accepted record gets one outcome that never changes, the
callback has seen a failure before anyone else, nothing is accepted once closing
has begun, and `Close` returns after the last outcome.

**`RetryStrategy`** has concurrent calls of `Start`, on one subscriber or on
several that were given the same strategy. `pc` follows a call through the swap
of the subscriber's state, the claim of the strategy (`inUse`), `publish.New`,
binding the writers, the consumer, `HandleError` and `Close`, one action for each
access to what calls share. The publisher is at the level of `DeliveryContract`
and is named after the call that created it; `sent` has the outcome of every
record. The consumer's loop is reduced to what it asks of the strategy.
`confirmed` and `rejected` are history.

**`StrategyLease`** is an exclusive lease: a strategy that nobody holds is taken,
and its holder gives it back. `RetryStrategy` refines it; the holder is the call
between its claim and its release.

**`RetryHeaders`** has the headers of a retried record as operators: readers,
writers, conversions and the back-off. A header's value is text that parses as a
number, as a time or as neither; a formatted time keeps whole seconds, as
RFC 3339 does here. A multiplier is a fraction, and `Pow` has the numerator of
its powers, also of negative ones: a record may arrive with any attempt header.

**`RetryPipeline`** composes the pieces: a source topic, its retry topic and its
DLQ, a consumer on each of the first two, each with a retry strategy. The
consumer is at the level `Subscriber` was shown to implement (what is stored was
resolved, what is committed was stored, a restart goes back to what was
committed), the publisher at the level of `DeliveryContract`. A verdict of the
handler becomes `HandleError` calls as `routeBatchFailures` makes them; records
are sent, answered by the broker (acknowledged, refused, or written with the
acknowledgement lost) and awaited. Records carry two history fields: `root`, the
source record they descend from, and `trail`, the failures behind them.
`OneProcess` says that both consumers share a process and a context, as in the
playground's `run`.

**`Playground`** is `RetryPipeline` with the verdicts of the playground's
batch handler: the script in a payload, one token per delivery. `OutOfRange` is
the panic of `At` for an attempt below 0, which fails the batch it is in.

**`Options`** applies options in any order and number, valid or not, to the
three configurations, then builds the clients: `publish.New` the producer's map,
`Start` the retry publisher's map and the consumer's. librdkafka takes a map or
refuses it, for reasons of its own (`NewProducer`, `Connect`): the properties are
about the maps it is asked with and about the library's own checks. Durations count half
milliseconds, so that integer division has something to cut off. A Kafka
configuration is a function from keys to values; TLA+ strings have no prefixes,
so `HasPrefix` is a relation given as a constant, `Prefixed`.

**`MCSubscriber`**, **`MCPublisher`**, **`MCRetryStrategy`**,
**`MCRetryPipeline`**, **`MCPlayground`** and **`MCOptions`** add symmetry sets
and constants for TLC. **`SubscriberProofs`**, **`CommitOrderProofs`**,
**`ReplayProofs`**, **`PublisherProofs`**, **`StrategyProofs`**,
**`PipelineProofs`**, **`PromiseProofs`** and **`OptionsProofs`** hold the
proofs.

Some modules contain definitions marked as mutants: variants of an action with a
plausible mistake. Each property of each passing run has one that violates it,
which shows that the property depends on the code.

## The runs

| Run | Checks | Shows |
|---|---|---|
| `single_loop` | `TypeOK`, `CommittedIsResolved`, `NothingLeftUncommitted`, `ImplementsAtLeastOnce` | two single-message subscribers, two partitions of two messages, default cadence, retry strategy, any two faults |
| `batch_loop` | `BufferCoversTheGap`, `NoReplayWithoutFault`, `ImplementsAtLeastOnce` | the same group in batches of two with the background committer and any one fault |
| `single_live` | `EveryMessageResolved` | while some subscriber keeps running, no message is stranded by a rebalance, a crash or an eviction; single messages, default cadence |
| `group_live` | `EveryMessageResolved`, `CancelStops`, `StoredIsPublished` | batches, the background committer and fail-fast: a batch that does not fill up strands nothing either, cancelling ends `Start`, and the committer publishes what is stored |
| `publisher_safety` | `TypeOK`, `WaitTellsTheTruth`, `NilMeansNothingPurged`, `ImplementsContract`, `FatalStopsSending` | two senders, one `Close`, a queue of one, a fatal failure and a duplicate report or fatal error |
| `publisher_live` | `NothingAcceptedIsLost`, `ClosesAgree`, `EveryCloseReturns`, `EveryDeliveryResolves` | three `Close` calls, a `Ping` and a fatal failure race a sender |
| `shared_strategy` | `OwnPublisher`, `NothingLeftOpen`, `NobodyElseStopsTheLoop`, `ImplementsLease`, `CancelledStartsReturn` | three calls of `Start` on two subscribers with one strategy, two faults; a cancelled `Start` returns, though `HandleError` waits under a context without cancellation |
| `retry_pipeline` | `OriginNamesTheSource`, `ResumePointKept`, `DeadLetteredWhenSpent`, `ContentSurvives`, `BackoffWithinBounds`, `NotProcessedEarly`, `SourceIsAtLeastOnce` | a tombstone replayed from the DLQ with some of its headers beside one of the application's, in batches with its own copies, every verdict, three attempts, a steep back-off, consumers in two processes, one fault |
| `playground` | `OwnVerdict`, `NothingVanishes`, `EveryRecordSettles`, `CancelledConsumersStop` | three scripts that meet in batches of up to two, in one process, one fault: no message takes on another's failure but a batch's, none counts as processed that failed, none is lost half-way through the writes, each ends processed or dead-lettered, and an error of one consumer, or a signal, stops both |
| `options_safety` | `OffsetsAreTheLibrarys`, `ProducerIsViable`, `RetryPublisherInherits`, `StartFailsOverSharedKeysOnly` | any options in any order, a key of every kind the code tells apart; librdkafka may refuse what it is asked for |
| `close_count` | `ErrNotDeliveredMeansPurged` (violated) | see Findings |
| `sub_millisecond_commit` | `StoredIsPublished` (violated) | see Findings |

**Bounds.** Two members are what a rebalance needs: one that loses a partition
and one that gets it; the same member getting it back is among the cases. Two
partitions let a batch mix partitions and a generation split them. Two messages
per partition distinguish "the first is stored" from "both are", and make a
batch of two either fill up from one partition, from both, or not at all; in
`group_live`, with one partition, a batch stays half full when the second
message is alone after a commit of the first. `MaxFaults`
bounds crashes, evictions and failing calls together: two reach an eviction
followed by a failing commit or a crash of the next owner. For the publisher,
two records and a queue of one give a full queue and two reports in any order;
with three `Close` calls two of them wait on the first. Duplicate reports and
further fatal errors share `MaxDuplicates`.

Three calls of `Start` give two that race on one subscriber and a third that
wants the same strategy; failures of two messages can fail half-way. In the
pipeline three attempts are the first that has a later one which is not the
last, and with a multiplier of 8 the second delay is beyond the range of a
duration, which is 7 ticks there. In `retry_pipeline` half a second is a tick, so
that a retry time can lose its fraction; `playground` counts whole seconds,
which leaves room for three records and liveness. One of its records arrives at
its second attempt, so that its first retry is due later than that of the record
behind it in the retry topic, which waits for it. None arrives with a negative
attempt: the panic for one (`OutOfRange`) is covered by the proof of `OwnVerdict`
only.
`MaxTime` bounds the clock while nobody waits; it goes on for anyone who does. A
fault is a crash, a refused send or write, a lost acknowledgement, a failed
commit or a cancellation; one is enough for every order of a fault and the steps
around it. Integers in TLC have 32 bits themselves, so `MaxInt32` stands for the
limit of the code at a smaller value; the durations lie on both sides of it.

**Fairness.** A goroutine that can go on does so: handlers and callbacks
return, and `Poll` returns within its timeout. The coordinator completes a
rebalance once every member has given its partitions back, the background
committer's timer fires, and librdkafka reports each record within its delivery
timeout (`Refused`), which the code sets to a finite value. `Ping` carries a
deadline. In the pipeline a process that has stopped is started again, and time
goes on. No caller has to start, cancel, send or close, no context has to end
and no fault has to happen. An idle subscriber that is neither cancelled nor
closed goes on forever, and the model lets it; deadlock is checked in every
run, and the only final states are those in which every call has returned.

## The proofs

All constants are arbitrary. For the subscriber: any sets of members and
partitions, any log length, batch size, cadence, strategy, mode and fault budget
(`DriverAssumption`, `SubscriberAssumption`). For the publisher: any sets of
records and of `Close` calls, finite or not, any queue limit, with or without
fatal failures, any number of duplicate reports (`PublisherAssumption`). For the
retry strategy: any calls, subscribers and strategies, shared in any way, any
size and number of failures and any fault budget (`StrategyAssumption`). For the
pipeline: any source topic, with any headers on its records, any handler, number
of attempts, batch size and fault budget; of a back-off only that it is a number
for every attempt that is made, and of a multiplier that it is a fraction of at
least 1, as the options require (`PipelineAssumption`, `SourceAssumption`,
`RetryHeadersAssumption`). For the playground nothing is added: any scripts, that
parse or not. For the options: any client keys and values, sizes, durations and
broker lists, and of `Prefixed` only that the two `go.delivery.*`
keys have the prefix `go.`; `MaxInt32` must leave room for the default timeout
(`OptionsAssumption`).

### The subscriber

- `TypeCorrect`: `Spec => []TypeOK`. The content is that no offset leaves the
  log, although `StoreOffset` and `Poll` add one.
- `NeverCommitsUnresolved`: `Spec => []CommittedIsResolved`, at-least-once.
- `Invariance`: both follow from the inductive invariant `IInv`.
- `GroupIsAtLeastOnce`: `Spec => ImplementsAtLeastOnce`. Beyond the above it says
  that a committed offset never goes back.
- `BufferAlwaysCoversTheGap`, `NeverLeftUncommitted`,
  `NeverReplaysWithoutFault`: the invariants `BufferCoversTheGap`,
  `NothingLeftUncommitted` and `NoReplayWithoutFault`.

Neither invariant is inductive alone. That committed offsets are resolved rests
on stored offsets being resolved (`StoredIsResolved`). That a *store* is safe
rests on everything polled before the stored message being resolved, which holds
because whatever a member has polled of its partitions is resolved or still in
hand (`PolledIsKept`), and at the store everything in hand is resolved
(`Progress`) because the buffer is empty then and a message in hand was polled
(`Shape`, `PendingWasPolled`). `PolledIsKept` survives a rebalance because
`Unassign` makes it vacuous and an assignment starts at committed offsets, with
nothing in hand. This part does not use that a batch is stored in order, or that
a member stays in its generation: those matter for the order of commits.

That order rests on `OInv`, which adds two facts about each member. `Holding`:
only a member that called `Assign` holds anything, and an active one holds what
the coordinator gave it last, so two active members share no partition and a
commit of one cannot overtake the other. `Ahead`: for an active member, what is
committed of its partitions lies behind everything it has stored or still has to
store (`Due`). A `lost` member can fall behind, which is harmless because the
coordinator takes no commit from it.

The replay properties rest on `VInv` (`HoldsWhatItPolled`), which adds to
`OInv`: `Gaps`, the offsets a member still has to store are exactly those
between its store and its fetch position, also while it processes and after some
partitions of a batch are stored and others are not; `Ordered`, the buffer has a
partition in order; `Clean`, what is stored at the top of the loop is committed;
`Kept`, a member holds and stores messages of its own partitions only, and
without a fault never loses its place; and `Accounted`, which spans the group:
without a fault, whatever was dealt with is committed, or some active member has
it stored or in hand and will commit it, unless a strategy stopped that member.
A message being handled again would have to be behind somebody's store, and
`Gaps` puts it in front of its own member's.

`SubscriberProofs` has a type lemma for each operation of the driver and for
each action, joined in `TypeStep`. It then shows that a step leaves the other members alone
(`StepIsLocal`, `EnvironmentIsLocal`), what becomes of the messages in hand
(`HandGrows`, `HandShrinks`, `HandReleased`, `HandUntouched`), which steps store
and commit (`StoredStep`, `CommittedStep`), and joins them in `StepIInv`.
`CommitOrderProofs` does the same for `OInv` (`HoldingStep`, `AheadStep`,
`StepOInv`) and maps every step to the abstract one in `StepAtLeastOnce`;
`ReplayProofs` does it for `VInv`.

### The publisher

- `PublisherTypeCorrect`: `Spec => []TypeOK`; its content is that no record gets
  a second callback and no second fatal error reaches the handler.
- `CloseLosesNothing`, `WaitIsTruthful`, `EveryCloseAgrees`: the invariants
  `NothingAcceptedIsLost`, `WaitTellsTheTruth` and `ClosesAgree`.
- `NilNeverHidesAPurge`: the invariant `NilMeansNothingPurged`.
- `FatalEndsSending`: the action property `FatalStopsSending`.
- `PublisherKeepsContract`: `Spec => ImplementsContract`.

All but `NilNeverHidesAPurge` follow from the inductive invariant `PInv`
(`StepPInv`). Its centre is
`Tracked`: a record that was accepted and has no outcome is held by librdkafka,
or its report is inside librdkafka, or the report is on its way through the
channel and the report goroutine (`OnItsWay`). `Shutdown` carries this through
`Close`: past the lock no sender is between its check and `Produce`; past the
drain, or the purge and flush, librdkafka has nothing left, so every open record
is on its way; the report goroutine ends on an empty channel after the handle is
gone. Hence nothing is open when a `Close` returns. That an empty count means
that nothing is left needs `Finite`, whatever the set of records. `InHand` and
`Told` tie the callback count to the outcome, `Sources` says that only accepted
records are reported, `Fatality` that a fatal error comes from a failed producer,
which takes no records, and `Agreement` that one `Close` sets the error all of
them return.

`NilNeverHidesAPurge` needs `GInv` on top of it
(`AlwaysGInv`). `PurgeCause`: a
record is purged only by a failed producer or after a drain that was cut, which
leaves a count. The hard case is a drain that ends empty, after which the
producer can still fail and its error be lost with the handle. `CleanDrain` says
why nothing is hidden then: every open record is already in the hands of the
report goroutine, so a later report of it changes nothing, and if one of those in
hand is a purge, the fatal error behind it has left the channel too and is
recorded before `Close` returns. `Counted` says that `Close` returns what the
drain counted, with the fatal error as it stands.

### The retry strategy

The theorems in `StrategyProofs`:

- `StrategyExclusive`, `StrategyOwnPublisher`, `StrategyNothingLeftOpen`,
  `StrategyConfirms`, `StrategyLoopIsItsOwn`: the invariants of
  `RetryStrategy`, for every instance. `Exclusive`, `ConfirmedMeansAcked` and
  `PurgedOnlyAfterRejection` are in no run, since the proofs cover every instance.
- `StrategySingleUse`: the action property `SingleUse`, likewise.
- `StrategyImplementsLease`: every step is a step of the lease or leaves its
  holders alone.

They follow from `Inv`, the conjunction of `LifeTypeOK`, `Exclusive`, `Owned`,
`Delivered`, `Accounted` and `Claimed`. `Exclusive` is inductive on its own: a
claim needs the flag down, and only the holder lowers it. The others are not.
That a consumer's publisher is its own rests on `Owned`, which says for each step
of a call what is in the strategy and in what state the publisher is, from its
creation to its release. That nothing is left open and that purges follow
rejections rest on `Accounted`: a pending record's publisher is not closed, and
its delivery is being waited for unless a send was rejected. `Delivered` says
that what is confirmed or waited for was accepted, and what is confirmed stays
acknowledged. `Claimed` says that a call between `Start` and `Return` is the only
one on its subscriber, from which the loop is its own and the state never goes
back.

### The retry pipeline

The theorems in `PromiseProofs`, and the invariant behind them in
`PipelineProofs`:

- `CommittedNeverVanishes`: `NothingVanishes`, across both topics and the DLQ.
- `ContentAlwaysSurvives`, `OriginAlwaysKept`, `ResumePointAlwaysKept`,
  `SpentIsDeadLettered`: the invariants about the headers of retry and DLQ
  records, for any number of hops.
- `NeverProcessedEarly`: the action property `NotProcessedEarly`.
- `SourceAlwaysAtLeastOnce`: `Spec => SourceIsAtLeastOnce`, the refinement of
  `AtLeastOnce`.
- `BackoffAlwaysWithinBounds`: `BackoffWithinBounds`, for the exponential back-off
  (`CustomBackoff` unset) and source records whose attempt header is absent, not a
  number or not negative. The hypotheses are needed: a custom back-off returns what
  the application likes, and a record that arrives with attempt -1 is delayed by
  less than the first delay.
- `PipelineInvariance`: the inductive invariant, `RInv`.

No induction over a trail is needed, because `RInv` says of a record what the
next hop needs to know and no more: its content is the source record's, its
attempt header is the source's plus the length of its trail, its step is the last
one its trail reports, its origin is the source's (`Sound`, `Written`), and its
topic is the one its last failure sends it to (`RetryRecords`, `DeadRecords`). A
failure appends one entry, and `buildFailureHeaders` is shown to keep each of
these once (`RetryHeadersBuilt`, `DLQHeadersBuilt`, `SentSound`). `Typed` carries
this through the topics, the batches, the calls and the writes. That nothing
vanishes rests on the order of steps. A source record is `Safe` behind an offset
of the retry topic if it was processed, or is in the DLQ, or is in the retry
topic from that offset on. `StoredSafe`: what either consumer has stored is safe
behind what the retry consumer has stored. It is stated for both at once, because
the retry consumer must not pass a record the source's commits rely on. It stays
so because a batch is what the topic has from the stored offset on (`Placed`), of
a batch that has its verdict every message is safe or still to be routed
(`Routed`), the call that is waiting has a write for each of its messages
(`Calling`), and an acknowledged write is safe, even behind the batch in hand
(`Acked`).

The refinement follows from the same invariant. A step adds to the topics and to
what is processed, or moves a consumer's commit up to what it has stored, never
both (`StepEffect`), and what is stored is dealt with (`StoredDealtWith`).

For the back-off, `RInv` says of a retry record that the delay of each failure is
`computeBackoff` of its attempt (`Delayed`). `BackoffGrows` then compares two
successive attempts. The powers of the multiplier are a recursive function. The
library's induction theorems cannot be instantiated here, but that a set of
natural numbers has a least element can be had from the well-foundedness of `<`
(`Smallest`), and a least counterexample serves as well: `Powers` shows in this
way that the function satisfies its recursive definition, `PowerPositive` and
`PowersOrdered` what the comparison needs.

### The playground

`FailuresAreAccountedFor`, in `PromiseProofs`: `OwnVerdict`, when the handler is
the playground's (`ScriptHandler`). It rests on `AInv` on top of `RInv`: every
failure in the trail of a record in a topic, a batch, a call or a write is
accounted for (`TrailAccounted`), and so is the failure a call of `HandleError` is
about, for each message of the call (`CallAccounted`). A batchko or a panic must be
that of a record no more than a batch away in the topic (`Beside`), so `AInv` also
says that a batch holds neighbouring records of its topic (`Polled`); logs only
grow, and what was accounted for stays so (`StillAccounted`). `handleBatch` gives
such failures only: for a batch that failed as a whole the message that decides is
one of the batch (`WholeAccounted`); for one item it is the item's own script, at
the attempt its header names (`ItemAccounted`), and without a failure the script
said ok (`OwnOutcome`, `CarriedOut`), which is the other half of `OwnVerdict`. That
this attempt is the source record's plus the failures so far is part of `RInv`, so
that the n-th failure of a record comes from the token n - 1 further in its script.

### The options

The theorems in `OptionsProofs`:

- `OffsetsAlwaysTheLibrarys`, `ProducerAlwaysViable`,
  `RetryPublisherAlwaysInherits`, `StartFailureIsShared`: the four
  invariants of `options_safety`.
- `OptionsInvariance`: the inductive invariant `OptInv` behind them.

`SubInv` and `PubInv` say what every sequence of options leaves in a
configuration: no managed key in the caller's map, an auto-commit interval if and
only if it was asked for, a timeout that survives the cut to milliseconds and 32
bits, no idempotence with `acks=1`. `ClientInv` says that the clients' maps were
built from these configurations, that the retry publisher's map was taken from
the consumer's, and that of the library's own checks only the one on requests in
flight can fail `Start`. What a map has under a key follows from the order in which
it was built, the caller's keys last.

### Only model-checked

All liveness properties, and that there is no deadlock: the prover handles neither
fairness nor `ENABLED`.

## Findings

- **`Close` counts acknowledged records as not delivered** (`close_count`).
  `Close` says it returns `ErrNotDelivered` "with the count when records were
  purged". The count is what the last `Flush` of `drain` left over, which
  includes acknowledgements librdkafka has received and not handed over yet.
  If the context ends then, `Close` fails although every record was delivered.
- **An auto-commit interval below one millisecond commits nothing**
  (`sub_millisecond_commit`). `WithAutoCommitEvery` accepts any positive
  duration; the driver passes whole milliseconds, so a smaller one becomes
  `auto.commit.interval.ms=0`, which turns librdkafka's committer off, while
  `MaybeCommitStored` relies on it. Offsets are then committed on a revoke and
  at shutdown only. Nothing is lost, but a crash replays everything
  since the last of these. That 0 disables the committer is librdkafka's
  documented meaning of the setting; it is modelled, not executed.

Two sentences of the playground's README are not what the model does either. No
run states them.

- "One partition keeps retry records in due-time order" (README.md:51): the delay
  grows with the attempt (`computeBackoff`), so a record's second retry can stand
  before the first retry of another and be due later; the other waits behind it.
  The records of `playground` do; `EveryRecordSettles` holds nevertheless.
- "A record that is not due yet is never failed back" (README.md:170): a shutdown
  during the wait makes the handler return the context's error (`Interrupted`),
  and the strategy counts that as an attempt. `OwnVerdict` exempts these failures.

## Not modelled

- The wording of logs and the state that only serves it (`brokerDown`,
  `suppressed`, the consumer's connection flag).
- Failures of `Assign` and `Unassign` inside the rebalance callback and of
  `Purge`: what librdkafka does next is not visible in this code.
- Delivery callbacks that call `Close`, which `publish/options.go` forbids, and
  panics of a misused `Batch`.
- Codecs, topics and partitioners, which have no state; log codes. The
  playground's single-message handler, its flags, its printing and its producer.
- Of the options: a nil `subscribe.Option`, which panics, `NaN` as a multiplier,
  librdkafka's aliases of keys, and for which maps librdkafka refuses to make a
  client: it may refuse any.
- In the pipeline: rebalances and partitions, which `Subscriber` has; retention
  of topics; a custom back-off other than a table by attempt. A back-off is
  computed exactly, where the code uses floating point.
- Real time outside the pipeline: timeouts expire at any moment the code allows.

## Plan

1. Done: the subscriber group, the publisher, the retry strategy, the pipeline
   of retry and dead-letter topics, the options and the playground.
2. Done: the proofs of at-least-once with the order of commits and the replay
   properties, of the publisher's contract, of the strategy's lease, of the
   pipeline, of the playground's verdicts and of the options.
3. The publisher's handle inside `RetryStrategy`, instead of its contract.
