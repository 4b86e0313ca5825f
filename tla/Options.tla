------------------------------ MODULE Options ------------------------------
(***************************************************************************)
(* From options to clients: subscribe.New and publish.New apply a caller's *)
(* options in order, validate what came of them, and build the librdkafka  *)
(* configuration of a consumer or a producer.  A subscriber's Start builds *)
(* the retry strategy's publisher from the subscriber's configuration and  *)
(* then the consumer.                                                      *)
(*                                                                         *)
(* A duration is in half milliseconds, so that one can fail to be a whole  *)
(* number of them; a multiplier is in hundredths.  A Kafka configuration   *)
(* is a function from some keys to values; a value is a record of its form *)
(* and, for a number, the number.  Any number of options may be given.     *)
(***************************************************************************)
EXTENDS Integers, Sequences, FiniteSets, Functions

CONSTANTS BrokerLists,    \* arguments of WithBrokers
          KafkaConfigs,   \* arguments of WithKafkaConfig
          Sizes,          \* arguments of WithBatchSize and WithMaxAttempts
          Durations,      \* arguments of the options that take a duration
          Multipliers,    \* arguments of WithBackoffMultiplier
          Prefixed,       \* strings.HasPrefix, as pairs of a key and a prefix of it
          MaxInt32        \* the largest 32-bit integer

ASSUME OptionsAssumption ==
    /\ MaxInt32 \in Nat /\ MaxInt32 >= 30000
    /\ Sizes \cup Durations \cup Multipliers \subseteq Int
    /\ \A config \in KafkaConfigs : \A key \in DOMAIN config : config[key].n \in Int
    /\ {<<"go.delivery.reports", "go.">>, <<"go.delivery.report.fields", "go.">>} \subseteq Prefixed

VARIABLES stage,     \* what is being built, or what came of it
          sub,       \* subscribe.Config
          pub,       \* publish's config
          retry,     \* strategy.RetryConfig
          used,      \* history: the options of Kept that took effect
          producer,  \* the librdkafka configuration a producer is asked for with
          consumer   \* the one a consumer is

vars == <<stage, sub, pub, retry, used, producer, consumer>>

Ms         == 2          \* a millisecond
NoKeys     == <<>>       \* the empty map
Flag(b)    == [form |-> "bool", n |-> IF b THEN 1 ELSE 0]
Word(w)    == [form |-> w, n |-> 0]
Number(n)  == [form |-> "int", n |-> n]

\* f with the entries of g over its own.
Over(f, g) == [k \in DOMAIN f \cup DOMAIN g |-> IF k \in DOMAIN g THEN g[k] ELSE f[k]]

InFlight   == "max.in.flight.requests.per.connection"

HasPrefix(key, prefix) == <<key, prefix>> \in Prefixed

-----------------------------------------------------------------------------
(***************************************************************************)
(* Keys the library keeps to itself.                                       *)
(***************************************************************************)

\* Mutant of managedKafkaKeys: the offset store is left to the caller.
managedKafkaKeysFewer ==
    {"bootstrap.servers", "group.id", "enable.auto.commit", "auto.commit.interval.ms",
     "partition.assignment.strategy", "group.protocol"}

\* The keys subscribe.WithKafkaConfig refuses.
managedKafkaKeys ==
    {"bootstrap.servers", "group.id", "enable.auto.commit", "auto.commit.interval.ms",
     "enable.auto.offset.store", "partition.assignment.strategy", "group.protocol"}

\* The keys the publisher takes from nobody (ManagedKeyReason).
ManagedKey(key) ==
    \/ key \in {"bootstrap.servers", "acks", "request.required.acks", "enable.idempotence",
                "enable.gapless.guarantee", "partitioner", "message.timeout.ms",
                "delivery.timeout.ms", "transactional.id", "default.topic.config"}
    \/ HasPrefix(key, "go.")
    \/ HasPrefix(key, "{topic}.")

\* The properties of librdkafka that apply to consumers only.
consumerOnlyPrefixes == {"group.", "fetch.", "queued.", "auto.", "enable.auto.", "offset.store."}
consumerOnlyKeys     == {"session.timeout.ms", "heartbeat.interval.ms", "max.poll.interval.ms",
                         "coordinator.query.interval.ms", "partition.assignment.strategy",
                         "max.partition.fetch.bytes", "isolation.level",
                         "consume.callback.max.messages", "enable.partition.eof", "check.crcs"}

isConsumerOnly(key) ==
    key \in consumerOnlyKeys \/ \E prefix \in consumerOnlyPrefixes : HasPrefix(key, prefix)

\* Mutant of PublisherConfig: keys the publisher manages are handed on.
PublisherConfigAll(config) ==
    Restrict(config, {key \in DOMAIN config : ~HasPrefix(key, "go.") /\ ~isConsumerOnly(key)})

\* Mutant of PublisherConfig: an allowlist of shared keys, without the ones for
\* security.
PublisherConfigAllowed(config) == Restrict(config, DOMAIN config \cap {InFlight, "client.id"})

\* What the retry strategy's publisher takes from the consumer's configuration.
PublisherConfig(config) ==
    Restrict(config, {key \in DOMAIN config :
                        ~HasPrefix(key, "go.") /\ ~isConsumerOnly(key) /\ ~ManagedKey(key)})

-----------------------------------------------------------------------------
(***************************************************************************)
(* The options of subscribe.New.                                           *)
(***************************************************************************)

\* The options the history keeps.
Kept == {"WithBatchSize", "WithBatchTimeout", "WithAutoCommitEvery", "WithAcksLeader",
         "WithoutIdempotence"}

\* The empty Config New starts from.
emptyConfig ==
    [topic |-> "", brokers |-> <<>>, group |-> "", handler |-> FALSE, batchHandler |-> FALSE,
     mode |-> "", batchSize |-> 0, batchTimeout |-> 0, pollTimeout |-> 0, autoCommitEvery |-> 0,
     strategy |-> "unset", kafkaConfig |-> NoKeys]

\* An option is applied: it sets fields, or fails New.
Apply(name, valid, sets) ==
    /\ \/ valid /\ sets /\ used' = used \cup ({name} \cap Kept) /\ UNCHANGED stage
       \/ ~valid /\ stage' = "refused" /\ UNCHANGED <<sub, pub, retry, used>>
    /\ UNCHANGED <<producer, consumer>>

Subscribe(name, valid, new) ==
    stage = "subscribe" /\ Apply(name, valid, sub' = new /\ UNCHANGED <<pub, retry>>)

BrokersOK(brokers) == brokers # <<>> /\ "" \notin Range(brokers)

WithTopic(name) == Subscribe("WithTopic", name # "", [sub EXCEPT !.topic = name])

WithConsumerGroup(name) ==
    Subscribe("WithConsumerGroup", name # "", [sub EXCEPT !.group = name])

SubscribeWithBrokers(brokers) ==
    Subscribe("WithBrokers", BrokersOK(brokers), [sub EXCEPT !.brokers = brokers])

\* nil is FALSE.
WithHandler(handler) ==
    Subscribe("WithHandler", handler, [sub EXCEPT !.handler = TRUE, !.mode = "single"])

\* The value an option left, or a default for one that is not positive.
Defaulted(value, default) == IF value <= 0 THEN default ELSE value

WithBatchHandler(handler) ==
    Subscribe("WithBatchHandler", handler,
              [sub EXCEPT !.batchHandler = TRUE, !.mode = "batch",
                          !.batchSize    = Defaulted(sub.batchSize, 100),
                          !.batchTimeout = Defaulted(sub.batchTimeout, 5000 * Ms)])

WithBatchSize(size) ==
    Subscribe("WithBatchSize", size > 0, [sub EXCEPT !.batchSize = size])

WithBatchTimeout(d) ==
    Subscribe("WithBatchTimeout", d > 0, [sub EXCEPT !.batchTimeout = d])

WithPollTimeout(d) ==
    Subscribe("WithPollTimeout", d >= 10 * Ms, [sub EXCEPT !.pollTimeout = d])

WithAutoCommitEvery(d) ==
    Subscribe("WithAutoCommitEvery", d > 0, [sub EXCEPT !.autoCommitEvery = d])

WithErrorStrategy(strategy) ==
    Subscribe("WithErrorStrategy", strategy # "nil", [sub EXCEPT !.strategy = strategy])

SubscribeWithKafkaConfig(given, config) ==
    Subscribe("WithKafkaConfig", given /\ DOMAIN config \cap managedKafkaKeys = {},
              [sub EXCEPT !.kafkaConfig = config])

\* A seam for tests; nil is refused.
WithConsumerFactory(given) == Subscribe("WithConsumerFactory", given, sub)

Validate(c) ==
    /\ c.topic # "" /\ c.brokers # <<>> /\ c.group # ""
    /\ c.handler # c.batchHandler
    /\ c.mode = "batch" => c.batchSize > 0 /\ c.batchTimeout > 0

ApplyDefaults(c) ==
    [c EXCEPT !.pollTimeout = IF @ = 0 THEN 100 * Ms ELSE @,
              !.strategy    = IF @ = "unset" THEN "skip" ELSE @]

\* subscribe.New, once its options are applied.
SubscribeNew ==
    /\ stage = "subscribe"
    /\ \/ Validate(sub) /\ stage' = "subscriber" /\ sub' = ApplyDefaults(sub)
       \/ ~Validate(sub) /\ stage' = "refused" /\ UNCHANGED sub
    /\ UNCHANGED <<pub, retry, used, producer, consumer>>

pollTimeoutMs == IF sub.pollTimeout \div Ms < 1 THEN 100 ELSE sub.pollTimeout \div Ms

-----------------------------------------------------------------------------
(***************************************************************************)
(* The options of publish.New.                                             *)
(***************************************************************************)

Publish(name, valid, new) ==
    stage = "publish" /\ Apply(name, valid, pub' = new /\ UNCHANGED <<sub, retry>>)

PublishWithBrokers(brokers) ==
    Publish("WithBrokers", BrokersOK(brokers), [pub EXCEPT !.brokers = brokers])

KafkaConfigOK(config) == \A key \in DOMAIN config : ~ManagedKey(key)

PublishWithKafkaConfig(given, config) ==
    Publish("WithKafkaConfig", given /\ KafkaConfigOK(config), [pub EXCEPT !.kafkaConfig = config])

\* WithDeliveryErrorFunc, WithFatalHandler and WithProducerFactory refuse nil;
\* New refuses a nil option.
WithFunc(given) == Publish("WithFunc", given, pub)

WithoutIdempotence ==
    Publish("WithoutIdempotence", TRUE, [pub EXCEPT !.idempotence = FALSE])

WithAcksLeader ==
    Publish("WithAcksLeader", TRUE, [pub EXCEPT !.acksLeader = TRUE, !.idempotence = FALSE])

WithPartitioner(known) ==
    Publish("WithPartitioner", known, [pub EXCEPT !.partitioner = "chosen"])

\* At least a millisecond, and a 32-bit number of them.
TimeoutOK(d) == d >= Ms /\ d \div Ms <= MaxInt32

WithDeliveryTimeout(d) ==
    Publish("WithDeliveryTimeout", TimeoutOK(d), [pub EXCEPT !.deliveryTimeout = d])

\* integerValue: an integer, a whole float or a decimal string is read as a number.
integerValue(value) == value.form \in {"int", "whole", "digits"}

\* Mutant of checkInFlightForIdempotence: the limit itself is off by one.
checkInFlightForIdempotenceLoose(c) ==
    InFlight \in DOMAIN c.kafkaConfig =>
        integerValue(c.kafkaConfig[InFlight]) /\ c.kafkaConfig[InFlight].n <= 6

checkInFlightForIdempotence(c) ==
    InFlight \in DOMAIN c.kafkaConfig =>
        integerValue(c.kafkaConfig[InFlight]) /\ c.kafkaConfig[InFlight].n <= 5

validate(c) == c.brokers # <<>> /\ (c.idempotence => checkInFlightForIdempotence(c))

\* The producer's configuration: the library's keys over the caller's map.
ConfigMap(c) ==
    Over(c.kafkaConfig,
         [key \in {"bootstrap.servers", "acks", "enable.idempotence", "partitioner",
                   "message.timeout.ms", "go.delivery.reports", "go.delivery.report.fields"} |->
             CASE key = "bootstrap.servers"   -> Word("brokers")
               [] key = "acks"                -> Word(IF c.acksLeader THEN "1" ELSE "all")
               [] key = "enable.idempotence"  -> Flag(c.idempotence)
               [] key = "partitioner"         -> Word(c.partitioner)
               [] key = "message.timeout.ms"  -> Number(c.deliveryTimeout \div Ms)
               [] key = "go.delivery.reports" -> Flag(TRUE)
               [] OTHER                       -> Word("none")])

defaultConfig ==
    [brokers |-> <<>>, kafkaConfig |-> NoKeys, idempotence |-> TRUE, acksLeader |-> FALSE,
     partitioner |-> "default", deliveryTimeout |-> 30000 * Ms]

\* publishdriver.New: librdkafka makes a client of a configuration, or refuses
\* it for a reason of its own, an unknown key or a value it does not take.
NewProducer(c, made, refused) == producer' = ConfigMap(c) /\ stage' \in {made, refused}

\* publish.New, once its options are applied.
PublishNew ==
    /\ stage = "publish"
    /\ \/ validate(pub) /\ NewProducer(pub, "publisher", "no publisher")
       \/ ~validate(pub) /\ stage' = "refused" /\ UNCHANGED producer
    /\ UNCHANGED <<sub, pub, retry, used, consumer>>

-----------------------------------------------------------------------------
(***************************************************************************)
(* The options of NewRetryStrategy.                                        *)
(***************************************************************************)

retryDefaults ==
    [retryTopic |-> "", dlqTopic |-> "", maxAttempts |-> 3, initialDelay |-> 1000 * Ms,
     maxDelay |-> 30000 * Ms, multiplier |-> 200]

Retry(name, valid, new) ==
    stage = "strategy" /\ Apply(name, valid, retry' = new /\ UNCHANGED <<sub, pub>>)

WithRetryTopic(name) == Retry("WithRetryTopic", name # "", [retry EXCEPT !.retryTopic = name])

WithDLQTopic(name) == Retry("WithDLQTopic", name # "", [retry EXCEPT !.dlqTopic = name])

WithMaxAttempts(n) == Retry("WithMaxAttempts", n > 0, [retry EXCEPT !.maxAttempts = n])

WithInitialDelay(d) == Retry("WithInitialDelay", d > 0, [retry EXCEPT !.initialDelay = d])

WithMaxDelay(d) == Retry("WithMaxDelay", d > 0, [retry EXCEPT !.maxDelay = d])

WithBackoffMultiplier(m) ==
    Retry("WithBackoffMultiplier", m >= 100, [retry EXCEPT !.multiplier = m])

\* WithCustomBackoff, WithDeliveryErrorFunc and WithProducerFactory refuse nil.
WithRetryFunc(given) == Retry("WithRetryFunc", given, retry)

TopicsOK(c) == c.retryTopic # "" /\ c.dlqTopic # ""

\* NewRetryStrategy, once its options are applied.
NewRetryStrategy ==
    /\ stage = "strategy"
    /\ stage' = IF TopicsOK(retry) THEN "retry strategy" ELSE "refused"
    /\ UNCHANGED <<sub, pub, retry, used, producer, consumer>>

-----------------------------------------------------------------------------
(***************************************************************************)
(* Start builds the clients.                                               *)
(***************************************************************************)

\* The retry strategy's Initialize, the first thing Start does: the options it
\* gives publish.New are the subscriber's brokers and configuration.  The checks
\* of publish.New fail it, or librdkafka's refusal.
Initialize ==
    LET inherited == PublisherConfig(sub.kafkaConfig)
        built     == [defaultConfig EXCEPT !.brokers = sub.brokers, !.kafkaConfig = inherited]
        accepted  == BrokersOK(sub.brokers) /\ KafkaConfigOK(inherited) /\ validate(built)
    IN  /\ stage = "subscriber"
        /\ sub.strategy = "retry"
        /\ \/ accepted /\ pub' = built /\ NewProducer(built, "initialized", "start refused")
           \/ ~accepted /\ stage' = "start failed" /\ UNCHANGED <<pub, producer>>
        /\ UNCHANGED <<sub, retry, used, consumer>>

\* The consumer's configuration: the caller's map over the library's keys.
ConsumerMap ==
    Over([key \in {"bootstrap.servers", "group.id", "auto.offset.reset", "enable.auto.commit",
                   "enable.auto.offset.store", "partition.assignment.strategy",
                   "reconnect.backoff.ms", "reconnect.backoff.max.ms"}
                  \cup (IF sub.autoCommitEvery > 0 THEN {"auto.commit.interval.ms"} ELSE {}) |->
             CASE key = "bootstrap.servers"             -> Word("brokers")
               [] key = "group.id"                      -> Word("group")
               [] key = "auto.offset.reset"             -> Word("earliest")
               [] key = "enable.auto.commit"            -> Flag(sub.autoCommitEvery > 0)
               [] key = "enable.auto.offset.store"      -> Flag(FALSE)
               [] key = "partition.assignment.strategy" -> Word("range,roundrobin")
               [] key = "auto.commit.interval.ms"       -> Number(sub.autoCommitEvery \div Ms)
               [] key = "reconnect.backoff.ms"          -> Number(100)
               [] OTHER                                 -> Number(10000)],
         sub.kafkaConfig)

\* Start goes on to build the consumer; New refuses what has no brokers, topic
\* or group.
NewConsumer ==
    /\ stage = "initialized" \/ (stage = "subscriber" /\ sub.strategy # "retry")
    /\ LET ok == sub.brokers # <<>> /\ sub.topic # "" /\ sub.group # ""
       IN  /\ stage' = IF ok THEN "created" ELSE "start failed"
           /\ consumer' = IF ok THEN ConsumerMap ELSE consumer
    /\ UNCHANGED <<sub, pub, retry, used, producer>>

\* run's Connect: librdkafka makes a consumer of it, or refuses.
Connect ==
    /\ stage = "created"
    /\ stage' \in {"started", "start refused"}
    /\ UNCHANGED <<sub, pub, retry, used, producer, consumer>>

\* Nothing is left to build.
Built ==
    /\ stage \in {"refused", "no publisher", "start failed", "start refused", "started",
                  "publisher", "retry strategy"}
    /\ UNCHANGED vars

Init ==
    /\ stage \in {"subscribe", "publish", "strategy"}
    /\ sub = emptyConfig
    /\ pub = defaultConfig
    /\ retry = retryDefaults
    /\ used = {}
    /\ producer = NoKeys
    /\ consumer = NoKeys

Next ==
    \/ \E name \in {"", "name"} :
          WithTopic(name) \/ WithConsumerGroup(name) \/ WithRetryTopic(name) \/ WithDLQTopic(name)
    \/ \E brokers \in BrokerLists : SubscribeWithBrokers(brokers) \/ PublishWithBrokers(brokers)
    \/ \E given \in BOOLEAN :
          \/ WithHandler(given) \/ WithBatchHandler(given) \/ WithPartitioner(given)
          \/ WithConsumerFactory(given) \/ WithFunc(given) \/ WithRetryFunc(given)
    \/ \E size \in Sizes : WithBatchSize(size) \/ WithMaxAttempts(size)
    \/ \E d \in Durations :
          \/ WithBatchTimeout(d) \/ WithPollTimeout(d) \/ WithAutoCommitEvery(d)
          \/ WithDeliveryTimeout(d) \/ WithInitialDelay(d) \/ WithMaxDelay(d)
    \/ \E m \in Multipliers : WithBackoffMultiplier(m)
    \/ \E strategy \in {"nil", "skip", "retry"} : WithErrorStrategy(strategy)
    \/ \E given \in BOOLEAN, config \in KafkaConfigs :
          SubscribeWithKafkaConfig(given, config) \/ PublishWithKafkaConfig(given, config)
    \/ WithoutIdempotence \/ WithAcksLeader
    \/ SubscribeNew \/ PublishNew \/ NewRetryStrategy
    \/ Initialize \/ NewConsumer \/ Connect \/ Built

Spec == Init /\ [][Next]_vars

-----------------------------------------------------------------------------
(***************************************************************************)
(* Properties.                                                             *)
(***************************************************************************)

HasProducer == producer # NoKeys
HasConsumer == consumer # NoKeys

\* The settings at-least-once rests on are the library's, though New writes the
\* caller's map over the configuration last: offsets are stored by the
\* subscriber only, the background committer runs only if it was asked for, and
\* a revocation takes every partition.
OffsetsAreTheLibrarys ==
    HasConsumer =>
        /\ consumer["enable.auto.offset.store"] = Flag(FALSE)
        /\ consumer["enable.auto.commit"] = Flag("WithAutoCommitEvery" \in used)
        /\ consumer["partition.assignment.strategy"] = Word("range,roundrobin")
        /\ consumer["bootstrap.servers"] = Word("brokers")
        /\ "group.protocol" \notin DOMAIN consumer

\* What librdkafka requires of the settings the library makes holds in every
\* configuration it asks for a producer with, and every wait is bounded:
\* idempotence goes with acks=all and at most five requests in flight, and a
\* timeout is never cut down to zero, which would mean none.
ProducerIsViable ==
    HasProducer =>
        /\ producer["enable.idempotence"] = Flag(TRUE) =>
              /\ producer["acks"] = Word("all")
              /\ InFlight \in DOMAIN producer => producer[InFlight].n <= 5
        /\ producer["message.timeout.ms"].n \in 1 .. MaxInt32

\* A subscriber's retry publisher connects the way its consumer does: a key of
\* the caller's map that a producer can share has the consumer's value in both,
\* and no other key of the map reaches the producer.
RetryPublisherInherits ==
    HasConsumer /\ sub.strategy = "retry" =>
        \A key \in DOMAIN sub.kafkaConfig :
            IF ManagedKey(key) \/ isConsumerOnly(key)
            THEN key \notin DOMAIN pub.kafkaConfig
            ELSE key \in DOMAIN producer /\ producer[key] = consumer[key]

\* Of the checks the library makes in Start, a configuration that subscribe.New
\* accepts can fail one only: the limit on requests in flight of an idempotent
\* producer.  Whatever else keeps the retry strategy from its publisher is
\* librdkafka's refusal, and never over a key that only a consumer has: each key
\* it saw is the publisher's own, or is shared and as the caller set it.
StartFailsOverSharedKeysOnly ==
    /\ stage = "start failed" =>
          /\ InFlight \in DOMAIN sub.kafkaConfig
          /\ ~integerValue(sub.kafkaConfig[InFlight]) \/ sub.kafkaConfig[InFlight].n > 5
    /\ stage = "start refused" /\ sub.strategy = "retry" =>
          \A key \in DOMAIN producer :
              \/ ManagedKey(key)
              \/ /\ ~isConsumerOnly(key) /\ key \in DOMAIN sub.kafkaConfig
                 /\ producer[key] = sub.kafkaConfig[key]

=============================================================================
