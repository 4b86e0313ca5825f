--------------------------- MODULE OptionsProofs ---------------------------
(***************************************************************************)
(* What subscribe.New, publish.New and Start make of a caller's options,   *)
(* for any options in any order, any maps of librdkafka properties and any *)
(* limits.                                                                 *)
(***************************************************************************)
EXTENDS Options, TLAPS

Subs == [topic : {"", "name"}, brokers : {<<>>} \cup BrokerLists, group : {"", "name"},
         handler : BOOLEAN, batchHandler : BOOLEAN, mode : {"", "single", "batch"},
         batchSize : Int, batchTimeout : Int, pollTimeout : Int, autoCommitEvery : Int,
         strategy : {"unset", "skip", "retry"}, kafkaConfig : {NoKeys} \cup KafkaConfigs]

Pubs == [brokers : {<<>>} \cup BrokerLists, idempotence : BOOLEAN, acksLeader : BOOLEAN,
         kafkaConfig : {NoKeys} \cup KafkaConfigs
                       \cup {PublisherConfig(config) : config \in {NoKeys} \cup KafkaConfigs},
         partitioner : {"default", "chosen"}, deliveryTimeout : Int]

\* What the options leave in a subscriber's configuration.
SubInv ==
    /\ sub \in Subs
    /\ sub.brokers # <<>> => BrokersOK(sub.brokers)
    /\ DOMAIN sub.kafkaConfig \cap managedKafkaKeys = {}
    /\ sub.autoCommitEvery > 0 <=> "WithAutoCommitEvery" \in used
    /\ stage \in {"subscriber", "initialized", "created", "started", "start failed", "start refused"} =>
          sub.brokers # <<>> /\ sub.topic # "" /\ sub.group # ""

\* What they leave in a publisher's.  The retry strategy's takes its map from
\* the subscriber's.
PubInv ==
    /\ pub \in Pubs
    /\ TimeoutOK(pub.deliveryTimeout)
    /\ pub.acksLeader => ~pub.idempotence

\* The one check of the library that Start can fail.
FailedInFlight ==
    stage = "start failed" =>
        /\ InFlight \in DOMAIN sub.kafkaConfig
        /\ ~integerValue(sub.kafkaConfig[InFlight]) \/ sub.kafkaConfig[InFlight].n > 5

\* What the clients are built from.
ClientInv ==
    /\ producer # NoKeys => producer = ConfigMap(pub) /\ validate(pub)
    /\ stage \in {"subscribe", "publish", "strategy", "subscriber", "refused", "start failed"} => producer = NoKeys
    /\ consumer # NoKeys => consumer = ConsumerMap /\ stage \in {"created", "started", "start refused"}
    /\ stage = "initialized" => sub.strategy = "retry"
    /\ stage \in {"initialized", "created", "started", "start refused"} /\ sub.strategy = "retry" =>
          pub.kafkaConfig = PublisherConfig(sub.kafkaConfig) /\ producer = ConfigMap(pub)
    /\ FailedInFlight

OptInv == SubInv /\ PubInv /\ ClientInv

-----------------------------------------------------------------------------
(***************************************************************************)
(* The options.                                                            *)
(***************************************************************************)

\* An option of subscribe.New that is refused, or that leaves what the invariant
\* says of the configuration.
LEMMA SubscribeOption ==
  ASSUME OptInv, NEW name, NEW valid \in BOOLEAN, NEW new, Subscribe(name, valid, new),
         valid => /\ new \in Subs
                  /\ new.brokers = sub.brokers \/ BrokersOK(new.brokers)
                  /\ DOMAIN new.kafkaConfig \cap managedKafkaKeys = {}
                  /\ IF name = "WithAutoCommitEvery" THEN new.autoCommitEvery > 0
                     ELSE new.autoCommitEvery = sub.autoCommitEvery
  PROVE  OptInv'
<1>1. CASE valid
  <2>1. /\ stage = "subscribe" /\ sub' = new /\ UNCHANGED <<stage, pub, retry, producer, consumer>>
        /\ used' = used \cup ({name} \cap Kept)
    BY <1>1 DEF Subscribe, Apply
  <2>2. SubInv'
    BY <1>1, <2>1 DEF OptInv, SubInv, Kept
  <2>3. PubInv'
    BY <2>1 DEF OptInv, PubInv, TimeoutOK
  <2>4. ClientInv'
    BY <2>1 DEF OptInv, ClientInv, FailedInFlight
  <2> QED
    BY <2>2, <2>3, <2>4 DEF OptInv
<1>2. CASE ~valid
  <2>1. stage = "subscribe" /\ stage' = "refused" /\ UNCHANGED <<sub, pub, retry, used, producer, consumer>>
    BY <1>2 DEF Subscribe, Apply
  <2> QED
    BY <2>1 DEF OptInv, SubInv, PubInv, TimeoutOK, ClientInv, FailedInFlight
<1> QED
  BY <1>1, <1>2

\* An option of publish.New sets fields of its configuration.
LEMMA PublishSets ==
  ASSUME OptInv, PubInv', stage = "publish", UNCHANGED <<stage, sub, producer, consumer>>,
         "WithAutoCommitEvery" \in used' <=> "WithAutoCommitEvery" \in used
  PROVE  OptInv'
<1>1. SubInv'
  BY DEF OptInv, SubInv
<1>2. ClientInv'
  BY DEF OptInv, ClientInv, FailedInFlight
<1> QED
  BY <1>1, <1>2 DEF OptInv

\* It does, or New fails.
LEMMA PublishOption ==
  ASSUME OptInv, NEW name, name # "WithAutoCommitEvery", NEW valid \in BOOLEAN, NEW new,
         Publish(name, valid, new),
         valid => /\ new \in Pubs
                  /\ TimeoutOK(new.deliveryTimeout)
                  /\ new.acksLeader => ~new.idempotence
  PROVE  OptInv'
<1>1. CASE valid
  <2>1. /\ stage = "publish" /\ pub' = new /\ UNCHANGED <<stage, sub, retry, producer, consumer>>
        /\ used' = used \cup ({name} \cap Kept)
    BY <1>1 DEF Publish, Apply
  <2>2. PubInv'
    BY <1>1, <2>1 DEF PubInv, TimeoutOK
  <2> QED
    BY <2>1, <2>2, PublishSets
<1>2. CASE ~valid
  <2>1. stage = "publish" /\ stage' = "refused" /\ UNCHANGED <<sub, pub, retry, used, producer, consumer>>
    BY <1>2 DEF Publish, Apply
  <2> QED
    BY <2>1 DEF OptInv, SubInv, PubInv, TimeoutOK, ClientInv, FailedInFlight
<1> QED
  BY <1>1, <1>2

\* An option of NewRetryStrategy changes nothing of the clients.
LEMMA RetryOption ==
  ASSUME OptInv, NEW name, name # "WithAutoCommitEvery", NEW valid, NEW new, Retry(name, valid, new)
  PROVE  OptInv'
<1>1. /\ stage = "strategy" /\ stage' \in {"strategy", "refused"} /\ UNCHANGED <<sub, pub, producer, consumer>>
      /\ used' = used \cup ({name} \cap Kept) \/ used' = used
  BY DEF Retry, Apply
<1> QED
  BY <1>1 DEF OptInv, SubInv, PubInv, TimeoutOK, ClientInv, FailedInFlight

\* Nothing happens.
LEMMA Stutters == OptInv /\ UNCHANGED vars => OptInv'
<1> SUFFICES ASSUME OptInv, UNCHANGED vars PROVE OptInv'
  OBVIOUS
<1>1. UNCHANGED <<stage, sub, pub, retry, used, producer, consumer>>
  BY DEF vars
<1>2. SubInv'
  BY <1>1 DEF OptInv, SubInv
<1>3. PubInv'
  BY <1>1 DEF OptInv, PubInv
<1>4. ConsumerMap' = ConsumerMap
  BY <1>1 DEF ConsumerMap
<1>5. ClientInv'
  BY <1>1, <1>4 DEF OptInv, ClientInv, FailedInFlight
<1> QED
  BY <1>2, <1>3, <1>5 DEF OptInv

\* WithBatchHandler, whatever defaults it fills in.
LEMMA BatchHandlerOption ==
  ASSUME OptInv, NEW given \in BOOLEAN, WithBatchHandler(given)
  PROVE  OptInv'
<1> DEFINE size == Defaulted(sub.batchSize, 100)
           d    == Defaulted(sub.batchTimeout, 5000 * Ms)
           new  == [sub EXCEPT !.batchHandler = TRUE, !.mode = "batch", !.batchSize = size, !.batchTimeout = d]
<1>1. sub \in Subs /\ DOMAIN sub.kafkaConfig \cap managedKafkaKeys = {}
  BY DEF OptInv, SubInv
<1>2. size \in Int /\ d \in Int
  <2>1. sub.batchSize \in Int /\ sub.batchTimeout \in Int
    BY <1>1 DEF Subs
  <2> QED
    BY ONLY <2>1 DEF Defaulted, Ms
<1>3. Subscribe("WithBatchHandler", given, new)
  BY DEF WithBatchHandler
<1> HIDE DEF size, d
<1>4. new \in Subs
  BY <1>1, <1>2 DEF Subs
<1>5. /\ new.brokers = sub.brokers /\ new.kafkaConfig = sub.kafkaConfig
      /\ new.autoCommitEvery = sub.autoCommitEvery
  BY <1>1 DEF Subs
<1> HIDE DEF new
<1> QED
  BY <1>1, <1>3, <1>4, <1>5, SubscribeOption

\* Every option of subscribe.New.
LEMMA SubscribeOptions ==
  ASSUME OptInv, [Next]_vars, stage = "subscribe", ~SubscribeNew
  PROVE  OptInv'
<1>0. /\ sub \in Subs /\ DOMAIN sub.kafkaConfig \cap managedKafkaKeys = {} /\ DOMAIN NoKeys = {}
      /\ Sizes \subseteq Int /\ Durations \subseteq Int
  BY OptionsAssumption DEF OptInv, SubInv, NoKeys
<1>1. ASSUME NEW name \in {"", "name"}, WithTopic(name) \/ WithConsumerGroup(name)
      PROVE  OptInv'
  <2>1. [sub EXCEPT !.topic = name] \in Subs /\ [sub EXCEPT !.group = name] \in Subs
    BY <1>0, <1>1 DEF Subs
  <2> QED
    BY <1>0, <1>1, <2>1, SubscribeOption DEF WithTopic, WithConsumerGroup, Subs
<1>2. ASSUME NEW brokers \in BrokerLists, SubscribeWithBrokers(brokers)
      PROVE  OptInv'
  <2>1. [sub EXCEPT !.brokers = brokers] \in Subs
    BY <1>0, <1>2 DEF Subs
  <2>2. BrokersOK(brokers) \in BOOLEAN
    BY DEF BrokersOK
  <2> QED
    BY <1>0, <1>2, <2>1, <2>2, SubscribeOption DEF SubscribeWithBrokers, Subs
<1>3. ASSUME NEW given \in BOOLEAN, WithHandler(given) \/ WithBatchHandler(given) \/ WithConsumerFactory(given)
      PROVE  OptInv'
  <2>1. [sub EXCEPT !.handler = TRUE, !.mode = "single"] \in Subs
    BY <1>0 DEF Subs
  <2>4. CASE WithHandler(given)
    <3> DEFINE new == [sub EXCEPT !.handler = TRUE, !.mode = "single"]
    <3>1. Subscribe("WithHandler", given, new) /\ new \in Subs
      BY <2>1, <2>4 DEF WithHandler
    <3>2. /\ new.brokers = sub.brokers /\ new.kafkaConfig = sub.kafkaConfig
          /\ new.autoCommitEvery = sub.autoCommitEvery
      BY <1>0 DEF Subs
    <3> HIDE DEF new
    <3> QED
      BY <1>0, <1>3, <3>1, <3>2, SubscribeOption
  <2>5. CASE WithBatchHandler(given)
    BY <1>3, <2>5, BatchHandlerOption
  <2>6. CASE WithConsumerFactory(given)
    BY <1>0, <1>3, <2>6, SubscribeOption DEF WithConsumerFactory
  <2> QED
    BY <1>3, <2>4, <2>5, <2>6
<1>4. ASSUME NEW size \in Sizes, WithBatchSize(size)
      PROVE  OptInv'
  <2>1. [sub EXCEPT !.batchSize = size] \in Subs
    BY <1>0, <1>4 DEF Subs
  <2>2. (size > 0) \in BOOLEAN
    OBVIOUS
  <2> QED
    BY <1>0, <1>4, <2>1, <2>2, SubscribeOption DEF WithBatchSize, Subs
<1>5. ASSUME NEW d \in Durations, WithBatchTimeout(d) \/ WithPollTimeout(d) \/ WithAutoCommitEvery(d)
      PROVE  OptInv'
  <2>1. /\ [sub EXCEPT !.batchTimeout = d] \in Subs
        /\ [sub EXCEPT !.pollTimeout = d] \in Subs
        /\ [sub EXCEPT !.autoCommitEvery = d] \in Subs
    BY <1>0, <1>5 DEF Subs
  <2>0. (d > 0) \in BOOLEAN /\ (d >= 10 * Ms) \in BOOLEAN
    OBVIOUS
  <2>2. CASE WithBatchTimeout(d)
    <3> DEFINE new == [sub EXCEPT !.batchTimeout = d]
    <3>1. Subscribe("WithBatchTimeout", d > 0, new) /\ new \in Subs
      BY <2>1, <2>2 DEF WithBatchTimeout
    <3>2. /\ new.brokers = sub.brokers /\ new.kafkaConfig = sub.kafkaConfig
          /\ new.autoCommitEvery = sub.autoCommitEvery
      BY <1>0 DEF Subs
    <3> HIDE DEF new
    <3> QED
      BY <1>0, <2>0, <3>1, <3>2, SubscribeOption
  <2>3. CASE WithPollTimeout(d)
    <3> DEFINE new == [sub EXCEPT !.pollTimeout = d]
    <3>1. Subscribe("WithPollTimeout", d >= 10 * Ms, new) /\ new \in Subs
      BY <2>1, <2>3 DEF WithPollTimeout
    <3>2. /\ new.brokers = sub.brokers /\ new.kafkaConfig = sub.kafkaConfig
          /\ new.autoCommitEvery = sub.autoCommitEvery
      BY <1>0 DEF Subs
    <3> HIDE DEF new
    <3> QED
      BY <1>0, <2>0, <3>1, <3>2, SubscribeOption
  <2>4. CASE WithAutoCommitEvery(d)
    <3> DEFINE new == [sub EXCEPT !.autoCommitEvery = d]
    <3>1. Subscribe("WithAutoCommitEvery", d > 0, new) /\ new \in Subs
      BY <2>1, <2>4 DEF WithAutoCommitEvery
    <3>2. new.brokers = sub.brokers /\ new.kafkaConfig = sub.kafkaConfig /\ new.autoCommitEvery = d
      BY <1>0 DEF Subs
    <3> HIDE DEF new
    <3> QED
      BY <1>0, <2>0, <3>1, <3>2, SubscribeOption
  <2> QED
    BY <1>5, <2>2, <2>3, <2>4
<1>6. ASSUME NEW strategy \in {"nil", "skip", "retry"}, WithErrorStrategy(strategy)
      PROVE  OptInv'
  <2>1. strategy # "nil" => [sub EXCEPT !.strategy = strategy] \in Subs
    BY <1>0, <1>6 DEF Subs
  <2> QED
    BY <1>0, <1>6, <2>1, SubscribeOption DEF WithErrorStrategy, Subs
<1>7. ASSUME NEW given \in BOOLEAN, NEW config \in KafkaConfigs, SubscribeWithKafkaConfig(given, config)
      PROVE  OptInv'
  <2>1. [sub EXCEPT !.kafkaConfig = config] \in Subs
    BY <1>0, <1>7 DEF Subs
  <2> QED
    BY <1>0, <1>7, <2>1, SubscribeOption DEF SubscribeWithKafkaConfig, Subs
<1>8. ~UNCHANGED vars \/ OptInv'
  BY Stutters
<1> QED
  BY <1>1, <1>2, <1>3, <1>4, <1>5, <1>6, <1>7, <1>8
     DEF Next, WithRetryTopic, WithDLQTopic, PublishWithBrokers, WithPartitioner, WithFunc, WithRetryFunc,
         WithMaxAttempts, WithDeliveryTimeout, WithInitialDelay, WithMaxDelay, WithBackoffMultiplier,
         PublishWithKafkaConfig, WithoutIdempotence, WithAcksLeader, PublishNew, NewRetryStrategy, Initialize,
         NewConsumer, Connect, Built, Publish, Retry

\* Every option of publish.New.
LEMMA PublishOptions ==
  ASSUME OptInv, [Next]_vars, stage = "publish", ~PublishNew
  PROVE  OptInv'
<1>0. PubInv /\ Durations \subseteq Int
  BY OptionsAssumption DEF OptInv
<1>1. ASSUME NEW brokers \in BrokerLists, PublishWithBrokers(brokers)
      PROVE  OptInv'
  <2>1. BrokersOK(brokers) \in BOOLEAN
    BY DEF BrokersOK
  <2> QED
    BY <1>0, <1>1, <2>1, PublishOption DEF PublishWithBrokers, PubInv, Pubs
<1>2. ASSUME NEW given \in BOOLEAN, WithPartitioner(given) \/ WithFunc(given)
      PROVE  OptInv'
  BY <1>0, <1>2, PublishOption DEF WithPartitioner, WithFunc, PubInv, Pubs
<1>3. ASSUME NEW d \in Durations, WithDeliveryTimeout(d)
      PROVE  OptInv'
  <2>1. TimeoutOK(d) \in BOOLEAN /\ d \in Int
    BY <1>0, <1>3 DEF TimeoutOK
  <2> DEFINE new == [pub EXCEPT !.deliveryTimeout = d]
  <2>2. Publish("WithDeliveryTimeout", TimeoutOK(d), new)
    BY <1>3 DEF WithDeliveryTimeout
  <2>3. new \in Pubs /\ new.deliveryTimeout = d
    BY <1>0, <2>1 DEF PubInv, Pubs
  <2>4. new.acksLeader = pub.acksLeader /\ new.idempotence = pub.idempotence
    BY <1>0 DEF PubInv, Pubs
  <2>5. pub.acksLeader => ~pub.idempotence
    BY <1>0 DEF PubInv
  <2> HIDE DEF new
  <2> QED
    BY <2>1, <2>2, <2>3, <2>4, <2>5, PublishOption
<1>4. ASSUME NEW given \in BOOLEAN, NEW config \in KafkaConfigs, PublishWithKafkaConfig(given, config)
      PROVE  OptInv'
  <2>1. (given /\ KafkaConfigOK(config)) \in BOOLEAN
    BY DEF KafkaConfigOK
  <2> QED
    BY <1>0, <1>4, <2>1, PublishOption DEF PublishWithKafkaConfig, PubInv, Pubs
<1>5. CASE WithoutIdempotence \/ WithAcksLeader
  <2>1. /\ UNCHANGED <<stage, sub, producer, consumer>>
        /\ pub' = [pub EXCEPT !.idempotence = FALSE]
              \/ pub' = [pub EXCEPT !.acksLeader = TRUE, !.idempotence = FALSE]
        /\ used' \subseteq used \cup {"WithoutIdempotence", "WithAcksLeader"} /\ used \subseteq used'
    BY <1>5 DEF WithoutIdempotence, WithAcksLeader, Publish, Apply
  <2>2. PubInv'
    BY <1>0, <2>1 DEF PubInv, Pubs, TimeoutOK
  <2> QED
    BY <2>1, <2>2, PublishSets
<1>6. ~UNCHANGED vars \/ OptInv'
  BY Stutters
<1> QED
  BY <1>1, <1>2, <1>3, <1>4, <1>5, <1>6
     DEF Next, WithTopic, WithConsumerGroup, WithRetryTopic, WithDLQTopic, SubscribeWithBrokers, WithHandler,
         WithBatchHandler, WithConsumerFactory, WithRetryFunc, WithBatchSize, WithMaxAttempts, WithBatchTimeout,
         WithPollTimeout, WithAutoCommitEvery, WithInitialDelay, WithMaxDelay, WithBackoffMultiplier,
         WithErrorStrategy, SubscribeWithKafkaConfig, SubscribeNew, NewRetryStrategy, Initialize,
         NewConsumer, Connect, Built, Subscribe, Retry

-----------------------------------------------------------------------------
(***************************************************************************)
(* The clients.                                                            *)
(***************************************************************************)

\* subscribe.New.
LEMMA SubscriberBuilt ==
  ASSUME OptInv, SubscribeNew
  PROVE  OptInv'
<1>1. /\ stage = "subscribe" /\ stage' \in {"subscriber", "refused"}
      /\ UNCHANGED <<pub, retry, used, producer, consumer>>
      /\ \/ stage' = "refused" /\ sub' = sub
         \/ Validate(sub) /\ sub' = ApplyDefaults(sub)
  BY DEF SubscribeNew
<1>2. sub \in Subs
  BY DEF OptInv, SubInv
<1>3. ApplyDefaults(sub) \in Subs
  <2>1. sub.pollTimeout \in Int /\ sub.strategy \in {"unset", "skip", "retry"}
    BY <1>2 DEF Subs
  <2>2. 100 * Ms \in Int
    BY DEF Ms
  <2>3. PICK d \in Int, s \in {"unset", "skip", "retry"} :
          ApplyDefaults(sub) = [sub EXCEPT !.pollTimeout = d, !.strategy = s]
    BY <1>2, <2>1, <2>2 DEF ApplyDefaults, Subs
  <2>4. [sub EXCEPT !.pollTimeout = d, !.strategy = s] \in Subs
    BY <1>2 DEF Subs
  <2> QED
    BY <2>3, <2>4
<1>4. LET new == ApplyDefaults(sub)
      IN  /\ new.brokers = sub.brokers /\ new.kafkaConfig = sub.kafkaConfig /\ new.topic = sub.topic
          /\ new.group = sub.group /\ new.autoCommitEvery = sub.autoCommitEvery
  BY <1>2 DEF Subs, ApplyDefaults
<1>5. SubInv'
  BY <1>1, <1>3, <1>4 DEF OptInv, SubInv, Validate
<1>6. PubInv' /\ ClientInv'
  BY <1>1 DEF OptInv, PubInv, TimeoutOK, ClientInv, FailedInFlight
<1> QED
  BY <1>5, <1>6 DEF OptInv

\* publish.New.
LEMMA PublisherBuilt ==
  ASSUME OptInv, PublishNew
  PROVE  OptInv'
<1>1. /\ stage = "publish" /\ UNCHANGED <<sub, pub, retry, used, consumer>>
      /\ \/ stage' = "refused" /\ producer' = producer
         \/ stage' \in {"publisher", "no publisher"} /\ validate(pub) /\ producer' = ConfigMap(pub)
  BY DEF PublishNew, NewProducer
<1>2. SubInv' /\ PubInv'
  BY <1>1 DEF OptInv, SubInv, PubInv, TimeoutOK
<1>3. ClientInv'
  BY <1>1 DEF OptInv, ClientInv, FailedInFlight
<1> QED
  BY <1>2, <1>3 DEF OptInv

\* NewRetryStrategy builds no client.
LEMMA StrategyBuilt ==
  ASSUME OptInv, NewRetryStrategy
  PROVE  OptInv'
<1>1. /\ stage = "strategy" /\ stage' \in {"retry strategy", "refused"}
      /\ UNCHANGED <<sub, pub, retry, used, producer, consumer>>
  BY DEF NewRetryStrategy
<1> QED
  BY <1>1 DEF OptInv, SubInv, PubInv, TimeoutOK, ClientInv, FailedInFlight

\* The retry strategy's publisher takes nothing from the subscriber's map that
\* publish.New refuses.
LEMMA InheritedIsAccepted ==
  ASSUME NEW config
  PROVE  KafkaConfigOK(PublisherConfig(config))
  BY DEF KafkaConfigOK, PublisherConfig, Restrict

\* The configuration publish.New starts from.
LEMMA DefaultPublisher ==
  /\ defaultConfig \in Pubs
  /\ defaultConfig.idempotence /\ ~defaultConfig.acksLeader
  /\ defaultConfig.deliveryTimeout = 30000 * Ms
<1>1. 30000 * Ms \in Int
  BY DEF Ms
<1> DEFINE timeout == 30000 * Ms
           maps    == {NoKeys} \cup KafkaConfigs
                         \cup {PublisherConfig(config) : config \in {NoKeys} \cup KafkaConfigs}
<1>2. NoKeys \in maps
  OBVIOUS
<1>3. defaultConfig = [brokers |-> <<>>, kafkaConfig |-> NoKeys, idempotence |-> TRUE,
                       acksLeader |-> FALSE, partitioner |-> "default", deliveryTimeout |-> timeout]
  BY DEF defaultConfig
<1>4. Pubs = [brokers : {<<>>} \cup BrokerLists, idempotence : BOOLEAN, acksLeader : BOOLEAN,
              kafkaConfig : maps, partitioner : {"default", "chosen"}, deliveryTimeout : Int]
  BY DEF Pubs
<1> HIDE DEF timeout, maps
<1>5. defaultConfig \in Pubs
  BY <1>1, <1>2, <1>3, <1>4 DEF timeout
<1>6. defaultConfig.idempotence /\ ~defaultConfig.acksLeader /\ defaultConfig.deliveryTimeout = timeout
  BY <1>3
<1> QED
  BY <1>5, <1>6 DEF timeout

\* Its Initialize.
LEMMA Initialized ==
  ASSUME OptInv, Initialize
  PROVE  OptInv'
<1> DEFINE inherited == PublisherConfig(sub.kafkaConfig)
           lists     == {<<>>} \cup BrokerLists
           maps      == {NoKeys} \cup KafkaConfigs
                           \cup {PublisherConfig(config) : config \in {NoKeys} \cup KafkaConfigs}
           built     == [defaultConfig EXCEPT !.brokers = sub.brokers, !.kafkaConfig = inherited]
<1>0. /\ sub \in Subs /\ BrokersOK(sub.brokers) /\ stage = "subscriber" /\ sub.strategy = "retry"
      /\ UNCHANGED <<sub, retry, used, consumer>>
  BY DEF OptInv, SubInv, Initialize
<1>01. sub.brokers \in lists /\ sub.kafkaConfig \in {NoKeys} \cup KafkaConfigs
  BY <1>0 DEF Subs
<1>02. inherited \in maps
  BY <1>01
<1>03. Pubs = [brokers : lists, idempotence : BOOLEAN, acksLeader : BOOLEAN,
               kafkaConfig : maps, partitioner : {"default", "chosen"}, deliveryTimeout : Int]
  BY DEF Pubs
<1>4. \/ /\ stage' \in {"initialized", "start refused"}
         /\ pub' = built /\ producer' = ConfigMap(built) /\ validate(built)
      \/ stage' = "start failed" /\ UNCHANGED <<pub, producer>> /\ ~validate(built)
  BY <1>0, InheritedIsAccepted DEF Initialize, NewProducer
<1> HIDE DEF inherited, lists, maps
<1>04. defaultConfig \in Pubs
  BY DefaultPublisher
<1>2. built \in Pubs
  BY ONLY <1>01, <1>02, <1>03, <1>04
<1>1. built.brokers = sub.brokers /\ built.kafkaConfig = inherited
  BY ONLY <1>03, <1>04
<1>11. /\ built.idempotence = defaultConfig.idempotence /\ built.acksLeader = defaultConfig.acksLeader
       /\ built.deliveryTimeout = defaultConfig.deliveryTimeout
  BY ONLY <1>03, <1>04
<1> HIDE DEF built
<1>12. built.idempotence /\ ~built.acksLeader /\ built.deliveryTimeout = 30000 * Ms
  BY ONLY <1>11, DefaultPublisher
<1>3. TimeoutOK(30000 * Ms)
  BY OptionsAssumption DEF TimeoutOK, Ms
<1>5. SubInv'
  BY <1>0, <1>4 DEF OptInv, SubInv
<1>6. CASE stage' \in {"initialized", "start refused"}
  <2>1. pub' = built /\ producer' = ConfigMap(built) /\ validate(built)
    BY <1>4, <1>6
  <2>2. PubInv'
    BY <1>2, <1>3, <1>12, <2>1 DEF PubInv, TimeoutOK
  <2>3. consumer = NoKeys /\ consumer' = NoKeys
    BY <1>0 DEF OptInv, ClientInv
  <2>4. ClientInv'
    BY <1>0, <1>1, <1>6, <2>1, <2>3 DEF ClientInv, FailedInFlight, inherited
  <2> QED
    BY <1>5, <2>2, <2>4 DEF OptInv
<1>7. CASE stage' = "start failed"
  <2>1. UNCHANGED <<pub, producer>> /\ ~checkInFlightForIdempotence(built)
    <3>1. UNCHANGED <<pub, producer>> /\ ~validate(built)
      BY <1>4, <1>7
    <3>2. built.brokers # <<>>
      BY <1>0, <1>1 DEF BrokersOK
    <3> QED
      BY <1>12, <3>1, <3>2 DEF validate
  <2>2. InFlight \in DOMAIN sub.kafkaConfig /\ built.kafkaConfig[InFlight] = sub.kafkaConfig[InFlight]
    BY <1>1, <2>1 DEF checkInFlightForIdempotence, PublisherConfig, Restrict, inherited
  <2>3. ~integerValue(sub.kafkaConfig[InFlight]) \/ ~(sub.kafkaConfig[InFlight].n <= 5)
    BY <2>1, <2>2 DEF checkInFlightForIdempotence
  <2>4. sub.kafkaConfig[InFlight].n \in Int
    <3>1. DOMAIN NoKeys = {}
      BY DEF NoKeys
    <3>2. sub.kafkaConfig \in KafkaConfigs
      BY <1>0, <2>2, <3>1 DEF Subs
    <3> QED
      BY <2>2, <3>2, OptionsAssumption
  <2>5. ~integerValue(sub.kafkaConfig[InFlight]) \/ sub.kafkaConfig[InFlight].n > 5
    BY <2>3, <2>4
  <2>6. FailedInFlight'
    BY <1>0, <2>2, <2>5 DEF FailedInFlight
  <2>7. PubInv'
    BY <2>1 DEF OptInv, PubInv, TimeoutOK
  <2>8. ClientInv'
    BY <1>0, <1>7, <2>1, <2>6 DEF OptInv, ClientInv
  <2> QED
    BY <1>5, <2>7, <2>8 DEF OptInv
<1> QED
  BY <1>4, <1>6, <1>7

\* Start builds the consumer.
LEMMA ConsumerBuilt ==
  ASSUME OptInv, NewConsumer
  PROVE  OptInv'
<1>1. /\ stage = "initialized" \/ (stage = "subscriber" /\ sub.strategy # "retry")
      /\ stage' = "created" /\ consumer' = ConsumerMap /\ UNCHANGED <<sub, pub, retry, used, producer>>
  BY DEF OptInv, SubInv, NewConsumer
<1>2. ConsumerMap' = ConsumerMap
  <2>1. sub' = sub
    BY <1>1
  <2> QED
    BY ONLY <2>1 DEF ConsumerMap
<1>3. SubInv' /\ PubInv'
  BY <1>1 DEF OptInv, SubInv, PubInv, TimeoutOK
<1>4. ClientInv'
  BY <1>1, <1>2 DEF OptInv, ClientInv, FailedInFlight
<1> QED
  BY <1>3, <1>4 DEF OptInv

\* Connect hands it to librdkafka.
LEMMA Connected ==
  ASSUME OptInv, Connect
  PROVE  OptInv'
<1>1. /\ stage = "created" /\ stage' \in {"started", "start refused"}
      /\ UNCHANGED <<sub, pub, retry, used, producer, consumer>>
  BY DEF Connect
<1>2. ConsumerMap' = ConsumerMap
  <2>1. sub' = sub
    BY <1>1
  <2> QED
    BY ONLY <2>1 DEF ConsumerMap
<1>3. SubInv' /\ PubInv'
  BY <1>1 DEF OptInv, SubInv, PubInv, TimeoutOK
<1>4. ClientInv'
  BY <1>1, <1>2 DEF OptInv, ClientInv, FailedInFlight
<1> QED
  BY <1>3, <1>4 DEF OptInv

-----------------------------------------------------------------------------
(***************************************************************************)
(* The invariant.                                                          *)
(***************************************************************************)

\* Every option of NewRetryStrategy.
LEMMA RetryOptions ==
  ASSUME OptInv, [Next]_vars, stage = "strategy", ~NewRetryStrategy
  PROVE  OptInv'
<1>1. ASSUME NEW name, WithRetryTopic(name) \/ WithDLQTopic(name)
      PROVE  OptInv'
  BY <1>1, RetryOption DEF WithRetryTopic, WithDLQTopic
<1>2. ASSUME NEW n, WithMaxAttempts(n) \/ WithInitialDelay(n) \/ WithMaxDelay(n) \/ WithBackoffMultiplier(n)
      PROVE  OptInv'
  <2>1. CASE WithMaxAttempts(n)
    BY <2>1, RetryOption DEF WithMaxAttempts
  <2>2. CASE WithInitialDelay(n)
    BY <2>2, RetryOption DEF WithInitialDelay
  <2>3. CASE WithMaxDelay(n)
    BY <2>3, RetryOption DEF WithMaxDelay
  <2>4. CASE WithBackoffMultiplier(n)
    BY <2>4, RetryOption DEF WithBackoffMultiplier
  <2> QED
    BY <1>2, <2>1, <2>2, <2>3, <2>4
<1>3. ASSUME NEW given, WithRetryFunc(given)
      PROVE  OptInv'
  BY <1>3, RetryOption DEF WithRetryFunc
<1>4. ~UNCHANGED vars \/ OptInv'
  BY Stutters
<1>5. \A x : /\ ~WithTopic(x) /\ ~WithConsumerGroup(x) /\ ~SubscribeWithBrokers(x) /\ ~WithHandler(x)
             /\ ~WithBatchHandler(x) /\ ~WithConsumerFactory(x) /\ ~WithBatchSize(x)
  BY DEF WithTopic, WithConsumerGroup, SubscribeWithBrokers, WithHandler, WithBatchHandler,
         WithConsumerFactory, WithBatchSize, Subscribe
<1>6. \A x, y : /\ ~WithBatchTimeout(x) /\ ~WithPollTimeout(x) /\ ~WithAutoCommitEvery(x)
                /\ ~WithErrorStrategy(x) /\ ~SubscribeWithKafkaConfig(x, y)
  BY DEF WithBatchTimeout, WithPollTimeout, WithAutoCommitEvery, WithErrorStrategy,
         SubscribeWithKafkaConfig, Subscribe
<1>7. \A x, y : /\ ~PublishWithBrokers(x) /\ ~WithPartitioner(x) /\ ~WithFunc(x)
                /\ ~WithDeliveryTimeout(x) /\ ~PublishWithKafkaConfig(x, y)
  BY DEF PublishWithBrokers, WithPartitioner, WithFunc, WithDeliveryTimeout, PublishWithKafkaConfig, Publish
<1>8. ~WithoutIdempotence /\ ~WithAcksLeader
  BY DEF WithoutIdempotence, WithAcksLeader, Publish
<1>9. ~SubscribeNew /\ ~PublishNew /\ ~Initialize /\ ~NewConsumer /\ ~Connect /\ ~Built
  BY DEF SubscribeNew, PublishNew, Initialize, NewConsumer, Connect, Built
<1> QED
  BY <1>1, <1>2, <1>3, <1>4, <1>5, <1>6, <1>7, <1>8, <1>9 DEF Next

\* Once New has returned, only Start goes on.
LEMMA AfterNew ==
  ASSUME OptInv, [Next]_vars, stage \notin {"subscribe", "publish", "strategy"}
  PROVE  OptInv'
<1>1. \A x : /\ ~WithTopic(x) /\ ~WithConsumerGroup(x) /\ ~SubscribeWithBrokers(x) /\ ~WithHandler(x)
             /\ ~WithBatchHandler(x) /\ ~WithConsumerFactory(x) /\ ~WithBatchSize(x)
  BY DEF WithTopic, WithConsumerGroup, SubscribeWithBrokers, WithHandler, WithBatchHandler,
         WithConsumerFactory, WithBatchSize, Subscribe
<1>2. \A x, y : /\ ~WithBatchTimeout(x) /\ ~WithPollTimeout(x) /\ ~WithAutoCommitEvery(x)
                /\ ~WithErrorStrategy(x) /\ ~SubscribeWithKafkaConfig(x, y)
  BY DEF WithBatchTimeout, WithPollTimeout, WithAutoCommitEvery, WithErrorStrategy,
         SubscribeWithKafkaConfig, Subscribe
<1>3. \A x, y : /\ ~PublishWithBrokers(x) /\ ~WithPartitioner(x) /\ ~WithFunc(x)
                /\ ~WithDeliveryTimeout(x) /\ ~PublishWithKafkaConfig(x, y)
  BY DEF PublishWithBrokers, WithPartitioner, WithFunc, WithDeliveryTimeout, PublishWithKafkaConfig, Publish
<1>4. ~WithoutIdempotence /\ ~WithAcksLeader
  BY DEF WithoutIdempotence, WithAcksLeader, Publish
<1>5. \A x : /\ ~WithRetryTopic(x) /\ ~WithDLQTopic(x) /\ ~WithRetryFunc(x) /\ ~WithMaxAttempts(x)
             /\ ~WithInitialDelay(x) /\ ~WithMaxDelay(x) /\ ~WithBackoffMultiplier(x)
  BY DEF WithRetryTopic, WithDLQTopic, WithRetryFunc, WithMaxAttempts, WithInitialDelay, WithMaxDelay,
         WithBackoffMultiplier, Retry
<1>6. ~SubscribeNew /\ ~PublishNew /\ ~NewRetryStrategy
  BY DEF SubscribeNew, PublishNew, NewRetryStrategy
<1>7. Built => UNCHANGED vars
  BY DEF Built
<1>8. Initialize \/ NewConsumer \/ Connect \/ UNCHANGED vars
  BY <1>1, <1>2, <1>3, <1>4, <1>5, <1>6, <1>7 DEF Next
<1> QED
  BY <1>8, Initialized, ConsumerBuilt, Connected, Stutters

\* What New starts from.
LEMMA InitKeeps == Init => OptInv
<1> SUFFICES ASSUME Init PROVE OptInv
  OBVIOUS
<1> DEFINE lists == {<<>>} \cup BrokerLists
           maps  == {NoKeys} \cup KafkaConfigs
<1>1. NoKeys \in maps
  OBVIOUS
<1>2. Subs = [topic : {"", "name"}, brokers : lists, group : {"", "name"},
              handler : BOOLEAN, batchHandler : BOOLEAN, mode : {"", "single", "batch"},
              batchSize : Int, batchTimeout : Int, pollTimeout : Int, autoCommitEvery : Int,
              strategy : {"unset", "skip", "retry"}, kafkaConfig : maps]
  BY DEF Subs
<1>3. /\ stage \in {"subscribe", "publish", "strategy"} /\ sub = emptyConfig /\ pub = defaultConfig
      /\ used = {} /\ producer = NoKeys /\ consumer = NoKeys
  BY DEF Init
<1> DEFINE none == <<>>
           empty(b, k) == [topic |-> "", brokers |-> b, group |-> "", handler |-> FALSE,
                           batchHandler |-> FALSE, mode |-> "", batchSize |-> 0, batchTimeout |-> 0,
                           pollTimeout |-> 0, autoCommitEvery |-> 0, strategy |-> "unset",
                           kafkaConfig |-> k]
<1>31. none \in lists
  OBVIOUS
<1>32. emptyConfig = empty(none, NoKeys)
  BY DEF emptyConfig
<1> HIDE DEF lists, maps, none
<1>33. empty(none, NoKeys)
          \in [topic : {"", "name"}, brokers : lists, group : {"", "name"},
              handler : BOOLEAN, batchHandler : BOOLEAN, mode : {"", "single", "batch"},
              batchSize : Int, batchTimeout : Int, pollTimeout : Int, autoCommitEvery : Int,
              strategy : {"unset", "skip", "retry"}, kafkaConfig : maps]
  BY ONLY <1>1, <1>31
<1> HIDE DEF empty
<1>4. emptyConfig \in Subs
  BY ONLY <1>2, <1>32, <1>33
<1>5. emptyConfig.brokers = <<>> /\ emptyConfig.kafkaConfig = NoKeys /\ emptyConfig.autoCommitEvery = 0
  BY DEF emptyConfig
<1>6. DOMAIN NoKeys = {}
  BY DEF NoKeys
<1>7. SubInv
  <2>1. sub \in Subs /\ sub.brokers = <<>> /\ sub.kafkaConfig = NoKeys /\ sub.autoCommitEvery = 0
    BY <1>3, <1>4, <1>5
  <2>2. ~(sub.autoCommitEvery > 0) /\ "WithAutoCommitEvery" \notin used
    BY <1>3, <2>1
  <2>3. DOMAIN sub.kafkaConfig \cap managedKafkaKeys = {}
    BY <1>6, <2>1
  <2> QED
    BY <1>3, <2>1, <2>2, <2>3 DEF SubInv
<1>8. PubInv
  <2>1. TimeoutOK(30000 * Ms)
    BY OptionsAssumption DEF TimeoutOK, Ms
  <2> QED
    BY <1>3, <2>1, DefaultPublisher DEF PubInv
<1>9. ClientInv
  BY <1>3 DEF ClientInv, FailedInFlight
<1> QED
  BY <1>7, <1>8, <1>9 DEF OptInv

\* What the options leave, and what the clients are built from, in every state
\* of subscribe.New, publish.New, NewRetryStrategy and Start.
THEOREM OptionsInvariance == Spec => []OptInv
<1>1. OptInv /\ [Next]_vars => OptInv'
  BY SubscribeOptions, PublishOptions, RetryOptions, AfterNew, SubscriberBuilt, PublisherBuilt, StrategyBuilt
<1> QED
  BY InitKeeps, <1>1, PTL DEF Spec
-----------------------------------------------------------------------------
(***************************************************************************)
(* What it says of the clients.                                            *)
(***************************************************************************)

\* A key that the caller's map does not have is the library's.
LEMMA NotGiven ==
  ASSUME NEW own, NEW given, NEW key, key \notin DOMAIN given
  PROVE  /\ key \in DOMAIN Over(own, given) <=> key \in DOMAIN own
         /\ key \in DOMAIN own => Over(own, given)[key] = own[key]
  BY DEF Over

\* The consumer's configuration: the caller's map, and the library's settings.
LEMMA ConsumerKeys ==
  ASSUME DOMAIN sub.kafkaConfig \cap managedKafkaKeys = {}
  PROVE  /\ ConsumerMap["enable.auto.offset.store"] = Flag(FALSE)
         /\ ConsumerMap["enable.auto.commit"] = Flag(sub.autoCommitEvery > 0)
         /\ ConsumerMap["partition.assignment.strategy"] = Word("range,roundrobin")
         /\ ConsumerMap["bootstrap.servers"] = Word("brokers")
         /\ "group.protocol" \notin DOMAIN ConsumerMap
         /\ \A key \in DOMAIN sub.kafkaConfig : ConsumerMap[key] = sub.kafkaConfig[key]
<1> DEFINE keys == {"bootstrap.servers", "group.id", "auto.offset.reset", "enable.auto.commit",
                    "enable.auto.offset.store", "partition.assignment.strategy",
                    "reconnect.backoff.ms", "reconnect.backoff.max.ms"}
                   \cup (IF sub.autoCommitEvery > 0 THEN {"auto.commit.interval.ms"} ELSE {})
           off  == Flag(FALSE)
           auto == Flag(sub.autoCommitEvery > 0)
           value(key) ==
             CASE key = "bootstrap.servers"             -> Word("brokers")
               [] key = "group.id"                      -> Word("group")
               [] key = "auto.offset.reset"             -> Word("earliest")
               [] key = "enable.auto.commit"            -> auto
               [] key = "enable.auto.offset.store"      -> off
               [] key = "partition.assignment.strategy" -> Word("range,roundrobin")
               [] key = "auto.commit.interval.ms"       -> Number(sub.autoCommitEvery \div Ms)
               [] key = "reconnect.backoff.ms"          -> Number(100)
               [] OTHER                                 -> Number(10000)
           own == [key \in keys |-> value(key)]
<1>1. ConsumerMap = Over(own, sub.kafkaConfig)
  BY DEF ConsumerMap
<1>2. /\ {"bootstrap.servers", "enable.auto.commit", "enable.auto.offset.store",
          "partition.assignment.strategy"} \subseteq keys
      /\ "group.protocol" \notin keys
  OBVIOUS
<1>3. {"bootstrap.servers", "enable.auto.commit", "enable.auto.offset.store",
       "partition.assignment.strategy", "group.protocol"} \cap DOMAIN sub.kafkaConfig = {}
  BY DEF managedKafkaKeys
<1> HIDE DEF keys, off, auto
<1>4. /\ value("enable.auto.offset.store") = off /\ value("enable.auto.commit") = auto
      /\ value("partition.assignment.strategy") = Word("range,roundrobin")
      /\ value("bootstrap.servers") = Word("brokers")
  OBVIOUS
<1> HIDE DEF value
<1>5. DOMAIN own = keys /\ \A key \in keys : own[key] = value(key)
  OBVIOUS
<1> HIDE DEF own
<1>51. ASSUME NEW key, key \notin DOMAIN sub.kafkaConfig
       PROVE  /\ key \in DOMAIN ConsumerMap <=> key \in keys
              /\ key \in keys => ConsumerMap[key] = value(key)
  <2> DEFINE given == sub.kafkaConfig
  <2> HIDE DEF given
  <2>1. key \notin DOMAIN given /\ ConsumerMap = Over(own, given)
    BY <1>1, <1>51 DEF given
  <2>2. /\ key \in DOMAIN Over(own, given) <=> key \in DOMAIN own
        /\ key \in DOMAIN own => Over(own, given)[key] = own[key]
    BY ONLY <2>1, NotGiven
  <2> QED
    BY ONLY <1>5, <2>1, <2>2
<1>6. /\ ConsumerMap["enable.auto.offset.store"] = off /\ ConsumerMap["enable.auto.commit"] = auto
      /\ ConsumerMap["partition.assignment.strategy"] = Word("range,roundrobin")
      /\ ConsumerMap["bootstrap.servers"] = Word("brokers")
      /\ "group.protocol" \notin DOMAIN ConsumerMap
  <2>1. /\ ConsumerMap["enable.auto.offset.store"] = value("enable.auto.offset.store")
        /\ ConsumerMap["enable.auto.commit"] = value("enable.auto.commit")
        /\ ConsumerMap["partition.assignment.strategy"] = value("partition.assignment.strategy")
        /\ ConsumerMap["bootstrap.servers"] = value("bootstrap.servers")
        /\ "group.protocol" \notin DOMAIN ConsumerMap
    BY ONLY <1>2, <1>3, <1>51
  <2> QED
    BY ONLY <1>4, <2>1
<1>7. \A key \in DOMAIN sub.kafkaConfig : ConsumerMap[key] = sub.kafkaConfig[key]
  <2> DEFINE given == sub.kafkaConfig
  <2>1. ConsumerMap = Over(own, given)
    BY <1>1
  <2> HIDE DEF given
  <2>2. \A key \in DOMAIN given : Over(own, given)[key] = given[key]
    BY ONLY DEF Over
  <2>3. \A key \in DOMAIN given : ConsumerMap[key] = given[key]
    BY ONLY <2>1, <2>2
  <2> QED
    BY <2>3 DEF given
<1> QED
  BY <1>6, <1>7 DEF off, auto

\* A subscriber's offsets are stored by the library only and committed
\* in the background only if WithAutoCommitEvery asked for it, whatever map
\* WithKafkaConfig was given.
THEOREM OffsetsAlwaysTheLibrarys == Spec => []OffsetsAreTheLibrarys
<1>1. OptInv => OffsetsAreTheLibrarys
  <2> SUFFICES ASSUME OptInv, HasConsumer PROVE OffsetsAreTheLibrarys
    BY DEF OffsetsAreTheLibrarys
  <2>1. /\ DOMAIN sub.kafkaConfig \cap managedKafkaKeys = {} /\ consumer = ConsumerMap
        /\ sub.autoCommitEvery > 0 <=> "WithAutoCommitEvery" \in used
    BY DEF OptInv, SubInv, ClientInv, HasConsumer
  <2>2. Flag(sub.autoCommitEvery > 0) = Flag("WithAutoCommitEvery" \in used)
    BY <2>1 DEF Flag
  <2> HIDE DEF OptInv
  <2> QED
    BY <2>1, <2>2, ConsumerKeys DEF OffsetsAreTheLibrarys
<1> QED
  BY <1>1, OptionsInvariance, PTL
\* The keys ConfigMap writes itself.
OwnKeys == {"bootstrap.servers", "acks", "enable.idempotence", "partitioner", "message.timeout.ms",
            "go.delivery.reports", "go.delivery.report.fields"}

\* What ConfigMap gives a producer: its own keys, and the caller's for the rest.
LEMMA ProducerKeys ==
  ASSUME NEW c
  PROVE  /\ ConfigMap(c)["acks"] = Word(IF c.acksLeader THEN "1" ELSE "all")
         /\ ConfigMap(c)["enable.idempotence"] = Flag(c.idempotence)
         /\ ConfigMap(c)["message.timeout.ms"] = Number(c.deliveryTimeout \div Ms)
         /\ \A key : key \notin OwnKeys =>
               /\ key \in DOMAIN ConfigMap(c) <=> key \in DOMAIN c.kafkaConfig
               /\ key \in DOMAIN c.kafkaConfig => ConfigMap(c)[key] = c.kafkaConfig[key]
<1> DEFINE acks    == Word(IF c.acksLeader THEN "1" ELSE "all")
           idem    == Flag(c.idempotence)
           reports == Flag(TRUE)
           timeout == Number(c.deliveryTimeout \div Ms)
           given   == c.kafkaConfig
           value(key) ==
             CASE key = "bootstrap.servers"   -> Word("brokers")
               [] key = "acks"                -> acks
               [] key = "enable.idempotence"  -> idem
               [] key = "partitioner"         -> Word(c.partitioner)
               [] key = "message.timeout.ms"  -> timeout
               [] key = "go.delivery.reports" -> reports
               [] OTHER                       -> Word("none")
           own == [key \in OwnKeys |-> value(key)]
<1>1. ConfigMap(c) = Over(given, own)
  BY DEF ConfigMap, OwnKeys
<1> HIDE DEF acks, idem, reports, timeout, given
<1>2. value("acks") = acks /\ value("enable.idempotence") = idem /\ value("message.timeout.ms") = timeout
  OBVIOUS
<1> HIDE DEF value
<1>3. DOMAIN own = OwnKeys /\ \A key \in OwnKeys : own[key] = value(key)
  OBVIOUS
<1> HIDE DEF own
<1>4. /\ \A key \in OwnKeys : Over(given, own)[key] = value(key)
      /\ \A key : key \notin OwnKeys =>
            /\ key \in DOMAIN Over(given, own) <=> key \in DOMAIN given
            /\ key \in DOMAIN given => Over(given, own)[key] = given[key]
  BY <1>3 DEF Over
<1>5. {"acks", "enable.idempotence", "message.timeout.ms"} \subseteq OwnKeys
  BY DEF OwnKeys
<1>6. /\ ConfigMap(c)["acks"] = acks /\ ConfigMap(c)["enable.idempotence"] = idem
      /\ ConfigMap(c)["message.timeout.ms"] = timeout
  BY ONLY <1>1, <1>2, <1>4, <1>5
<1>7. \A key : key \notin OwnKeys =>
         /\ key \in DOMAIN ConfigMap(c) <=> key \in DOMAIN given
         /\ key \in DOMAIN given => ConfigMap(c)[key] = given[key]
  BY ONLY <1>1, <1>4
<1> QED
  BY <1>6, <1>7 DEF acks, idem, timeout, given

\* A flag that reads as set is.
LEMMA FlagIsSet ==
  ASSUME NEW b, Flag(b) = Flag(TRUE)
  PROVE  b
<1>1. Flag(TRUE).n = 1
  BY DEF Flag
<1>2. ASSUME ~b PROVE Flag(b).n = 0
  BY <1>2 DEF Flag
<1> DEFINE f == Flag(b)
           g == Flag(TRUE)
<1>3. f = g /\ g.n = 1
  BY <1>1
<1> HIDE DEF f, g
<1>4. f.n = 1
  BY ONLY <1>3
<1>5. Flag(b).n = 1
  BY ONLY <1>4 DEF f
<1>6. Flag(b).n # 0
  BY ONLY <1>5
<1> QED
  BY <1>2, <1>6

\* The publisher refuses each of its own keys to the caller.
LEMMA OwnKeysAreManaged ==
  ASSUME NEW key \in OwnKeys
  PROVE  ManagedKey(key)
<1>1. <<"go.delivery.reports", "go.">> \in Prefixed /\ <<"go.delivery.report.fields", "go.">> \in Prefixed
  BY OptionsAssumption
<1>2. CASE key = "go.delivery.reports" \/ key = "go.delivery.report.fields"
  BY <1>1, <1>2 DEF ManagedKey, HasPrefix
<1>3. CASE key \in {"bootstrap.servers", "acks", "enable.idempotence", "partitioner", "message.timeout.ms"}
  BY <1>3 DEF ManagedKey
<1> QED
  BY <1>2, <1>3 DEF OwnKeys

\* Every configuration publish.New or the retry strategy asks for a producer with
\* keeps what librdkafka requires of the library's settings: an idempotent
\* producer has acks=all and at most five requests in flight,
\* and the delivery timeout is a positive 32-bit number of milliseconds.
THEOREM ProducerAlwaysViable == Spec => []ProducerIsViable
<1>1. OptInv => ProducerIsViable
  <2> SUFFICES ASSUME OptInv, producer # NoKeys PROVE ProducerIsViable
    BY DEF ProducerIsViable, HasProducer
  <2>1. producer = ConfigMap(pub) /\ validate(pub)
    BY DEF OptInv, ClientInv
  <2>2. /\ pub.idempotence \in BOOLEAN /\ pub.deliveryTimeout \in Int /\ TimeoutOK(pub.deliveryTimeout)
        /\ pub.acksLeader => ~pub.idempotence
    BY DEF OptInv, PubInv, Pubs
  <2>3. producer["message.timeout.ms"].n \in 1 .. MaxInt32
    <3>1. producer["message.timeout.ms"].n = pub.deliveryTimeout \div Ms
      <4> DEFINE t == pub.deliveryTimeout \div Ms
      <4>1. producer["message.timeout.ms"] = Number(t)
        BY ONLY <2>1, ProducerKeys
      <4> HIDE DEF t
      <4>2. Number(t).n = t
        BY ONLY DEF Number
      <4> QED
        BY ONLY <4>1, <4>2 DEF t
    <3> DEFINE d == pub.deliveryTimeout
    <3>2. d \in Int /\ d >= 2 /\ d \div 2 <= MaxInt32
      BY ONLY <2>2 DEF TimeoutOK, Ms
    <3> HIDE DEF d
    <3>3. d \div 2 \in 1 .. MaxInt32
      BY ONLY <3>2, OptionsAssumption
    <3> QED
      BY ONLY <3>1, <3>3 DEF d, Ms
  <2>4. ASSUME producer["enable.idempotence"] = Flag(TRUE)
        PROVE  /\ producer["acks"] = Word("all")
               /\ InFlight \in DOMAIN producer => producer[InFlight].n <= 5
    <3>1. Flag(pub.idempotence) = Flag(TRUE)
      BY ONLY <2>1, <2>4, ProducerKeys
    <3>2. pub.idempotence /\ ~pub.acksLeader
      BY ONLY <2>2, <3>1, FlagIsSet
    <3>3. producer["acks"] = Word("all")
      BY ONLY <2>1, <3>2, ProducerKeys
    <3>4. InFlight \notin OwnKeys
      BY DEF InFlight, OwnKeys
    <3>5. InFlight \in DOMAIN producer =>
             InFlight \in DOMAIN pub.kafkaConfig /\ producer[InFlight] = pub.kafkaConfig[InFlight]
      BY ONLY <2>1, <3>4, ProducerKeys
    <3>6. InFlight \in DOMAIN pub.kafkaConfig => pub.kafkaConfig[InFlight].n <= 5
      BY ONLY <2>1, <3>2 DEF validate, checkInFlightForIdempotence
    <3> QED
      BY ONLY <3>3, <3>5, <3>6
  <2> QED
    BY <2>3, <2>4 DEF ProducerIsViable
<1> QED
  BY <1>1, OptionsInvariance, PTL

\* A subscriber's retry publisher takes every key a producer can share
\* from the consumer's configuration, with its value, and no other key.
THEOREM RetryPublisherAlwaysInherits == Spec => []RetryPublisherInherits
<1>1. OptInv => RetryPublisherInherits
  <2> SUFFICES ASSUME OptInv, HasConsumer, sub.strategy = "retry",
                      NEW key \in DOMAIN sub.kafkaConfig
               PROVE  IF ManagedKey(key) \/ isConsumerOnly(key)
                      THEN key \notin DOMAIN pub.kafkaConfig
                      ELSE key \in DOMAIN producer /\ producer[key] = consumer[key]
    BY DEF RetryPublisherInherits
  <2>1. /\ consumer = ConsumerMap /\ pub.kafkaConfig = PublisherConfig(sub.kafkaConfig)
        /\ producer = ConfigMap(pub)
    BY DEF OptInv, ClientInv, HasConsumer
  <2>2. CASE ManagedKey(key) \/ isConsumerOnly(key)
    BY <2>1, <2>2 DEF PublisherConfig, Restrict
  <2>3. CASE ~ManagedKey(key) /\ ~isConsumerOnly(key)
    <3>1. key \in DOMAIN pub.kafkaConfig /\ pub.kafkaConfig[key] = sub.kafkaConfig[key]
      BY <2>1, <2>3 DEF PublisherConfig, Restrict, ManagedKey
    <3>2. key \notin OwnKeys
      BY <2>3, OwnKeysAreManaged
    <3>3. key \in DOMAIN producer /\ producer[key] = pub.kafkaConfig[key]
      BY ONLY <2>1, <3>1, <3>2, ProducerKeys
    <3>4. consumer[key] = sub.kafkaConfig[key]
      <4>1. DOMAIN sub.kafkaConfig \cap managedKafkaKeys = {}
        BY DEF OptInv, SubInv
      <4>2. ConsumerMap[key] = sub.kafkaConfig[key]
        BY <4>1, ConsumerKeys
      <4> QED
        BY ONLY <2>1, <4>2
    <3> QED
      BY <2>3, <3>1, <3>3, <3>4
  <2> QED
    BY <2>2, <2>3
<1> QED
  BY <1>1, OptionsInvariance, PTL

\* Of its own checks, Start fails over the in-flight limit in the caller's map
\* only; when librdkafka refuses, the retry publisher's configuration has the
\* publisher's own keys and shared ones as the caller set them, and no other.
THEOREM StartFailureIsShared == Spec => []StartFailsOverSharedKeysOnly
<1>1. OptInv => StartFailsOverSharedKeysOnly
  <2> SUFFICES ASSUME OptInv, stage = "start refused", sub.strategy = "retry", NEW key \in DOMAIN producer,
                      ~ManagedKey(key)
               PROVE  /\ ~isConsumerOnly(key) /\ key \in DOMAIN sub.kafkaConfig
                      /\ producer[key] = sub.kafkaConfig[key]
    BY DEF OptInv, ClientInv, FailedInFlight, StartFailsOverSharedKeysOnly
  <2>1. pub.kafkaConfig = PublisherConfig(sub.kafkaConfig) /\ producer = ConfigMap(pub)
    BY DEF OptInv, ClientInv
  <2>2. key \notin OwnKeys
    BY OwnKeysAreManaged
  <2>3. key \in DOMAIN pub.kafkaConfig /\ producer[key] = pub.kafkaConfig[key]
    BY ONLY <2>1, <2>2, ProducerKeys, key \in DOMAIN producer
  <2> QED
    BY <2>1, <2>3 DEF PublisherConfig, Restrict
<1> QED
  BY <1>1, OptionsInvariance, PTL

=============================================================================
