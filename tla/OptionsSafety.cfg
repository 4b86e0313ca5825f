CONSTANTS
    BrokerLists <- SomeBrokers
    KafkaConfigs <- SomeConfigs
    Sizes <- SomeSizes
    Durations <- SomeDurations
    Multipliers <- SomeMultipliers
    Prefixed <- SomePrefixes
    MaxInt32 = 100000
SPECIFICATION Spec
INVARIANTS
    OffsetsAreTheLibrarys
    ProducerIsViable
    RetryPublisherInherits
    StartFailsOverSharedKeysOnly
