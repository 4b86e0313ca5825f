----------------------------- MODULE MCOptions -----------------------------
(***************************************************************************)
(* Options for TLC: a key of every kind the code tells apart, alone or     *)
(* with another, and values on either side of every limit.                 *)
(***************************************************************************)
EXTENDS Options

SomeKeys == {"bootstrap.servers", "acks", "go.application.rebalance.enable", "{topic}.acks",
             "enable.auto.offset.store", "fetch.min.bytes", "session.timeout.ms", "sasl.mechanism", InFlight}

ValuesOf(key) ==
    IF key = InFlight
    THEN {Number(5), Number(6), [form |-> "digits", n |-> 5], [form |-> "fraction", n |-> 0]}
    ELSE {Word("theirs")}

Maps(keys) ==
    {config \in [keys -> UNION {ValuesOf(key) : key \in keys}] :
        \A key \in keys : config[key] \in ValuesOf(key)}

SomeConfigs ==
    UNION {Maps(keys) : keys \in {{}} \cup {{key} : key \in SomeKeys}
                                \cup {{"acks", "fetch.min.bytes", InFlight}}}

SomeBrokers     == {<<>>, <<"b", "">>, <<"b">>}
SomeSizes       == {0, 7}
SomeDurations   == {0, 1, 20, 2 * 100000 + 2}
SomeMultipliers == {99, 100}

\* The prefixes the code looks for, on the keys above and on the library's own.
SomePrefixes ==
    {<<"go.application.rebalance.enable", "go.">>, <<"go.delivery.reports", "go.">>,
     <<"go.delivery.report.fields", "go.">>, <<"{topic}.acks", "{topic}.">>,
     <<"group.id", "group.">>, <<"group.protocol", "group.">>, <<"fetch.min.bytes", "fetch.">>,
     <<"auto.offset.reset", "auto.">>, <<"auto.commit.interval.ms", "auto.">>,
     <<"enable.auto.commit", "enable.auto.">>, <<"enable.auto.offset.store", "enable.auto.">>}

=============================================================================
