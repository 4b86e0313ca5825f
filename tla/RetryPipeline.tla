---------------------------- MODULE RetryPipeline ----------------------------
(***************************************************************************)
(* A source topic, its retry topic and its DLQ, with a consumer on the     *)
(* source topic and one on the retry topic, each with a retry strategy of  *)
(* its own (internal/subscribe/strategy/retry.go) and a handler that waits *)
(* for a record's retry time before it processes it.  Each topic has one   *)
(* partition, read by position.  The consumer is at the level of           *)
(* AtLeastOnce: what is stored was resolved, what is committed was stored, *)
(* and a restart goes back to what was committed.                          *)
(***************************************************************************)
EXTENDS RetryHeaders, FiniteSets

CONSTANTS Source,       \* the source topic's records, in offset order
          Verdicts(_),  \* the verdicts a handler may give on a batch
          MaxAttempts,  \* WithMaxAttempts
          BatchSize,    \* messages handed to the handler at a time; 1 in single mode
          OneProcess,   \* both consumers run in one process, as in the playground
          MaxTime,      \* the clock runs on past this only for someone waiting
          MaxFaults     \* bound on crashes, refused writes and failed commits

ASSUME PipelineAssumption ==
    /\ {MaxAttempts, BatchSize} \subseteq Nat \ {0}
    /\ {MaxTime, MaxFaults} \subseteq Nat
    /\ OneProcess \in BOOLEAN

\* A source record has any headers, and a delay is a number for every attempt
\* that can be made on it.
ASSUME SourceAssumption ==
    /\ Source \in Seq({Source[i] : i \in DOMAIN Source})
    /\ \A i \in DOMAIN Source :
          /\ DOMAIN Source[i].headers \subseteq STRING
          /\ Source[i].headers \in [DOMAIN Source[i].headers -> HeaderValues]
          /\ \A attempt \in GetRetryAttempt(Source[i]) + 1 .. MaxAttempts - 1 :
                computeBackoff(attempt) \in Int

VARIABLES
    log,        \* the records of each topic; their root and trail are history
    committed,  \* committed offset of each consumer's group
    stored,     \* offset each consumer has stored, and polls from
    pc,         \* what each consumer does next
    cancelled,  \* the context passed to Start is done
    batch,      \* messages in the handler's hands
    calls,      \* the set of calls of HandleError still to make for the batch
    writes,     \* records the current HandleError has sent
    now,        \* the time
    faults,     \* faults so far
    processed   \* history: offsets of the source records a handler succeeded on

perConsumer == <<committed, stored, pc, cancelled, batch, calls, writes>>
vars        == <<log, perConsumer, now, faults, processed>>

Consumers == {"source", "retry"}   \* each is named after the topic it reads
Topics    == Consumers \cup {"dlq"}

\* The number of a topic's partition: the source topic's tells it apart.
Partition(topic) == IF topic = "source" THEN 1 ELSE 0

\* The message at an offset of a topic, as a consumer sees it.
MessageAt(topic, offset) ==
    LET rec == log[topic][offset + 1]
    IN  [topic |-> topic, partition |-> Partition(topic), offset |-> offset, key |-> rec.key,
         payload |-> rec.payload, headers |-> rec.headers, root |-> rec.root, trail |-> rec.trail]

\* What a handler reports of a batch or of an item: its error, a 32-bit step and
\* a code.
Failures  == [err : STRING, step : -MaxStep - 1 .. MaxStep, code : STRING]
NoFailure == [err |-> "", step |-> 0, code |-> ""]
Failed(f) == f # NoFailure

Goto(c, label) == pc' = [pc EXCEPT ![c] = label]
Fault          == faults < MaxFaults /\ faults' = faults + 1
NoFault        == UNCHANGED faults

-----------------------------------------------------------------------------
(***************************************************************************)
(* The consumer and its handler.                                           *)
(***************************************************************************)

\* Up to BatchSize messages are polled and handed to the handler.
Poll(c) ==
    /\ pc[c] = "poll"
    /\ ~cancelled[c]
    /\ \E n \in 1 .. BatchSize :
          /\ stored[c] + n <= Len(log[c])
          /\ batch' = [batch EXCEPT ![c] = [i \in 1 .. n |-> MessageAt(c, stored[c] + i - 1)]]
    /\ Goto(c, "wait")
    /\ UNCHANGED <<log, committed, stored, cancelled, calls, writes, now, faults, processed>>

\* Mutant of Due: the handler does not wait.
DueAlways(msg) == TRUE

\* WaitUntilRetryTime returns nil without waiting any longer.
Due(msg) == GetRetryTime(msg) <= now

\* Every message of the batch is due: the waits are over.
WaitUntilRetryTime(c) ==
    /\ pc[c] = "wait"
    /\ \A i \in DOMAIN batch[c] : Due(batch[c][i])
    /\ Goto(c, "process")
    /\ UNCHANGED <<log, committed, stored, cancelled, batch, calls, writes, now, faults, processed>>

\* The one call of HandleError for a batch that failed as a whole.
WholeCall(msgs, f) == {[at |-> 1, msgs |-> msgs, f |-> f]}

\* The calls of HandleError for a verdict, by the place of their first message:
\* one for a batch that failed as a whole, which discards the verdicts on its
\* items, else one for each item that failed.
CallsFor(msgs, verdict) ==
    IF Failed(verdict.whole)
    THEN WholeCall(msgs, verdict.whole)
    ELSE {[at |-> i, msgs |-> <<msgs[i]>>, f |-> verdict.items[i]] :
            i \in {i \in DOMAIN msgs : Failed(verdict.items[i])}}

\* The call to make next, or being made, if any: they are made in batch order.
Current(c) == {call \in calls[c] : \A other \in calls[c] : call.at <= other.at}

\* The wait is cut short: the handler returns ctx.Err() as the batch's failure.
Interrupted(c) ==
    /\ pc[c] = "wait"
    /\ cancelled[c]
    /\ \E i \in DOMAIN batch[c] : ~Due(batch[c][i])
    /\ calls' = [calls EXCEPT
                    ![c] = WholeCall(batch[c], [err |-> "cancelled", step |-> 0, code |-> ""])]
    /\ Goto(c, "route")
    /\ UNCHANGED <<log, committed, stored, cancelled, batch, writes, now, faults, processed>>

\* The handler processes the batch and gives its verdict.
Process(c) ==
    /\ pc[c] = "process"
    /\ \E verdict \in Verdicts(batch[c]) :
          /\ verdict \in [whole : Failures, items : [DOMAIN batch[c] -> Failures]]
          /\ calls' = [calls EXCEPT ![c] = CallsFor(batch[c], verdict)]
          /\ processed' = processed \cup
                {batch[c][i].root : i \in {i \in DOMAIN batch[c] :
                    ~Failed(verdict.whole) /\ ~Failed(verdict.items[i])}}
          /\ Goto(c, IF CallsFor(batch[c], verdict) = {} THEN "store" ELSE "route")
    /\ UNCHANGED <<log, committed, stored, cancelled, batch, writes, now, faults>>

-----------------------------------------------------------------------------
(***************************************************************************)
(* RetryStrategy.HandleError, and the publisher it writes through at the   *)
(* level of DeliveryContract.                                              *)
(***************************************************************************)

Permanent(f) == f.err = "permanent"

\* Mutant of GoesToDLQ: one attempt too many.
GoesToDLQLate(attempt, f) == Permanent(f) \/ attempt > MaxAttempts

GoesToDLQ(attempt, f) == Permanent(f) \/ attempt >= MaxAttempts

\* What the history keeps of one failure of a record.
Failure(f, delay) == [err |-> f.err, step |-> f.step, code |-> f.code, delay |-> delay, due |-> now + delay]

\* Mutant of send: a tombstone is written as an empty value.
sendEmpty(msg, headers, failure) ==
    [key |-> msg.key, payload |-> [kind |-> "bytes"], headers |-> headers,
     root |-> msg.root, trail |-> Append(msg.trail, failure)]

\* A record with msg's key and payload: a nil payload, which Send refuses, goes
\* through SendDelete and stays nil.
send(msg, headers, failure) ==
    [key |-> msg.key, payload |-> msg.payload, headers |-> headers,
     root |-> msg.root, trail |-> Append(msg.trail, failure)]

\* The record one message of a failure is written as, and the topic it goes to.
WriteOf(msg, f) ==
    LET attempt == GetRetryAttempt(msg) + 1
        delay   == computeBackoff(attempt)
    IN  IF GoesToDLQ(attempt, f)
        THEN [topic |-> "dlq", status |-> "pending",
              rec |-> send(msg, BuildDLQHeaders(msg, attempt, f, now), Failure(f, 0))]
        ELSE [topic |-> "retry", status |-> "pending",
              rec |-> send(msg, BuildRetryHeaders(msg, attempt, now + delay, f, now),
                           Failure(f, delay))]

\* Mutant of StopWithError: the offset of the failed batch is stored.
StopWithErrorStores(c) ==
    /\ Goto(c, "stopping")
    /\ stored' = [stored EXCEPT ![c] = stored[c] + Len(batch[c])]
    /\ batch' = [batch EXCEPT ![c] = <<>>]
    /\ calls' = [calls EXCEPT ![c] = {}]
    /\ cancelled' = [d \in Consumers |-> cancelled[d] \/ (OneProcess /\ d # c)]

\* HandleError failed: the consumer stops and the batch's offsets are not
\* stored.  In one process the error takes the other consumer down with it.
StopWithError(c) ==
    /\ Goto(c, "stopping")
    /\ batch' = [batch EXCEPT ![c] = <<>>]
    /\ calls' = [calls EXCEPT ![c] = {}]
    /\ cancelled' = [d \in Consumers |-> cancelled[d] \/ (OneProcess /\ d # c)]
    /\ UNCHANGED stored

\* The first n messages of a call, sent.
Sent(call, n) == [i \in 1 .. n |-> WriteOf(call.msgs[i], call.f)]

\* Every message of the failure is sent.  A send that fails locally returns at
\* once: the records already sent are left to the publisher.
HandleError(c) ==
    /\ pc[c] = "route"
    /\ \E call \in Current(c) :
          \/ /\ writes' = [writes EXCEPT ![c] = Sent(call, Len(call.msgs))]
             /\ Goto(c, "await")
             /\ NoFault
             /\ UNCHANGED <<stored, cancelled, batch, calls>>
          \/ /\ Fault
             /\ \E n \in 0 .. Len(call.msgs) - 1 : writes' = [writes EXCEPT ![c] = Sent(call, n)]
             /\ StopWithError(c)
    /\ UNCHANGED <<log, committed, now, processed>>

\* The broker answers the oldest record in flight: it is written and
\* acknowledged, or refused, or written but its acknowledgement is lost.
BrokerAnswers(c) ==
    /\ \E i \in DOMAIN writes[c] :
          /\ writes[c][i].status = "pending"
          /\ \A j \in 1 .. i - 1 : writes[c][j].status # "pending"
          /\ LET topic == writes[c][i].topic
                 written == log' = [log EXCEPT ![topic] = Append(@, writes[c][i].rec)]
                 answer(status) == writes' = [writes EXCEPT ![c][i].status = status]
             IN  \/ NoFault /\ written /\ answer("acked")
                 \/ Fault   /\ UNCHANGED log /\ answer("failed")
                 \/ Fault   /\ written /\ answer("failed")
    /\ UNCHANGED <<committed, stored, pc, cancelled, batch, calls, now, processed>>

\* Mutant of Confirmed: the first record's answer stands for all.
ConfirmedByFirst(c) == writes[c][1].status = "acked"

\* awaitWrites found every record acknowledged.
Confirmed(c) == \A i \in DOMAIN writes[c] : writes[c][i].status = "acked"

\* No call of HandleError is left after the current one.
LastCall(c) == calls[c] \subseteq Current(c)

\* awaitWrites: every outcome is in, and any failure among them fails the call.
awaitWrites(c) ==
    /\ pc[c] = "await"
    /\ \A i \in DOMAIN writes[c] : writes[c][i].status # "pending"
    /\ writes' = [writes EXCEPT ![c] = <<>>]
    /\ \/ /\ Confirmed(c)
          /\ calls' = [calls EXCEPT ![c] = calls[c] \ Current(c)]
          /\ Goto(c, IF LastCall(c) THEN "store" ELSE "route")
          /\ UNCHANGED <<stored, cancelled, batch>>
       \/ ~Confirmed(c) /\ StopWithError(c)
    /\ UNCHANGED <<log, committed, now, faults, processed>>

-----------------------------------------------------------------------------
(***************************************************************************)
(* Storing and committing, stopping, and what happens to the processes.    *)
(***************************************************************************)

\* The batch is resolved: its offsets are stored, and committed unless the
\* commit fails, which leaves them to the next one.
Store(c) ==
    /\ pc[c] = "store"
    /\ stored' = [stored EXCEPT ![c] = stored[c] + Len(batch[c])]
    /\ batch' = [batch EXCEPT ![c] = <<>>]
    /\ \/ NoFault /\ committed' = [committed EXCEPT ![c] = stored'[c]]
       \/ Fault /\ UNCHANGED committed
    /\ Goto(c, "poll")
    /\ UNCHANGED <<log, cancelled, calls, writes, now, processed>>

\* The context passed to Start is cancelled: a signal, which reaches both
\* consumers of one process.
Cancel(c) ==
    /\ pc[c] \notin {"stopping", "close", "down"}
    /\ ~cancelled[c]
    /\ Fault
    /\ cancelled' = [d \in Consumers |-> cancelled[d] \/ d = c \/ OneProcess]
    /\ UNCHANGED <<log, committed, stored, pc, batch, calls, writes, now, processed>>

\* Mutant of CtxDone: the loop polls on.
CtxDoneIgnored(c) == pc[c] = "poll" /\ cancelled[c] /\ UNCHANGED vars

\* The poll loop sees the cancellation.
CtxDone(c) ==
    /\ pc[c] = "poll"
    /\ cancelled[c]
    /\ Goto(c, "stopping")
    /\ UNCHANGED <<log, committed, stored, cancelled, batch, calls, writes, now, faults, processed>>

\* run's final commit.
FinalCommit(c) ==
    /\ pc[c] = "stopping"
    /\ \/ NoFault /\ committed' = [committed EXCEPT ![c] = stored[c]]
       \/ Fault /\ UNCHANGED committed
    /\ Goto(c, "close")
    /\ UNCHANGED <<log, stored, cancelled, batch, calls, writes, now, processed>>

\* The strategy's Close has the publisher drain: what is still in flight is
\* answered before Start returns.
CloseStrategy(c) ==
    /\ pc[c] = "close"
    /\ \A i \in DOMAIN writes[c] : writes[c][i].status # "pending"
    /\ writes' = [writes EXCEPT ![c] = <<>>]
    /\ Goto(c, "down")
    /\ UNCHANGED <<log, committed, stored, cancelled, batch, calls, now, faults, processed>>

\* The consumers that live in c's process.
Neighbours(c) == IF OneProcess THEN Consumers ELSE {c}

\* c's process dies.  Nothing it held in memory survives.
Crash(c) ==
    /\ pc[c] # "down"
    /\ Fault
    /\ pc'     = [d \in Consumers |-> IF d \in Neighbours(c) THEN "down" ELSE pc[d]]
    /\ batch'  = [d \in Consumers |-> IF d \in Neighbours(c) THEN <<>> ELSE batch[d]]
    /\ calls'  = [d \in Consumers |-> IF d \in Neighbours(c) THEN {} ELSE calls[d]]
    /\ writes' = [d \in Consumers |-> IF d \in Neighbours(c) THEN <<>> ELSE writes[d]]
    /\ UNCHANGED <<log, committed, stored, cancelled, now, processed>>

\* The process is started again, once every consumer in it has stopped.
Restart(c) ==
    /\ \A d \in Neighbours(c) : pc[d] = "down"
    /\ pc'        = [d \in Consumers |-> IF d \in Neighbours(c) THEN "poll" ELSE pc[d]]
    /\ stored'    = [d \in Consumers |-> IF d \in Neighbours(c) THEN committed[d] ELSE stored[d]]
    /\ cancelled' = [d \in Consumers |-> d \notin Neighbours(c) /\ cancelled[d]]
    /\ UNCHANGED <<log, committed, batch, calls, writes, now, faults, processed>>

\* Time passes.
Tick ==
    /\ \/ now < MaxTime
       \/ \E c \in Consumers, i \in 1 .. BatchSize :
             pc[c] = "wait" /\ i \in DOMAIN batch[c] /\ ~Due(batch[c][i])
    /\ now' = now + 1
    /\ UNCHANGED <<log, perConsumer, faults, processed>>

\* A poll that finds nothing.
PollNothing(c) ==
    /\ pc[c] = "poll"
    /\ ~cancelled[c]
    /\ stored[c] = Len(log[c])
    /\ UNCHANGED vars

Init ==
    /\ log = [t \in Topics |->
                IF t = "source"
                THEN [i \in DOMAIN Source |->
                        [key |-> Source[i].key, payload |-> Source[i].payload,
                         headers |-> Source[i].headers, root |-> i - 1, trail |-> <<>>]]
                ELSE <<>>]
    /\ committed = [c \in Consumers |-> 0]
    /\ stored    = [c \in Consumers |-> 0]
    /\ pc        = [c \in Consumers |-> "poll"]
    /\ cancelled = [c \in Consumers |-> FALSE]
    /\ batch     = [c \in Consumers |-> <<>>]
    /\ calls     = [c \in Consumers |-> {}]
    /\ writes    = [c \in Consumers |-> <<>>]
    /\ now = 0
    /\ faults = 0
    /\ processed = {}

\* What a consumer and its broker do by themselves.
Step(c) ==
    \/ Poll(c) \/ WaitUntilRetryTime(c) \/ Interrupted(c) \/ Process(c)
    \/ HandleError(c) \/ awaitWrites(c) \/ Store(c) \/ CtxDone(c) \/ FinalCommit(c) \/ CloseStrategy(c)

Next ==
    \/ \E c \in Consumers :
          Step(c) \/ BrokerAnswers(c) \/ Cancel(c) \/ Crash(c) \/ Restart(c) \/ PollNothing(c)
    \/ Tick

Spec == Init /\ [][Next]_vars

\* A handler returns, the broker answers, a process that stopped is started
\* again, and time goes on.
Fairness ==
    /\ \A c \in Consumers : WF_vars(Step(c)) /\ WF_vars(BrokerAnswers(c)) /\ WF_vars(Restart(c))
    /\ WF_vars(Tick)

FairSpec == Spec /\ Fairness

-----------------------------------------------------------------------------
(***************************************************************************)
(* Properties.                                                             *)
(***************************************************************************)

Roots      == 0 .. Len(Source) - 1
Records(t) == {log[t][i] : i \in DOMAIN log[t]}

\* The source record a record descends from, and the failure that wrote it.
SourceOf(rec) == [headers |-> Source[rec.root + 1].headers]
LastOf(trail) == trail[Len(trail)]

\* The message names an origin in a header that is there and not empty.
Names(msg, key) == key \in DOMAIN msg.headers /\ msg.headers[key] # Text("")

\* Retry and DLQ writes are confirmed before the source offset moves, so a
\* source record the group has committed was processed, or is in the DLQ, or is
\* in the retry topic where the retry consumer has not committed it yet --
\* whatever crashed, was refused, or was written but not acknowledged.
NothingVanishes ==
    \A root \in 0 .. committed["source"] - 1 :
        \/ root \in processed
        \/ \E rec \in Records("dlq") : rec.root = root
        \/ \E i \in committed["retry"] + 1 .. Len(log["retry"]) : log["retry"][i].root = root

\* The source records dealt with: processed, or written to the retry topic or the
\* DLQ in place of that.
DealtWith ==
    processed \cup {rec.root : rec \in Records("retry")} \cup {rec.root : rec \in Records("dlq")}

\* The source topic's group as AtLeastOnce sees it.
SourceGroup == INSTANCE AtLeastOnce WITH
    Partitions <- {"source"},
    LogLen     <- Len(Source),
    resolved   <- {[part |-> "source", off |-> root] : root \in DealtWith},
    committed  <- [p \in {"source"} |-> committed["source"]]

\* With a retry strategy a consumer keeps the promise of a group: its committed
\* offset passes a record once that is processed or handed over in full, and does
\* not go back in a restart, a failed commit or a stop.
SourceIsAtLeastOnce == SourceGroup!Spec

\* The three easykafka.original.* headers name the record as first consumed from
\* the source topic, however many hops it has made and however often it was
\* written twice; a source record that arrived with an origin keeps that one.
OriginNamesTheSource ==
    \A t \in {"retry", "dlq"} : \A rec \in Records(t) :
        LET src == SourceOf(rec)
            is(key, value) == rec.headers[key] = IF Names(src, key) THEN src.headers[key] ELSE value
        IN  /\ is(HeaderOriginalTopic, Text("source"))
            /\ is(HeaderOriginalPartition, Itoa(Partition("source")))
            /\ is(HeaderOriginalOffset, Itoa(rec.root))

\* A resume point is never lost: the step a record carries is the last one any
\* of its failures reported, and the code is that of its last failure alone.
ResumePointKept ==
    \A t \in {"retry", "dlq"} : \A rec \in Records(t) :
        LET reported == {i \in DOMAIN rec.trail : rec.trail[i].step # 0}
        IN  /\ GetRetryStep(rec) =
                  IF reported = {} THEN GetRetryStep(SourceOf(rec))
                  ELSE rec.trail[CHOOSE i \in reported : \A j \in reported : j <= i].step
            /\ GetErrorCode(rec) = Text(IF LastOf(rec.trail).code = "" THEN "HANDLER_ERROR"
                                         ELSE LastOf(rec.trail).code)

\* MaxAttempts counts handler runs, the first included: a record is in the retry
\* topic while it has attempts left and none of its failures was permanent, and
\* in the DLQ because of its last failure, never of an earlier one.
DeadLetteredWhenSpent ==
    LET attempts(rec) == GetRetryAttempt(SourceOf(rec)) + Len(rec.trail)
        hopeless(rec, n) == attempts(rec) - Len(rec.trail) + n >= MaxAttempts \/ Permanent(rec.trail[n])
    IN  /\ \A t \in {"retry", "dlq"} : \A rec \in Records(t) :
              /\ GetRetryAttempt(rec) = attempts(rec)
              /\ \A n \in 1 .. Len(rec.trail) - 1 : ~hopeless(rec, n)
        /\ \A rec \in Records("retry") : ~hopeless(rec, Len(rec.trail))
        /\ \A rec \in Records("dlq") : hopeless(rec, Len(rec.trail))

\* A DLQ record can be replayed: it and every retry record have the key, the
\* payload -- a tombstone stays one -- and the application's headers of the
\* record they descend from.
ContentSurvives ==
    \A t \in {"retry", "dlq"} : \A rec \in Records(t) :
        LET src == Source[rec.root + 1]
        IN  /\ rec.key = src.key
            /\ rec.payload = src.payload
            /\ \A key \in DOMAIN src.headers \cup DOMAIN rec.headers :
                  ~isRetryHeader(key) =>
                      /\ key \in DOMAIN src.headers /\ key \in DOMAIN rec.headers
                      /\ rec.headers[key] = src.headers[key]

\* Every back-off is the cap, or lies between the first delay and the cap, and no
\* later one of a record is shorter than an earlier one: the exponential never
\* wraps around the range of a duration.
BackoffWithinBounds ==
    \A rec \in Records("retry") : \A n \in DOMAIN rec.trail :
        /\ rec.trail[n].delay = MaxDelay \/ rec.trail[n].delay \in InitialDelay .. MaxDelay
        /\ n > 1 => rec.trail[n].delay >= rec.trail[n - 1].delay

\* A handler that waits with WaitUntilRetryTime processes no record a second or
\* more before the time the strategy computed for it.
NotProcessedEarly ==
    [][\A c \in Consumers : pc[c] = "wait" /\ pc'[c] = "process" =>
          \A i \in DOMAIN batch[c] : batch[c][i].trail # <<>> =>
              now + TicksPerSecond > LastOf(batch[c][i].trail).due]_vars

\* Once faults stop, every source record is processed or dead-lettered: nothing
\* circles through the retry topic for ever, and no wait is endless.
EveryRecordSettles ==
    \A root \in Roots :
        <>(root \in processed \/ \E rec \in Records("dlq") : rec.root = root)

\* A consumer whose context is cancelled -- by a signal, or by the error of the
\* consumer beside it -- stops, whether it polls, waits for a retry time or waits
\* for the broker.
CancelledConsumersStop ==
    \A c \in Consumers : cancelled[c] ~> pc[c] = "down"

=============================================================================
