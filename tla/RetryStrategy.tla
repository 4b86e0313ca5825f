--------------------------- MODULE RetryStrategy ---------------------------
(***************************************************************************)
(* The life of a retry strategy (internal/subscribe/strategy/retry.go)     *)
(* under concurrent calls of Subscriber.Start: on one subscriber, or on    *)
(* subscribers that were given the same strategy.  A Start claims its      *)
(* subscriber, then the strategy, builds a publisher in it, runs, closes   *)
(* the publisher and releases the strategy.  The publisher is at the level *)
(* of DeliveryContract, and is named after the Start that created it; the  *)
(* consumer's loop is reduced to the failures it hands to the strategy.    *)
(***************************************************************************)
EXTENDS Naturals, Sequences

CONSTANTS Calls,         \* calls of Start
          Subscribers,
          Strategies,
          SubscriberOf,  \* per call: the subscriber it is made on
          StrategyOf,    \* per subscriber: the strategy given to WithErrorStrategy
          Nobody,        \* no call
          MaxMsgs,       \* messages of one failure
          MaxFailures,   \* bound on the failures one consumer meets
          MaxFaults      \* bound on faults

ASSUME StrategyAssumption ==
    /\ SubscriberOf \in [Calls -> Subscribers]
    /\ StrategyOf \in [Subscribers -> Strategies]
    /\ Nobody \notin Calls
    /\ {MaxMsgs, MaxFailures, MaxFaults} \subseteq Nat

VARIABLES
    state,      \* per subscriber: its lifecycle
    pc,         \* per call: what it does next
    cancelled,  \* per call: its context is done
    inUse,      \* per strategy: RetryStrategy.inUse
    publisher,  \* per strategy: RetryStrategy.publisher and its writers
    logger,     \* per strategy: RetryStrategy.logger
    pubs,       \* per publisher: whether it exists, is open, closing or closed
    sent,       \* per publisher: the outcome of each record it accepted
    todo,       \* per call: messages HandleError has still to send
    waits,      \* per call: deliveries HandleError has to wait for
    failures,   \* per call: failures met
    faults,     \* faults so far
    confirmed,  \* history: deliveries a HandleError returned nil for
    rejected    \* history: calls that met a send that failed locally

lifeVars == <<state, pc, cancelled, inUse, publisher, logger, pubs>>
sendVars == <<sent, todo, waits, failures, confirmed, rejected>>
vars     == <<lifeVars, sendVars, faults>>

Strategy(s)    == StrategyOf[SubscriberOf[s]]
Publisher(s)   == publisher[Strategy(s)]
Goto(s, label) == pc' = [pc EXCEPT ![s] = label]
Fault          == faults < MaxFaults /\ faults' = faults + 1
NoFault        == UNCHANGED faults

-----------------------------------------------------------------------------
(***************************************************************************)
(* Start, up to the loop.                                                  *)
(***************************************************************************)

\* Mutant of Refused: the deferred store is registered before the swap.
RefusedStops(s) == Goto(s, "return")

\* A Start that loses the swap returns before anything is deferred.
Refused(s) == Goto(s, "done")

\* Start: the swap from created to running has one winner; anyone else returns
\* an error and touches nothing.
Start(s) ==
    /\ pc[s] = "start"
    /\ \/ /\ state[SubscriberOf[s]] = "created"
          /\ state' = [state EXCEPT ![SubscriberOf[s]] = "running"]
          /\ Goto(s, "claim")
       \/ /\ state[SubscriberOf[s]] # "created"
          /\ Refused(s)
          /\ UNCHANGED state
    /\ UNCHANGED <<cancelled, inUse, publisher, logger, pubs, sendVars, faults>>

\* Mutant of Free: anyone may have the strategy.
FreeAlways(s) == TRUE

\* Nobody holds the strategy.
Free(s) == ~inUse[Strategy(s)]

\* Initialize: the claim, or ErrStrategyInUse.
Claim(s) ==
    /\ pc[s] = "claim"
    /\ \/ /\ Free(s)
          /\ inUse' = [inUse EXCEPT ![Strategy(s)] = TRUE]
          /\ Goto(s, "create")
       \/ /\ ~Free(s)
          /\ Goto(s, "return")
          /\ UNCHANGED inUse
    /\ UNCHANGED <<state, cancelled, publisher, logger, pubs, sendVars, faults>>

\* Initialize: the logger is set and publish.New called, which can refuse.
Create(s) ==
    /\ pc[s] = "create"
    /\ logger' = [logger EXCEPT ![Strategy(s)] = s]
    /\ \/ /\ pubs' = [pubs EXCEPT ![s] = "open"]
          /\ Goto(s, "bind")
          /\ NoFault
       \/ /\ Goto(s, "unclaim")
          /\ Fault
          /\ UNCHANGED pubs
    /\ UNCHANGED <<state, cancelled, inUse, publisher, sendVars>>

\* Initialize: the publisher and its two writers go into the strategy.
Bind(s) ==
    /\ pc[s] = "bind"
    /\ publisher' = [publisher EXCEPT ![Strategy(s)] = s]
    /\ Goto(s, "newConsumer")
    /\ UNCHANGED <<state, cancelled, inUse, logger, pubs, sendVars, faults>>

\* Mutant of CleanUp: a failed Start returns with the strategy initialized.
CleanUpForgotten(s) == Goto(s, "return")

\* A Start that fails after Initialize closes the strategy.
CleanUp(s) == Goto(s, "close")

\* Start: SetLogger, newConsumer, and run's Connect and SubscribeToTopic.  Any
\* of the three can fail.
NewConsumer(s) ==
    /\ pc[s] = "newConsumer"
    /\ logger' = [logger EXCEPT ![Strategy(s)] = s]
    /\ \/ Goto(s, "loop") /\ NoFault
       \/ CleanUp(s) /\ Fault
    /\ UNCHANGED <<state, cancelled, inUse, publisher, pubs, sendVars>>

\* The caller cancels the context it gave to Start.
Cancel(s) ==
    /\ pc[s] \notin {"start", "done"}
    /\ ~cancelled[s]
    /\ cancelled' = [cancelled EXCEPT ![s] = TRUE]
    /\ UNCHANGED <<state, pc, inUse, publisher, logger, pubs, sendVars, faults>>

-----------------------------------------------------------------------------
(***************************************************************************)
(* The loop, and HandleError.                                              *)
(***************************************************************************)

Running(s) == state[SubscriberOf[s]] = "running"

\* The loop sees ctx.Done().
CtxDone(s) ==
    /\ pc[s] = "loop"
    /\ Running(s)
    /\ cancelled[s]
    /\ state' = [state EXCEPT ![SubscriberOf[s]] = "stopping"]
    /\ UNCHANGED <<pc, cancelled, inUse, publisher, logger, pubs, sendVars, faults>>

\* The loop ends when the subscriber is no longer running.
LoopEnds(s) ==
    /\ pc[s] = "loop"
    /\ ~Running(s)
    /\ Goto(s, "close")
    /\ UNCHANGED <<state, cancelled, inUse, publisher, logger, pubs, sendVars, faults>>

\* A fatal error of Poll, or an offset that cannot be stored, ends the loop.
LoopFails(s) ==
    /\ pc[s] = "loop"
    /\ Running(s)
    /\ Fault
    /\ state' = [state EXCEPT ![SubscriberOf[s]] = "stopping"]
    /\ Goto(s, "close")
    /\ UNCHANGED <<cancelled, inUse, publisher, logger, pubs, sendVars>>

\* A message or a batch is polled and given to the handler.
Poll(s) ==
    /\ pc[s] = "loop"
    /\ Running(s)
    /\ ~cancelled[s]
    /\ Goto(s, "handle")
    /\ UNCHANGED <<state, cancelled, inUse, publisher, logger, pubs, sendVars, faults>>

\* The handler succeeds.
HandlerSucceeds(s) ==
    /\ pc[s] = "handle"
    /\ Goto(s, "loop")
    /\ UNCHANGED <<state, cancelled, inUse, publisher, logger, pubs, sendVars, faults>>

\* The handler fails the message or the batch, and HandleError is called.
HandlerFails(s) ==
    /\ pc[s] = "handle"
    /\ failures[s] < MaxFailures
    /\ failures' = [failures EXCEPT ![s] = @ + 1]
    /\ \E n \in 1 .. MaxMsgs : todo' = [todo EXCEPT ![s] = n]
    /\ Goto(s, "send")
    /\ UNCHANGED <<state, cancelled, inUse, publisher, logger, pubs, sent, waits, confirmed, rejected, faults>>

\* Mutant of HandleErrorFails: the wait for the records is taken up again.
HandleErrorFailsWaits(s) == Goto(s, "await") /\ UNCHANGED <<state, todo, waits>>

\* HandleError returns an error: the loop stops, storing nothing.
HandleErrorFails(s) ==
    /\ state' = [state EXCEPT ![SubscriberOf[s]] = "stopping"]
    /\ Goto(s, "close")
    /\ todo' = [todo EXCEPT ![s] = 0]
    /\ waits' = [waits EXCEPT ![s] = {}]

\* The message being sent is the failure's last.
LastMessage(s) == todo[s] = 1

\* HandleError sends the next message through the strategy's writers.
SendAccepted(s) ==
    LET p == Publisher(s)
    IN  /\ pc[s] = "send"
        /\ pubs[p] = "open"
        /\ sent' = [sent EXCEPT ![p] = Append(@, "pending")]
        /\ waits' = [waits EXCEPT ![s] = @ \cup {<<p, Len(sent[p]) + 1>>}]
        /\ todo' = [todo EXCEPT ![s] = @ - 1]
        /\ Goto(s, IF LastMessage(s) THEN "await" ELSE "send")
        /\ UNCHANGED <<state, cancelled, inUse, publisher, logger, pubs, failures, confirmed, rejected, faults>>

\* A send fails locally -- a full queue, a failed or a closed publisher -- and
\* HandleError returns without waiting for the records before it.
SendRejected(s) ==
    /\ pc[s] = "send"
    /\ IF pubs[Publisher(s)] = "open" THEN Fault ELSE NoFault
    /\ rejected' = rejected \cup {s}
    /\ HandleErrorFails(s)
    /\ UNCHANGED <<cancelled, inUse, publisher, logger, pubs, sent, failures, confirmed>>

Outcomes(s) == {sent[d[1]][d[2]] : d \in waits[s]}

\* awaitWrites has seen the outcome of every record.  It waits under
\* context.WithoutCancel, so nothing else ends it.
Settled(s) == "pending" \notin Outcomes(s)

\* No failure was collected.
AllAcked(s) == Outcomes(s) \subseteq {"acked"}

\* awaitWrites: nil when every record is acknowledged, else an error.
Await(s) ==
    /\ pc[s] = "await"
    /\ Settled(s)
    /\ \/ /\ AllAcked(s)
          /\ confirmed' = confirmed \cup waits[s]
          /\ waits' = [waits EXCEPT ![s] = {}]
          /\ Goto(s, "loop")
          /\ UNCHANGED <<state, todo>>
       \/ /\ ~AllAcked(s)
          /\ HandleErrorFails(s)
          /\ UNCHANGED confirmed
    /\ UNCHANGED <<cancelled, inUse, publisher, logger, pubs, sent, failures, rejected, faults>>

\* The broker answers a record, or the delivery timeout does.
BrokerAnswers(p) ==
    /\ pubs[p] \in {"open", "closing"}
    /\ \E i \in DOMAIN sent[p] :
          /\ sent[p][i] = "pending"
          /\ \/ sent' = [sent EXCEPT ![p][i] = "acked"] /\ NoFault
             \/ sent' = [sent EXCEPT ![p][i] = "failed"] /\ Fault
    /\ UNCHANGED <<lifeVars, todo, waits, failures, confirmed, rejected>>

-----------------------------------------------------------------------------
(***************************************************************************)
(* Close, and the end of Start.                                            *)
(***************************************************************************)

\* Close: the publisher takes no more records.
BeginClose(s) ==
    /\ pc[s] = "close"
    /\ pubs' = [pubs EXCEPT ![Publisher(s)] = "closing"]
    /\ Goto(s, "drain")
    /\ UNCHANGED <<state, cancelled, inUse, publisher, logger, sendVars, faults>>

\* Close: the publisher is closed when nothing is pending, or when closeTimeout
\* has expired and what was pending is purged.
Drain(s) ==
    LET p == Publisher(s)
        purged == [i \in DOMAIN sent[p] |-> IF sent[p][i] = "pending" THEN "purged" ELSE sent[p][i]]
    IN  /\ pc[s] = "drain"
        /\ sent' = [sent EXCEPT ![p] = purged]
        /\ purged # sent[p] => Fault
        /\ purged = sent[p] => NoFault
        /\ pubs' = [pubs EXCEPT ![p] = "closed"]
        /\ Goto(s, "release")
        /\ UNCHANGED <<state, cancelled, inUse, publisher, logger, todo, waits, failures, confirmed, rejected>>

SetFree(s) == inUse' = [inUse EXCEPT ![Strategy(s)] = FALSE]

\* The strategy is released: by Close, and by Initialize when it has no publisher.
Release(s) ==
    /\ pc[s] \in {"unclaim", "release"}
    /\ SetFree(s)
    /\ Goto(s, "return")
    /\ UNCHANGED <<state, cancelled, publisher, logger, pubs, sendVars, faults>>

\* The state the deferred store leaves.
Ended == "stopped"

\* Start returns: the deferred store.
Return(s) ==
    /\ pc[s] = "return"
    /\ state' = [state EXCEPT ![SubscriberOf[s]] = Ended]
    /\ Goto(s, "done")
    /\ UNCHANGED <<cancelled, inUse, publisher, logger, pubs, sendVars, faults>>

\* Every call has returned.
AllReturned ==
    /\ \A s \in Calls : pc[s] = "done"
    /\ UNCHANGED vars

Init ==
    /\ state     = [u \in Subscribers |-> "created"]
    /\ pc        = [s \in Calls |-> "start"]
    /\ cancelled = [s \in Calls |-> FALSE]
    /\ inUse     = [st \in Strategies |-> FALSE]
    /\ publisher = [st \in Strategies |-> Nobody]
    /\ logger    = [st \in Strategies |-> Nobody]
    /\ pubs      = [s \in Calls |-> "none"]
    /\ sent      = [s \in Calls |-> <<>>]
    /\ todo      = [s \in Calls |-> 0]
    /\ waits     = [s \in Calls |-> {}]
    /\ failures  = [s \in Calls |-> 0]
    /\ faults    = 0
    /\ confirmed = {}
    /\ rejected  = {}

\* What a call does by itself.
Step(s) ==
    \/ Start(s) \/ Claim(s) \/ Create(s) \/ Bind(s) \/ NewConsumer(s)
    \/ CtxDone(s) \/ LoopEnds(s) \/ HandlerSucceeds(s) \/ SendAccepted(s) \/ SendRejected(s) \/ Await(s)
    \/ BeginClose(s) \/ Drain(s) \/ Release(s) \/ Return(s)

Next ==
    \/ \E s \in Calls : Step(s) \/ Poll(s) \/ LoopFails(s) \/ HandlerFails(s) \/ Cancel(s) \/ BrokerAnswers(s)
    \/ AllReturned

Spec == Init /\ [][Next]_vars

\* The goroutine of a call runs, and the broker or the delivery timeout answers
\* every record.
Fairness == \A s \in Calls : WF_vars(Step(s)) /\ WF_vars(BrokerAnswers(s))

FairSpec == Spec /\ Fairness

-----------------------------------------------------------------------------
(***************************************************************************)
(* Properties.                                                             *)
(***************************************************************************)

\* Steps a call is at while the strategy is its own; Using: while it may touch
\* the strategy's publisher.
Holding == {"create", "unclaim", "bind", "newConsumer", "loop", "handle", "send", "await",
            "close", "drain", "release"}
Using   == {"loop", "handle", "send", "await"}
Steps   == Holding \cup {"start", "claim", "return", "done"}

Holds(s, st) == pc[s] \in Holding /\ Strategy(s) = st

\* Two consumers never hold one strategy, from the claim in Initialize to the
\* release in Close; the flag says so exactly, so a strategy whose consumer is
\* gone -- however its Start failed -- can be claimed again.
Exclusive ==
    /\ \A s, t \in Calls : \A st \in Strategies : Holds(s, st) /\ Holds(t, st) => s = t
    /\ \A st \in Strategies : inUse[st] <=> \E s \in Calls : Holds(s, st)

\* A running consumer writes its failures through the publisher it created, with
\* its own logger, and nobody has closed that publisher under it.
OwnPublisher ==
    \A s \in Calls : pc[s] \in Using =>
        /\ Publisher(s) = s
        /\ pubs[s] = "open"
        /\ logger[Strategy(s)] = s

\* When Start returns nothing is left running: the publisher it created is
\* closed and every record that publisher took has its outcome.
NothingLeftOpen ==
    \A s \in Calls : pc[s] = "done" =>
        /\ pubs[s] \in {"none", "closed"}
        /\ \A i \in DOMAIN sent[s] : sent[s][i] # "pending"

\* Normally nothing is pending when the strategy closes: a record is purged only
\* if a local failure made HandleError return before the wait.
PurgedOnlyAfterRejection ==
    \A s \in Calls : \A i \in DOMAIN sent[s] : sent[s][i] = "purged" => s \in rejected

\* HandleError returns nil only once the broker has acknowledged every record.
ConfirmedMeansAcked ==
    \A d \in confirmed : sent[d[1]][d[2]] = "acked"

\* A call on a subscriber that another call has claimed cannot stop it: a loop
\* ends because its own context is done, or its own strategy failed a message.
NobodyElseStopsTheLoop ==
    \A s \in Calls : pc[s] = "loop" /\ ~Running(s) => cancelled[s]

\* A subscriber is used once: its state never goes back, so whoever calls Start
\* after, or while, another call has claimed it is refused.
SingleUse ==
    [][\A u \in Subscribers :
          /\ state[u] # "created" => state'[u] # "created"
          /\ state[u] = "stopped" => state'[u] = "stopped"
          /\ state[u] = "stopping" => state'[u] # "running"]_vars

\* The strategies are leased: this system implements StrategyLease.
HolderOf(st) ==
    IF \E s \in Calls : Holds(s, st) THEN CHOOSE s \in Calls : Holds(s, st) ELSE Nobody

Lease == INSTANCE StrategyLease WITH holder <- [st \in Strategies |-> HolderOf(st)]

ImplementsLease == Lease!Spec

\* A Start whose context is cancelled returns, wherever the cancellation met it:
\* no wait for the broker and no shared strategy keeps it for ever.
CancelledStartsReturn ==
    \A s \in Calls : cancelled[s] ~> pc[s] = "done"

=============================================================================
