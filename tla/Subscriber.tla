----------------------------- MODULE Subscriber -----------------------------
(***************************************************************************)
(* The subscribers of a consumer group (subscribe/subscriber.go): Start,   *)
(* run, the single-message loop, the batch loop, and shutdown, over the    *)
(* driver of SubscribeDriver.  Each member is the one goroutine that Start *)
(* occupies; it interleaves with the other members, the coordinator, the   *)
(* background committer, cancellation of its context and its own death.    *)
(***************************************************************************)
EXTENDS SubscribeDriver, Sequences, Functions

CONSTANTS Mode,       \* "single" or "batch"
          BatchSize,  \* WithBatchSize
          Strategy    \* "skip", "fail_fast" or "retry"

ASSUME SubscriberAssumption ==
    /\ Mode \in {"single", "batch"}
    /\ BatchSize \in Nat \ {0}
    /\ Strategy \in {"skip", "fail_fast", "retry"}

VARIABLES
    state,      \* Subscriber.state; "crashed" once the process has died
    pc,         \* what the Start goroutine does next
    cancelled,  \* the context passed to Start is done
    buf,        \* the batch buffer
    inflight,   \* the message or batch being processed
    failed,     \* indices of inflight still to be routed to the strategy
    toStore,    \* partitions of the batch whose offset is still to be stored
    storeErr,   \* the batch met a store failure other than a revoked partition
    resolved,   \* history: messages handled, or taken over by the strategy
    abandoned   \* history: messages in hand when the strategy stopped a member

loopVars == <<state, pc, cancelled, buf, inflight, failed, toStore, storeErr>>
history  == <<resolved, abandoned>>
vars     == <<driverVars, loopVars, history>>

States == {"created", "running", "stopping", "stopped", "crashed"}
Steps  == {"start", "connect", "subscribe", "loop", "handle", "route", "routeWhole",
           "store", "commit", "final", "close", "done"}

PartsOf(msgs)  == {msgs[i].part : i \in DOMAIN msgs}
Goto(m, label) == pc' = [pc EXCEPT ![m] = label]
At(m, label)   == pc[m] = label

\* The loop ends: state becomes stopping and run goes on to the final commit.
StopLoop(m) ==
    /\ state' = [state EXCEPT ![m] = "stopping"]
    /\ Goto(m, "final")

-----------------------------------------------------------------------------
(***************************************************************************)
(* Start and run, up to the loop.                                          *)
(***************************************************************************)

\* Start claims the subscriber, initializes the strategy and builds the driver.
\* Either step can fail; Start then returns, and the subscriber is used up.
Start(m) ==
    /\ state[m] = "created"
    /\ \/ /\ state' = [state EXCEPT ![m] = "running"]
          /\ Goto(m, "connect")
          /\ NoFault
       \/ /\ state' = [state EXCEPT ![m] = "stopped"]
          /\ Goto(m, "done")
          /\ Fault
    /\ UNCHANGED <<groupVars, clientVars, cancelled, buf, inflight, failed, toStore, storeErr, history>>

\* run: Connect; a failure leaves nothing to close.
Connect(m) ==
    /\ At(m, "connect")
    /\ \/ /\ Goto(m, "subscribe")
          /\ NoFault
          /\ UNCHANGED state
       \/ /\ Goto(m, "done")
          /\ state' = [state EXCEPT ![m] = "stopped"]
          /\ Fault
    /\ UNCHANGED <<groupVars, clientVars, cancelled, buf, inflight, failed, toStore, storeErr, history>>

\* run: SubscribeToTopic; on a failure the driver is closed at once.
Subscribe(m) ==
    /\ At(m, "subscribe")
    /\ \/ /\ SubscribeToTopic(m)
          /\ Goto(m, "loop")
          /\ NoFault
       \/ /\ Goto(m, "close")
          /\ Fault
          /\ UNCHANGED <<groupVars, clientVars>>
    /\ UNCHANGED <<state, cancelled, buf, inflight, failed, toStore, storeErr, history>>

\* The caller cancels the context passed to Start.
Cancel(m) ==
    /\ state[m] = "running"
    /\ ~cancelled[m]
    /\ cancelled' = [cancelled EXCEPT ![m] = TRUE]
    /\ UNCHANGED <<driverVars, state, pc, buf, inflight, failed, toStore, storeErr, history>>

-----------------------------------------------------------------------------
(***************************************************************************)
(* The top of either loop.  A Poll that returns neither a message nor an   *)
(* error changes nothing, and has no action of its own, except in the      *)
(* batch loop, where it lets the batch timeout expire.                     *)
(***************************************************************************)

\* ctx.Done() is seen.  The buffer is left behind, not dispatched.
CtxDone(m) ==
    /\ At(m, "loop")
    /\ cancelled[m]
    /\ StopLoop(m)
    /\ UNCHANGED <<driverVars, cancelled, buf, inflight, failed, toStore, storeErr, history>>

\* Poll returns a fatal error.
PollFatal(m) ==
    /\ At(m, "loop")
    /\ ~cancelled[m]
    /\ Fault
    /\ StopLoop(m)
    /\ UNCHANGED <<groupVars, clientVars, cancelled, buf, inflight, failed, toStore, storeErr, history>>

\* Poll runs the rebalance callback for an assignment.
PollAssigned(m) ==
    /\ At(m, "loop")
    /\ ~cancelled[m]
    /\ AssignedPartitions(m)
    /\ UNCHANGED <<loopVars, history>>

\* Mutant of OnRevoke: the buffer is kept.
OnRevokeKeeps(m) == UNCHANGED buf

\* The hook SetOnRevoke installs in batch mode: the whole buffer is dropped.
OnRevoke(m) ==
    IF Mode = "batch" THEN buf' = [buf EXCEPT ![m] = <<>>] ELSE UNCHANGED buf

\* Poll runs the rebalance callback for a revocation.
PollRevoked(m) ==
    /\ At(m, "loop")
    /\ ~cancelled[m]
    /\ OnRevoke(m)
    /\ RevokedPartitions(m)
    /\ UNCHANGED <<state, pc, cancelled, inflight, failed, toStore, storeErr, history>>

-----------------------------------------------------------------------------
(***************************************************************************)
(* What HandleError answers: skip takes every failure over, fail-fast none,*)
(* retry those whose records the broker acknowledges.                      *)
(***************************************************************************)
HandleErrorOK == Strategy \in {"skip", "retry"} /\ NoFault

HandleErrorFails ==
    \/ Strategy = "fail_fast" /\ NoFault
    \/ Strategy = "retry" /\ Fault

\* A strategy error stops the member before anything in hand is stored.
StoppedByStrategy(m) ==
    /\ HandleErrorFails
    /\ StopLoop(m)
    /\ abandoned' = abandoned \cup Range(inflight[m])
    /\ UNCHANGED <<failed, toStore, resolved>>

-----------------------------------------------------------------------------
(***************************************************************************)
(* runSingleLoop.                                                          *)
(***************************************************************************)

PollSingle(m) ==
    /\ Mode = "single"
    /\ At(m, "loop")
    /\ ~cancelled[m]
    /\ \E msg \in Messages :
          /\ PollMessage(m, msg)
          /\ inflight' = [inflight EXCEPT ![m] = <<msg>>]
    /\ Goto(m, "handle")
    /\ UNCHANGED <<state, cancelled, buf, failed, toStore, storeErr, history>>

\* Mutant of DispatchMessage: a recovered panic is read as success.
DispatchLosesPanic(m) ==
    /\ Mode = "single"
    /\ At(m, "handle")
    /\ Goto(m, "store")
    /\ resolved' \in {resolved, resolved \cup Range(inflight[m])}
    /\ UNCHANGED <<driverVars, state, cancelled, buf, inflight, failed, toStore, storeErr, abandoned>>

\* dispatchMessage: the handler succeeds, or fails or panics.
DispatchMessage(m) ==
    /\ Mode = "single"
    /\ At(m, "handle")
    /\ \/ /\ Goto(m, "store")
          /\ resolved' = resolved \cup Range(inflight[m])
          /\ UNCHANGED failed
       \/ /\ Goto(m, "route")
          /\ failed' = [failed EXCEPT ![m] = DOMAIN inflight[m]]
          /\ UNCHANGED resolved
    /\ UNCHANGED <<driverVars, state, cancelled, buf, inflight, toStore, storeErr, abandoned>>

RouteSingle(m) ==
    /\ Mode = "single"
    /\ At(m, "route")
    /\ \/ /\ HandleErrorOK
          /\ Goto(m, "store")
          /\ failed' = [failed EXCEPT ![m] = {}]
          /\ resolved' = resolved \cup Range(inflight[m])
          /\ UNCHANGED <<state, toStore, abandoned>>
       \/ StoppedByStrategy(m)
    /\ UNCHANGED <<groupVars, clientVars, cancelled, buf, inflight, storeErr>>

\* The offset of the message is stored.  A revoked partition is passed over;
\* any other failure stops the loop.
StoreSingle(m) ==
    /\ Mode = "single"
    /\ At(m, "store")
    /\ \/ /\ StoreOffset(m, inflight[m][1].part, inflight[m][1].off)
          /\ Goto(m, "commit")
          /\ NoFault
          /\ UNCHANGED <<state, inflight>>
       \/ /\ ErrPartitionRevoked(m)
          /\ Goto(m, "loop")
          /\ inflight' = [inflight EXCEPT ![m] = <<>>]
          /\ NoFault
          /\ UNCHANGED <<state, stored>>
       \/ /\ Fault
          /\ StopLoop(m)
          /\ UNCHANGED <<inflight, stored>>
    /\ UNCHANGED <<groupVars, assigned, position, cancelled, buf, failed, toStore, storeErr, history>>

CommitSingle(m) ==
    /\ Mode = "single"
    /\ At(m, "commit")
    /\ MaybeCommitStored(m)
    /\ inflight' = [inflight EXCEPT ![m] = <<>>]
    /\ Goto(m, "loop")
    /\ UNCHANGED <<owner, rebalancing, membership, clientVars,
                   state, cancelled, buf, failed, toStore, storeErr, history>>

-----------------------------------------------------------------------------
(***************************************************************************)
(* runBatchLoop and dispatchBatch.                                         *)
(***************************************************************************)

\* The buffer is flushed and its messages go to dispatchBatch.
Flush(m, msgs) ==
    /\ inflight' = [inflight EXCEPT ![m] = msgs]
    /\ buf' = [buf EXCEPT ![m] = <<>>]
    /\ Goto(m, "handle")

Ready(msgs) == Len(msgs) >= BatchSize

\* Poll returns a message, which is added to the buffer.  A full buffer is
\* flushed at once; one that is not full is flushed if it has timed out.
PollBatch(m) ==
    /\ Mode = "batch"
    /\ At(m, "loop")
    /\ ~cancelled[m]
    /\ \E msg \in Messages :
          /\ PollMessage(m, msg)
          /\ \/ Flush(m, Append(buf[m], msg))
             \/ /\ ~Ready(Append(buf[m], msg))
                /\ buf' = [buf EXCEPT ![m] = Append(@, msg)]
                /\ UNCHANGED <<inflight, pc>>
    /\ UNCHANGED <<state, cancelled, failed, toStore, storeErr, history>>

\* Mutant of BatchTimedOut: only a full buffer is flushed.
BatchNeverTimesOut(m) ==
    /\ Mode = "batch"
    /\ At(m, "loop")
    /\ ~cancelled[m]
    /\ Ready(buf[m])
    /\ Flush(m, buf[m])
    /\ UNCHANGED <<driverVars, state, cancelled, failed, toStore, storeErr, history>>

\* Poll returns nothing, and the first buffered message is older than the
\* batch timeout.
BatchTimedOut(m) ==
    /\ Mode = "batch"
    /\ At(m, "loop")
    /\ ~cancelled[m]
    /\ buf[m] # <<>>
    /\ Flush(m, buf[m])
    /\ UNCHANGED <<driverVars, state, cancelled, failed, toStore, storeErr, history>>

\* Every message is resolved: its partitions are next to be stored.
BeginStore(m) ==
    /\ Goto(m, "store")
    /\ toStore'  = [toStore EXCEPT ![m] = PartsOf(inflight[m])]

\* invokeBatchHandler: the handler fails the items of its choice, or returns
\* a failure (or panics), which fails the batch as a whole and discards what
\* it recorded on single items.
InvokeBatchHandler(m) ==
    /\ Mode = "batch"
    /\ At(m, "handle")
    /\ \/ \E items \in SUBSET DOMAIN inflight[m] :
             /\ failed' = [failed EXCEPT ![m] = items]
             /\ resolved' = resolved \cup {inflight[m][i] : i \in DOMAIN inflight[m] \ items}
             /\ IF items = {} THEN BeginStore(m) ELSE Goto(m, "route") /\ UNCHANGED toStore
       \/ /\ failed' = [failed EXCEPT ![m] = DOMAIN inflight[m]]
          /\ Goto(m, "routeWhole")
          /\ UNCHANGED <<resolved, toStore>>
    /\ UNCHANGED <<driverVars, state, cancelled, buf, inflight, storeErr, abandoned>>

\* Mutant of RouteItem: an error of the strategy does not keep the store away.
RouteItemStoresAnyway(m) ==
    /\ Mode = "batch"
    /\ At(m, "route")
    /\ HandleErrorOK \/ HandleErrorFails
    /\ failed' = [failed EXCEPT ![m] = {}]
    /\ BeginStore(m)
    /\ UNCHANGED <<groupVars, clientVars, state, cancelled, buf, inflight, storeErr, history>>

\* routeBatchFailures, one failed item: in batch order, up to the first error.
RouteItem(m) ==
    /\ Mode = "batch"
    /\ At(m, "route")
    /\ \/ /\ HandleErrorOK
          /\ \E i \in failed[m] :
                /\ \A j \in failed[m] : i <= j
                /\ failed' = [failed EXCEPT ![m] = @ \ {i}]
                /\ resolved' = resolved \cup {inflight[m][i]}
                /\ IF failed[m] = {i} THEN BeginStore(m) ELSE UNCHANGED <<pc, toStore>>
          /\ UNCHANGED <<state, abandoned>>
       \/ StoppedByStrategy(m)
    /\ UNCHANGED <<groupVars, clientVars, cancelled, buf, inflight, storeErr>>

\* routeBatchFailures, the batch as a whole: one call for every message.
RouteWhole(m) ==
    /\ Mode = "batch"
    /\ At(m, "routeWhole")
    /\ \/ /\ HandleErrorOK
          /\ failed' = [failed EXCEPT ![m] = {}]
          /\ resolved' = resolved \cup Range(inflight[m])
          /\ BeginStore(m)
          /\ UNCHANGED <<state, abandoned>>
       \/ StoppedByStrategy(m)
    /\ UNCHANGED <<groupVars, clientVars, cancelled, buf, inflight, storeErr>>

\* The position in msgs of the highest offset of its partition.
IsHighest(msgs, i) ==
    \A j \in DOMAIN msgs : msgs[j].part = msgs[i].part => msgs[j].off <= msgs[i].off

\* storeHighestOffsetPerPartition, one partition, in any order.  A revoked
\* partition is passed over; another failure is kept, and the rest is stored.
StoreHighest(m) ==
    /\ Mode = "batch"
    /\ At(m, "store")
    /\ \E i \in DOMAIN inflight[m] :
          LET p == inflight[m][i].part IN
          /\ p \in toStore[m]
          /\ IsHighest(inflight[m], i)
          /\ toStore' = [toStore EXCEPT ![m] = @ \ {p}]
          /\ IF toStore[m] = {p} THEN Goto(m, "commit") ELSE UNCHANGED pc
          /\ \/ /\ StoreOffset(m, p, inflight[m][i].off)
                /\ NoFault
                /\ UNCHANGED storeErr
             \/ /\ ErrPartitionRevoked(m)
                /\ NoFault
                /\ UNCHANGED <<stored, storeErr>>
             \/ /\ Fault
                /\ storeErr' = [storeErr EXCEPT ![m] = TRUE]
                /\ UNCHANGED stored
    /\ UNCHANGED <<groupVars, assigned, position, state, cancelled, buf, inflight, failed, history>>

\* The commit after a batch, also when a store failed, which then stops the loop.
CommitBatch(m) ==
    /\ Mode = "batch"
    /\ At(m, "commit")
    /\ MaybeCommitStored(m)
    /\ inflight' = [inflight EXCEPT ![m] = <<>>]
    /\ IF storeErr[m] THEN StopLoop(m) ELSE Goto(m, "loop") /\ UNCHANGED state
    /\ UNCHANGED <<owner, rebalancing, membership, clientVars,
                   cancelled, buf, failed, toStore, storeErr, history>>

-----------------------------------------------------------------------------
(***************************************************************************)
(* Shutdown, and the death of the process.                                 *)
(***************************************************************************)

\* Mutant of FinalCommit: it is repeated until the coordinator takes it.
FinalCommitInsists(m) ==
    /\ At(m, "final")
    /\ \/ membership[m] # "active" /\ UNCHANGED vars
       \/ /\ membership[m] = "active"
          /\ CommitStored(m)
          /\ Goto(m, "close")
          /\ UNCHANGED <<owner, rebalancing, membership, clientVars,
                         state, cancelled, buf, inflight, failed, toStore, storeErr, history>>

\* run: the commit of whatever is stored, before the driver is closed.
FinalCommit(m) ==
    /\ At(m, "final")
    /\ CommitStored(m)
    /\ Goto(m, "close")
    /\ UNCHANGED <<owner, rebalancing, membership, clientVars,
                   state, cancelled, buf, inflight, failed, toStore, storeErr, history>>

\* run: the driver is closed; then Start closes the strategy and returns.
CloseDriver(m) ==
    /\ At(m, "close")
    /\ OnRevoke(m)
    /\ Close(m)
    /\ state' = [state EXCEPT ![m] = "stopped"]
    /\ Goto(m, "done")
    /\ UNCHANGED <<cancelled, inflight, failed, toStore, storeErr, history>>

\* The process dies at any point.
Crash(m) ==
    /\ state[m] \in {"running", "stopping"}
    /\ Die(m)
    /\ state' = [state EXCEPT ![m] = "crashed"]
    /\ Goto(m, "done")
    /\ buf'      = [buf EXCEPT ![m] = <<>>]
    /\ inflight' = [inflight EXCEPT ![m] = <<>>]
    /\ failed'   = [failed EXCEPT ![m] = {}]
    /\ toStore'  = [toStore EXCEPT ![m] = {}]
    /\ UNCHANGED <<cancelled, storeErr, history>>

-----------------------------------------------------------------------------
Init ==
    /\ DriverInit
    /\ state     = [m \in Members |-> "created"]
    /\ pc        = [m \in Members |-> "start"]
    /\ cancelled = [m \in Members |-> FALSE]
    /\ buf       = [m \in Members |-> <<>>]
    /\ inflight  = [m \in Members |-> <<>>]
    /\ failed    = [m \in Members |-> {}]
    /\ toStore   = [m \in Members |-> {}]
    /\ storeErr  = [m \in Members |-> FALSE]
    /\ resolved  = {}
    /\ abandoned = {}

\* What the goroutine running Start does.
Step(m) ==
    \/ Connect(m) \/ Subscribe(m)
    \/ CtxDone(m) \/ PollAssigned(m) \/ PollRevoked(m)
    \/ PollSingle(m) \/ DispatchMessage(m) \/ RouteSingle(m) \/ StoreSingle(m) \/ CommitSingle(m)
    \/ PollBatch(m) \/ BatchTimedOut(m) \/ InvokeBatchHandler(m) \/ RouteItem(m) \/ RouteWhole(m)
    \/ StoreHighest(m) \/ CommitBatch(m)
    \/ FinalCommit(m) \/ CloseDriver(m)

\* What is done to a member: by its caller, by Kafka, by the machine it runs on.
Environment(m) ==
    \/ Start(m)
    \/ Cancel(m)
    \/ PollFatal(m)
    \/ Crash(m)
    \/ AutoCommit(m) /\ UNCHANGED <<loopVars, history>>
    \/ Evict(m) /\ UNCHANGED <<loopVars, history>>

\* Every subscriber has been used up.
AllDone == (\A m \in Members : At(m, "done")) /\ UNCHANGED vars

Next ==
    \/ \E m \in Members : Step(m) \/ Environment(m)
    \/ CompleteRebalance /\ UNCHANGED <<loopVars, history>>
    \/ AllDone

Spec == Init /\ [][Next]_vars

\* A running goroutine keeps going (handlers return, Poll times out), the
\* background committer's timer fires, and the coordinator finishes rebalances.
\* Nothing makes a caller start or cancel a subscriber, or a fault happen.
Fairness ==
    /\ \A m \in Members : WF_vars(Step(m)) /\ WF_vars(AutoCommit(m) /\ UNCHANGED <<loopVars, history>>)
    /\ WF_vars(CompleteRebalance /\ UNCHANGED <<loopVars, history>>)

FairSpec == Spec /\ Fairness

-----------------------------------------------------------------------------
(***************************************************************************)
(* Properties.                                                             *)
(***************************************************************************)

\* The goroutines' own variables.
LoopTypeOK ==
    /\ state     \in [Members -> States]
    /\ pc        \in [Members -> Steps]
    /\ cancelled \in [Members -> BOOLEAN]
    /\ buf       \in [Members -> Seq(Messages)]
    /\ inflight  \in [Members -> Seq(Messages)]
    /\ failed    \in [Members -> SUBSET Nat]
    /\ toStore   \in [Members -> SUBSET Partitions]
    /\ storeErr  \in [Members -> BOOLEAN]
    /\ resolved  \subseteq Messages
    /\ abandoned \subseteq Messages

\* Every variable of the group, the clients and the goroutines has its type; an
\* offset stored or committed lies within the log.
TypeOK == DriverTypeOK /\ LoopTypeOK

\* The members' goroutine is inside the loop.
InLoop(m) == pc[m] \in {"loop", "handle", "route", "routeWhole", "store", "commit"}

\* Every message of p below offset o was handled or taken over.
PrefixResolved(p, o) ==
    \A msg \in Messages : msg.part = p /\ msg.off < o => msg \in resolved

\* At-least-once: whatever is committed, by the per-message or per-batch
\* commit, the background committer, a revoke or shutdown, has been handled by
\* the handler or taken over by the strategy (MaybeCommitStored, CommitStored).
CommittedIsResolved == \A p \in Partitions : PrefixResolved(p, committed[p])

\* The group as a whole implements its abstract promise; on top of the above,
\* no commit of a member moves a committed offset back.
ALO == INSTANCE AtLeastOnce
ImplementsAtLeastOnce == ALO!Spec

\* Between two polls a member holds exactly what it polled and did not store:
\* the buffer has every offset from the stored one (the committed one when
\* nothing is stored yet) up to the fetch position, once each.  A rebalance,
\* a flush or a drop that loses or repeats a message breaks it.
BufferCoversTheGap ==
    \A m \in Members, p \in Partitions :
        At(m, "loop") /\ membership[m] = "active" /\ p \in assigned[m] =>
            LET from == IF stored[m][p] > 0 THEN stored[m][p] ELSE committed[p]
                mine == {i \in DOMAIN buf[m] : buf[m][i].part = p}
            IN /\ {buf[m][i].off : i \in mine} = from .. position[m][p] - 1
               /\ \A i, j \in mine : i < j => buf[m][i].off < buf[m][j].off

\* As long as nothing has failed, rebalances and clean stops replay nothing: a
\* message given to a handler was not dealt with before, unless it was in hand
\* next to one the strategy refused (options.go: "a clean stop or a rebalance
\* does not replay").
NoReplayWithoutFault ==
    \A m \in Members :
        faults = 0 /\ At(m, "handle") =>
            Range(inflight[m]) \cap resolved \subseteq abandoned

\* In the default cadence the duplicate window is one message or batch: back at
\* the top of the loop nothing is stored that is not committed, unless a commit
\* failed or the member has lost its place in the group.
NothingLeftUncommitted ==
    \A m \in Members, p \in Partitions :
        /\ faults = 0
        /\ ~autoCommit
        /\ At(m, "loop")
        => stored[m][p] \in {0, committed[p]}

\* Cancelling the context of a running subscriber makes Start return.
CancelStops ==
    \A m \in Members :
        cancelled[m] /\ state[m] = "running" ~> state[m] \in {"stopped", "crashed"}

\* With a subscriber left running, every message is dealt with in the end: no
\* rebalance, lost member or half-full batch strands one.
EveryMessageResolved ==
    <>[](\E m \in Members : InLoop(m) /\ ~cancelled[m]) => <>(Messages \subseteq resolved)

\* The background committer publishes what is stored while the member keeps its
\* partitions (options.go: "publishes the offset store on a background thread
\* every d").
StoredIsPublished ==
    \A m \in Members, p \in Partitions, o \in 1 .. LogLen :
        stored[m][p] = o ~> committed[p] >= o \/ membership[m] # "active"

=============================================================================
