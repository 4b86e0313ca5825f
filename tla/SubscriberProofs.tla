-------------------------- MODULE SubscriberProofs --------------------------
(***************************************************************************)
(* At-least-once, for any number of members and partitions, any log, batch *)
(* size, commit cadence, strategy and number of faults.                    *)
(***************************************************************************)
EXTENDS Subscriber, TLAPS

-----------------------------------------------------------------------------
(***************************************************************************)
(* The subscribers of a group keep their types.  The types alone are not   *)
(* inductive: storing an offset needs the message in hand to be there,     *)
(* which Shape adds.  First the operations of the driver, the client and   *)
(* the coordinator.                                                        *)
(***************************************************************************)

\* The fault budget is never overdrawn.
LEMMA FaultType ==
  ASSUME DriverTypeOK, Fault \/ NoFault
  PROVE  faults' \in 0 .. MaxFaults
  BY DriverAssumption DEF DriverTypeOK, Fault, NoFault

\* Publishing the offset store yields an offset of the log for every partition.
LEMMA PublishedType ==
  ASSUME DriverTypeOK, NEW m \in Members
  PROVE  Published(m) \in [Partitions -> Offsets]
  BY DEF DriverTypeOK, Published

\* CommitStored keeps the committed offsets and the fault count typed.
LEMMA CommitStoredType ==
  ASSUME DriverTypeOK, NEW m \in Members, CommitStored(m)
  PROVE  /\ committed' \in [Partitions -> Offsets]
         /\ faults' \in 0 .. MaxFaults
<1>1. committed' \in [Partitions -> Offsets]
  BY PublishedType DEF CommitStored, DriverTypeOK
<1>2. faults' \in 0 .. MaxFaults
  BY FaultType DEF CommitStored
<1> QED
  BY <1>1, <1>2

\* So does MaybeCommitStored, whichever cadence is configured.
LEMMA MaybeCommitStoredType ==
  ASSUME DriverTypeOK, NEW m \in Members, MaybeCommitStored(m)
  PROVE  /\ committed' \in [Partitions -> Offsets]
         /\ faults' \in 0 .. MaxFaults
  BY CommitStoredType DEF MaybeCommitStored, DriverTypeOK

\* Unassign leaves a typed, empty client.
LEMMA UnassignType ==
  ASSUME DriverTypeOK, NEW m \in Members, Unassign(m)
  PROVE  /\ assigned' \in [Members -> SUBSET Partitions]
         /\ position' \in [Members -> [Partitions -> Offsets]]
         /\ stored'   \in [Members -> [Partitions -> Offsets]]
<1>1. [p \in Partitions |-> 0] \in [Partitions -> Offsets]
  BY DriverAssumption DEF Offsets
<1>2. assigned' \in [Members -> SUBSET Partitions]
  BY DEF DriverTypeOK, Unassign
<1>3. position' \in [Members -> [Partitions -> Offsets]]
  BY <1>1 DEF DriverTypeOK, Unassign
<1>4. stored' \in [Members -> [Partitions -> Offsets]]
  BY <1>1 DEF DriverTypeOK, Unassign
<1> QED
  BY <1>2, <1>3, <1>4

\* A member's standing moves to another standing only.
LEMMA StandingType ==
  ASSUME DriverTypeOK, NEW m \in Members, NEW s \in Standings,
         membership' = [membership EXCEPT ![m] = s]
  PROVE  membership' \in [Members -> Standings]
  BY DEF DriverTypeOK

\* SubscribeToTopic keeps the driver's types.
LEMMA SubscribeToTopicType ==
  ASSUME DriverTypeOK, NEW m \in Members, SubscribeToTopic(m), NoFault
  PROVE  DriverTypeOK'
<1>1. membership' \in [Members -> Standings]
  BY StandingType, Zenon DEF SubscribeToTopic, Standings
<1>2. faults' \in 0 .. MaxFaults
  BY FaultType
<1> QED
  BY <1>1, <1>2 DEF DriverTypeOK, SubscribeToTopic, clientVars

\* The rebalance callback for an assignment keeps the driver's types.
LEMMA AssignedPartitionsType ==
  ASSUME DriverTypeOK, NEW m \in Members, AssignedPartitions(m)
  PROVE  DriverTypeOK'
<1>1. membership' \in [Members -> Standings]
  BY StandingType, Zenon DEF AssignedPartitions, Standings
<1>2. faults' \in 0 .. MaxFaults
  BY FaultType DEF AssignedPartitions
<1>3. assigned' \in [Members -> SUBSET Partitions]
  BY DEF DriverTypeOK, AssignedPartitions
<1>4. position' \in [Members -> [Partitions -> Offsets]]
  BY DEF DriverTypeOK, AssignedPartitions
<1> QED
  BY <1>1, <1>2, <1>3, <1>4 DEF DriverTypeOK, AssignedPartitions

\* The rebalance callback for a revocation keeps the driver's types.
LEMMA RevokedPartitionsType ==
  ASSUME DriverTypeOK, NEW m \in Members, RevokedPartitions(m)
  PROVE  DriverTypeOK'
<1>1. membership' \in [Members -> Standings]
  BY StandingType, Zenon DEF RevokedPartitions, Standings
<1>2. committed' \in [Partitions -> Offsets] /\ faults' \in 0 .. MaxFaults
  BY CommitStoredType DEF RevokedPartitions
<1>3. /\ assigned' \in [Members -> SUBSET Partitions]
      /\ position' \in [Members -> [Partitions -> Offsets]]
      /\ stored'   \in [Members -> [Partitions -> Offsets]]
  BY UnassignType DEF RevokedPartitions
<1> QED
  BY <1>1, <1>2, <1>3 DEF DriverTypeOK, RevokedPartitions

\* Close keeps the driver's types.
LEMMA CloseType ==
  ASSUME DriverTypeOK, NEW m \in Members, Close(m)
  PROVE  DriverTypeOK'
<1>1. membership' \in [Members -> Standings]
  BY StandingType, Zenon DEF Close, Standings
<1>2. committed' \in [Partitions -> Offsets] /\ faults' \in 0 .. MaxFaults
  BY CommitStoredType DEF Close
<1>3. /\ assigned' \in [Members -> SUBSET Partitions]
      /\ position' \in [Members -> [Partitions -> Offsets]]
      /\ stored'   \in [Members -> [Partitions -> Offsets]]
  BY UnassignType DEF Close
<1>4. rebalancing' \in BOOLEAN
  BY DEF Close
<1> QED
  BY <1>1, <1>2, <1>3, <1>4 DEF DriverTypeOK, Close

\* Poll never hands out an offset past the end of the log, so the fetch
\* position stays within it.
LEMMA PollMessageType ==
  ASSUME DriverTypeOK, NEW m \in Members, NEW msg \in Messages, PollMessage(m, msg)
  PROVE  DriverTypeOK'
<1>1. position[m][msg.part] + 1 \in Offsets
  BY DriverAssumption DEF DriverTypeOK, PollMessage, Messages, Offsets
<1>2. position' \in [Members -> [Partitions -> Offsets]]
  BY <1>1 DEF DriverTypeOK, PollMessage
<1> QED
  BY <1>2 DEF DriverTypeOK, PollMessage, NoFault, groupVars

\* Storing the resume position after a message of the log keeps it in the log.
LEMMA StoreOffsetType ==
  ASSUME DriverTypeOK, NEW m \in Members, NEW msg \in Messages, StoreOffset(m, msg.part, msg.off)
  PROVE  stored' \in [Members -> [Partitions -> Offsets]]
<1>1. msg.off + 1 \in Offsets
  BY DriverAssumption DEF Messages, Offsets
<1> QED
  BY <1>1 DEF DriverTypeOK, StoreOffset

\* The coordinator's next generation keeps the driver's types.
LEMMA CompleteRebalanceType ==
  ASSUME DriverTypeOK, CompleteRebalance
  PROVE  DriverTypeOK'
<1>1. membership' \in [Members -> Standings]
  BY DEF DriverTypeOK, CompleteRebalance, Standings
<1>2. owner' \in [Partitions -> Members \cup {Nobody}]
  BY DEF DriverTypeOK, CompleteRebalance
<1> QED
  BY <1>1, <1>2, Zenon DEF DriverTypeOK, CompleteRebalance, NoFault, clientVars

\* An eviction keeps the driver's types.
LEMMA EvictType ==
  ASSUME DriverTypeOK, NEW m \in Members, Evict(m)
  PROVE  DriverTypeOK'
<1>1. membership' \in [Members -> Standings]
  BY StandingType, Zenon DEF Evict, Standings
<1>2. faults' \in 0 .. MaxFaults
  BY FaultType DEF Evict
<1> QED
  BY <1>1, <1>2 DEF DriverTypeOK, Evict, clientVars

\* The death of a member keeps the driver's types.
LEMMA DieType ==
  ASSUME DriverTypeOK, NEW m \in Members, Die(m)
  PROVE  DriverTypeOK'
<1>1. membership' \in [Members -> Standings]
  BY StandingType, Zenon DEF Die, Standings
<1>2. faults' \in 0 .. MaxFaults
  BY FaultType DEF Die
<1>3. /\ assigned' \in [Members -> SUBSET Partitions]
      /\ position' \in [Members -> [Partitions -> Offsets]]
      /\ stored'   \in [Members -> [Partitions -> Offsets]]
  BY UnassignType DEF Die
<1>4. rebalancing' \in BOOLEAN
  BY DEF Die
<1> QED
  BY <1>1, <1>2, <1>3, <1>4 DEF DriverTypeOK, Die

\* The background committer keeps the driver's types.
LEMMA AutoCommitType ==
  ASSUME DriverTypeOK, NEW m \in Members, AutoCommit(m)
  PROVE  DriverTypeOK'
<1>1. committed' \in [Partitions -> Offsets] /\ faults' \in 0 .. MaxFaults
  BY CommitStoredType DEF AutoCommit
<1> QED
  BY <1>1 DEF DriverTypeOK, AutoCommit, clientVars

-----------------------------------------------------------------------------
(***************************************************************************)
(* The goroutines.                                                         *)
(***************************************************************************)

\* The steps between a poll and the commit, and those before the store.
Unstored   == {"handle", "route", "routeWhole"}
Processing == Unstored \cup {"store", "commit"}

\* Where the messages in hand are, by what the goroutine does next.
Shape(m) ==
    /\ state[m] = "created" => At(m, "start")
    /\ pc[m] \in {"start", "connect", "subscribe", "loop"} => inflight[m] = <<>>
    /\ pc[m] \in Processing => inflight[m] # <<>>
    /\ buf[m] # <<>> =>
          /\ Mode = "batch"
          /\ pc[m] \in {"loop", "final", "close"}
          /\ membership[m] \in {"active", "lost"}
    /\ At(m, "route") => failed[m] \subseteq DOMAIN inflight[m]

\* Goto moves a goroutine to another step only.
LEMMA GotoType ==
  ASSUME LoopTypeOK, NEW m \in Members, NEW l \in Steps, Goto(m, l)
  PROVE  pc' \in [Members -> Steps]
  BY DEF LoopTypeOK, Goto

\* StopLoop keeps state and step typed.
LEMMA StopLoopType ==
  ASSUME LoopTypeOK, NEW m \in Members, StopLoop(m)
  PROVE  pc' \in [Members -> Steps] /\ state' \in [Members -> States]
<1>1. pc' \in [Members -> Steps]
  BY GotoType DEF StopLoop, Steps
<1>2. state' \in [Members -> States]
  BY DEF LoopTypeOK, StopLoop, States
<1> QED
  BY <1>1, <1>2

\* The elements of a sequence of messages are messages.
LEMMA RangeType ==
  ASSUME NEW s \in Seq(Messages)
  PROVE  Range(s) \subseteq Messages
  BY DEF Range

\* The partitions of a sequence of messages are partitions.
LEMMA PartsOfType ==
  ASSUME NEW s \in Seq(Messages)
  PROVE  PartsOf(s) \subseteq Partitions
<1> SUFFICES ASSUME NEW i \in DOMAIN s
             PROVE  s[i].part \in Partitions
  BY DEF PartsOf
<1>1. s[i] \in Messages
  OBVIOUS
<1> QED
  BY <1>1 DEF Messages

\* The messages in a member's hands can be replaced by messages only.
LEMMA HandType ==
  ASSUME LoopTypeOK, NEW m \in Members, NEW s \in Seq(Messages)
  PROVE  /\ [buf EXCEPT ![m] = s] \in [Members -> Seq(Messages)]
         /\ [inflight EXCEPT ![m] = s] \in [Members -> Seq(Messages)]
  BY DEF LoopTypeOK

\* The empty sequence is one of messages.
LEMMA EmptyType == <<>> \in Seq(Messages)
  OBVIOUS

\* What HandleError answers counts at most one fault.
LEMMA HandleErrorType ==
  ASSUME DriverTypeOK, HandleErrorOK \/ HandleErrorFails
  PROVE  faults' \in 0 .. MaxFaults
  BY FaultType DEF HandleErrorOK, HandleErrorFails

\* A strategy that stops a member keeps everything it touches typed.
LEMMA StoppedByStrategyType ==
  ASSUME TypeOK, NEW m \in Members, StoppedByStrategy(m)
  PROVE  /\ faults' \in 0 .. MaxFaults
         /\ pc' \in [Members -> Steps]
         /\ state' \in [Members -> States]
         /\ abandoned' \subseteq Messages
<1>1. faults' \in 0 .. MaxFaults
  BY HandleErrorType DEF TypeOK, StoppedByStrategy
<1>2. pc' \in [Members -> Steps] /\ state' \in [Members -> States]
  BY StopLoopType DEF TypeOK, StoppedByStrategy
<1>3. abandoned' \subseteq Messages
  BY RangeType DEF TypeOK, LoopTypeOK, StoppedByStrategy
<1> QED
  BY <1>1, <1>2, <1>3

\* Start and Connect keep the types.
LEMMA StartType ==
  ASSUME TypeOK, NEW m \in Members, Start(m) \/ Connect(m)
  PROVE  TypeOK'
<1>1. pc' \in [Members -> Steps]
  BY GotoType DEF TypeOK, Start, Connect, Steps
<1>2. state' \in [Members -> States]
  BY Zenon DEF TypeOK, LoopTypeOK, Start, Connect, States
<1>3. faults' \in 0 .. MaxFaults
  BY FaultType DEF TypeOK, Start, Connect
<1>4. DriverTypeOK'
  BY <1>3 DEF TypeOK, DriverTypeOK, Start, Connect, groupVars, clientVars
<1> QED
  BY <1>1, <1>2, <1>4 DEF TypeOK, LoopTypeOK, Start, Connect, history

\* Subscribe keeps the types.
LEMMA SubscribeType ==
  ASSUME TypeOK, NEW m \in Members, Subscribe(m)
  PROVE  TypeOK'
<1>1. pc' \in [Members -> Steps]
  BY GotoType DEF TypeOK, Subscribe, Steps
<1>2. CASE SubscribeToTopic(m) /\ NoFault
  BY <1>1, <1>2, SubscribeToTopicType DEF TypeOK, LoopTypeOK, Subscribe, history
<1>3. CASE Fault /\ UNCHANGED <<groupVars, clientVars>>
  <2>1. faults' \in 0 .. MaxFaults
    BY <1>3, FaultType DEF TypeOK
  <2>2. DriverTypeOK'
    BY <1>3, <2>1 DEF TypeOK, DriverTypeOK, groupVars, clientVars
  <2> QED
    BY <1>1, <2>2 DEF TypeOK, LoopTypeOK, Subscribe, history
<1> QED
  BY <1>2, <1>3 DEF Subscribe

\* The steps at the top of the loop keep the types.
LEMMA LoopTopType ==
  ASSUME TypeOK, NEW m \in Members, Cancel(m) \/ CtxDone(m) \/ PollFatal(m) \/ PollAssigned(m)
  PROVE  TypeOK'
<1>1. CASE Cancel(m)
  BY <1>1 DEF TypeOK, DriverTypeOK, LoopTypeOK, Cancel, driverVars, groupVars, clientVars, history
<1>2. CASE CtxDone(m)
  BY <1>2, StopLoopType DEF TypeOK, DriverTypeOK, LoopTypeOK, CtxDone, driverVars, groupVars, clientVars, history
<1>3. CASE PollFatal(m)
  <2>1. faults' \in 0 .. MaxFaults
    BY <1>3, FaultType DEF TypeOK, PollFatal
  <2> QED
    BY <1>3, <2>1, StopLoopType DEF TypeOK, DriverTypeOK, LoopTypeOK, PollFatal, groupVars, clientVars, history
<1>4. CASE PollAssigned(m)
  BY <1>4, AssignedPartitionsType DEF TypeOK, LoopTypeOK, PollAssigned, loopVars, history
<1> QED
  BY <1>1, <1>2, <1>3, <1>4

\* A poll that runs the revoke callback keeps the types.
LEMMA PollRevokedType ==
  ASSUME TypeOK, NEW m \in Members, PollRevoked(m)
  PROVE  TypeOK'
<1>1. buf' \in [Members -> Seq(Messages)]
  BY HandType, EmptyType, Zenon DEF TypeOK, LoopTypeOK, PollRevoked, OnRevoke
<1>2. DriverTypeOK'
  BY RevokedPartitionsType DEF TypeOK, PollRevoked
<1> QED
  BY <1>1, <1>2 DEF TypeOK, LoopTypeOK, PollRevoked, history

\* A poll of the single-message loop keeps the types.
LEMMA PollSingleType ==
  ASSUME TypeOK, NEW m \in Members, PollSingle(m)
  PROVE  TypeOK'
<1>1. PICK msg \in Messages : PollMessage(m, msg) /\ inflight' = [inflight EXCEPT ![m] = <<msg>>]
  BY Zenon DEF PollSingle
<1>2. DriverTypeOK'
  BY <1>1, PollMessageType DEF TypeOK
<1>3. <<msg>> \in Seq(Messages)
  OBVIOUS
<1>4. inflight' \in [Members -> Seq(Messages)]
  BY <1>1, <1>3, HandType, Zenon DEF TypeOK
<1>5. pc' \in [Members -> Steps]
  BY GotoType DEF TypeOK, PollSingle, Steps
<1> QED
  BY <1>2, <1>4, <1>5 DEF TypeOK, LoopTypeOK, PollSingle, history

\* dispatchMessage keeps the types.
LEMMA DispatchMessageType ==
  ASSUME TypeOK, NEW m \in Members, DispatchMessage(m)
  PROVE  TypeOK'
<1>1. pc' \in [Members -> Steps]
  BY GotoType DEF TypeOK, DispatchMessage, Steps
<1>2. inflight[m] \in Seq(Messages)
  BY DEF TypeOK, LoopTypeOK
<1>3. resolved' \subseteq Messages
  BY <1>2, RangeType DEF TypeOK, LoopTypeOK, DispatchMessage
<1>4. DOMAIN inflight[m] \subseteq Nat
  BY <1>2
<1>5. failed' \in [Members -> SUBSET Nat]
  BY <1>4, Zenon DEF TypeOK, LoopTypeOK, DispatchMessage
<1>6. DriverTypeOK'
  BY DEF TypeOK, DriverTypeOK, DispatchMessage, driverVars, groupVars, clientVars
<1> QED
  BY <1>1, <1>3, <1>5, <1>6 DEF TypeOK, LoopTypeOK, DispatchMessage

\* Routing one failed message keeps the types.
LEMMA RouteSingleType ==
  ASSUME TypeOK, NEW m \in Members, RouteSingle(m)
  PROVE  TypeOK'
<1>1. faults' \in 0 .. MaxFaults
  BY HandleErrorType DEF TypeOK, RouteSingle, StoppedByStrategy
<1>2. DriverTypeOK'
  BY <1>1 DEF TypeOK, DriverTypeOK, RouteSingle, groupVars, clientVars
<1>3. CASE StoppedByStrategy(m)
  BY <1>2, <1>3, StoppedByStrategyType DEF TypeOK, LoopTypeOK, RouteSingle, StoppedByStrategy
<1>4. CASE ~StoppedByStrategy(m)
  <2>1. pc' \in [Members -> Steps]
    BY <1>4, GotoType DEF TypeOK, RouteSingle, Steps
  <2>2. failed' \in [Members -> SUBSET Nat]
    BY <1>4, Zenon DEF TypeOK, LoopTypeOK, RouteSingle
  <2>3. resolved' \subseteq Messages
    BY <1>4, RangeType DEF TypeOK, LoopTypeOK, RouteSingle
  <2> QED
    BY <1>2, <1>4, <2>1, <2>2, <2>3 DEF TypeOK, LoopTypeOK, RouteSingle
<1> QED
  BY <1>3, <1>4

\* The store needs the message in hand to be there, which Shape says.
LEMMA StoreSingleType ==
  ASSUME TypeOK, NEW m \in Members, Shape(m), StoreSingle(m)
  PROVE  TypeOK'
<1>1. inflight[m][1] \in Messages
  BY DEF TypeOK, LoopTypeOK, Shape, At, Processing, StoreSingle
<1>2. faults' \in 0 .. MaxFaults
  BY FaultType DEF TypeOK, StoreSingle
<1>3. stored' \in [Members -> [Partitions -> Offsets]]
  BY <1>1, StoreOffsetType DEF TypeOK, DriverTypeOK, StoreSingle
<1>4. DriverTypeOK'
  BY <1>2, <1>3 DEF TypeOK, DriverTypeOK, StoreSingle, groupVars
<1>5. inflight' \in [Members -> Seq(Messages)]
  BY HandType, EmptyType, Zenon DEF TypeOK, LoopTypeOK, StoreSingle
<1>6. pc' \in [Members -> Steps] /\ state' \in [Members -> States]
  BY GotoType, StopLoopType DEF TypeOK, LoopTypeOK, StoreSingle, Steps
<1> QED
  BY <1>4, <1>5, <1>6 DEF TypeOK, LoopTypeOK, StoreSingle, history

\* The commit after a message keeps the types.
LEMMA CommitSingleType ==
  ASSUME TypeOK, NEW m \in Members, CommitSingle(m)
  PROVE  TypeOK'
<1>1. committed' \in [Partitions -> Offsets] /\ faults' \in 0 .. MaxFaults
  BY MaybeCommitStoredType DEF TypeOK, CommitSingle
<1>2. DriverTypeOK'
  BY <1>1 DEF TypeOK, DriverTypeOK, CommitSingle, clientVars
<1>3. inflight' \in [Members -> Seq(Messages)]
  BY HandType, EmptyType, Zenon DEF TypeOK, CommitSingle
<1>4. pc' \in [Members -> Steps]
  BY GotoType DEF TypeOK, CommitSingle, Steps
<1> QED
  BY <1>2, <1>3, <1>4 DEF TypeOK, LoopTypeOK, CommitSingle, history

\* Flushing a sequence of messages keeps the hands and the step typed.
LEMMA FlushType ==
  ASSUME TypeOK, NEW m \in Members, NEW s \in Seq(Messages), Flush(m, s)
  PROVE  /\ inflight' \in [Members -> Seq(Messages)]
         /\ buf' \in [Members -> Seq(Messages)]
         /\ pc' \in [Members -> Steps]
<1>1. pc' \in [Members -> Steps]
  BY GotoType DEF TypeOK, Flush, Steps
<1>2. inflight' \in [Members -> Seq(Messages)] /\ buf' \in [Members -> Seq(Messages)]
  BY HandType, EmptyType DEF TypeOK, Flush
<1> QED
  BY <1>1, <1>2

\* A poll of the batch loop keeps the types.
LEMMA PollBatchType ==
  ASSUME TypeOK, NEW m \in Members, PollBatch(m)
  PROVE  TypeOK'
<1>1. PICK msg \in Messages :
        /\ PollMessage(m, msg)
        /\ \/ Flush(m, Append(buf[m], msg))
           \/ /\ buf' = [buf EXCEPT ![m] = Append(@, msg)]
              /\ UNCHANGED <<inflight, pc>>
  BY DEF PollBatch
<1>2. DriverTypeOK'
  BY <1>1, PollMessageType DEF TypeOK
<1>3. Append(buf[m], msg) \in Seq(Messages)
  BY DEF TypeOK, LoopTypeOK
<1>4. /\ inflight' \in [Members -> Seq(Messages)]
      /\ buf' \in [Members -> Seq(Messages)]
      /\ pc' \in [Members -> Steps]
  <2>1. CASE Flush(m, Append(buf[m], msg))
    BY <1>3, <2>1, FlushType, Zenon
  <2>2. CASE buf' = [buf EXCEPT ![m] = Append(@, msg)] /\ UNCHANGED <<inflight, pc>>
    <3>1. buf' = [buf EXCEPT ![m] = Append(buf[m], msg)]
      BY <2>2
    <3> QED
      BY <1>3, <2>2, <3>1, HandType DEF TypeOK, LoopTypeOK
  <2> QED
    BY <1>1, <2>1, <2>2
<1> QED
  BY <1>2, <1>4 DEF TypeOK, LoopTypeOK, PollBatch, history

\* The batch timeout keeps the types.
LEMMA BatchTimedOutType ==
  ASSUME TypeOK, NEW m \in Members, BatchTimedOut(m)
  PROVE  TypeOK'
<1>1. /\ inflight' \in [Members -> Seq(Messages)]
      /\ buf' \in [Members -> Seq(Messages)]
      /\ pc' \in [Members -> Steps]
  <2>1. buf[m] \in Seq(Messages)
    BY SMTT(20), Zenon DEF TypeOK, LoopTypeOK
  <2> QED
    BY <2>1, FlushType DEF BatchTimedOut
<1>2. DriverTypeOK'
  BY DEF TypeOK, DriverTypeOK, BatchTimedOut, driverVars, groupVars, clientVars
<1> QED
  BY <1>1, <1>2 DEF TypeOK, LoopTypeOK, BatchTimedOut, history

\* The partitions to store are those of the batch.
LEMMA BeginStoreType ==
  ASSUME TypeOK, NEW m \in Members, BeginStore(m)
  PROVE  pc' \in [Members -> Steps] /\ toStore' \in [Members -> SUBSET Partitions]
<1>1. pc' \in [Members -> Steps]
  BY GotoType DEF TypeOK, BeginStore, Steps
<1>2. PartsOf(inflight[m]) \subseteq Partitions
  BY PartsOfType DEF TypeOK, LoopTypeOK
<1>3. toStore' \in [Members -> SUBSET Partitions]
  BY <1>2 DEF TypeOK, LoopTypeOK, BeginStore
<1> QED
  BY <1>1, <1>3

\* invokeBatchHandler keeps the types.
LEMMA InvokeBatchHandlerType ==
  ASSUME TypeOK, NEW m \in Members, InvokeBatchHandler(m)
  PROVE  TypeOK'
<1>1. inflight[m] \in Seq(Messages) /\ DOMAIN inflight[m] \subseteq Nat
  BY DEF TypeOK, LoopTypeOK
<1>2. pc' \in [Members -> Steps] /\ toStore' \in [Members -> SUBSET Partitions]
  <2>1. CASE BeginStore(m)
    BY <2>1, BeginStoreType
  <2>2. ASSUME NEW l \in {"route", "routeWhole"}, Goto(m, l), UNCHANGED toStore
        PROVE  pc' \in [Members -> Steps] /\ toStore' \in [Members -> SUBSET Partitions]
    BY <2>2, GotoType DEF TypeOK, LoopTypeOK, Steps
  <2> QED
    BY <2>1, <2>2 DEF InvokeBatchHandler
<1>3. failed' \in [Members -> SUBSET Nat]
  <2>1. failed \in [Members -> SUBSET Nat]
    BY DEF TypeOK, LoopTypeOK
  <2>2. \E items \in SUBSET DOMAIN inflight[m] : failed' = [failed EXCEPT ![m] = items]
    BY DEF InvokeBatchHandler
  <2> QED
    BY <1>1, <2>1, <2>2
<1>4. resolved' \subseteq Messages
  <2>1. \A i \in DOMAIN inflight[m] : inflight[m][i] \in Messages
    BY <1>1
  <2>2. resolved \subseteq Messages
    BY DEF TypeOK, LoopTypeOK
  <2>3. resolved' \subseteq resolved \cup {inflight[m][i] : i \in DOMAIN inflight[m]}
    BY DEF InvokeBatchHandler
  <2> QED
    BY <2>1, <2>2, <2>3
<1>5. DriverTypeOK'
  BY DEF TypeOK, DriverTypeOK, InvokeBatchHandler, driverVars, groupVars, clientVars
<1> QED
  BY <1>2, <1>3, <1>4, <1>5 DEF TypeOK, LoopTypeOK, InvokeBatchHandler

\* The item routed is one of the batch, which Shape says.
LEMMA RouteItemType ==
  ASSUME TypeOK, NEW m \in Members, Shape(m), RouteItem(m)
  PROVE  TypeOK'
<1>1. faults' \in 0 .. MaxFaults
  BY HandleErrorType DEF TypeOK, RouteItem, StoppedByStrategy
<1>2. DriverTypeOK'
  BY <1>1 DEF TypeOK, DriverTypeOK, RouteItem, groupVars, clientVars
<1>3. CASE StoppedByStrategy(m)
  BY <1>2, <1>3, StoppedByStrategyType DEF TypeOK, LoopTypeOK, RouteItem, StoppedByStrategy
<1>4. CASE ~StoppedByStrategy(m)
  <2>1. PICK i \in failed[m] :
          /\ failed' = [failed EXCEPT ![m] = @ \ {i}]
          /\ resolved' = resolved \cup {inflight[m][i]}
          /\ IF failed[m] = {i} THEN BeginStore(m) ELSE UNCHANGED <<pc, toStore>>
    BY <1>4, Zenon DEF RouteItem
  <2>2. inflight[m][i] \in Messages
    BY DEF TypeOK, LoopTypeOK, Shape, RouteItem
  <2>3. resolved' \subseteq Messages
    BY <2>1, <2>2 DEF TypeOK, LoopTypeOK
  <2>4. failed' \in [Members -> SUBSET Nat]
    BY <2>1 DEF TypeOK, LoopTypeOK
  <2>5. pc' \in [Members -> Steps] /\ toStore' \in [Members -> SUBSET Partitions]
    BY <2>1, BeginStoreType DEF TypeOK, LoopTypeOK
  <2> QED
    BY <1>2, <1>4, <2>3, <2>4, <2>5, Zenon DEF TypeOK, LoopTypeOK, RouteItem
<1> QED
  BY <1>3, <1>4

\* Routing a batch as a whole keeps the types.
LEMMA RouteWholeType ==
  ASSUME TypeOK, NEW m \in Members, RouteWhole(m)
  PROVE  TypeOK'
<1>1. faults' \in 0 .. MaxFaults
  BY HandleErrorType DEF TypeOK, RouteWhole, StoppedByStrategy
<1>2. DriverTypeOK'
  BY <1>1 DEF TypeOK, DriverTypeOK, RouteWhole, groupVars, clientVars
<1>3. CASE StoppedByStrategy(m)
  BY <1>2, <1>3, StoppedByStrategyType DEF TypeOK, LoopTypeOK, RouteWhole, StoppedByStrategy
<1>4. CASE ~StoppedByStrategy(m)
  <2>1. pc' \in [Members -> Steps] /\ toStore' \in [Members -> SUBSET Partitions]
    BY <1>4, BeginStoreType DEF RouteWhole
  <2>2. failed' \in [Members -> SUBSET Nat]
    BY <1>4, Zenon DEF TypeOK, LoopTypeOK, RouteWhole
  <2>3. resolved' \subseteq Messages
    BY <1>4, RangeType, SMTT(20), Zenon DEF TypeOK, LoopTypeOK, RouteWhole
  <2> QED
    BY <1>2, <1>4, <2>1, <2>2, <2>3 DEF TypeOK, LoopTypeOK, RouteWhole
<1> QED
  BY <1>3, <1>4

\* storeHighestOffsetPerPartition keeps the types.
LEMMA StoreHighestType ==
  ASSUME TypeOK, NEW m \in Members, StoreHighest(m)
  PROVE  TypeOK'
<1>1. PICK i \in DOMAIN inflight[m] :
        LET p == inflight[m][i].part IN
        /\ toStore' = [toStore EXCEPT ![m] = @ \ {p}]
        /\ IF toStore[m] = {p} THEN Goto(m, "commit") ELSE UNCHANGED pc
        /\ \/ /\ StoreOffset(m, p, inflight[m][i].off)
              /\ NoFault
              /\ UNCHANGED storeErr
           \/ NoFault /\ UNCHANGED <<stored, storeErr>>
           \/ Fault /\ storeErr' = [storeErr EXCEPT ![m] = TRUE] /\ UNCHANGED stored
  BY Zenon DEF StoreHighest
<1>2. inflight[m][i] \in Messages
  BY DEF TypeOK, LoopTypeOK
<1>3. stored' \in [Members -> [Partitions -> Offsets]]
  BY <1>1, <1>2, StoreOffsetType DEF TypeOK, DriverTypeOK
<1>4. faults' \in 0 .. MaxFaults
  BY <1>1, FaultType DEF TypeOK
<1>5. DriverTypeOK'
  BY <1>3, <1>4 DEF TypeOK, DriverTypeOK, StoreHighest, groupVars
<1>6. toStore' \in [Members -> SUBSET Partitions]
  BY <1>1 DEF TypeOK, LoopTypeOK
<1>7. pc' \in [Members -> Steps]
  BY <1>1, GotoType DEF TypeOK, LoopTypeOK, Steps
<1>8. storeErr' \in [Members -> BOOLEAN]
  BY <1>1, Zenon DEF TypeOK, LoopTypeOK
<1> QED
  BY <1>5, <1>6, <1>7, <1>8 DEF TypeOK, LoopTypeOK, StoreHighest, history

\* The commit after a batch keeps the types.
LEMMA CommitBatchType ==
  ASSUME TypeOK, NEW m \in Members, CommitBatch(m)
  PROVE  TypeOK'
<1>1. committed' \in [Partitions -> Offsets] /\ faults' \in 0 .. MaxFaults
  BY MaybeCommitStoredType DEF TypeOK, CommitBatch
<1>2. DriverTypeOK'
  BY <1>1 DEF TypeOK, DriverTypeOK, CommitBatch, clientVars
<1>3. inflight' \in [Members -> Seq(Messages)]
  BY HandType, EmptyType, Zenon DEF TypeOK, CommitBatch
<1>4. pc' \in [Members -> Steps] /\ state' \in [Members -> States]
  BY GotoType, StopLoopType DEF TypeOK, LoopTypeOK, CommitBatch, Steps
<1> QED
  BY <1>2, <1>3, <1>4 DEF TypeOK, LoopTypeOK, CommitBatch, history

\* The final commit keeps the types.
LEMMA FinalCommitType ==
  ASSUME TypeOK, NEW m \in Members, FinalCommit(m)
  PROVE  TypeOK'
<1>1. committed' \in [Partitions -> Offsets] /\ faults' \in 0 .. MaxFaults
  BY CommitStoredType DEF TypeOK, FinalCommit
<1>2. DriverTypeOK'
  BY <1>1 DEF TypeOK, DriverTypeOK, FinalCommit, clientVars
<1>3. pc' \in [Members -> Steps]
  BY GotoType DEF TypeOK, FinalCommit, Steps
<1> QED
  BY <1>2, <1>3 DEF TypeOK, LoopTypeOK, FinalCommit, history

\* Closing the driver keeps the types.
LEMMA CloseDriverType ==
  ASSUME TypeOK, NEW m \in Members, CloseDriver(m)
  PROVE  TypeOK'
<1>1. DriverTypeOK'
  BY CloseType DEF TypeOK, CloseDriver
<1>2. buf' \in [Members -> Seq(Messages)]
  BY HandType, EmptyType, Zenon DEF TypeOK, LoopTypeOK, CloseDriver, OnRevoke
<1>3. pc' \in [Members -> Steps]
  BY GotoType DEF TypeOK, CloseDriver, Steps
<1>4. state' \in [Members -> States]
  BY DEF TypeOK, LoopTypeOK, CloseDriver, States
<1> QED
  BY <1>1, <1>2, <1>3, <1>4 DEF TypeOK, LoopTypeOK, CloseDriver, history

\* The death of a process keeps the types.
LEMMA CrashType ==
  ASSUME TypeOK, NEW m \in Members, Crash(m)
  PROVE  TypeOK'
<1>1. DriverTypeOK'
  BY DieType DEF TypeOK, Crash
<1>2. buf' \in [Members -> Seq(Messages)] /\ inflight' \in [Members -> Seq(Messages)]
  BY HandType, EmptyType, Zenon DEF TypeOK, Crash
<1>3. pc' \in [Members -> Steps]
  BY GotoType DEF TypeOK, Crash, Steps
<1>4. state' \in [Members -> States]
  BY DEF TypeOK, LoopTypeOK, Crash, States
<1>5. failed' \in [Members -> SUBSET Nat] /\ toStore' \in [Members -> SUBSET Partitions]
  BY DEF TypeOK, LoopTypeOK, Crash
<1> QED
  BY <1>1, <1>2, <1>3, <1>4, <1>5 DEF TypeOK, LoopTypeOK, Crash, history

\* Every step of the group keeps the types.
LEMMA TypeStep ==
  ASSUME TypeOK, \A m \in Members : Shape(m), [Next]_vars
  PROVE  TypeOK'
<1>1. ASSUME NEW m \in Members, Step(m)
      PROVE  TypeOK'
  BY <1>1, StartType, SubscribeType, LoopTopType, PollRevokedType, PollSingleType,
     DispatchMessageType, RouteSingleType, StoreSingleType, CommitSingleType, PollBatchType,
     BatchTimedOutType, InvokeBatchHandlerType, RouteItemType, RouteWholeType,
     StoreHighestType, CommitBatchType, FinalCommitType, CloseDriverType DEF Step
<1>2. ASSUME NEW m \in Members, Environment(m)
      PROVE  TypeOK'
  BY <1>2, StartType, LoopTopType, CrashType, AutoCommitType, EvictType, Zenon
     DEF Environment, TypeOK, LoopTypeOK, loopVars, history
<1>3. CASE CompleteRebalance /\ UNCHANGED <<loopVars, history>>
  BY <1>3, CompleteRebalanceType DEF TypeOK, LoopTypeOK, loopVars, history
<1>4. CASE UNCHANGED vars
  BY <1>4 DEF TypeOK, DriverTypeOK, LoopTypeOK, vars, driverVars, groupVars, clientVars, loopVars, history
<1> QED
  BY <1>1, <1>2, <1>3, <1>4 DEF Next, AllDone

-----------------------------------------------------------------------------
(***************************************************************************)
(* At-least-once, over the types.                                          *)
(***************************************************************************)

\* The messages m has polled and still has in hand.
Pending(m) == Range(buf[m]) \cup Range(inflight[m])

\* What is resolved among the messages being processed.
Progress(m) ==
    /\ At(m, "route") => \A i \in DOMAIN inflight[m] : i \notin failed[m] => inflight[m][i] \in resolved
    /\ pc[m] \in {"store", "commit"} => Range(inflight[m]) \subseteq resolved

\* Whatever is stored has been resolved.
StoredIsResolved == \A m \in Members, p \in Partitions : PrefixResolved(p, stored[m][p])

\* Whatever a member has polled of a partition it holds is resolved or in hand.
PolledIsKept(m) ==
    \A msg \in Messages :
        msg.part \in assigned[m] /\ msg.off < position[m][msg.part] => msg \in resolved \cup Pending(m)

\* What is in hand, of a partition it holds, was polled.
PendingWasPolled(m) ==
    \A msg \in Pending(m) : msg.part \in assigned[m] => msg.off < position[m][msg.part]

\* What holds of each member on its own.
Mine(m) == Shape(m) /\ Progress(m) /\ PolledIsKept(m) /\ PendingWasPolled(m)

\* The inductive invariant behind at-least-once.
IInv ==
    /\ TypeOK
    /\ CommittedIsResolved
    /\ StoredIsResolved
    /\ \A m \in Members : Mine(m)

-----------------------------------------------------------------------------
(***************************************************************************)
(* Sequences of messages and the sets of their elements.                   *)
(***************************************************************************)

\* An empty sequence has no elements.
LEMMA RangeEmpty == Range(<<>>) = {}
  BY DEF Range

\* A message polled by the single-message loop is something in hand.
LEMMA OneNotEmpty == ASSUME NEW x PROVE <<x>> # <<>>
  OBVIOUS

\* A sequence of one element.
LEMMA RangeOne ==
  ASSUME NEW msg
  PROVE  Range(<<msg>>) = {msg}
  BY DEF Range

\* Appending adds one element.
LEMMA RangeAppend ==
  ASSUME NEW s \in Seq(Messages), NEW msg \in Messages
  PROVE  Range(Append(s, msg)) = Range(s) \cup {msg}
<1>1. DOMAIN Append(s, msg) = 1 .. (Len(s) + 1) /\ DOMAIN s = 1 .. Len(s) /\ Len(s) \in Nat
  OBVIOUS
<1>2. Append(s, msg)[Len(s) + 1] = msg
  OBVIOUS
<1>3. \A i \in 1 .. Len(s) : Append(s, msg)[i] = s[i]
  OBVIOUS
<1>4. ASSUME NEW x \in Range(Append(s, msg))
      PROVE  x \in Range(s) \cup {msg}
  <2>1. PICK i \in 1 .. (Len(s) + 1) : x = Append(s, msg)[i]
    BY <1>1 DEF Range
  <2>2. i \in 1 .. Len(s) \/ i = Len(s) + 1
    BY <1>1
  <2> QED
    BY <1>1, <1>2, <1>3, <2>1, <2>2 DEF Range
<1>5. ASSUME NEW x \in Range(s)
      PROVE  x \in Range(Append(s, msg))
  <2>1. PICK i \in 1 .. Len(s) : x = s[i]
    BY <1>1 DEF Range
  <2>2. i \in DOMAIN Append(s, msg)
    BY <1>1
  <2> QED
    BY <1>3, <2>1, <2>2 DEF Range
<1>6. msg \in Range(Append(s, msg))
  <2>1. Len(s) + 1 \in DOMAIN Append(s, msg)
    BY <1>1
  <2> QED
    BY <1>2, <2>1 DEF Range
<1> QED
  BY <1>4, <1>5, <1>6

-----------------------------------------------------------------------------
(***************************************************************************)
(* What a member leaves alone, and what becomes of its hands.              *)
(***************************************************************************)

\* A step that is not n's leaves n as it is.
Same(n) ==
    /\ state'[n] = state[n]
    /\ pc'[n] = pc[n]
    /\ membership'[n] = membership[n]
    /\ buf'[n] = buf[n]
    /\ inflight'[n] = inflight[n]
    /\ failed'[n] = failed[n]
    /\ assigned'[n] = assigned[n]
    /\ position'[n] = position[n]

\* What holds of a member holds on while others resolve messages.
LEMMA OthersKept ==
  ASSUME NEW n \in Members, Mine(n), Same(n), resolved \subseteq resolved'
  PROVE  Mine(n)'
<1>1. Shape(n)'
  BY DEF Mine, Shape, Same, At
<1>2. Progress(n)'
  BY Zenon DEF Mine, Progress, Same, At
<1>3. Pending(n)' = Pending(n)
  BY DEF Same, Pending
<1>4. PolledIsKept(n)'
  BY <1>3, Zenon DEF Mine, PolledIsKept, Same
<1>5. PendingWasPolled(n)'
  BY <1>3 DEF Mine, PendingWasPolled, Same
<1> QED
  BY <1>1, <1>2, <1>4, <1>5 DEF Mine

\* A member may let go of what is resolved.
LEMMA HandShrinks ==
  ASSUME NEW m \in Members, Mine(m), resolved \subseteq resolved',
         assigned'[m] = assigned[m], position'[m] = position[m],
         Pending(m)' \subseteq Pending(m), Pending(m) \subseteq Pending(m)' \cup resolved'
  PROVE  PolledIsKept(m)' /\ PendingWasPolled(m)'
<1>1. PolledIsKept(m)'
  BY DEF Mine, PolledIsKept
<1>2. PendingWasPolled(m)'
  BY DEF Mine, PendingWasPolled
<1> QED
  BY <1>1, <1>2

\* A member that gives its partitions back owes nothing for them.
LEMMA HandReleased ==
  ASSUME NEW m \in Members, assigned'[m] = {}
  PROVE  PolledIsKept(m)' /\ PendingWasPolled(m)'
  BY DEF PolledIsKept, PendingWasPolled

\* A member takes each polled message in hand.
LEMMA HandGrows ==
  ASSUME TypeOK, NEW m \in Members, Mine(m), NEW msg \in Messages, PollMessage(m, msg),
         Pending(m)' = Pending(m) \cup {msg}, resolved' = resolved
  PROVE  PolledIsKept(m)' /\ PendingWasPolled(m)'
<1>1. /\ assigned'[m] = assigned[m]
      /\ position'[m] = [position[m] EXCEPT ![msg.part] = @ + 1]
      /\ msg.off = position[m][msg.part]
  BY DEF PollMessage, TypeOK, DriverTypeOK
<1>2. position[m] \in [Partitions -> Offsets] /\ Pending(m) \subseteq Messages
  BY RangeType, Zenon DEF TypeOK, DriverTypeOK, LoopTypeOK, Pending
<1>3. ASSUME NEW x \in Messages, x.part \in assigned[m]'
      PROVE  x.off < position'[m][x.part] <=> x.off < position[m][x.part] \/ x = msg
  <2>1. CASE x.part # msg.part
    BY <1>1, <1>2, <2>1 DEF Messages
  <2>2. CASE x.part = msg.part
    <3>1. position'[m][x.part] = msg.off + 1
      BY <1>1, <1>2, <2>2 DEF Messages
    <3>2. x.off = msg.off <=> x = msg
      BY <2>2 DEF Messages
    <3> QED
      BY <1>1, <2>2, <3>1, <3>2, DriverAssumption DEF Messages
  <2> QED
    BY <2>1, <2>2
<1>4. PolledIsKept(m)'
  BY <1>1, <1>3 DEF Mine, PolledIsKept
<1>5. PendingWasPolled(m)'
  BY <1>1, <1>2, <1>3 DEF Mine, PendingWasPolled
<1> QED
  BY <1>4, <1>5

-----------------------------------------------------------------------------
(***************************************************************************)
(* What is stored and committed.                                           *)
(***************************************************************************)

\* Resolving more messages spoils neither.
LEMMA ResolvedGrows ==
  ASSUME resolved \subseteq resolved'
  PROVE  /\ CommittedIsResolved /\ UNCHANGED committed => CommittedIsResolved'
         /\ StoredIsResolved /\ UNCHANGED stored => StoredIsResolved'
  BY DEF CommittedIsResolved, StoredIsResolved, PrefixResolved

\* Committing what is stored commits resolved messages only.
LEMMA CommitResolved ==
  ASSUME TypeOK, CommittedIsResolved, StoredIsResolved, resolved \subseteq resolved',
         NEW m \in Members, CommitStored(m)
  PROVE  CommittedIsResolved'
<1>1. CASE UNCHANGED committed
  BY <1>1, ResolvedGrows
<1>2. CASE committed' = Published(m)
  <2>1. ASSUME NEW p \in Partitions
        PROVE  committed'[p] = stored[m][p] \/ committed'[p] = committed[p]
    BY <1>2 DEF Published
  <2> QED
    BY <2>1 DEF CommittedIsResolved, StoredIsResolved, PrefixResolved
<1> QED
  BY <1>1, <1>2 DEF CommitStored

\* Forgetting the store spoils nothing.
LEMMA UnassignResolved ==
  ASSUME TypeOK, StoredIsResolved, resolved \subseteq resolved', NEW m \in Members, Unassign(m)
  PROVE  StoredIsResolved'
<1> SUFFICES ASSUME NEW n \in Members, NEW p \in Partitions
             PROVE  PrefixResolved(p, stored[n][p])'
  BY DEF StoredIsResolved
<1>1. CASE n = m
  <2>1. stored'[n][p] = 0
    BY <1>1 DEF Unassign, TypeOK, DriverTypeOK
  <2> QED
    BY <2>1, DriverAssumption DEF PrefixResolved, Messages
<1>2. CASE n # m
  <2>1. stored'[n][p] = stored[n][p]
    BY <1>2 DEF Unassign, TypeOK, DriverTypeOK
  <2> QED
    BY <2>1 DEF StoredIsResolved, PrefixResolved
<1> QED
  BY <1>1, <1>2

\* Storing the offset of a message in hand, once everything in hand is resolved,
\* stores over resolved messages only: whatever was polled before it is resolved.
LEMMA StoreResolved ==
  ASSUME TypeOK, StoredIsResolved, UNCHANGED resolved, NEW m \in Members, Mine(m),
         NEW msg \in Pending(m), msg \in Messages, Pending(m) \subseteq resolved,
         StoreOffset(m, msg.part, msg.off)
  PROVE  StoredIsResolved'
<1> SUFFICES ASSUME NEW n \in Members, NEW p \in Partitions
             PROVE  PrefixResolved(p, stored[n][p])'
  BY DEF StoredIsResolved
<1>1. CASE n = m /\ p = msg.part
  <2>1. stored'[n][p] = msg.off + 1
    BY <1>1 DEF StoreOffset, TypeOK, DriverTypeOK
  <2>2. p \in assigned[m] /\ msg.off < position[m][p]
    BY <1>1 DEF StoreOffset, Mine, PendingWasPolled
  <2>3. position[m][p] \in Nat
    BY DriverAssumption DEF TypeOK, DriverTypeOK, Offsets
  <2>4. ASSUME NEW x \in Messages, x.part = p, x.off < msg.off + 1
        PROVE  x \in resolved
    <3>1. x.off < position[m][p]
      BY <2>2, <2>3, <2>4, DriverAssumption DEF Messages
    <3> QED
      BY <2>2, <2>4, <3>1 DEF Mine, PolledIsKept
  <2> QED
    BY <2>1, <2>4 DEF PrefixResolved
<1>2. CASE ~(n = m /\ p = msg.part)
  <2>1. stored'[n][p] = stored[n][p]
    BY <1>2 DEF StoreOffset, TypeOK, DriverTypeOK
  <2> QED
    BY <2>1 DEF StoredIsResolved, PrefixResolved
<1> QED
  BY <1>1, <1>2

-----------------------------------------------------------------------------
(***************************************************************************)
(* A step of one member leaves the others as they are.                     *)
(***************************************************************************)

\* Locality of what the goroutine running Start does.
LEMMA StepIsLocal ==
  ASSUME TypeOK, NEW m \in Members, Step(m), NEW n \in Members, n # m
  PROVE  Same(n)
<1> USE DEF Same, TypeOK, DriverTypeOK, LoopTypeOK
<1>1. CASE Connect(m)
  BY <1>1 DEF Connect, Goto, groupVars, clientVars
<1>2. CASE Subscribe(m)
  BY <1>2 DEF Subscribe, SubscribeToTopic, Goto, groupVars, clientVars
<1>3. CASE CtxDone(m)
  BY <1>3 DEF CtxDone, StopLoop, Goto, driverVars, groupVars, clientVars
<1>4. CASE PollAssigned(m)
  BY <1>4 DEF PollAssigned, AssignedPartitions, loopVars
<1>5. CASE PollRevoked(m)
  BY <1>5 DEF PollRevoked, OnRevoke, RevokedPartitions, Unassign
<1>6. CASE PollSingle(m)
  BY <1>6 DEF PollSingle, PollMessage, Goto, groupVars
<1>7. CASE DispatchMessage(m)
  BY <1>7 DEF DispatchMessage, Goto, driverVars, groupVars, clientVars
<1>8. CASE RouteSingle(m)
  BY <1>8 DEF RouteSingle, StoppedByStrategy, StopLoop, Goto, groupVars, clientVars
<1>9. CASE StoreSingle(m)
  BY <1>9 DEF StoreSingle, StopLoop, Goto, groupVars
<1>10. CASE CommitSingle(m)
  BY <1>10 DEF CommitSingle, Goto, clientVars
<1>11. CASE PollBatch(m)
  BY <1>11 DEF PollBatch, PollMessage, Flush, Goto, groupVars
<1>12. CASE BatchTimedOut(m)
  BY <1>12 DEF BatchTimedOut, Flush, Goto, driverVars, groupVars, clientVars
<1>13. CASE InvokeBatchHandler(m)
  <2>1. UNCHANGED <<driverVars, state, cancelled, buf, inflight, storeErr>>
    BY <1>13, Zenon DEF InvokeBatchHandler
  <2>2. failed'[n] = failed[n]
    BY <1>13, Zenon DEF InvokeBatchHandler
  <2>3. pc'[n] = pc[n]
    <3>1. PICK label \in {"store", "route", "routeWhole"} : Goto(m, label)
      BY <1>13, Zenon DEF InvokeBatchHandler, BeginStore
    <3> QED
      BY <3>1 DEF Goto
  <2> QED
    BY <2>1, <2>2, <2>3, Zenon DEF driverVars, groupVars, clientVars
<1>14. CASE RouteItem(m)
  BY <1>14, Zenon DEF RouteItem, BeginStore, StoppedByStrategy, StopLoop, Goto, groupVars, clientVars
<1>15. CASE RouteWhole(m)
  BY <1>15 DEF RouteWhole, BeginStore, StoppedByStrategy, StopLoop, Goto, groupVars, clientVars
<1>16. CASE StoreHighest(m)
  BY <1>16 DEF StoreHighest, Goto, groupVars
<1>17. CASE CommitBatch(m)
  BY <1>17 DEF CommitBatch, StopLoop, Goto, clientVars
<1>18. CASE FinalCommit(m)
  BY <1>18 DEF FinalCommit, Goto, clientVars
<1>19. CASE CloseDriver(m)
  BY <1>19 DEF CloseDriver, OnRevoke, Close, Unassign, Goto
<1> QED
  BY <1>1, <1>2, <1>3, <1>4, <1>5, <1>6, <1>7, <1>8, <1>9, <1>10, <1>11, <1>12, <1>13, <1>14,
     <1>15, <1>16, <1>17, <1>18, <1>19, Zenon DEF Step

\* Locality of what is done to a member.
LEMMA EnvironmentIsLocal ==
  ASSUME TypeOK, NEW m \in Members, Environment(m), NEW n \in Members, n # m
  PROVE  Same(n)
<1> USE DEF Same, TypeOK, DriverTypeOK, LoopTypeOK
<1>1. CASE Start(m)
  BY <1>1 DEF Start, Goto, groupVars, clientVars
<1>2. CASE Cancel(m)
  BY <1>2 DEF Cancel, driverVars, groupVars, clientVars
<1>3. CASE PollFatal(m)
  BY <1>3 DEF PollFatal, StopLoop, Goto, groupVars, clientVars
<1>4. CASE Crash(m)
  BY <1>4 DEF Crash, Die, Unassign, Goto
<1>5. CASE AutoCommit(m) /\ UNCHANGED <<loopVars, history>>
  BY <1>5 DEF AutoCommit, loopVars, clientVars
<1>6. CASE Evict(m) /\ UNCHANGED <<loopVars, history>>
  BY <1>6 DEF Evict, loopVars, clientVars
<1> QED
  BY <1>1, <1>2, <1>3, <1>4, <1>5, <1>6, Zenon DEF Environment

\* A resolved message stays resolved, whoever takes a step.
LEMMA ResolvedStays ==
  ASSUME NEW m \in Members, Step(m) \/ Environment(m)
  PROVE  resolved \subseteq resolved'
<1>1. CASE DispatchMessage(m) \/ RouteSingle(m) \/ InvokeBatchHandler(m) \/ RouteItem(m) \/ RouteWhole(m)
  BY <1>1, Zenon DEF DispatchMessage, RouteSingle, InvokeBatchHandler, RouteItem, RouteWhole, StoppedByStrategy
<1> QED
  BY <1>1, Zenon DEF Step, Connect, Subscribe, CtxDone, PollAssigned, PollRevoked, PollSingle, StoreSingle,
     CommitSingle, PollBatch, BatchTimedOut, StoreHighest, CommitBatch, FinalCommit, CloseDriver,
     Environment, Start, Cancel, PollFatal, Crash, history

-----------------------------------------------------------------------------
(***************************************************************************)
(* Committed and stored offsets: the steps that change them.               *)
(***************************************************************************)

\* Whatever step commits, it commits resolved messages only.
LEMMA CommittedStep ==
  ASSUME IInv, NEW m \in Members, Step(m) \/ Environment(m)
  PROVE  CommittedIsResolved'
<1>1. resolved \subseteq resolved'
  BY ResolvedStays
<1>2. CASE CommitStored(m)
  BY <1>1, <1>2, CommitResolved DEF IInv
<1>3. CASE UNCHANGED committed
  BY <1>1, <1>3, ResolvedGrows DEF IInv
<1>4. CASE CommitSingle(m) \/ CommitBatch(m)
  BY <1>2, <1>3, <1>4 DEF CommitSingle, CommitBatch, MaybeCommitStored
<1>5. CASE PollRevoked(m) \/ CloseDriver(m) \/ FinalCommit(m) \/ AutoCommit(m)
  BY <1>2, <1>5, SMTT(20), Zenon DEF PollRevoked, RevokedPartitions, CloseDriver, Close, FinalCommit, AutoCommit
<1>6. CASE PollAssigned(m) \/ PollSingle(m) \/ PollBatch(m) \/ Subscribe(m) \/ Crash(m) \/ Evict(m)
  BY <1>3, <1>6 DEF PollAssigned, AssignedPartitions, PollSingle, PollBatch, PollMessage, Subscribe,
     SubscribeToTopic, Crash, Die, Evict, groupVars
<1> QED
  BY <1>3, <1>4, <1>5, <1>6, Zenon DEF Step, Connect, CtxDone, DispatchMessage, RouteSingle, StoreSingle,
     BatchTimedOut, InvokeBatchHandler, RouteItem, RouteWhole, StoreHighest, Environment, Start, Cancel,
     PollFatal, driverVars, groupVars

\* At the store everything in hand is resolved: the buffer is empty, and what is
\* being processed was handled or taken over.
LEMMA AtStore ==
  ASSUME TypeOK, NEW m \in Members, Mine(m), pc[m] \in {"store", "commit"}
  PROVE  Pending(m) = Range(inflight[m]) /\ Pending(m) \subseteq resolved
<1>1. buf[m] = <<>>
  BY DEF Mine, Shape
<1> QED
  BY <1>1, RangeEmpty, Zenon DEF Pending, Mine, Progress

\* Whatever step stores, it stores over resolved messages only.
LEMMA StoredStep ==
  ASSUME IInv, NEW m \in Members, Step(m) \/ Environment(m)
  PROVE  StoredIsResolved'
<1>1. resolved \subseteq resolved'
  BY ResolvedStays
<1>2. CASE UNCHANGED stored
  BY <1>1, <1>2, ResolvedGrows DEF IInv
<1>3. CASE Unassign(m)
  BY <1>1, <1>3, UnassignResolved DEF IInv
<1>4. ASSUME NEW i \in DOMAIN inflight[m], At(m, "store"), UNCHANGED resolved,
             StoreOffset(m, inflight[m][i].part, inflight[m][i].off)
      PROVE  StoredIsResolved'
  <2>1. Pending(m) = Range(inflight[m]) /\ Pending(m) \subseteq resolved
    BY <1>4, AtStore DEF IInv, At
  <2>2. inflight[m][i] \in Pending(m) /\ inflight[m][i] \in Messages
    BY <2>1, Zenon DEF Range, IInv, TypeOK, LoopTypeOK
  <2> QED
    BY <1>4, <2>1, <2>2, StoreResolved, SMTT(20), Zenon DEF IInv
<1>5. CASE StoreSingle(m)
  <2>1. 1 \in DOMAIN inflight[m]
    BY <1>5 DEF StoreSingle, At, IInv, Mine, Shape, Processing, TypeOK, LoopTypeOK
  <2> QED
    BY <1>2, <1>4, <1>5, <2>1 DEF StoreSingle, history
<1>6. CASE StoreHighest(m)
  BY <1>2, <1>4, <1>6 DEF StoreHighest, history
<1>7. CASE PollRevoked(m) \/ CloseDriver(m) \/ Crash(m)
  BY <1>3, <1>7, SMTT(20), Zenon DEF PollRevoked, RevokedPartitions, CloseDriver, Close, Crash, Die
<1>8. CASE PollAssigned(m) \/ PollSingle(m) \/ PollBatch(m) \/ Subscribe(m) \/ Evict(m) \/ AutoCommit(m)
  BY <1>2, <1>8 DEF PollAssigned, AssignedPartitions, PollSingle, PollBatch, PollMessage, Subscribe,
     SubscribeToTopic, Evict, AutoCommit, clientVars
<1> QED
  BY <1>2, <1>5, <1>6, <1>7, <1>8, Zenon DEF Step, Connect, CtxDone, DispatchMessage, RouteSingle,
     CommitSingle, BatchTimedOut, InvokeBatchHandler, RouteItem, RouteWhole, CommitBatch, FinalCommit,
     Environment, Start, Cancel, PollFatal, driverVars, clientVars

-----------------------------------------------------------------------------
(***************************************************************************)
(* What holds of a member across its own steps.                            *)
(***************************************************************************)

\* A step that leaves a member's hands and its client alone.
Untouched(m) ==
    /\ buf'[m] = buf[m]
    /\ inflight'[m] = inflight[m]
    /\ assigned'[m] = assigned[m]
    /\ position'[m] = position[m]

\* Such a step keeps what is said of the messages in hand.
LEMMA HandUntouched ==
  ASSUME NEW m \in Members, Mine(m), Untouched(m), resolved \subseteq resolved'
  PROVE  PolledIsKept(m)' /\ PendingWasPolled(m)'
<1>1. Pending(m)' = Pending(m)
  BY Zenon DEF Untouched, Pending
<1> QED
  BY <1>1, HandShrinks DEF Untouched

\* Start, Connect, Subscribe, Cancel, the end of the loop and the final commit.
LEMMA ControlKeeps ==
  ASSUME IInv, NEW m \in Members,
         \/ Start(m) \/ Connect(m) \/ Subscribe(m) \/ Cancel(m)
         \/ CtxDone(m) \/ PollFatal(m) \/ FinalCommit(m)
  PROVE  Mine(m)'
<1> USE DEF IInv, TypeOK, DriverTypeOK, LoopTypeOK
<1>1. resolved' = resolved
  BY Zenon DEF Start, Connect, Subscribe, Cancel, CtxDone, PollFatal, FinalCommit, history
<1>2. Untouched(m) /\ failed'[m] = failed[m]
  BY Zenon DEF Untouched, Start, Connect, Subscribe, SubscribeToTopic, Cancel, CtxDone, PollFatal,
     FinalCommit, driverVars, clientVars
<1>3. PolledIsKept(m)' /\ PendingWasPolled(m)'
  BY <1>1, <1>2, HandUntouched, Zenon
<1>4. CASE Start(m)
  <2>1. pc'[m] \in {"connect", "done"} /\ state'[m] # "created" /\ membership'[m] = membership[m]
    BY <1>4 DEF Start, Goto, groupVars
  <2>2. At(m, "start")
    BY <1>4 DEF Start, Mine, Shape
  <2> QED
    BY <1>2, <1>3, <2>1, <2>2, Zenon DEF Untouched, Mine, Shape, Progress, At, Processing, Unstored
<1>5. CASE Connect(m)
  <2>1. pc'[m] \in {"subscribe", "done"} /\ state'[m] \in {state[m], "stopped"} /\ membership'[m] = membership[m]
    BY <1>5 DEF Connect, Goto, groupVars
  <2> QED
    BY <1>2, <1>3, <1>5, <2>1, Zenon DEF Connect, Untouched, Mine, Shape, Progress, At, Processing, Unstored
<1>6. CASE Subscribe(m)
  <2>1. pc'[m] \in {"loop", "close"} /\ state'[m] = state[m]
    BY <1>6 DEF Subscribe, Goto
  <2>2. buf[m] = <<>> /\ inflight[m] = <<>> /\ state[m] # "created"
    BY <1>6, Zenon DEF Subscribe, Mine, Shape, At
  <2> QED
    BY <1>2, <1>3, <2>1, <2>2, Zenon DEF Untouched, Mine, Shape, Progress, At, Processing, Unstored
<1>7. CASE Cancel(m)
  <2>1. pc'[m] = pc[m] /\ state'[m] = state[m] /\ membership'[m] = membership[m]
    BY <1>7 DEF Cancel, driverVars, groupVars
  <2> QED
    BY <1>1, <1>2, <1>3, <2>1, Zenon DEF Untouched, Mine, Shape, Progress, At
<1>8. CASE CtxDone(m) \/ PollFatal(m)
  <2>1. pc'[m] = "final" /\ state'[m] = "stopping" /\ membership'[m] = membership[m]
    BY <1>8, Zenon DEF CtxDone, PollFatal, StopLoop, Goto, driverVars, groupVars
  <2> QED
    BY <1>2, <1>3, <2>1, Zenon DEF Untouched, Mine, Shape, Progress, At, Processing, Unstored
<1>9. CASE FinalCommit(m)
  <2>1. pc'[m] = "close" /\ state'[m] = state[m] /\ membership'[m] = membership[m] /\ state[m] # "created"
    BY <1>9, Zenon DEF FinalCommit, Goto, At, Mine, Shape
  <2> QED
    BY <1>2, <1>3, <2>1, Zenon DEF Untouched, Mine, Shape, Progress, At, Processing, Unstored
<1> QED
  BY <1>4, <1>5, <1>6, <1>7, <1>8, <1>9

\* The background committer, an eviction and a new generation.
LEMMA ClientKeeps ==
  ASSUME IInv, NEW m \in Members, UNCHANGED <<loopVars, history>>,
         AutoCommit(m) \/ Evict(m) \/ CompleteRebalance
  PROVE  Mine(m)'
<1> USE DEF IInv, TypeOK, DriverTypeOK, LoopTypeOK, loopVars, history
<1>1. buf[m] # <<>> => membership'[m] \in {"active", "lost"}
  BY Zenon DEF AutoCommit, Evict, CompleteRebalance, Mine, Shape
<1>2. Shape(m)' /\ Progress(m)'
  BY <1>1, Zenon DEF Mine, Shape, Progress, At
<1>3. Untouched(m)
  BY DEF Untouched, AutoCommit, Evict, CompleteRebalance, clientVars
<1> QED
  BY <1>2, <1>3, HandUntouched DEF Mine

\* An assignment starts from committed offsets, so from resolved messages, and
\* the member has nothing in hand then.
LEMMA AssignKeeps ==
  ASSUME IInv, NEW m \in Members, PollAssigned(m)
  PROVE  Mine(m)'
<1> USE DEF IInv, TypeOK, DriverTypeOK, LoopTypeOK, PollAssigned, AssignedPartitions
<1>1. buf[m] = <<>> /\ inflight[m] = <<>>
  BY Zenon DEF Mine, Shape, At
<1>2. Shape(m)' /\ Progress(m)'
  BY <1>1, Zenon DEF Mine, Shape, Progress, At, loopVars, history
<1>3. Pending(m)' = {}
  BY <1>1, RangeEmpty DEF Pending, loopVars
<1>4. position'[m] = committed /\ assigned'[m] \subseteq Partitions /\ resolved' = resolved
  BY DEF history
<1>5. PolledIsKept(m)' /\ PendingWasPolled(m)'
  BY <1>3, <1>4 DEF PolledIsKept, PendingWasPolled, CommittedIsResolved, PrefixResolved
<1> QED
  BY <1>2, <1>5 DEF Mine

\* The revoke callback, the closing of the driver and a crash let go of all.
LEMMA ReleaseKeeps ==
  ASSUME IInv, NEW m \in Members, PollRevoked(m) \/ CloseDriver(m) \/ Crash(m)
  PROVE  Mine(m)'
<1> USE DEF IInv, TypeOK, DriverTypeOK, LoopTypeOK
<1>1. PolledIsKept(m)' /\ PendingWasPolled(m)'
  <2>1. Unassign(m)
    BY DEF PollRevoked, RevokedPartitions, CloseDriver, Close, Crash, Die
  <2> QED
    BY <2>1, HandReleased, SMTT(20), Zenon DEF Unassign
<1>2. CASE PollRevoked(m)
  <2>1. /\ pc'[m] = pc[m] /\ state'[m] = state[m]
        /\ inflight'[m] = inflight[m] /\ At(m, "loop")
    BY <1>2 DEF PollRevoked
  <2>2. buf'[m] = <<>>
    <3>1. buf \in [Members -> Seq(Messages)] /\ OnRevoke(m) /\ (Mode # "batch" => buf[m] = <<>>)
      BY <1>2, Zenon DEF PollRevoked, Mine, Shape
    <3> QED
      BY <3>1 DEF OnRevoke
  <2> QED
    BY <1>1, <2>1, <2>2, Zenon DEF Mine, Shape, Progress, At
<1>3. CASE CloseDriver(m)
  <2>1. pc'[m] = "done" /\ state'[m] = "stopped"
    BY <1>3, SMTT(20), Zenon DEF CloseDriver, Goto
  <2>2. buf'[m] = <<>>
    <3>1. buf \in [Members -> Seq(Messages)] /\ OnRevoke(m) /\ (Mode # "batch" => buf[m] = <<>>)
      BY <1>3 DEF CloseDriver, Mine, Shape
    <3> QED
      BY <3>1 DEF OnRevoke
  <2> QED
    BY <1>1, <2>1, <2>2, Zenon DEF Mine, Shape, Progress, At, Processing, Unstored
<1>4. CASE Crash(m)
  <2>1. pc'[m] = "done" /\ state'[m] = "crashed" /\ buf'[m] = <<>>
    BY <1>4 DEF Crash, Goto
  <2> QED
    BY <1>1, <2>1, Zenon DEF Mine, Shape, Progress, At, Processing, Unstored
<1> QED
  BY <1>2, <1>3, <1>4

\* A goroutine about to call the handler has messages in hand and nothing in
\* the buffer.
LEMMA AtHandle ==
  ASSUME NEW m \in Members, pc'[m] = "handle", inflight'[m] # <<>>, buf'[m] = <<>>, state'[m] # "created"
  PROVE  Shape(m)' /\ Progress(m)'
  BY Zenon DEF Shape, Progress, At, Processing, Unstored

\* A poll takes its message in hand, in either loop, and the batch timeout moves
\* the buffer on.
LEMMA PollKeeps ==
  ASSUME IInv, NEW m \in Members, PollSingle(m) \/ PollBatch(m) \/ BatchTimedOut(m)
  PROVE  Mine(m)'
<1> USE DEF IInv, TypeOK, DriverTypeOK, LoopTypeOK
<1>1. inflight[m] = <<>> /\ state[m] # "created" /\ At(m, "loop")
  BY Zenon DEF PollSingle, PollBatch, BatchTimedOut, Mine, Shape, At
<1>2. resolved' = resolved /\ state'[m] = state[m]
  BY DEF PollSingle, PollBatch, BatchTimedOut, history
<1>3. CASE PollSingle(m)
  <2>1. PICK msg \in Messages : PollMessage(m, msg) /\ inflight' = [inflight EXCEPT ![m] = <<msg>>]
    BY <1>3, Zenon DEF PollSingle
  <2>2. inflight'[m] = <<msg>> /\ pc'[m] = "handle" /\ buf'[m] = buf[m] /\ buf[m] = <<>>
    BY <1>3, <2>1, Zenon DEF PollSingle, Goto, Mine, Shape
  <2>3. Pending(m) = {} /\ Pending(m)' = {msg}
    BY <1>1, <2>2, RangeEmpty, RangeOne, Zenon DEF Pending
  <2>4. PolledIsKept(m)' /\ PendingWasPolled(m)'
    BY <1>2, <2>1, <2>3, HandGrows, Zenon
  <2>5. inflight'[m] # <<>> /\ buf'[m] = <<>> /\ state'[m] # "created"
    BY <1>1, <1>2, <2>2, OneNotEmpty, Zenon
  <2>6. Shape(m)' /\ Progress(m)'
    BY <2>2, <2>5, AtHandle, Zenon
  <2> QED
    BY <2>4, <2>6 DEF Mine
<1>4. CASE PollBatch(m)
  <2>1. PICK msg \in Messages :
          /\ PollMessage(m, msg)
          /\ \/ Flush(m, Append(buf[m], msg))
             \/ /\ buf' = [buf EXCEPT ![m] = Append(@, msg)]
                /\ UNCHANGED <<inflight, pc>>
    BY <1>4, Zenon DEF PollBatch
  <2>2. Append(buf[m], msg) # <<>> /\ Range(Append(buf[m], msg)) = Range(buf[m]) \cup {msg}
    <3>1. buf[m] \in Seq(Messages)
      OBVIOUS
    <3> QED
      BY <3>1, RangeAppend, RangeEmpty, Zenon
  <2>3. CASE Flush(m, Append(buf[m], msg))
    <3>1. inflight'[m] = Append(buf[m], msg) /\ buf'[m] = <<>> /\ pc'[m] = "handle"
      BY <2>3 DEF Flush, Goto
    <3>2. Pending(m)' = Pending(m) \cup {msg}
      BY <1>1, <2>2, <3>1, RangeEmpty, Zenon DEF Pending
    <3>3. PolledIsKept(m)' /\ PendingWasPolled(m)'
      BY <1>2, <2>1, <3>2, HandGrows
    <3> QED
      BY <1>1, <1>2, <2>2, <3>1, <3>3, AtHandle, Zenon DEF Mine
  <2>4. CASE buf' = [buf EXCEPT ![m] = Append(@, msg)] /\ UNCHANGED <<inflight, pc>>
    <3>1. inflight'[m] = <<>> /\ buf'[m] = Append(buf[m], msg) /\ pc'[m] = "loop"
      BY <1>1, <2>4 DEF At
    <3>2. Pending(m)' = Pending(m) \cup {msg}
      BY <1>1, <2>2, <3>1, RangeEmpty, Zenon DEF Pending
    <3>3. PolledIsKept(m)' /\ PendingWasPolled(m)'
      BY <1>2, <2>1, <3>2, HandGrows
    <3>4. Mode = "batch" /\ membership'[m] \in {"active", "lost"}
      BY <1>4, <2>1, Zenon DEF PollBatch, PollMessage, groupVars
    <3> QED
      BY <1>1, <1>2, <3>1, <3>3, <3>4, Zenon DEF Mine, Shape, Progress, At, Processing, Unstored
  <2> QED
    BY <2>1, <2>3, <2>4
<1>5. CASE BatchTimedOut(m)
  <2>1. inflight'[m] = buf[m] /\ buf'[m] = <<>> /\ pc'[m] = "handle" /\ buf[m] # <<>>
    BY <1>5 DEF BatchTimedOut, Flush, Goto
  <2>2. Pending(m)' = Pending(m)
    BY <1>1, <2>1, RangeEmpty, Zenon DEF Pending
  <2>3. assigned'[m] = assigned[m] /\ position'[m] = position[m]
    BY <1>5 DEF BatchTimedOut, driverVars, clientVars
  <2>4. PolledIsKept(m)' /\ PendingWasPolled(m)'
    BY <1>2, <2>2, <2>3, HandShrinks, Zenon
  <2> QED
    BY <1>1, <1>2, <2>1, <2>4, AtHandle, Zenon DEF Mine
<1> QED
  BY <1>3, <1>4, <1>5

\* The handler and the strategy resolve messages; what is left of them decides
\* where the goroutine goes.
LEMMA ResolveKeeps ==
  ASSUME IInv, NEW m \in Members,
         DispatchMessage(m) \/ RouteSingle(m) \/ InvokeBatchHandler(m) \/ RouteItem(m) \/ RouteWhole(m)
  PROVE  Mine(m)'
<1> USE DEF IInv, TypeOK, DriverTypeOK, LoopTypeOK
<1>1. Untouched(m) /\ membership'[m] = membership[m]
  BY Zenon DEF Untouched, DispatchMessage, RouteSingle, InvokeBatchHandler, RouteItem, RouteWhole,
     driverVars, groupVars, clientVars
<1>2. resolved \subseteq resolved'
  BY Zenon DEF DispatchMessage, RouteSingle, InvokeBatchHandler, RouteItem, RouteWhole, StoppedByStrategy
<1>3. PolledIsKept(m)' /\ PendingWasPolled(m)'
  BY <1>1, <1>2, HandUntouched
<1>4. inflight[m] # <<>> /\ buf[m] = <<>> /\ state[m] # "created"
  BY Zenon DEF DispatchMessage, RouteSingle, InvokeBatchHandler, RouteItem, RouteWhole, Mine, Shape, At,
     Processing, Unstored
<1>5. state'[m] # "created"
  BY <1>4, Zenon DEF DispatchMessage, RouteSingle, InvokeBatchHandler, RouteItem, RouteWhole,
     StoppedByStrategy, StopLoop
<1>6. CASE pc'[m] \in {"final", "routeWhole"}
  BY <1>1, <1>3, <1>4, <1>5, <1>6, Zenon DEF Untouched, Mine, Shape, Progress, At, Processing, Unstored
<1>7. CASE pc'[m] = "store" /\ Range(inflight[m]) \subseteq resolved'
  BY <1>1, <1>3, <1>4, <1>5, <1>7, Zenon DEF Untouched, Mine, Shape, Progress, At, Processing, Unstored
<1>8. CASE /\ pc'[m] = "route"
           /\ failed'[m] \subseteq DOMAIN inflight[m]
           /\ \A i \in DOMAIN inflight[m] : i \notin failed'[m] => inflight[m][i] \in resolved'
  BY <1>1, <1>3, <1>4, <1>5, <1>8, Zenon DEF Untouched, Mine, Shape, Progress, At, Processing, Unstored
<1>9. CASE StoppedByStrategy(m)
  BY <1>6, <1>9 DEF StoppedByStrategy, StopLoop, Goto
<1>10. CASE DispatchMessage(m)
  BY <1>7, <1>8, <1>10, Zenon DEF DispatchMessage, Goto
<1>11. CASE RouteSingle(m)
  BY <1>7, <1>9, <1>11, Zenon DEF RouteSingle, Goto
<1>12. CASE InvokeBatchHandler(m)
  <2>1. CASE \E items \in SUBSET DOMAIN inflight[m] :
               /\ failed' = [failed EXCEPT ![m] = items]
               /\ resolved' = resolved \cup {inflight[m][i] : i \in DOMAIN inflight[m] \ items}
               /\ IF items = {} THEN BeginStore(m) ELSE Goto(m, "route")
    <3>1. PICK items \in SUBSET DOMAIN inflight[m] :
            /\ failed' = [failed EXCEPT ![m] = items]
            /\ resolved' = resolved \cup {inflight[m][i] : i \in DOMAIN inflight[m] \ items}
            /\ IF items = {} THEN BeginStore(m) ELSE Goto(m, "route")
      BY <2>1, Zenon
    <3>2. failed'[m] = items /\ \A i \in DOMAIN inflight[m] : i \notin items => inflight[m][i] \in resolved'
      BY <3>1, Zenon
    <3>3. CASE items = {}
      <4>1. pc'[m] = "store"
        BY <3>1, <3>3, Zenon DEF BeginStore, Goto
      <4>2. Range(inflight[m]) \subseteq resolved'
        BY <3>2, <3>3, Zenon DEF Range
      <4> QED
        BY <1>7, <4>1, <4>2
    <3>4. CASE items # {}
      BY <1>8, <3>1, <3>2, <3>4, Zenon DEF Goto
    <3> QED
      BY <3>3, <3>4
  <2>2. CASE Goto(m, "routeWhole")
    BY <1>6, <2>2 DEF Goto
  <2> QED
    BY <1>12, <2>1, <2>2, Zenon DEF InvokeBatchHandler
<1>13. CASE RouteItem(m) /\ ~StoppedByStrategy(m)
  <2>1. PICK i \in failed[m] :
          /\ failed' = [failed EXCEPT ![m] = @ \ {i}]
          /\ resolved' = resolved \cup {inflight[m][i]}
          /\ IF failed[m] = {i} THEN BeginStore(m) ELSE UNCHANGED <<pc, toStore>>
    BY <1>13, Zenon DEF RouteItem
  <2>2. /\ failed'[m] = failed[m] \ {i}
        /\ failed'[m] \subseteq DOMAIN inflight[m]
        /\ \A j \in DOMAIN inflight[m] : j \notin failed'[m] => inflight[m][j] \in resolved'
    BY <1>13, <2>1, Zenon DEF RouteItem, Mine, Shape, Progress
  <2>3. CASE failed[m] = {i}
    <3>1. pc'[m] = "store"
      BY <2>1, <2>3 DEF BeginStore, Goto
    <3>2. Range(inflight[m]) \subseteq resolved'
      BY <2>2, <2>3, Zenon DEF Range
    <3> QED
      BY <1>7, <3>1, <3>2
  <2>4. CASE failed[m] # {i}
    BY <1>8, <1>13, <2>1, <2>2, <2>4, Zenon DEF RouteItem, At
  <2> QED
    BY <2>3, <2>4, SMTT(20), Zenon
<1>14. CASE RouteWhole(m)
  BY <1>7, <1>9, <1>14 DEF RouteWhole, BeginStore, Goto
<1> QED
  BY <1>9, <1>10, <1>11, <1>12, <1>13, <1>14

\* The store and the commit after it, of a message or a batch.
LEMMA StoreKeeps ==
  ASSUME IInv, NEW m \in Members, StoreSingle(m) \/ StoreHighest(m) \/ CommitSingle(m) \/ CommitBatch(m)
  PROVE  Mine(m)'
<1> USE DEF IInv, TypeOK, DriverTypeOK, LoopTypeOK
<1>1. pc[m] \in {"store", "commit"}
  BY Zenon DEF StoreSingle, StoreHighest, CommitSingle, CommitBatch, At
<1>2. buf[m] = <<>> /\ inflight[m] # <<>> /\ state[m] # "created" /\ Range(inflight[m]) \subseteq resolved
  BY <1>1, Zenon DEF Mine, Shape, Progress, At, Processing, Unstored
<1>3. resolved' = resolved /\ buf'[m] = buf[m] /\ assigned'[m] = assigned[m] /\ position'[m] = position[m]
  BY Zenon DEF StoreSingle, StoreHighest, CommitSingle, CommitBatch, clientVars, history
<1>4. state'[m] # "created"
  BY <1>2, Zenon DEF StoreSingle, StoreHighest, CommitSingle, CommitBatch, StopLoop
<1>5. CASE inflight'[m] = inflight[m] /\ pc'[m] \in {"store", "commit", "final"}
  <2>1. PolledIsKept(m)' /\ PendingWasPolled(m)'
    BY <1>3, <1>5, HandUntouched, Zenon DEF Untouched
  <2> QED
    BY <1>2, <1>3, <1>4, <1>5, <2>1, Zenon DEF Mine, Shape, Progress, At, Processing, Unstored
<1>6. CASE inflight'[m] = <<>> /\ pc'[m] \in {"loop", "final"}
  <2>1. Pending(m)' = {} /\ Pending(m) \subseteq resolved
    BY <1>1, <1>2, <1>3, <1>6, RangeEmpty, AtStore, Zenon DEF Pending
  <2>2. PolledIsKept(m)' /\ PendingWasPolled(m)'
    BY <1>3, <2>1, HandShrinks, Zenon
  <2> QED
    BY <1>2, <1>3, <1>4, <1>6, <2>2, Zenon DEF Mine, Shape, Progress, At, Processing, Unstored
<1>7. CASE StoreSingle(m)
  BY <1>5, <1>6, <1>7, Zenon DEF StoreSingle, StopLoop, Goto
<1>8. CASE StoreHighest(m)
  <2>1. inflight'[m] = inflight[m] /\ pc'[m] \in {"store", "commit"}
    BY <1>8, Zenon DEF StoreHighest, Goto, At
  <2> QED
    BY <1>5, <2>1, Zenon
<1>9. CASE CommitSingle(m) \/ CommitBatch(m)
  <2>1. inflight'[m] = <<>> /\ pc'[m] \in {"loop", "final"}
    BY <1>9 DEF CommitSingle, CommitBatch, StopLoop, Goto
  <2> QED
    BY <1>6, <2>1, Zenon
<1> QED
  BY <1>7, <1>8, <1>9

-----------------------------------------------------------------------------
(***************************************************************************)
(* The theorems.                                                           *)
(***************************************************************************)

\* A group in which nothing has been started satisfies the invariant.
LEMMA InitIInv == Init => IInv
<1> SUFFICES ASSUME Init PROVE IInv
  OBVIOUS
<1> USE DriverAssumption DEF Init, DriverInit
<1>1. DriverTypeOK
  <2>1. [p \in Partitions |-> 0] \in [Partitions -> Offsets]
    BY DEF Offsets
  <2>2. position \in [Members -> [Partitions -> Offsets]] /\ stored \in [Members -> [Partitions -> Offsets]]
    BY <2>1
  <2>3. membership \in [Members -> Standings]
    BY DEF Standings
  <2>4. owner \in [Partitions -> Members \cup {Nobody}] /\ assigned \in [Members -> SUBSET Partitions]
    OBVIOUS
  <2>5. faults \in 0 .. MaxFaults
    OBVIOUS
  <2> QED
    BY <2>1, <2>2, <2>3, <2>4, <2>5, Zenon DEF DriverTypeOK
<1>2. LoopTypeOK
  BY EmptyType DEF LoopTypeOK, States, Steps
<1>3. CommittedIsResolved /\ StoredIsResolved
  BY DEF CommittedIsResolved, StoredIsResolved, PrefixResolved, Messages
<1>4. ASSUME NEW m \in Members
      PROVE  Mine(m)
  <2>1. Shape(m) /\ Progress(m)
    BY SMTT(20), Zenon DEF Shape, Progress, At, Processing, Unstored
  <2>2. PolledIsKept(m) /\ PendingWasPolled(m)
    BY RangeEmpty DEF PolledIsKept, PendingWasPolled, Pending
  <2> QED
    BY <2>1, <2>2, SMTT(20), Zenon DEF Mine
<1> QED
  BY <1>1, <1>2, <1>3, <1>4 DEF IInv, TypeOK

\* Every step of the group keeps the invariant.
LEMMA StepIInv == IInv /\ [Next]_vars => IInv'
<1> SUFFICES ASSUME IInv, [Next]_vars PROVE IInv'
  OBVIOUS
<1>1. TypeOK'
  BY TypeStep DEF IInv, Mine
<1>2. ASSUME NEW m \in Members, Step(m) \/ Environment(m)
      PROVE  IInv'
  <2>1. CommittedIsResolved' /\ StoredIsResolved'
    BY <1>2, CommittedStep, StoredStep
  <2>2. Mine(m)'
    <3>1. CASE UNCHANGED <<loopVars, history>> /\ (AutoCommit(m) \/ Evict(m))
      BY <3>1, ClientKeeps, SMTT(20), Zenon
    <3>3. CASE Step(m)
      BY <3>3, ControlKeeps, AssignKeeps, ReleaseKeeps, PollKeeps, ResolveKeeps, StoreKeeps DEF Step
    <3>4. CASE Environment(m)
      BY <3>1, <3>4, ControlKeeps, ReleaseKeeps DEF Environment
    <3> QED
      BY <1>2, <3>3, <3>4
  <2>3. ASSUME NEW n \in Members, n # m
        PROVE  Mine(n)'
    <3>1. Same(n) /\ resolved \subseteq resolved'
      BY <1>2, <2>3, StepIsLocal, EnvironmentIsLocal, ResolvedStays DEF IInv
    <3> QED
      BY <3>1, OthersKept DEF IInv
  <2> QED
    BY <1>1, <2>1, <2>2, <2>3 DEF IInv
<1>3. CASE CompleteRebalance /\ UNCHANGED <<loopVars, history>>
  <2>1. CommittedIsResolved' /\ StoredIsResolved'
    BY <1>3, ResolvedGrows DEF IInv, CompleteRebalance, clientVars, history
  <2>2. ASSUME NEW m \in Members
        PROVE  Mine(m)'
    BY <1>3, ClientKeeps
  <2> QED
    BY <1>1, <2>1, <2>2 DEF IInv
<1>4. CASE UNCHANGED vars
  <2>1. CommittedIsResolved' /\ StoredIsResolved'
    BY <1>4, ResolvedGrows DEF IInv, vars, driverVars, groupVars, clientVars, history
  <2>2. ASSUME NEW m \in Members
        PROVE  Mine(m)'
    <3>1. Same(m) /\ resolved \subseteq resolved'
      BY <1>4 DEF Same, vars, driverVars, groupVars, clientVars, loopVars, history
    <3> QED
      BY <3>1, OthersKept, SMTT(20), Zenon DEF IInv
  <2> QED
    BY <1>1, <2>1, <2>2 DEF IInv
<1> QED
  BY <1>2, <1>3, <1>4 DEF Next, AllDone

\* The invariant holds throughout.
THEOREM Invariance == Spec => []IInv
  BY InitIInv, StepIInv, PTL DEF Spec

\* Every variable keeps its type, so no offset stored or committed ever lies
\* outside the log (StoreOffset, CommitStored, Poll).
THEOREM TypeCorrect == Spec => []TypeOK
<1>1. IInv => TypeOK
  BY DEF IInv
<1> QED
  BY <1>1, Invariance, PTL

\* At-least-once: no commit, by the loop, the background committer, a revoke or
\* a shutdown, ever passes a message that was neither handled nor taken over by
\* the strategy (CommitStored, storeHighestOffsetPerPartition, onRevoke).
THEOREM NeverCommitsUnresolved == Spec => []CommittedIsResolved
<1>1. IInv => CommittedIsResolved
  BY DEF IInv
<1> QED
  BY <1>1, Invariance, PTL

=============================================================================
