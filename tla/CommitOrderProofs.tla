-------------------------- MODULE CommitOrderProofs --------------------------
(***************************************************************************)
(* The order of commits: the group implements AtLeastOnce.  On top of what *)
(* SubscriberProofs shows, no commit moves a committed offset back,        *)
(* whoever held the partition before.                                      *)
(***************************************************************************)
EXTENDS SubscriberProofs

\* Only a member that has called Assign holds anything in librdkafka, and the
\* partitions of an active one are the ones the coordinator gave it last.
Holding(m) ==
    /\ pc[m] \in {"start", "connect", "subscribe"} => membership[m] = "out"
    /\ membership[m] \notin {"active", "lost"} =>
          assigned[m] = {} /\ \A p \in Partitions : stored[m][p] = 0
    /\ membership[m] = "active" => assigned[m] = {p \in Partitions : owner[p] = m}

\* The messages in hand whose offset is still to be stored.
Due(m) ==
    Range(buf[m]) \cup
    {msg \in Range(inflight[m]) :
        \/ pc[m] \in Unstored
        \/ At(m, "store") /\ (Mode = "single" \/ msg.part \in toStore[m])}

\* What is committed of p lies behind everything m has stored or will store.
AheadOf(m, p) ==
    /\ stored[m][p] > 0 => committed[p] <= stored[m][p]
    /\ committed[p] <= position[m][p]
    /\ stored[m][p] <= position[m][p]
    /\ \A msg \in Due(m) : msg.part = p => committed[p] <= msg.off /\ stored[m][p] <= msg.off

\* So it is for every partition of an active member.
Ahead(m) == membership[m] = "active" => \A p \in assigned[m] : AheadOf(m, p)

\* The inductive invariant behind the order of commits.
OInv == IInv /\ \A m \in Members : Holding(m) /\ Ahead(m)

-----------------------------------------------------------------------------
(***************************************************************************)
(* What a step of one member can change of the group and of the others.    *)
(***************************************************************************)

\* A step of m leaves the offset store of every other member alone, and what it
\* has still to store.
LEMMA StoreIsLocal ==
  ASSUME TypeOK, NEW m \in Members, Step(m) \/ Environment(m), NEW n \in Members, n # m
  PROVE  stored'[n] = stored[n] /\ toStore'[n] = toStore[n]
<1> USE DEF TypeOK, DriverTypeOK, LoopTypeOK
<1>1. CASE Unassign(m) /\ (UNCHANGED toStore \/ toStore' = [toStore EXCEPT ![m] = {}])
  BY <1>1 DEF Unassign
<1>2. CASE PollRevoked(m) \/ CloseDriver(m) \/ Crash(m)
  BY <1>1, <1>2 DEF PollRevoked, RevokedPartitions, CloseDriver, Close, Crash, Die
<1>3. CASE StoreSingle(m) \/ StoreHighest(m)
  BY <1>3 DEF StoreSingle, StoreHighest, StoreOffset
<1>4. CASE InvokeBatchHandler(m) \/ RouteItem(m) \/ RouteWhole(m)
  BY <1>4 DEF InvokeBatchHandler, RouteItem, RouteWhole, BeginStore, StoppedByStrategy, driverVars, clientVars
<1>5. CASE PollAssigned(m) \/ PollSingle(m) \/ PollBatch(m) \/ Subscribe(m)
  BY <1>5 DEF PollAssigned, AssignedPartitions, PollSingle, PollBatch, PollMessage, Subscribe,
     SubscribeToTopic, clientVars, loopVars
<1>6. CASE UNCHANGED <<loopVars, history>> /\ (AutoCommit(m) \/ Evict(m))
  BY <1>6 DEF AutoCommit, Evict, clientVars, loopVars
<1> QED
  BY <1>2, <1>3, <1>4, <1>5, <1>6, Zenon DEF Step, Connect, CtxDone, DispatchMessage, RouteSingle,
     CommitSingle, BatchTimedOut, CommitBatch, FinalCommit, StoppedByStrategy,
     Environment, Start, Cancel, PollFatal, driverVars, clientVars

\* Only the coordinator hands partitions out.
LEMMA OwnerStays ==
  ASSUME NEW m \in Members, Step(m) \/ Environment(m)
  PROVE  owner' = owner
  BY Zenon DEF Step, Connect, Subscribe, SubscribeToTopic, CtxDone, PollAssigned, AssignedPartitions,
     PollRevoked, RevokedPartitions, PollSingle, PollMessage, DispatchMessage, RouteSingle, StoreSingle,
     CommitSingle, PollBatch, BatchTimedOut, InvokeBatchHandler, RouteItem, RouteWhole, StoreHighest,
     CommitBatch, FinalCommit, CloseDriver, Close, Environment, Start, Cancel, PollFatal, Crash, Die,
     AutoCommit, Evict, driverVars, groupVars

\* m publishes its store: as an active member, and without resolving anything.
Publishes(m) ==
    /\ membership[m] = "active"
    /\ committed' = Published(m)
    /\ resolved' = resolved

\* A step of m leaves the committed offsets alone or publishes its store.
LEMMA CommitEffect ==
  ASSUME NEW m \in Members, Step(m) \/ Environment(m)
  PROVE  UNCHANGED committed \/ Publishes(m)
<1>1. CASE CommitStored(m) /\ resolved' = resolved
  BY <1>1 DEF CommitStored, Publishes
<1>2. CASE CommitSingle(m) \/ CommitBatch(m)
  BY <1>1, <1>2 DEF CommitSingle, CommitBatch, MaybeCommitStored, history
<1>3. CASE PollRevoked(m) \/ CloseDriver(m) \/ FinalCommit(m)
  BY <1>1, <1>3 DEF PollRevoked, RevokedPartitions, CloseDriver, Close, FinalCommit, history
<1>4. CASE AutoCommit(m) /\ UNCHANGED <<loopVars, history>>
  BY <1>1, <1>4 DEF AutoCommit, history
<1>5. CASE PollAssigned(m) \/ PollSingle(m) \/ PollBatch(m) \/ Subscribe(m) \/ Crash(m) \/ Evict(m)
  BY <1>5 DEF PollAssigned, AssignedPartitions, PollSingle, PollBatch, PollMessage, Subscribe,
     SubscribeToTopic, Crash, Die, Evict, groupVars
<1> QED
  BY <1>2, <1>3, <1>4, <1>5, Zenon DEF Step, Connect, CtxDone, DispatchMessage, RouteSingle, StoreSingle,
     BatchTimedOut, InvokeBatchHandler, RouteItem, RouteWhole, StoreHighest, Environment, Start, Cancel,
     PollFatal, driverVars, groupVars

-----------------------------------------------------------------------------
(***************************************************************************)
(* Who holds what.                                                         *)
(***************************************************************************)

\* A member's standing and partitions across its own steps.
LEMMA HoldingStep ==
  ASSUME OInv, NEW m \in Members, Step(m) \/ Environment(m)
  PROVE  Holding(m)'
<1> USE DEF OInv, IInv, TypeOK, DriverTypeOK, LoopTypeOK
<1>1. owner' = owner
  BY OwnerStays
<1>2. CASE /\ membership'[m] = membership[m] /\ assigned'[m] = assigned[m] /\ stored'[m] = stored[m]
           /\ pc'[m] \in {"start", "connect", "subscribe"} => pc[m] \in {"start", "connect", "subscribe"}
  BY <1>1, <1>2 DEF Holding
<1>3. CASE Unassign(m) /\ membership'[m] \in {"out", "joining"} /\ pc'[m] \in {"loop", "done"}
  BY <1>3 DEF Unassign, Holding
<1>4. CASE Start(m)
  <2>1. At(m, "start") /\ membership'[m] = membership[m] /\ assigned'[m] = assigned[m] /\ stored'[m] = stored[m]
    BY <1>4 DEF Start, Mine, Shape, groupVars, clientVars
  <2> QED
    BY <1>2, <2>1 DEF At
<1>5. CASE Connect(m)
  BY <1>2, <1>5 DEF Connect, At, groupVars, clientVars
<1>6. CASE Subscribe(m)
  <2>1. CASE SubscribeToTopic(m) /\ Goto(m, "loop")
    BY <1>6, <2>1, Zenon DEF Subscribe, SubscribeToTopic, Goto, At, Holding, clientVars
  <2>2. CASE Goto(m, "close") /\ UNCHANGED <<groupVars, clientVars>>
    BY <1>2, <2>2 DEF Goto, groupVars, clientVars
  <2> QED
    BY <1>6, <2>1, <2>2 DEF Subscribe
<1>7. CASE PollAssigned(m)
  BY <1>7 DEF PollAssigned, AssignedPartitions, At, Holding, loopVars
<1>8. CASE PollRevoked(m)
  BY <1>3, <1>8 DEF PollRevoked, RevokedPartitions, At
<1>9. CASE CloseDriver(m) \/ Crash(m)
  BY <1>3, <1>9 DEF CloseDriver, Close, Crash, Die, Goto
<1>10. CASE Evict(m) /\ UNCHANGED <<loopVars, history>>
  BY <1>10 DEF Evict, Holding, clientVars, loopVars
<1>11. CASE AutoCommit(m) /\ UNCHANGED <<loopVars, history>>
  BY <1>2, <1>11 DEF AutoCommit, clientVars, loopVars
<1>12. CASE StoreSingle(m) \/ StoreHighest(m)
  <2>1. /\ membership'[m] = membership[m] /\ assigned'[m] = assigned[m]
        /\ pc'[m] \in {"store", "commit", "loop", "final"}
    BY <1>12, SMTT(20), Zenon DEF StoreSingle, StoreHighest, StopLoop, Goto, At, groupVars
  <2>2. stored'[m] = stored[m] \/ (assigned[m] # {})
    BY <1>12 DEF StoreSingle, StoreHighest, StoreOffset
  <2> QED
    BY <1>1, <2>1, <2>2 DEF Holding
<1>13. CASE PollSingle(m) \/ PollBatch(m)
  BY <1>2, <1>13 DEF PollSingle, PollBatch, PollMessage, Flush, Goto, groupVars
<1>14. CASE DispatchMessage(m) \/ RouteSingle(m) \/ InvokeBatchHandler(m) \/ RouteItem(m) \/ RouteWhole(m)
  <2>1. membership'[m] = membership[m] /\ assigned'[m] = assigned[m] /\ stored'[m] = stored[m]
    BY <1>14, Zenon DEF DispatchMessage, RouteSingle, InvokeBatchHandler, RouteItem, RouteWhole, driverVars,
       groupVars, clientVars
  <2>2. pc'[m] \in {"store", "route", "routeWhole", "final"}
    <3>1. CASE DispatchMessage(m) \/ RouteSingle(m)
      BY <3>1 DEF DispatchMessage, RouteSingle, StoppedByStrategy, StopLoop, Goto
    <3>2. CASE InvokeBatchHandler(m)
      BY <3>2, SMTT(20), Zenon DEF InvokeBatchHandler, BeginStore, Goto
    <3>3. CASE RouteItem(m) \/ RouteWhole(m)
      BY <3>3 DEF RouteItem, RouteWhole, BeginStore, StoppedByStrategy, StopLoop, Goto, At
    <3> QED
      BY <1>14, <3>1, <3>2, <3>3
  <2> QED
    BY <1>2, <2>1, <2>2
<1>15. CASE CtxDone(m) \/ PollFatal(m) \/ BatchTimedOut(m) \/ Cancel(m)
  BY <1>2, <1>15 DEF CtxDone, PollFatal, BatchTimedOut, Cancel, Flush, StopLoop, Goto, driverVars,
     groupVars, clientVars
<1>16. CASE CommitSingle(m) \/ CommitBatch(m) \/ FinalCommit(m)
  BY <1>2, <1>16 DEF CommitSingle, CommitBatch, FinalCommit, StopLoop, Goto, clientVars
<1> QED
  BY <1>4, <1>5, <1>6, <1>7, <1>8, <1>9, <1>10, <1>11, <1>12, <1>13, <1>14, <1>15, <1>16
     DEF Step, Environment

-----------------------------------------------------------------------------
(***************************************************************************)
(* Nobody falls behind.                                                    *)
(***************************************************************************)

\* What a commit of m leaves behind for a partition.
LEMMA CommittedMoves ==
  ASSUME NEW m \in Members, UNCHANGED committed \/ Publishes(m), NEW p \in Partitions
  PROVE  \/ committed'[p] = committed[p]
         \/ /\ membership[m] = "active" /\ p \in assigned[m] /\ stored[m][p] > 0
            /\ committed'[p] = stored[m][p]
  BY DEF Publishes, Published

\* What is in hand and still to be stored is a set of messages.
LEMMA DueType ==
  ASSUME TypeOK, NEW m \in Members
  PROVE  Due(m) \subseteq Messages /\ Due(m) \subseteq Pending(m)
<1>1. Range(buf[m]) \subseteq Messages /\ Range(inflight[m]) \subseteq Messages
  BY RangeType DEF TypeOK, LoopTypeOK
<1> QED
  BY <1>1 DEF Due, Pending

\* A step that gives m nothing new to store, and leaves its client alone, may
\* commit what m has stored.
LEMMA AheadKept ==
  ASSUME TypeOK, NEW m \in Members, Ahead(m), UNCHANGED committed \/ Publishes(m),
         membership'[m] = membership[m], assigned'[m] = assigned[m],
         stored'[m] = stored[m], position'[m] = position[m], Due(m)' \subseteq Due(m)
  PROVE  Ahead(m)'
<1> SUFFICES ASSUME membership[m] = "active", NEW p \in assigned[m]
             PROVE  AheadOf(m, p)'
  BY DEF Ahead
<1>1. AheadOf(m, p) /\ p \in Partitions
  BY DEF Ahead, TypeOK, DriverTypeOK
<1>2. stored[m][p] \in Nat /\ position[m][p] \in Nat /\ committed[p] \in Nat
  BY <1>1, DriverAssumption DEF TypeOK, DriverTypeOK, Offsets
<1>3. \/ committed'[p] = committed[p]
      \/ stored[m][p] > 0 /\ committed'[p] = stored[m][p]
  BY <1>1, CommittedMoves
<1>4. \A msg \in Due(m) : msg.part = p => committed'[p] <= msg.off /\ stored[m][p] <= msg.off
  BY <1>1, <1>3 DEF AheadOf
<1> QED
  BY <1>1, <1>2, <1>3, <1>4 DEF AheadOf

\* A poll returns an offset that is neither committed nor stored.
LEMMA AheadPolled ==
  ASSUME TypeOK, TypeOK', NEW m \in Members, Ahead(m), NEW msg \in Messages, PollMessage(m, msg),
         Due(m)' \subseteq Due(m) \cup {msg}
  PROVE  Ahead(m)'
<1>1. /\ membership'[m] = membership[m] /\ assigned'[m] = assigned[m]
      /\ stored'[m] = stored[m] /\ committed' = committed
      /\ msg.off = position[m][msg.part]
      /\ position'[m] = [position[m] EXCEPT ![msg.part] = @ + 1]
  BY DEF PollMessage, TypeOK, DriverTypeOK, groupVars
<1> SUFFICES ASSUME membership[m] = "active", NEW p \in assigned[m]
             PROVE  AheadOf(m, p)'
  BY <1>1 DEF Ahead
<1>2. AheadOf(m, p) /\ p \in Partitions
  BY DEF Ahead, TypeOK, DriverTypeOK
<1>3. /\ stored[m][p] \in Nat /\ position[m][p] \in Nat /\ committed[p] \in Nat
      /\ position[m] \in [Partitions -> Offsets]
  BY <1>2, DriverAssumption DEF TypeOK, DriverTypeOK, Offsets
<1>4. position[m][p] <= position'[m][p]
  <2>1. position'[m][p] = IF p = msg.part THEN position[m][p] + 1 ELSE position[m][p]
    BY <1>1, <1>2, <1>3
  <2> QED
    BY <1>3, <2>1
<1>5. \A x \in Due(m) \cup {msg} : x.part = p => committed[p] <= x.off /\ stored[m][p] <= x.off
  BY <1>1, <1>2 DEF AheadOf
<1>6. position'[m][p] \in Nat
  BY <1>2, DriverAssumption DEF TypeOK, DriverTypeOK, Offsets
<1>7. \A x \in Due(m)' : x.part = p => committed'[p] <= x.off /\ stored'[m][p] <= x.off
  BY <1>1, <1>5
<1>8. /\ stored'[m][p] > 0 => committed'[p] <= stored'[m][p]
      /\ committed'[p] <= position'[m][p] /\ stored'[m][p] <= position'[m][p]
  <2>1. /\ stored[m][p] > 0 => committed[p] <= stored[m][p]
        /\ committed[p] <= position[m][p] /\ stored[m][p] <= position[m][p]
    BY <1>2 DEF AheadOf
  <2>2. committed'[p] = committed[p] /\ stored'[m][p] = stored[m][p]
    BY <1>1
  <2> QED
    <3>1. \A s, c, old, new \in Nat : s <= old /\ c <= old /\ old <= new => s <= new /\ c <= new
      OBVIOUS
    <3>2. committed[p] <= position'[m][p] /\ stored[m][p] <= position'[m][p]
      BY <1>3, <1>4, <1>6, <2>1, <3>1
    <3> QED
      BY <2>1, <2>2, <3>2
<1> QED
  BY <1>7, <1>8 DEF AheadOf

\* Storing the offset of a message that was due, the highest of its partition,
\* after which none of that partition is due.
LEMMA AheadStored ==
  ASSUME TypeOK, NEW m \in Members, Ahead(m), PendingWasPolled(m), NEW msg \in Due(m),
         StoreOffset(m, msg.part, msg.off), UNCHANGED committed,
         membership'[m] = membership[m], assigned'[m] = assigned[m], position'[m] = position[m],
         Due(m)' \subseteq {x \in Due(m) : x.part # msg.part}
  PROVE  Ahead(m)'
<1> SUFFICES ASSUME membership[m] = "active", NEW p \in assigned[m]
             PROVE  AheadOf(m, p)'
  BY DEF Ahead
<1>1. AheadOf(m, p) /\ p \in Partitions /\ msg \in Messages /\ msg \in Pending(m)
  BY DueType DEF Ahead, TypeOK, DriverTypeOK
<1>2. stored[m][p] \in Nat /\ position[m][p] \in Nat /\ committed[p] \in Nat /\ msg.off \in Nat
  BY <1>1, DriverAssumption DEF TypeOK, DriverTypeOK, Offsets, Messages
<1>3. CASE p = msg.part
  <2>1. stored'[m][p] = msg.off + 1
    BY <1>1, <1>3 DEF StoreOffset, TypeOK, DriverTypeOK
  <2>2. msg.off < position[m][p] /\ committed[p] <= msg.off
    BY <1>1, <1>3 DEF AheadOf, PendingWasPolled
  <2>3. \A x \in Due(m)' : x.part # p
    BY <1>3
  <2> QED
    BY <1>1, <1>2, <2>1, <2>2, <2>3 DEF AheadOf
<1>4. CASE p # msg.part
  <2>1. stored'[m][p] = stored[m][p]
    BY <1>1, <1>4 DEF StoreOffset, TypeOK, DriverTypeOK
  <2> QED
    BY <1>1, <2>1 DEF AheadOf
<1> QED
  BY <1>3, <1>4

\* A commit of m concerns no partition of another active member.
LEMMA OthersCommitted ==
  ASSUME OInv, NEW m \in Members, Step(m) \/ Environment(m), NEW n \in Members, n # m,
         membership[n] = "active", NEW p \in assigned[n]
  PROVE  committed'[p] = committed[p]
<1>1. p \in Partitions /\ owner[p] = n
  BY DEF OInv, Holding
<1>2. UNCHANGED committed \/ Publishes(m)
  BY CommitEffect
<1>3. committed'[p] = committed[p] \/ (membership[m] = "active" /\ p \in assigned[m])
  BY <1>1, <1>2, CommittedMoves
<1>4. ~(membership[m] = "active" /\ p \in assigned[m])
  BY <1>1 DEF OInv, Holding
<1> QED
  BY <1>3, <1>4

\* A step of m leaves every other member where it was.
LEMMA OthersAhead ==
  ASSUME OInv, NEW m \in Members, Step(m) \/ Environment(m), NEW n \in Members, n # m
  PROVE  Holding(n)' /\ Ahead(n)'
<1>1. Same(n)
  BY StepIsLocal, EnvironmentIsLocal DEF OInv, IInv
<1>2. stored'[n] = stored[n] /\ toStore'[n] = toStore[n] /\ owner' = owner
  BY StoreIsLocal, OwnerStays DEF OInv, IInv
<1>3. Holding(n)'
  BY <1>1, <1>2, SMTT(20), Zenon DEF OInv, Holding, Same
<1>4. Due(n)' = Due(n)
  BY <1>1, <1>2 DEF Due, Same, At
<1>5. ASSUME membership[n] = "active", NEW p \in assigned[n]
      PROVE  AheadOf(n, p)'
  <2>2. committed'[p] = committed[p]
    BY <1>5, OthersCommitted
  <2>3. AheadOf(n, p)
    BY <1>5 DEF OInv, Ahead
  <2> QED
    BY <1>1, <1>2, <1>4, <2>2, <2>3 DEF AheadOf, Same
<1> QED
  BY <1>1, <1>3, <1>5 DEF Ahead, Same

\* The store of a message, or of the highest offset of a partition of a batch.
LEMMA StoreAhead ==
  ASSUME OInv, NEW m \in Members, StoreSingle(m) \/ StoreHighest(m)
  PROVE  Ahead(m)'
<1> USE DEF OInv, IInv, TypeOK, DriverTypeOK, LoopTypeOK
<1>1. /\ At(m, "store") /\ buf[m] = <<>> /\ inflight[m] # <<>> /\ buf'[m] = buf[m]
      /\ membership'[m] = membership[m] /\ assigned'[m] = assigned[m] /\ position'[m] = position[m]
      /\ committed' = committed
  BY Zenon DEF StoreSingle, StoreHighest, Mine, Shape, At, Processing, groupVars
<1>2. Due(m) = {msg \in Range(inflight[m]) : Mode = "single" \/ msg.part \in toStore[m]}
  BY <1>1, RangeEmpty, Zenon DEF Due, At, Unstored
<1>3. CASE StoreSingle(m)
  <2>1. Due(m)' = {}
    BY <1>1, <1>3, RangeEmpty DEF StoreSingle, StopLoop, Goto, Due, At, Unstored
  <2>2. CASE stored' = stored
    BY <1>1, <2>1, <2>2, AheadKept, Zenon
  <2>3. CASE StoreOffset(m, inflight[m][1].part, inflight[m][1].off)
    <3>1. inflight[m][1] \in Due(m)
      <4>1. inflight[m] \in Seq(Messages) /\ Mode = "single"
        BY <1>3 DEF StoreSingle
      <4>2. 1 \in DOMAIN inflight[m]
        <5>1. inflight[m] # <<>>
          BY <1>1, Zenon
        <5>2. \A s \in Seq(Messages) : s # <<>> => 1 \in DOMAIN s
          BY SMTT(20), Zenon
        <5> QED
          BY <4>1, <5>1, <5>2
      <4>3. inflight[m][1] \in Range(inflight[m])
        BY <4>2 DEF Range
      <4> QED
        BY <1>2, <4>1, <4>3
    <3>2. PendingWasPolled(m)
      BY DEF Mine
    <3> QED
      BY <1>1, <2>1, <2>3, <3>1, <3>2, AheadStored, Zenon
  <2> QED
    BY <1>3, <2>2, <2>3 DEF StoreSingle
<1>4. CASE StoreHighest(m)
  <2>1. PICK i \in DOMAIN inflight[m] :
          /\ inflight[m][i].part \in toStore[m]
          /\ toStore' = [toStore EXCEPT ![m] = @ \ {inflight[m][i].part}]
          /\ pc'[m] \in {"store", "commit"}
          /\ UNCHANGED stored \/ StoreOffset(m, inflight[m][i].part, inflight[m][i].off)
    <3>1. pc[m] = "store" /\ DOMAIN pc = Members
      BY <1>1, Zenon DEF At
    <3> QED
      BY ONLY m \in Members, <1>4, <3>1, Zenon DEF StoreHighest, Goto
  <2>2. inflight' = inflight /\ Mode = "batch"
    BY <1>4 DEF StoreHighest
  <2>3. Due(m)' \subseteq {x \in Due(m) : x.part # inflight[m][i].part}
    BY <1>1, <1>2, <2>1, <2>2, RangeEmpty, Zenon DEF Due, At, Unstored
  <2>4. CASE stored' = stored
    BY <1>1, <2>3, <2>4, AheadKept, Zenon
  <2>5. CASE StoreOffset(m, inflight[m][i].part, inflight[m][i].off)
    <3>1. inflight[m][i] \in Due(m)
      BY <1>2, <2>1, Zenon DEF Range
    <3>2. PendingWasPolled(m)
      BY DEF Mine
    <3> QED
      BY <1>1, <2>3, <2>5, <3>1, <3>2, AheadStored, Zenon
  <2> QED
    BY <2>1, <2>4, <2>5
<1> QED
  BY <1>3, <1>4, SMTT(20), Zenon

\* The polls, and the flush of a batch that has timed out.
LEMMA PollAhead ==
  ASSUME OInv, TypeOK', NEW m \in Members, PollSingle(m) \/ PollBatch(m) \/ BatchTimedOut(m)
  PROVE  Ahead(m)'
<1> USE DEF OInv, IInv, TypeOK, DriverTypeOK, LoopTypeOK
<1>1. At(m, "loop") /\ inflight[m] = <<>> /\ Due(m) = Range(buf[m])
  <2>1. At(m, "loop") /\ inflight[m] = <<>>
    BY SMTT(20), Zenon DEF PollSingle, PollBatch, BatchTimedOut, Mine, Shape, At
  <2> QED
    BY <2>1, RangeEmpty, SMTT(20), Zenon DEF Due
<1>2. CASE PollSingle(m)
  <2>1. PICK msg \in Messages : PollMessage(m, msg) /\ inflight' = [inflight EXCEPT ![m] = <<msg>>]
    BY <1>2, Zenon DEF PollSingle
  <2>2. Due(m)' \subseteq Due(m) \cup {msg}
    <3>1. inflight'[m] = <<msg>> /\ buf'[m] = buf[m]
      BY <1>2, <2>1, SMTT(20), Zenon DEF PollSingle
    <3> QED
      BY <1>1, <3>1, RangeOne, Zenon DEF Due
  <2> QED
    BY <2>1, <2>2, AheadPolled
<1>3. CASE PollBatch(m)
  <2>1. PICK msg \in Messages :
          /\ PollMessage(m, msg)
          /\ \/ Flush(m, Append(buf[m], msg))
             \/ /\ buf' = [buf EXCEPT ![m] = Append(@, msg)]
                /\ UNCHANGED <<inflight, pc>>
    BY <1>3, Zenon DEF PollBatch
  <2>2. Range(Append(buf[m], msg)) = Range(buf[m]) \cup {msg}
    <3>1. buf[m] \in Seq(Messages)
      OBVIOUS
    <3> QED
      BY <3>1, RangeAppend
  <2>3. \/ inflight'[m] = Append(buf[m], msg) /\ buf'[m] = <<>>
        \/ inflight'[m] = <<>> /\ buf'[m] = Append(buf[m], msg)
    BY <1>1, <2>1 DEF Flush
  <2>4. Due(m)' \subseteq Due(m) \cup {msg}
    BY <1>1, <2>2, <2>3, RangeEmpty, Zenon DEF Due
  <2> QED
    BY <2>1, <2>4, AheadPolled, SMTT(20), Zenon
<1>4. CASE BatchTimedOut(m)
  <2>1. /\ committed' = committed /\ membership'[m] = membership[m] /\ assigned'[m] = assigned[m]
        /\ stored'[m] = stored[m] /\ position'[m] = position[m]
    BY <1>4, SMTT(20), Zenon DEF BatchTimedOut, driverVars, groupVars, clientVars
  <2>2. inflight'[m] = buf[m] /\ buf'[m] = <<>>
    BY <1>4 DEF BatchTimedOut, Flush
  <2>3. Due(m)' \subseteq Due(m)
    BY <1>1, <2>2, RangeEmpty, Zenon DEF Due
  <2> QED
    BY <2>1, <2>3, AheadKept, SMTT(20), Zenon
<1> QED
  BY <1>2, <1>3, <1>4

\* The handler and the strategy: what is due stays due up to the store.
LEMMA ResolveAhead ==
  ASSUME OInv, NEW m \in Members,
         DispatchMessage(m) \/ RouteSingle(m) \/ InvokeBatchHandler(m) \/ RouteItem(m) \/ RouteWhole(m)
  PROVE  Ahead(m)'
<1> USE DEF OInv, IInv, TypeOK, DriverTypeOK, LoopTypeOK
<1>1. /\ committed' = committed /\ membership'[m] = membership[m] /\ assigned'[m] = assigned[m]
      /\ stored'[m] = stored[m] /\ position'[m] = position[m]
      /\ buf'[m] = buf[m] /\ inflight'[m] = inflight[m]
  BY Zenon DEF DispatchMessage, RouteSingle, InvokeBatchHandler, RouteItem, RouteWhole, driverVars, groupVars,
     clientVars
<1>2. pc[m] \in Unstored
  BY Zenon DEF DispatchMessage, RouteSingle, InvokeBatchHandler, RouteItem, RouteWhole, At, Unstored
<1>3. Due(m)' \subseteq Due(m)
  BY <1>1, <1>2, Zenon DEF Due
<1> QED
  BY <1>1, <1>3, AheadKept, Zenon

\* An assignment starts at the committed offsets, with an empty store.
LEMMA AssignAhead ==
  ASSUME OInv, NEW m \in Members, PollAssigned(m)
  PROVE  Ahead(m)'
<1> USE DEF OInv, IInv, TypeOK, DriverTypeOK, LoopTypeOK, PollAssigned, AssignedPartitions
<1>1. buf'[m] = <<>> /\ inflight'[m] = <<>>
  BY Zenon DEF Mine, Shape, At, loopVars
<1>2. Due(m)' = {}
  BY <1>1, RangeEmpty DEF Due
<1>3. /\ committed' = committed /\ position'[m] = committed /\ stored' = stored
      /\ assigned'[m] \subseteq Partitions
  OBVIOUS
<1>4. \A p \in Partitions : stored[m][p] = 0 /\ committed[p] \in Nat
  <2>1. membership[m] = "awaiting" /\ Holding(m)
    OBVIOUS
  <2>2. \A p \in Partitions : stored[m][p] = 0
    BY <2>1 DEF Holding
  <2>3. \A p \in Partitions : committed[p] \in Nat
    <3>1. committed \in [Partitions -> Offsets]
      OBVIOUS
    <3>2. Offsets \subseteq Nat
      BY DriverAssumption DEF Offsets
    <3> QED
      BY <3>1, <3>2, Zenon
  <2> QED
    BY <2>2, <2>3
<1>5. ASSUME NEW p \in assigned'[m]
      PROVE  AheadOf(m, p)'
  <2>1. p \in Partitions /\ stored'[m][p] = 0 /\ committed'[p] = position'[m][p] /\ committed'[p] \in Nat
    BY <1>3, <1>4, <1>5
  <2>2. /\ stored'[m][p] > 0 => committed'[p] <= stored'[m][p]
        /\ committed'[p] <= position'[m][p] /\ stored'[m][p] <= position'[m][p]
    BY ONLY <2>1, SMTT(20), Zenon
  <2> QED
    BY ONLY <1>2, <2>2 DEF AheadOf
<1> QED
  BY ONLY <1>5 DEF Ahead

\* A step that leaves the client of m alone, and m with no more to store.
LEMMA ClientUntouched ==
  ASSUME OInv, NEW m \in Members, Step(m) \/ Environment(m),
         UNCHANGED <<membership, assigned, stored, position>>,
         buf'[m] = buf[m], inflight'[m] \in {<<>>, inflight[m]},
         (pc'[m] = pc[m] /\ toStore'[m] = toStore[m]) \/ pc'[m] \notin Unstored \cup {"store"}
  PROVE  Ahead(m)'
<1>1. Range(inflight'[m]) \subseteq Range(inflight[m])
  BY RangeEmpty
<1>2. Due(m)' \subseteq Due(m)
  BY <1>1 DEF Due, At
<1>3. UNCHANGED committed \/ Publishes(m)
  BY CommitEffect
<1>4. TypeOK /\ Ahead(m)
  BY DEF OInv, IInv
<1> QED
  BY <1>2, <1>3, <1>4, AheadKept

\* Across its own steps, a member stays ahead of what is committed.
LEMMA AheadStep ==
  ASSUME OInv, TypeOK', NEW m \in Members, Step(m) \/ Environment(m)
  PROVE  Ahead(m)'
<1>1. CASE membership'[m] # "active"
  BY <1>1 DEF Ahead
<1>2. /\ DOMAIN pc = Members /\ DOMAIN membership = Members /\ DOMAIN inflight = Members
      /\ TypeOK
  BY DEF OInv, IInv, TypeOK, DriverTypeOK, LoopTypeOK
<1>3. CASE PollRevoked(m) \/ CloseDriver(m) \/ Crash(m) \/ Evict(m)
  BY <1>1, <1>2, <1>3, Zenon DEF PollRevoked, RevokedPartitions, CloseDriver, Close, Crash, Die, Evict
<1>4. CASE Start(m) \/ Connect(m) \/ Cancel(m)
  <2>1. /\ UNCHANGED <<membership, assigned, stored, position, buf, inflight, toStore>>
        /\ pc' = pc \/ pc'[m] \in {"connect", "subscribe", "done"}
    BY <1>2, <1>4 DEF Start, Connect, Cancel, Goto, driverVars, groupVars, clientVars
  <2> QED
    BY <2>1, ClientUntouched DEF Unstored
<1>5. CASE Subscribe(m)
  <2>1. CASE SubscribeToTopic(m)
    BY <1>1, <1>2, <2>1 DEF SubscribeToTopic
  <2>2. CASE Goto(m, "close") /\ UNCHANGED <<groupVars, clientVars>>
    <3>1. /\ UNCHANGED <<membership, assigned, stored, position, buf, inflight>>
          /\ pc'[m] = "close"
      BY <1>2, <1>5, <2>2 DEF Subscribe, Goto, groupVars, clientVars
    <3> QED
      BY <3>1, ClientUntouched DEF Unstored
  <2> QED
    BY <1>5, <2>1, <2>2 DEF Subscribe
<1>6. CASE CtxDone(m) \/ PollFatal(m) \/ FinalCommit(m)
  <2>1. /\ UNCHANGED <<membership, assigned, stored, position, buf, inflight>>
        /\ pc'[m] \in {"final", "close"}
    BY <1>2, <1>6, Zenon DEF CtxDone, PollFatal, FinalCommit, StopLoop, Goto, driverVars, groupVars, clientVars
  <2> QED
    BY <2>1, ClientUntouched DEF Unstored
<1>7. CASE CommitSingle(m) \/ CommitBatch(m)
  <2>1. /\ UNCHANGED <<membership, assigned, stored, position, buf>>
        /\ inflight'[m] = <<>> /\ pc'[m] \in {"loop", "final"}
    BY <1>2, <1>7, SMTT(20), Zenon DEF CommitSingle, CommitBatch, StopLoop, Goto, clientVars
  <2> QED
    BY <2>1, ClientUntouched DEF Unstored
<1>8. CASE AutoCommit(m) /\ UNCHANGED <<loopVars, history>>
  <2>1. UNCHANGED <<membership, assigned, stored, position, buf, inflight, pc, toStore>>
    BY <1>8 DEF AutoCommit, loopVars, clientVars
  <2> QED
    BY <2>1, ClientUntouched
<1> QED
  BY <1>3, <1>4, <1>5, <1>6, <1>7, <1>8, StoreAhead, PollAhead, ResolveAhead, AssignAhead
     DEF Step, Environment

-----------------------------------------------------------------------------
(***************************************************************************)
(* The theorems.                                                           *)
(***************************************************************************)

\* A group in which nothing has been started satisfies the invariant.
LEMMA InitOInv == Init => OInv
<1> SUFFICES ASSUME Init PROVE OInv
  OBVIOUS
<1>1. IInv
  BY InitIInv
<1>2. ASSUME NEW m \in Members
      PROVE  Holding(m) /\ Ahead(m)
  BY <1>2 DEF Init, DriverInit, Holding, Ahead
<1> QED
  BY <1>1, <1>2 DEF OInv

\* Every step of the group keeps the invariant.
LEMMA StepOInv == OInv /\ [Next]_vars => OInv'
<1> SUFFICES ASSUME OInv, [Next]_vars PROVE OInv'
  OBVIOUS
<1>1. IInv' /\ TypeOK'
  BY StepIInv DEF OInv, IInv
<1>2. ASSUME NEW m \in Members, Step(m) \/ Environment(m)
      PROVE  OInv'
  <2>1. Holding(m)' /\ Ahead(m)'
    BY <1>1, <1>2, HoldingStep, AheadStep
  <2>2. \A n \in Members : n # m => Holding(n)' /\ Ahead(n)'
    BY <1>2, OthersAhead
  <2> QED
    BY <1>1, <2>1, <2>2 DEF OInv
<1>3. CASE CompleteRebalance /\ UNCHANGED <<loopVars, history>>
  <2>1. ASSUME NEW m \in Members
        PROVE  Holding(m)' /\ Ahead(m)'
    <3>1. /\ membership'[m] # "active" /\ pc'[m] = pc[m]
          /\ membership'[m] = membership[m] \/ (membership[m] = "joining" /\ membership'[m] = "awaiting")
          /\ assigned' = assigned /\ stored' = stored
      BY <1>3 DEF CompleteRebalance, loopVars, clientVars
    <3> QED
      BY <3>1 DEF OInv, Holding, Ahead
  <2> QED
    BY <1>1, <2>1 DEF OInv
<1>4. CASE UNCHANGED vars
  <2>1. ASSUME NEW m \in Members
        PROVE  Holding(m)' /\ Ahead(m)'
    <3>1. Due(m)' = Due(m)
      BY <1>4 DEF Due, At, vars, loopVars
    <3>2. UNCHANGED <<pc, membership, assigned, owner, stored, position, committed>>
      BY <1>4 DEF vars, driverVars, groupVars, clientVars, loopVars
    <3>3. Holding(m)'
      BY <3>2 DEF OInv, Holding
    <3>4. \A p : AheadOf(m, p)' <=> AheadOf(m, p)
      BY <3>1, <3>2 DEF AheadOf
    <3> QED
      BY <3>2, <3>3, <3>4 DEF OInv, Ahead
  <2> QED
    BY <1>1, <2>1 DEF OInv
<1> QED
  BY <1>2, <1>3, <1>4 DEF Next, AllDone

\* The invariant holds throughout.
LEMMA OrderInvariance == Spec => []OInv
  BY InitOInv, StepOInv, PTL DEF Spec

\* No step of a member moves a committed offset back.
LEMMA CommittedGrows ==
  ASSUME OInv, NEW m \in Members, Step(m) \/ Environment(m), NEW p \in Partitions
  PROVE  committed[p] <= committed'[p]
<1>1. committed[p] \in Nat
  BY DriverAssumption DEF OInv, IInv, TypeOK, DriverTypeOK, Offsets
<1>2. CASE /\ membership[m] = "active" /\ p \in assigned[m] /\ stored[m][p] > 0
           /\ committed'[p] = stored[m][p]
  <2>1. AheadOf(m, p)
    BY <1>2 DEF OInv, Ahead
  <2> QED
    BY <1>2, <2>1 DEF AheadOf
<1>3. \/ committed'[p] = committed[p]
      \/ /\ membership[m] = "active" /\ p \in assigned[m] /\ stored[m][p] > 0
         /\ committed'[p] = stored[m][p]
  BY CommitEffect, CommittedMoves
<1>4. CASE committed'[p] = committed[p]
  BY ONLY <1>1, <1>4
<1> QED
  BY ONLY <1>2, <1>3, <1>4

\* Every step of the group resolves messages, or commits forward over resolved
\* ones, or changes neither.
LEMMA StepAtLeastOnce ==
  ASSUME OInv, OInv', [Next]_vars
  PROVE  [ALO!Resolve \/ ALO!Commit]_<<resolved, committed>>
<1>1. CASE UNCHANGED <<resolved, committed>>
  BY <1>1
<1>2. ASSUME NEW m \in Members, Step(m) \/ Environment(m)
      PROVE  ALO!Resolve \/ ALO!Commit
  <2>1. CASE UNCHANGED committed
    <3>1. resolved \subseteq resolved' /\ resolved' \subseteq Messages
      BY <1>2, ResolvedStays DEF OInv, IInv, TypeOK, LoopTypeOK
    <3> QED
      BY <2>1, <3>1 DEF ALO!Resolve, ALO!Message, Messages
  <2>2. CASE Publishes(m)
    <3>1. ASSUME NEW p \in Partitions
          PROVE  committed[p] <= committed'[p] /\ ALO!PrefixResolved(p, committed'[p])
      <4>1. committed[p] <= committed'[p]
        BY <1>2, CommittedGrows
      <4>2. PrefixResolved(p, committed[p])'
        BY DEF OInv, IInv, CommittedIsResolved
      <4> QED
        BY <2>2, <4>1, <4>2 DEF Publishes, PrefixResolved, ALO!PrefixResolved, ALO!Message, Messages
    <3>2. committed' \in [Partitions -> 0 .. LogLen]
      BY DEF OInv, IInv, TypeOK, DriverTypeOK, Offsets
    <3> QED
      BY <2>2, <3>1, <3>2 DEF ALO!Commit, Publishes
  <2> QED
    BY <1>2, <2>1, <2>2, CommitEffect
<1>3. CASE CompleteRebalance /\ UNCHANGED <<loopVars, history>>
  BY <1>1, <1>3 DEF CompleteRebalance, history
<1>4. CASE UNCHANGED vars
  BY <1>1, <1>4 DEF vars, driverVars, groupVars, history
<1> QED
  BY <1>2, <1>3, <1>4 DEF Next, AllDone

\* The group implements its abstract promise: a message is dealt with before the
\* committed offset passes it, and no commit of the loop, the background
\* committer, a revoke or a shutdown moves a committed offset back, whoever
\* held the partition before (CommitStored, rebalanceCallback).
THEOREM GroupIsAtLeastOnce == Spec => ImplementsAtLeastOnce
<1>1. Init => ALO!Init
  BY DEF Init, DriverInit, ALO!Init
<1>2. OInv /\ OInv' /\ [Next]_vars => [ALO!Resolve \/ ALO!Commit]_<<resolved, committed>>
  BY StepAtLeastOnce
<1> QED
  BY <1>1, <1>2, OrderInvariance, PTL DEF Spec, ImplementsAtLeastOnce, ALO!Spec

=============================================================================
