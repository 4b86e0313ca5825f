---------------------------- MODULE ReplayProofs ----------------------------
(***************************************************************************)
(* What a member of the group holds between a poll and a commit: its       *)
(* buffer is exactly what it has polled and not stored, and as long as     *)
(* nothing has failed no message is handed to a handler again.             *)
(***************************************************************************)
EXTENDS CommitOrderProofs

\* The offset a member's store, or failing that the coordinator, has reached.
From(m, p) == IF stored[m][p] > 0 THEN stored[m][p] ELSE committed[p]

\* A goroutine processes messages of its own partitions only, it stores offsets
\* of them only, and a failed store ends its loop.
Kept(m) ==
    /\ \A msg \in Range(buf[m]) : msg.part \in assigned[m]
    /\ pc[m] \in Processing =>
          /\ membership[m] \in {"active", "lost"}
          /\ \A msg \in Range(inflight[m]) : msg.part \in assigned[m]
    /\ \A p \in Partitions : stored[m][p] > 0 => p \in assigned[m]
    /\ Mode = "single" /\ pc[m] \in Processing => \E msg \in Messages : inflight[m] = <<msg>>
    /\ storeErr[m] => Mode = "batch" /\ pc[m] \in {"store", "commit", "final", "close", "done"}
    /\ faults = 0 => membership[m] # "lost"

\* The buffer has the messages of a partition in the order of their offsets.
Ordered(m) ==
    \A i, j \in DOMAIN buf[m] :
        i < j /\ buf[m][i].part = buf[m][j].part => buf[m][i].off < buf[m][j].off

\* The offsets of p still to be stored are those between From and the position.
Gap(m, p) == {msg.off : msg \in {x \in Due(m) : x.part = p}} = From(m, p) .. position[m][p] - 1
Gaps(m) ==
    membership[m] = "active" /\ pc[m] \in Processing \cup {"loop"} /\ ~storeErr[m] =>
        \A p \in assigned[m] : Gap(m, p)

\* What NothingLeftUncommitted says of a member.
Clean(m) ==
    faults = 0 /\ ~autoCommit /\ At(m, "loop") =>
        \A p \in Partitions : stored[m][p] \in {0, committed[p]}

\* The messages in hand that the handler has seen and that are not stored yet.
Handled(m) ==
    {msg \in Range(inflight[m]) :
        \/ At(m, "route")
        \/ At(m, "store") /\ (Mode = "single" \/ msg.part \in toStore[m])}

\* m accounts for msg: it will commit msg's offset unless something fails.
Accounts(m, msg) ==
    /\ membership[m] = "active"
    /\ msg.part \in assigned[m]
    /\ msg.off < stored[m][msg.part] \/ msg \in Handled(m)

\* Without a fault, what was dealt with is committed or accounted for, unless
\* the strategy stopped the member that held it.
Accounted ==
    faults = 0 =>
        \A msg \in resolved \ abandoned :
            msg.off < committed[msg.part] \/ \E m \in Members : Accounts(m, msg)

VInv ==
    /\ OInv
    /\ \A m \in Members : Kept(m) /\ Ordered(m) /\ Gaps(m) /\ Clean(m)
    /\ Accounted

-----------------------------------------------------------------------------
(***************************************************************************)
(* What a step of one member can change.                                   *)
(***************************************************************************)

\* A step counts at most one fault, and counts it if it meets one.
LEMMA FaultsCounted ==
  ASSUME NEW m \in Members, Step(m) \/ Environment(m)
  PROVE  UNCHANGED faults \/ Fault
<1>1. CASE CommitStored(m) \/ MaybeCommitStored(m)
  BY <1>1 DEF CommitStored, MaybeCommitStored, NoFault
<1>2. CASE PollRevoked(m) \/ CommitSingle(m) \/ CommitBatch(m) \/ FinalCommit(m) \/ CloseDriver(m) \/ AutoCommit(m)
  BY <1>1, <1>2 DEF PollRevoked, RevokedPartitions, CommitSingle, CommitBatch, FinalCommit, CloseDriver,
     Close, AutoCommit
<1>3. CASE RouteSingle(m) \/ RouteItem(m) \/ RouteWhole(m)
  BY <1>3 DEF RouteSingle, RouteItem, RouteWhole, StoppedByStrategy, HandleErrorOK, HandleErrorFails, NoFault
<1>4. CASE StoreSingle(m) \/ StoreHighest(m)
  BY <1>4 DEF StoreSingle, StoreHighest, NoFault
<1>5. CASE Start(m) \/ Connect(m) \/ Subscribe(m) \/ PollFatal(m) \/ Crash(m) \/ Evict(m)
  BY <1>5 DEF Start, Connect, Subscribe, PollFatal, Crash, Die, Evict, NoFault
<1>6. CASE PollAssigned(m) \/ PollSingle(m) \/ PollBatch(m)
  BY <1>6 DEF PollAssigned, AssignedPartitions, PollSingle, PollBatch, PollMessage, NoFault
<1> QED
  BY <1>2, <1>3, <1>4, <1>5, <1>6 DEF Step, CtxDone, DispatchMessage, BatchTimedOut, InvokeBatchHandler,
     Environment, Cancel, driverVars

\* A step after which there has been no fault meets none.
LEMMA NoFaultYet ==
  ASSUME TypeOK, NEW m \in Members, Step(m) \/ Environment(m), faults' = 0
  PROVE  faults = 0 /\ ~Fault
<1>1. faults \in Nat
  BY DriverAssumption DEF TypeOK, DriverTypeOK
<1>2. ~Fault
  BY <1>1 DEF Fault
<1> QED
  BY <1>2, FaultsCounted

\* Only a store of the batch loop that fails is remembered, by its own member.
LEMMA StoreErrIsLocal ==
  ASSUME TypeOK, NEW m \in Members, Step(m) \/ Environment(m)
  PROVE  \/ storeErr' = storeErr
         \/ StoreHighest(m) /\ \A n \in Members : n # m => storeErr'[n] = storeErr[n]
<1>1. CASE StoreHighest(m)
  BY <1>1, Zenon DEF StoreHighest, TypeOK, LoopTypeOK
<1>2. CASE UNCHANGED loopVars
  BY <1>2 DEF loopVars
<1> QED
  BY <1>1, <1>2, Zenon DEF Step, Connect, Subscribe, CtxDone, PollAssigned, PollRevoked, PollSingle,
     DispatchMessage, RouteSingle, StoreSingle, CommitSingle, PollBatch, BatchTimedOut,
     InvokeBatchHandler, RouteItem, RouteWhole, CommitBatch, FinalCommit, CloseDriver, Environment,
     Start, Cancel, PollFatal, Crash

\* Everything the invariant says of another member stays true of it.
LEMMA OthersKeep ==
  ASSUME OInv, NEW m \in Members, Step(m) \/ Environment(m), NEW n \in Members, n # m,
         Kept(n), Ordered(n), Gaps(n), Clean(n)
  PROVE  Kept(n)' /\ Ordered(n)' /\ Gaps(n)' /\ Clean(n)'
<1>0. TypeOK /\ Holding(n)
  BY DEF OInv, IInv
<1>1. Same(n)
  BY <1>0, StepIsLocal, EnvironmentIsLocal
<1>2. stored'[n] = stored[n] /\ toStore'[n] = toStore[n]
  BY <1>0, StoreIsLocal
<1>3. storeErr'[n] = storeErr[n]
  BY <1>0, StoreErrIsLocal
<1>4. faults' = 0 => faults = 0
  BY <1>0, NoFaultYet
<1>5. Due(n)' = Due(n)
  BY <1>1, <1>2 DEF Due, Same, At
<1>6. Kept(n)'
  BY <1>1, <1>2, <1>3, <1>4 DEF Kept, Same
<1>7. Ordered(n)'
  BY <1>1 DEF Ordered, Same
<1>8. ASSUME membership[n] = "active", NEW p \in assigned[n]
      PROVE  committed'[p] = committed[p]
  BY <1>8, OthersCommitted
<1>9. Gaps(n)'
  <2> SUFFICES ASSUME membership[n] = "active", pc[n] \in Processing \cup {"loop"}, ~storeErr[n],
                      NEW p \in assigned[n]
               PROVE  Gap(n, p)'
    BY <1>1, <1>3 DEF Gaps, Same
  <2>1. Gap(n, p)
    BY DEF Gaps
  <2>2. From(n, p)' = From(n, p)
    BY <1>2, <1>8 DEF From
  <2> QED
    BY <1>1, <1>5, <2>1, <2>2 DEF Gap, Same
<1>10. Clean(n)'
  <2> SUFFICES ASSUME faults' = 0, ~autoCommit, At(n, "loop"), NEW p \in Partitions
               PROVE  stored[n][p] \in {0, committed'[p]}
    BY <1>1, <1>2 DEF Clean, Same, At
  <2>1. stored[n][p] \in {0, committed[p]} /\ stored[n][p] \in Nat
    BY <1>0, <1>4, DriverAssumption DEF Clean, TypeOK, DriverTypeOK, Offsets
  <2>2. CASE stored[n][p] = 0
    BY <2>2
  <2>3. CASE stored[n][p] > 0
    <3>1. p \in assigned[n]
      BY <2>3 DEF Kept
    <3>2. membership[n] = "active"
      BY <1>0, <1>4, <3>1 DEF Holding, Kept
    <3> QED
      BY <1>8, <2>1, <2>3, <3>1, <3>2
  <2> QED
    BY <2>1, <2>2, <2>3
<1> QED
  BY <1>6, <1>7, <1>9, <1>10

-----------------------------------------------------------------------------
(***************************************************************************)
(* A member across its own steps.                                          *)
(***************************************************************************)

\* What the invariant says of one member.
Own(m) == Kept(m) /\ Ordered(m) /\ Gaps(m) /\ Clean(m)

\* Offsets are numbers.
LEMMA Numbers ==
  ASSUME TypeOK, NEW m \in Members, NEW p \in Partitions
  PROVE  stored[m][p] \in Nat /\ position[m][p] \in Nat /\ committed[p] \in Nat
<1>1. Offsets \subseteq Nat
  BY DriverAssumption DEF Offsets
<1> QED
  BY <1>1, Zenon DEF TypeOK, DriverTypeOK

\* A message names a partition and an offset.
LEMMA MessageParts ==
  ASSUME NEW msg \in Messages
  PROVE  msg.part \in Partitions /\ msg.off \in Nat
  BY DriverAssumption DEF Messages

\* The interval that starts past its end is empty.
LEMMA NothingBetween ==
  ASSUME NEW n \in Nat
  PROVE  n .. n - 1 = {}
  OBVIOUS

\* An interval with something in it has its last number in it.
LEMMA LastBetween ==
  ASSUME NEW from \in Nat, NEW to \in Nat, NEW n \in from .. to - 1
  PROVE  to - 1 \in from .. to - 1
  OBVIOUS

\* What is at least another number is not below it.
LEMMA NotBelow ==
  ASSUME NEW a \in Nat, NEW b \in Nat, a <= b
  PROVE  ~(b < a)
  OBVIOUS

\* A member with nothing in hand and nothing stored.
LEMMA EmptyKept ==
  ASSUME NEW m \in Members, buf'[m] = <<>>, pc'[m] \notin Processing,
         \A p \in Partitions : ~(stored'[m][p] > 0),
         storeErr'[m] => Mode = "batch" /\ pc'[m] \in {"store", "commit", "final", "close", "done"},
         faults' = 0 => membership'[m] # "lost"
  PROVE  Kept(m)'
<1>1. Range(buf'[m]) = {}
  BY RangeEmpty
<1> QED
  BY <1>1 DEF Kept

\* A commit of what is stored does not move where the gap starts.
LEMMA FromStays ==
  ASSUME TypeOK, NEW m \in Members, UNCHANGED committed \/ Publishes(m), stored'[m] = stored[m],
         NEW p \in Partitions
  PROVE  From(m, p)' = From(m, p)
<1>1. committed'[p] = committed[p] \/ (stored[m][p] > 0 /\ committed'[p] = stored[m][p])
  BY CommittedMoves
<1> QED
  BY <1>1 DEF From

\* A step that may commit what is stored, and leaves what is due as it is.
LEMMA GapsKept ==
  ASSUME TypeOK, NEW m \in Members, Gaps(m), UNCHANGED committed \/ Publishes(m),
         membership'[m] = membership[m], assigned'[m] = assigned[m], stored'[m] = stored[m],
         position'[m] = position[m], Due(m)' = Due(m), storeErr'[m] = storeErr[m],
         pc[m] \in Processing \cup {"loop"}
  PROVE  Gaps(m)'
<1> SUFFICES ASSUME membership[m] = "active", ~storeErr[m], NEW p \in assigned[m]
             PROVE  Gap(m, p)'
  BY DEF Gaps
<1>1. Gap(m, p) /\ p \in Partitions
  BY DEF Gaps, TypeOK, DriverTypeOK
<1>2. From(m, p)' = From(m, p)
  BY <1>1, FromStays
<1> QED
  BY <1>1, <1>2 DEF Gap

\* Starting, stopping, cancelling, and the commits at rest: nothing in hand moves
\* (Start, run, the loops' exits, the background committer).
LEMMA AsideKeeps ==
  ASSUME OInv, NEW m \in Members, Own(m), Environment(m) \/ Step(m),
         \/ Start(m) \/ Connect(m) \/ Subscribe(m) \/ Cancel(m) \/ CtxDone(m) \/ PollFatal(m) \/ FinalCommit(m)
         \/ AutoCommit(m) /\ UNCHANGED <<loopVars, history>>
  PROVE  Own(m)'
<1>0. /\ TypeOK /\ Holding(m) /\ Shape(m) /\ Kept(m)
      /\ pc \in [Members -> Steps] /\ membership \in [Members -> Standings]
  BY DEF OInv, IInv, Mine, Own, TypeOK, DriverTypeOK, LoopTypeOK
<1>1. UNCHANGED <<assigned, position, stored, buf, inflight, toStore, storeErr>>
  BY DEF Start, Connect, Subscribe, SubscribeToTopic, Cancel, CtxDone, PollFatal, FinalCommit, AutoCommit,
     driverVars, clientVars, loopVars
<1>2. \/ pc' = pc /\ membership' = membership /\ (UNCHANGED committed \/ autoCommit)
      \/ pc[m] \in {"start", "connect", "subscribe", "loop", "final"} /\ membership' = membership
           /\ pc'[m] \in {"connect", "subscribe", "final", "close", "done"}
           /\ (pc[m] = "final" => pc'[m] = "close")
      \/ pc[m] = "subscribe" /\ pc'[m] = "loop" /\ membership'[m] = "joining"
  <2>1. CASE Cancel(m)
    BY <2>1 DEF Cancel, driverVars, groupVars
  <2>2. CASE AutoCommit(m) /\ UNCHANGED <<loopVars, history>>
    BY <2>2 DEF AutoCommit, loopVars
  <2>3. CASE Start(m)
    BY <1>0, <2>3 DEF Start, Goto, Shape, At, groupVars
  <2>4. CASE Connect(m)
    BY <1>0, <2>4 DEF Connect, Goto, At, groupVars
  <2>5. CASE Subscribe(m)
    BY <1>0, <2>5 DEF Subscribe, SubscribeToTopic, Goto, At, groupVars
  <2>6. CASE CtxDone(m) \/ PollFatal(m)
    BY <1>0, <2>6 DEF CtxDone, PollFatal, StopLoop, Goto, At, driverVars, groupVars
  <2>7. CASE FinalCommit(m)
    BY <1>0, <2>7 DEF FinalCommit, Goto, At
  <2> QED
    BY <2>1, <2>2, <2>3, <2>4, <2>5, <2>6, <2>7, SMTT(20), Zenon
<1>3. faults' = 0 => faults = 0
  BY <1>0, NoFaultYet
<1>4. Ordered(m)'
  BY <1>1 DEF Own, Ordered
<1>5. Kept(m)'
  <2>1. CASE pc' = pc /\ membership' = membership
    BY <1>0, <1>1, <1>3, <2>1 DEF Kept
  <2>2. CASE /\ pc[m] \in {"start", "connect", "subscribe", "loop", "final"} /\ membership' = membership
             /\ pc'[m] \in {"connect", "subscribe", "final", "close", "done"}
             /\ (pc[m] = "final" => pc'[m] = "close")
    <3>1. storeErr[m] => pc'[m] = "close"
      BY <1>0, <2>2, Zenon DEF Kept
    <3>2. pc'[m] \notin Processing
      BY <2>2 DEF Processing, Unstored
    <3> QED
      BY <1>0, <1>1, <1>3, <2>2, <3>1, <3>2, Zenon DEF Kept
  <2>3. CASE pc[m] = "subscribe" /\ pc'[m] = "loop" /\ membership'[m] = "joining"
    <3>1. ~storeErr[m] /\ pc'[m] \notin Processing
      BY <1>0, <2>3, Zenon DEF Kept, Processing, Unstored
    <3> QED
      BY <1>0, <1>1, <2>3, <3>1, Zenon DEF Kept
  <2> QED
    BY <1>2, <2>1, <2>2, <2>3, SMTT(20), Zenon
<1>6. Gaps(m)'
  <2>1. CASE pc' = pc /\ membership' = membership /\ pc[m] \in Processing \cup {"loop"}
    <3>1. Due(m)' = Due(m)
      BY <1>1, <2>1, Zenon DEF Due, At
    <3>2. UNCHANGED committed \/ Publishes(m)
      BY CommitEffect
    <3> QED
      BY <1>0, <1>1, <2>1, <3>1, <3>2, GapsKept, Zenon DEF Own
  <2>2. CASE pc'[m] \notin Processing \cup {"loop"} \/ membership'[m] # "active"
    BY <2>2 DEF Gaps
  <2> QED
    BY <1>2, <2>1, <2>2, Zenon DEF Processing, Unstored
<1>7. Clean(m)'
  <2> SUFFICES ASSUME faults' = 0, ~autoCommit, pc'[m] = "loop", NEW p \in Partitions
               PROVE  stored[m][p] \in {0, committed'[p]}
    BY <1>1 DEF Clean, At
  <2>1. CASE pc' = pc /\ UNCHANGED committed
    BY <1>3, <2>1 DEF Own, Clean, At
  <2>2. CASE pc[m] = "subscribe"
    BY <1>0, <2>2 DEF Holding
  <2> QED
    BY <1>2, <2>1, <2>2
<1> QED
  BY <1>4, <1>5, <1>6, <1>7 DEF Own

\* An assignment starts with nothing in hand, where the group has committed
\* (rebalanceCallback, AssignedPartitions).
LEMMA AssignedKeeps ==
  ASSUME OInv, NEW m \in Members, Own(m), PollAssigned(m)
  PROVE  Own(m)'
<1>0. /\ TypeOK /\ Holding(m) /\ Shape(m) /\ Kept(m)
      /\ membership \in [Members -> Standings]
      /\ position \in [Members -> [Partitions -> Offsets]] /\ assigned \in [Members -> SUBSET Partitions]
  BY DEF OInv, IInv, Mine, Own, TypeOK, DriverTypeOK
<1>1. /\ UNCHANGED <<committed, stored, faults, pc, buf, inflight, toStore, storeErr>>
      /\ membership[m] = "awaiting" /\ pc[m] = "loop"
      /\ membership' = [membership EXCEPT ![m] = "active"]
      /\ assigned'   = [assigned EXCEPT ![m] = {p \in Partitions : owner[p] = m}]
      /\ position'   = [position EXCEPT ![m] = committed]
  BY DEF PollAssigned, AssignedPartitions, NoFault, At, loopVars
<1>2. /\ membership'[m] = "active" /\ position'[m] = committed
      /\ assigned'[m] \subseteq Partitions /\ buf[m] = <<>> /\ inflight[m] = <<>>
  BY <1>0, <1>1 DEF Shape
<1>3. \A p \in Partitions : stored[m][p] = 0
  BY <1>0, <1>1 DEF Holding
<1>4. Due(m)' = {}
  BY <1>1, <1>2, RangeEmpty DEF Due
<1>5. Kept(m)'
  <2>1. pc'[m] \notin Processing /\ ~storeErr'[m]
    BY <1>0, <1>1 DEF Kept, Processing, Unstored
  <2>2. \A p \in Partitions : ~(stored'[m][p] > 0)
    BY <1>1, <1>3
  <2> QED
    BY <1>1, <1>2, <2>1, <2>2, EmptyKept
<1>6. Gaps(m)'
  <2> SUFFICES ASSUME NEW p \in assigned'[m]
               PROVE  Gap(m, p)'
    BY DEF Gaps
  <2>1. p \in Partitions /\ stored[m][p] = 0 /\ committed[p] \in Nat
    BY <1>0, <1>2, <1>3, Numbers
  <2>2. From(m, p)' = committed[p] /\ position'[m][p] = committed[p]
    BY <1>1, <1>2, <2>1 DEF From
  <2>3. committed[p] .. committed[p] - 1 = {}
    BY <2>1, NothingBetween
  <2> QED
    BY <1>4, <2>2, <2>3 DEF Gap
<1>7. Ordered(m)' /\ Clean(m)'
  BY <1>1 DEF Own, Ordered, Clean, At
<1> QED
  BY <1>5, <1>6, <1>7 DEF Own

\* A revocation, the closing of the driver and a crash leave nothing in hand; an
\* eviction is a fault (rebalanceCallback, OnRevoke, Close).
LEMMA ReleasedKeeps ==
  ASSUME OInv, NEW m \in Members, Own(m), Step(m) \/ Environment(m),
         PollRevoked(m) \/ CloseDriver(m) \/ Crash(m) \/ (Evict(m) /\ UNCHANGED <<loopVars, history>>)
  PROVE  Own(m)'
<1>0. /\ TypeOK /\ Holding(m) /\ Shape(m) /\ Kept(m) /\ faults \in Nat
      /\ membership \in [Members -> Standings] /\ pc \in [Members -> Steps] /\ buf \in [Members -> Seq(Messages)]
      /\ stored \in [Members -> [Partitions -> Offsets]] /\ assigned \in [Members -> SUBSET Partitions]
  BY DriverAssumption, SMTT(20), Zenon DEF OInv, IInv, Mine, Own, TypeOK, DriverTypeOK, LoopTypeOK
<1>1. CASE Evict(m) /\ UNCHANGED <<loopVars, history>>
  <2>1. /\ UNCHANGED <<assigned, stored, pc, buf, inflight, storeErr>>
        /\ membership'[m] = "lost" /\ faults' # 0
    BY <1>0, <1>1 DEF Evict, Fault, clientVars, loopVars
  <2> QED
    BY <2>1 DEF Own, Kept, Ordered, Gaps, Clean
<1>2. CASE PollRevoked(m) \/ CloseDriver(m) \/ Crash(m)
  <2>1. Unassign(m) /\ membership'[m] \in {"joining", "out"}
    BY <1>0, <1>2 DEF PollRevoked, RevokedPartitions, CloseDriver, Close, Crash, Die
  <2>2. \A p \in Partitions : stored'[m][p] = 0
    BY <1>0, <2>1 DEF Unassign
  <2>3. buf'[m] = <<>>
    <3>1. CASE Crash(m)
      BY <1>0, <3>1 DEF Crash
    <3>2. CASE OnRevoke(m)
      <4>1. CASE Mode = "batch"
        BY <1>0, <3>2, <4>1 DEF OnRevoke
      <4>2. CASE Mode # "batch"
        BY <1>0, <3>2, <4>2 DEF OnRevoke, Shape
      <4> QED
        BY <4>1, <4>2
    <3> QED
      BY <1>2, <3>1, <3>2, Zenon DEF PollRevoked, CloseDriver
  <2>4. pc'[m] = "done" \/ (pc'[m] = "loop" /\ pc[m] = "loop")
    BY <1>0, <1>2 DEF PollRevoked, CloseDriver, Crash, Goto, At
  <2>5. storeErr' = storeErr
    BY <1>2, SMTT(20), Zenon DEF PollRevoked, CloseDriver, Crash
  <2>6. Kept(m)'
    <3>1. pc'[m] \notin Processing /\ membership'[m] # "lost"
      BY <2>1, <2>4 DEF Processing, Unstored
    <3>2. storeErr'[m] => Mode = "batch" /\ pc'[m] \in {"store", "commit", "final", "close", "done"}
      BY <1>0, <2>4, <2>5 DEF Kept
    <3>3. \A p \in Partitions : ~(stored'[m][p] > 0)
      BY <2>2
    <3> QED
      BY <2>3, <3>1, <3>2, <3>3, EmptyKept
  <2>7. Ordered(m)' /\ Gaps(m)' /\ Clean(m)'
    <3>1. Ordered(m)'
      BY ONLY <2>3 DEF Ordered
    <3>2. Gaps(m)'
      BY ONLY <2>1 DEF Gaps
    <3>3. Clean(m)'
      BY ONLY <2>2 DEF Clean
    <3> QED
      BY <3>1, <3>2, <3>3
  <2> QED
    BY <2>6, <2>7 DEF Own
<1> QED
  BY <1>1, <1>2

\* A message polled widens the gap by its offset (PollMessage).
LEMMA PolledGap ==
  ASSUME OInv, TypeOK', NEW m \in Members, Gaps(m), NEW msg \in Messages, PollMessage(m, msg),
         Due(m)' = Due(m) \cup {msg}, storeErr'[m] = storeErr[m], pc[m] = "loop"
  PROVE  Gaps(m)'
<1>0. /\ TypeOK /\ Ahead(m)
      /\ position \in [Members -> [Partitions -> Offsets]]
  BY DEF OInv, IInv, TypeOK, DriverTypeOK
<1>1. /\ UNCHANGED <<membership, committed, assigned, stored>>
      /\ msg.off = position[m][msg.part]
      /\ position' = [position EXCEPT ![m][msg.part] = @ + 1]
  BY DEF PollMessage, groupVars
<1> SUFFICES ASSUME membership[m] = "active", ~storeErr[m], NEW p \in assigned[m]
             PROVE  Gap(m, p)'
  BY <1>1 DEF Gaps
<1>2. p \in Partitions /\ Gap(m, p) /\ AheadOf(m, p)
  BY <1>0, Zenon DEF Gaps, Ahead, TypeOK, DriverTypeOK
<1>3. From(m, p)' = From(m, p)
  BY <1>1, SMTT(20), Zenon DEF From
<1>4. stored[m][p] \in Nat /\ position[m][p] \in Nat /\ committed[p] \in Nat
  BY <1>0, <1>2, Numbers
<1>5. From(m, p) \in Nat /\ From(m, p) <= position[m][p]
  BY <1>2, <1>4, Zenon DEF From, AheadOf
<1>6. CASE p = msg.part
  <2>1. position'[m][p] = position[m][p] + 1
    BY <1>0, <1>1, <1>2, <1>6, Zenon
  <2>2. {x.off : x \in {y \in Due(m) \cup {msg} : y.part = p}}
           = {x.off : x \in {y \in Due(m) : y.part = p}} \cup {position[m][p]}
    BY <1>1, <1>6
  <2>3. (From(m, p) .. position[m][p] - 1) \cup {position[m][p]} = From(m, p) .. (position[m][p] + 1) - 1
    BY <1>4, <1>5
  <2> QED
    BY <1>2, <1>3, <2>1, <2>2, <2>3 DEF Gap
<1>7. CASE p # msg.part
  <2>1. position'[m][p] = position[m][p]
    BY <1>0, <1>1, <1>2, <1>7, SMTT(20), Zenon
  <2>2. {y \in Due(m) \cup {msg} : y.part = p} = {y \in Due(m) : y.part = p}
    BY <1>7
  <2> QED
    BY <1>2, <1>3, <2>1, <2>2, SMTT(20), Zenon DEF Gap
<1> QED
  BY <1>6, <1>7

\* A message appended to the buffer has the highest offset of its partition.
LEMMA AppendOrdered ==
  ASSUME TypeOK, NEW m \in Members, Kept(m), Ordered(m), PendingWasPolled(m),
         NEW msg \in Messages, msg.off = position[m][msg.part], msg.part \in assigned[m],
         buf'[m] = Append(buf[m], msg)
  PROVE  Ordered(m)'
<1>1. buf[m] \in Seq(Messages) /\ Len(buf[m]) \in Nat
  BY DEF TypeOK, LoopTypeOK
<1>2. DOMAIN buf'[m] = 1 .. Len(buf[m]) + 1 /\ DOMAIN buf[m] = 1 .. Len(buf[m])
  BY <1>1
<1>3. (\A i \in 1 .. Len(buf[m]) : buf'[m][i] = buf[m][i]) /\ buf'[m][Len(buf[m]) + 1] = msg
  BY <1>1
<1> SUFFICES ASSUME NEW i \in 1 .. Len(buf[m]) + 1, NEW j \in 1 .. Len(buf[m]) + 1, i < j,
                    buf'[m][i].part = buf'[m][j].part
             PROVE  buf'[m][i].off < buf'[m][j].off
  BY <1>2 DEF Ordered
<1>4. i \in 1 .. Len(buf[m])
  BY <1>1
<1>5. CASE j \in 1 .. Len(buf[m])
  BY <1>2, <1>3, <1>4, <1>5 DEF Ordered
<1>6. CASE j = Len(buf[m]) + 1
  <2>1. buf[m][i] \in Pending(m)
    BY <1>2, <1>4 DEF Pending, Range
  <2>2. buf[m][i].part = msg.part
    BY <1>3, <1>4, <1>6
  <2>3. buf[m][i].off < position[m][msg.part]
    BY <2>1, <2>2 DEF PendingWasPolled
  <2> QED
    BY <1>3, <1>4, <1>6, <2>3
<1> QED
  BY <1>1, <1>5, <1>6

\* The polls, and the flush of a buffer that has timed out (runSingleLoop,
\* runBatchLoop).
LEMMA PolledKeeps ==
  ASSUME OInv, TypeOK', NEW m \in Members, Own(m), Step(m), PollSingle(m) \/ PollBatch(m) \/ BatchTimedOut(m)
  PROVE  Own(m)'
<1>0. /\ TypeOK /\ Shape(m) /\ Kept(m) /\ Ordered(m) /\ Gaps(m) /\ Clean(m) /\ PendingWasPolled(m)
      /\ pc \in [Members -> Steps] /\ buf \in [Members -> Seq(Messages)] /\ inflight \in [Members -> Seq(Messages)]
  BY DEF OInv, IInv, Mine, Own, TypeOK, LoopTypeOK
<1>1. /\ pc[m] = "loop" /\ ~storeErr[m] /\ inflight[m] = <<>> /\ storeErr' = storeErr
      /\ UNCHANGED <<membership, committed, assigned, stored, faults>>
  <2>1. pc[m] = "loop" /\ storeErr' = storeErr
    BY DEF PollSingle, PollBatch, BatchTimedOut, At
  <2>2. UNCHANGED <<membership, committed, assigned, stored, faults>>
    BY DEF PollSingle, PollBatch, BatchTimedOut, PollMessage, NoFault, driverVars, groupVars, clientVars
  <2> QED
    BY <1>0, <2>1, <2>2 DEF Shape, Kept
<1>2. Due(m) = Range(buf[m])
  BY <1>1, RangeEmpty, Zenon DEF Due
<1>3. Clean(m)'
  BY <1>0, <1>1, Zenon DEF Clean, At
<1>4. ASSUME pc'[m] = "handle", membership[m] \in {"active", "lost"},
             \A msg \in Range(inflight'[m]) : msg.part \in assigned[m],
             \A msg \in Range(buf'[m]) : msg.part \in assigned[m],
             Mode = "single" => \E msg \in Messages : inflight'[m] = <<msg>>
      PROVE  Kept(m)'
  BY <1>0, <1>1, <1>4, Zenon DEF Kept
<1>5. CASE PollSingle(m)
  <2>1. PICK msg \in Messages : PollMessage(m, msg) /\ inflight' = [inflight EXCEPT ![m] = <<msg>>]
    BY <1>5, Zenon DEF PollSingle
  <2>2. /\ pc'[m] = "handle" /\ inflight'[m] = <<msg>> /\ buf'[m] = <<>> /\ buf[m] = <<>>
        /\ membership[m] \in {"active", "lost"} /\ msg.part \in assigned[m]
    BY <1>0, <1>5, <2>1 DEF PollSingle, Goto, PollMessage, Shape
  <2>3. Due(m)' = Due(m) \cup {msg}
    BY <1>2, <2>2, RangeEmpty, RangeOne, Zenon DEF Due, Unstored
  <2>4. Gaps(m)'
    BY <1>0, <1>1, <2>1, <2>3, PolledGap
  <2>5. Kept(m)'
    <3>1. Range(inflight'[m]) = {msg} /\ Range(buf'[m]) = {}
      BY <2>2, RangeEmpty, RangeOne, Zenon
    <3> QED
      BY <1>4, <2>2, <3>1, Zenon
  <2>6. Ordered(m)'
    BY <2>2 DEF Ordered
  <2> QED
    BY <1>3, <2>4, <2>5, <2>6 DEF Own
<1>6. CASE PollBatch(m)
  <2>1. PICK msg \in Messages :
          /\ PollMessage(m, msg)
          /\ \/ Flush(m, Append(buf[m], msg))
             \/ /\ buf' = [buf EXCEPT ![m] = Append(@, msg)]
                /\ UNCHANGED <<inflight, pc>>
    BY <1>6 DEF PollBatch
  <2>2. /\ membership[m] \in {"active", "lost"} /\ msg.part \in assigned[m] /\ Mode = "batch"
        /\ msg.off = position[m][msg.part]
    BY <1>6, <2>1 DEF PollBatch, PollMessage
  <2>3. Range(Append(buf[m], msg)) = Range(buf[m]) \cup {msg}
    BY <1>0, RangeAppend
  <2>4. \A x \in Range(buf[m]) \cup {msg} : x.part \in assigned[m]
    BY <1>0, <2>2, Zenon DEF Kept
  <2>5. CASE Flush(m, Append(buf[m], msg))
    <3>1. inflight'[m] = Append(buf[m], msg) /\ buf'[m] = <<>> /\ pc'[m] = "handle"
      BY <1>0, <2>5, SMTT(20), Zenon DEF Flush, Goto
    <3>2. Due(m)' = Due(m) \cup {msg}
      BY <1>2, <2>3, <3>1, RangeEmpty DEF Due, Unstored
    <3>3. Gaps(m)'
      BY <1>0, <1>1, <2>1, <3>2, PolledGap
    <3>4. Kept(m)'
      BY <1>4, <2>2, <2>3, <2>4, <3>1, RangeEmpty, Zenon
    <3>5. Ordered(m)'
      BY <3>1 DEF Ordered
    <3> QED
      BY <1>3, <3>3, <3>4, <3>5 DEF Own
  <2>6. CASE buf' = [buf EXCEPT ![m] = Append(@, msg)] /\ UNCHANGED <<inflight, pc>>
    <3>1. inflight'[m] = <<>> /\ buf'[m] = Append(buf[m], msg) /\ pc'[m] = "loop"
      BY <1>0, <1>1, <2>6
    <3>2. Due(m)' = Due(m) \cup {msg}
      BY <1>2, <2>3, <3>1, RangeEmpty DEF Due
    <3>3. Gaps(m)'
      BY <1>0, <1>1, <2>1, <3>2, PolledGap
    <3>4. Kept(m)'
      BY <1>0, <1>1, <2>3, <2>4, <3>1, Zenon DEF Kept, Processing, Unstored
    <3>5. Ordered(m)'
      BY <1>0, <2>2, <3>1, AppendOrdered, Zenon
    <3> QED
      BY <1>3, <3>3, <3>4, <3>5 DEF Own
  <2> QED
    BY <2>1, <2>5, <2>6
<1>7. CASE BatchTimedOut(m)
  <2>1. /\ inflight'[m] = buf[m] /\ buf'[m] = <<>> /\ pc'[m] = "handle" /\ position' = position
        /\ membership[m] \in {"active", "lost"} /\ Mode = "batch"
    BY <1>0, <1>7, Zenon DEF BatchTimedOut, Flush, Goto, Shape, driverVars, clientVars
  <2>2. Due(m)' = Due(m)
    BY <1>2, <2>1, RangeEmpty, SMTT(20), Zenon DEF Due, Unstored
  <2>3. Gaps(m)'
    BY <1>0, <1>1, <2>1, <2>2, GapsKept
  <2>4. Kept(m)'
    BY <1>0, <1>4, <2>1, RangeEmpty, Zenon DEF Kept
  <2>5. Ordered(m)'
    BY ONLY <2>1 DEF Ordered
  <2> QED
    BY <1>3, <2>3, <2>4, <2>5 DEF Own
<1> QED
  BY <1>5, <1>6, <1>7

\* The handler and the strategy: what is in hand stays due up to the store
\* (dispatchMessage, invokeBatchHandler, routeBatchFailures).
LEMMA ResolvedKeeps ==
  ASSUME OInv, NEW m \in Members, Own(m), Step(m),
         DispatchMessage(m) \/ RouteSingle(m) \/ InvokeBatchHandler(m) \/ RouteItem(m) \/ RouteWhole(m)
  PROVE  Own(m)'
<1>0. /\ TypeOK /\ Kept(m) /\ Ordered(m) /\ Gaps(m)
      /\ pc \in [Members -> Steps] /\ inflight \in [Members -> Seq(Messages)]
      /\ toStore \in [Members -> SUBSET Partitions]
  BY DEF OInv, IInv, Own, TypeOK, LoopTypeOK
<1>1. /\ UNCHANGED <<committed, membership, assigned, stored, position>>
      /\ UNCHANGED <<buf, inflight, storeErr>>
  BY Zenon DEF DispatchMessage, RouteSingle, InvokeBatchHandler, RouteItem, RouteWhole, driverVars, groupVars,
     clientVars
<1>2. pc[m] \in Unstored /\ ~storeErr[m]
  BY <1>0, Zenon DEF DispatchMessage, RouteSingle, InvokeBatchHandler, RouteItem, RouteWhole, At, Unstored, Kept
<1>3. \/ pc'[m] \in Unstored \cup {"final"}
      \/ pc'[m] = "store" /\ (Mode = "single" \/ toStore'[m] = PartsOf(inflight[m]))
  <2>1. CASE BeginStore(m)
    BY <1>0, <2>1 DEF BeginStore, Goto
  <2>2. CASE StoppedByStrategy(m)
    BY <1>0, <2>2 DEF StoppedByStrategy, StopLoop, Goto
  <2>3. CASE DispatchMessage(m)
    BY <1>0, <2>3 DEF DispatchMessage, Goto, Unstored
  <2>4. CASE RouteSingle(m)
    BY <1>0, <2>2, <2>4 DEF RouteSingle, Goto
  <2>5. CASE InvokeBatchHandler(m)
    BY <1>0, <2>1, <2>5, Zenon DEF InvokeBatchHandler, Goto, Unstored
  <2>6. CASE RouteItem(m)
    BY <1>0, <1>2, <2>1, <2>2, <2>6, Zenon DEF RouteItem
  <2>7. CASE RouteWhole(m)
    BY <2>1, <2>2, <2>7 DEF RouteWhole
  <2> QED
    BY <2>3, <2>4, <2>5, <2>6, <2>7, Zenon
<1>4. faults' = 0 => faults = 0
  BY <1>0, NoFaultYet
<1>5. Kept(m)'
  BY <1>0, <1>1, <1>2, <1>3, <1>4, Zenon DEF Kept, Processing, Unstored
<1>6. Gaps(m)'
  <2>1. CASE pc'[m] = "final"
    BY <2>1 DEF Gaps, Processing, Unstored
  <2>2. CASE pc'[m] # "final"
    <3>1. \A msg \in Range(inflight[m]) : msg.part \in PartsOf(inflight[m])
      BY DEF Range, PartsOf
    <3>2. Due(m) = Range(buf[m]) \cup Range(inflight[m])
      BY <1>2, Zenon DEF Due
    <3>3. Due(m)' = Range(buf[m]) \cup Range(inflight[m])
      BY <1>1, <1>3, <2>2, <3>1 DEF Due, At
    <3>4. pc[m] \in Processing \cup {"loop"}
      BY <1>2 DEF Processing
    <3> QED
      BY <1>0, <1>1, <3>2, <3>3, <3>4, GapsKept, Zenon
  <2> QED
    BY <2>1, <2>2
<1>7. Ordered(m)' /\ Clean(m)'
  BY <1>0, <1>1, <1>3, Zenon DEF Ordered, Clean, At, Unstored
<1> QED
  BY <1>5, <1>6, <1>7 DEF Own

\* Storing the offset of a message closes the gap of its partition, of which
\* nothing is due any more, and of no other (StoreOffset).
LEMMA StoredGap ==
  ASSUME OInv, NEW m \in Members, Gaps(m), NEW msg \in Due(m), StoreOffset(m, msg.part, msg.off),
         \A x \in Due(m) : x.part = msg.part => x.off <= msg.off,
         Due(m)' = {x \in Due(m) : x.part # msg.part},
         UNCHANGED <<committed, membership, assigned, position, storeErr>>, pc[m] \in Processing
  PROVE  Gaps(m)'
<1>0. TypeOK /\ stored \in [Members -> [Partitions -> Offsets]] /\ Due(m) \subseteq Messages
  BY DueType DEF OInv, IInv, TypeOK, DriverTypeOK
<1> SUFFICES ASSUME membership[m] = "active", ~storeErr[m], NEW p \in assigned[m]
             PROVE  Gap(m, p)'
  BY Zenon DEF Gaps
<1>1. p \in Partitions /\ Gap(m, p)
  BY <1>0, Zenon DEF Gaps, TypeOK, DriverTypeOK
<1>2. stored[m][p] \in Nat /\ position[m][p] \in Nat /\ committed[p] \in Nat
  BY <1>0, <1>1, Numbers, Zenon
<1>3. CASE p # msg.part
  <2>1. stored'[m][p] = stored[m][p]
    BY <1>0, <1>1, <1>3, Zenon DEF StoreOffset
  <2>2. From(m, p)' = From(m, p)
    BY <2>1, Zenon DEF From
  <2>3. {x \in Due(m)' : x.part = p} = {x \in Due(m) : x.part = p}
    BY <1>3
  <2> QED
    BY <1>1, <2>2, <2>3, Zenon DEF Gap
<1>4. CASE p = msg.part
  <2>1. stored'[m][p] = msg.off + 1
    BY <1>0, <1>1, <1>4, Zenon DEF StoreOffset
  <2>2. msg.off \in From(m, p) .. position[m][p] - 1
    BY <1>1, <1>4 DEF Gap
  <2>3. From(m, p) \in Nat /\ msg.off \in Nat
    <3>1. From(m, p) \in Nat
      BY ONLY <1>2 DEF From
    <3>2. msg \in Messages
      BY <1>0, Zenon
    <3> QED
      BY <3>1, <3>2, MessageParts
  <2>4. position[m][p] - 1 \in From(m, p) .. position[m][p] - 1
    BY <1>2, <2>2, <2>3, LastBetween
  <2>5. PICK last \in Due(m) : last.part = p /\ last.off = position[m][p] - 1
    BY <1>1, <2>4 DEF Gap
  <2>6. msg.off + 1 = position[m][p]
    <3>1. last.off <= msg.off
      BY <1>4, <2>5
    <3> QED
      BY ONLY <1>2, <2>2, <2>3, <2>5, <3>1
  <2>7. From(m, p)' = position[m][p]
    <3>1. stored'[m][p] > 0
      BY ONLY <2>1, <2>3
    <3> QED
      BY <2>1, <2>6, <3>1, Zenon DEF From
  <2>8. {x \in Due(m)' : x.part = p} = {}
    BY <1>4, Zenon
  <2>9. position[m][p] .. position[m][p] - 1 = {}
    BY <1>2, NothingBetween
  <2> QED
    BY <2>7, <2>8, <2>9, Zenon DEF Gap
<1> QED
  BY <1>3, <1>4, Zenon

\* The store of a message, or of the highest offset of a partition of a batch: a
\* lost partition and a failure leave it open (StoreOffset,
\* storeHighestOffsetPerPartition).
LEMMA StoreKeepsOwn ==
  ASSUME OInv, NEW m \in Members, Own(m), Step(m), StoreSingle(m) \/ StoreHighest(m)
  PROVE  Own(m)'
<1>0. /\ TypeOK /\ Shape(m) /\ Kept(m) /\ Ordered(m) /\ Gaps(m)
      /\ pc \in [Members -> Steps] /\ inflight \in [Members -> Seq(Messages)]
      /\ toStore \in [Members -> SUBSET Partitions] /\ storeErr \in [Members -> BOOLEAN]
      /\ stored \in [Members -> [Partitions -> Offsets]] /\ faults \in Nat
  <2>1. TypeOK /\ Mine(m)
    BY DEF OInv, IInv
  <2> QED
    BY <2>1, DriverAssumption DEF OInv, Own, Mine, TypeOK, DriverTypeOK, LoopTypeOK
<1>1. /\ pc[m] = "store" /\ buf[m] = <<>>
      /\ UNCHANGED <<committed, membership, assigned, position, buf>>
  BY <1>0, Zenon DEF StoreSingle, StoreHighest, At, Shape, groupVars
<1>2. Due(m) = {msg \in Range(inflight[m]) : Mode = "single" \/ msg.part \in toStore[m]}
  BY <1>1, RangeEmpty, Zenon DEF Due, At, Unstored
<1>3. faults' = 0 => faults = 0
  BY <1>0, NoFaultYet
<1>4. Ordered(m)'
  BY <1>0, <1>1, Zenon DEF Ordered
<1>5. \A p \in Partitions : stored'[m][p] > 0 => p \in assigned[m]
  <2>1. \A p \in Partitions : stored[m][p] > 0 => p \in assigned[m]
    BY <1>0, Zenon DEF Kept
  <2>2. CASE stored' = stored
    BY <2>1, <2>2
  <2>3. ASSUME NEW q, NEW o, StoreOffset(m, q, o)
        PROVE  \A p \in Partitions : stored'[m][p] > 0 => p \in assigned[m]
    <3>1. q \in assigned[m] /\ \A p \in Partitions : p # q => stored'[m][p] = stored[m][p]
      BY <1>0, <2>3 DEF StoreOffset
    <3> QED
      BY <2>1, <3>1
  <2>4. stored' = stored \/ \E q, o : StoreOffset(m, q, o)
    BY DEF StoreSingle, StoreHighest
  <2> QED
    BY <2>2, <2>3, <2>4, Zenon
<1>6. CASE StoreSingle(m)
  <2>1. storeErr' = storeErr /\ Mode = "single" /\ toStore' = toStore
    BY <1>6, SMTT(20), Zenon DEF StoreSingle
  <2>2. PICK msg \in Messages : inflight[m] = <<msg>>
    BY <1>0, <1>1, <2>1 DEF Kept, Processing
  <2>3. Due(m) = {msg} /\ inflight[m][1] = msg
    <3>1. Range(inflight[m]) = {msg} /\ inflight[m][1] = msg
      BY <2>2, RangeOne
    <3> QED
      BY <1>2, <2>1, <3>1
  <2>4. CASE StoreOffset(m, inflight[m][1].part, inflight[m][1].off) /\ Goto(m, "commit") /\ inflight' = inflight
    <3>1. pc'[m] = "commit"
      BY <1>0, <2>4 DEF Goto
    <3>2. Due(m)' = {}
      BY <1>1, <3>1, RangeEmpty, Zenon DEF Due, At, Unstored
    <3>3. Gaps(m)'
      <4>1. msg \in Due(m) /\ StoreOffset(m, msg.part, msg.off)
        BY <2>3, <2>4, SMTT(20), Zenon
      <4>2. \A x \in Due(m) : x = msg
        BY <2>3
      <4>3. msg.off <= msg.off
        BY <1>0, DriverAssumption DEF Messages
      <4>4. \A x \in Due(m) : x.part = msg.part => x.off <= msg.off
        BY <4>2, <4>3
      <4>5. Due(m)' = {x \in Due(m) : x.part # msg.part}
        BY <3>2, <4>2
      <4>6. UNCHANGED <<committed, membership, assigned, position, storeErr>> /\ pc[m] \in Processing
        BY <1>1, <2>1 DEF Processing
      <4> QED
        BY <1>0, <4>1, <4>4, <4>5, <4>6, StoredGap, SMTT(20), Zenon
    <3>4. Kept(m)'
      BY <1>0, <1>1, <1>3, <1>5, <2>1, <2>4, <3>1, Zenon DEF Kept, Processing
    <3>5. Clean(m)'
      BY <3>1, Zenon DEF Clean, At
    <3> QED
      BY <1>4, <3>3, <3>4, <3>5 DEF Own
  <2>5. CASE ErrPartitionRevoked(m) /\ Goto(m, "loop") /\ inflight' = [inflight EXCEPT ![m] = <<>>] /\ stored' = stored
    <3>1. membership[m] = "lost" /\ faults' # 0 /\ pc'[m] = "loop"
      BY <1>0, <1>3, <2>5, Zenon DEF ErrPartitionRevoked, Kept, Goto
    <3>2. ~storeErr[m]
      BY <1>0, <2>1, Zenon DEF Kept
    <3>3. Kept(m)'
      BY <1>0, <1>1, <2>1, <2>5, <3>1, <3>2, Zenon DEF Kept, Processing, Unstored
    <3>4. Gaps(m)' /\ Clean(m)'
      BY <1>1, <3>1, Zenon DEF Gaps, Clean
    <3> QED
      BY <1>4, <3>3, <3>4 DEF Own
  <2>6. CASE StopLoop(m) /\ inflight' = inflight /\ stored' = stored
    <3>1. pc'[m] = "final"
      BY <1>0, <2>6 DEF StopLoop, Goto
    <3>2. Kept(m)'
      BY <1>0, <1>1, <1>3, <2>1, <2>6, <3>1, Zenon DEF Kept, Processing, Unstored
    <3>3. Gaps(m)' /\ Clean(m)'
      BY <3>1, Zenon DEF Gaps, Clean, At, Processing, Unstored
    <3> QED
      BY <1>4, <3>2, <3>3 DEF Own
  <2> QED
    BY <1>6, <2>4, <2>5, <2>6 DEF StoreSingle
<1>7. CASE StoreHighest(m)
  <2>1. PICK i \in DOMAIN inflight[m] :
          /\ inflight[m][i].part \in toStore[m]
          /\ IsHighest(inflight[m], i)
          /\ toStore' = [toStore EXCEPT ![m] = @ \ {inflight[m][i].part}]
          /\ IF toStore[m] = {inflight[m][i].part} THEN Goto(m, "commit") ELSE UNCHANGED pc
          /\ \/ StoreOffset(m, inflight[m][i].part, inflight[m][i].off) /\ UNCHANGED storeErr
             \/ ErrPartitionRevoked(m) /\ UNCHANGED <<stored, storeErr>>
             \/ storeErr' = [storeErr EXCEPT ![m] = TRUE]
    BY <1>7, Zenon DEF StoreHighest
  <2> DEFINE msg == inflight[m][i]
  <2>2. Mode = "batch" /\ inflight' = inflight
    BY <1>7 DEF StoreHighest
  <2>3. /\ toStore'[m] = toStore[m] \ {msg.part}
        /\ pc'[m] = IF toStore[m] = {msg.part} THEN "commit" ELSE "store"
    BY <1>0, <1>1, <2>1, Zenon DEF Goto
  <2>4. msg \in Due(m) /\ \A x \in Due(m) : x.part = msg.part => x.off <= msg.off
    <3>1. msg \in Range(inflight[m])
      BY <2>1, Zenon DEF Range
    <3>2. \A x \in Range(inflight[m]) : x.part = msg.part => x.off <= msg.off
      BY <2>1, Zenon DEF IsHighest, Range
    <3> QED
      BY <1>2, <2>1, <3>1, <3>2, Zenon
  <2>5. Due(m)' = {x \in Due(m) : x.part # msg.part}
    <3>1. CASE toStore[m] = {msg.part}
      <4>1. pc'[m] = "commit" /\ \A x \in Due(m) : x.part = msg.part
        BY <1>2, <2>2, <2>3, <3>1
      <4>2. Due(m)' = {}
        BY <1>1, <4>1, RangeEmpty, SMTT(20), Zenon DEF Due, At, Unstored
      <4> QED
        BY <4>1, <4>2, SMTT(20), Zenon
    <3>2. CASE toStore[m] # {msg.part}
      <4>1. pc'[m] = "store"
        BY <2>3, <3>2
      <4>2. Due(m)' = {x \in Range(inflight[m]) : x.part \in toStore[m] \ {msg.part}}
        BY <1>1, <2>2, <2>3, <4>1, RangeEmpty, Zenon DEF Due, At, Unstored
      <4> QED
        BY <1>2, <2>2, <4>2
    <3> QED
      BY <3>1, <3>2
  <2>6. Gaps(m)'
    <3>1. CASE StoreOffset(m, msg.part, msg.off) /\ UNCHANGED storeErr
      <4>1. UNCHANGED <<committed, membership, assigned, position, storeErr>> /\ pc[m] \in Processing
        BY <1>1, <3>1 DEF Processing
      <4> HIDE DEF msg
      <4> QED
        BY <1>0, <2>4, <2>5, <3>1, <4>1, StoredGap
    <3>2. CASE ErrPartitionRevoked(m)
      BY <1>1, <3>2, Zenon DEF ErrPartitionRevoked, Gaps
    <3>3. CASE storeErr' = [storeErr EXCEPT ![m] = TRUE]
      BY <1>0, <3>3 DEF Gaps
    <3> QED
      BY <2>1, <3>1, <3>2, <3>3
  <2>7. Kept(m)'
    <3>1. pc'[m] \in {"store", "commit"} /\ pc[m] \in Processing
      BY <1>1, <2>3, Zenon DEF Processing
    <3> QED
      BY <1>0, <1>1, <1>3, <1>5, <2>2, <3>1, Zenon DEF Kept
  <2>8. Clean(m)'
    BY <2>3 DEF Clean, At
  <2> QED
    BY <1>4, <2>6, <2>7, <2>8 DEF Own
<1> QED
  BY <1>6, <1>7

\* What a commit without a fault leaves: everything stored is committed.
LEMMA CommitsAll ==
  ASSUME OInv, NEW m \in Members, Kept(m), CommitStored(m), faults = 0, ~Fault, NEW p \in Partitions
  PROVE  /\ stored[m][p] \in {0, committed'[p]}
         /\ stored[m][p] > 0 => membership[m] = "active" /\ committed'[p] = stored[m][p]
<1>1. stored[m][p] \in Nat /\ Holding(m)
  BY Numbers DEF OInv, IInv
<1>2. CASE membership[m] = "active"
  <2>1. committed' = Published(m)
    BY <1>2, SMTT(20), Zenon DEF CommitStored
  <2> QED
    <3>1. committed'[p] = IF p \in assigned[m] /\ stored[m][p] > 0 THEN stored[m][p] ELSE committed[p]
      BY <2>1 DEF Published
    <3>2. CASE stored[m][p] > 0
      BY <1>2, <3>1, <3>2 DEF Kept
    <3>3. CASE ~(stored[m][p] > 0)
      <4>1. stored[m][p] = 0
        BY ONLY <1>1, <3>3
      <4> QED
        BY <3>3, <4>1
    <3> QED
      BY <3>2, <3>3
<1>3. CASE membership[m] # "active"
  BY <1>1, <1>3 DEF Holding, Kept
<1> QED
  BY <1>2, <1>3

\* The commit after a message or a batch (MaybeCommitStored).
LEMMA CommittedKeeps ==
  ASSUME OInv, NEW m \in Members, Own(m), Step(m), CommitSingle(m) \/ CommitBatch(m)
  PROVE  Own(m)'
<1>0. /\ TypeOK /\ Shape(m) /\ Kept(m) /\ Ordered(m) /\ Gaps(m)
      /\ pc \in [Members -> Steps] /\ inflight \in [Members -> Seq(Messages)]
  BY DEF OInv, IInv, Own, Mine, TypeOK, LoopTypeOK
<1>1. /\ pc[m] = "commit" /\ buf[m] = <<>> /\ MaybeCommitStored(m)
      /\ UNCHANGED <<membership, assigned, position, stored, buf, storeErr>>
  BY <1>0, Zenon DEF CommitSingle, CommitBatch, At, Shape, clientVars
<1>2. inflight'[m] = <<>> /\ (pc'[m] = "final" \/ (pc'[m] = "loop" /\ ~storeErr[m]))
  <2>1. CASE CommitSingle(m)
    <3>1. ~storeErr[m]
      BY <1>0, <2>1, Zenon DEF CommitSingle, Kept
    <3> QED
      BY <1>0, <2>1, <3>1 DEF CommitSingle, Goto
  <2>2. CASE CommitBatch(m)
    BY <1>0, <2>2 DEF CommitBatch, StopLoop, Goto
  <2> QED
    BY <2>1, <2>2, Zenon
<1>3. Due(m) = {} /\ Due(m)' = {}
  BY <1>1, <1>2, RangeEmpty, Zenon DEF Due, At, Unstored
<1>4. faults' = 0 => faults = 0 /\ ~Fault
  BY <1>0, NoFaultYet
<1>5. Kept(m)'
  BY <1>0, <1>1, <1>2, <1>4, Zenon DEF Kept, Processing, Unstored
<1>6. Ordered(m)'
  BY <1>0, <1>1, Zenon DEF Ordered
<1>7. Gaps(m)'
  <2>1. UNCHANGED committed \/ Publishes(m)
    BY CommitEffect
  <2>2. pc[m] \in Processing \cup {"loop"}
    BY <1>1, Zenon DEF Processing
  <2> QED
    BY <1>0, <1>1, <1>3, <2>1, <2>2, GapsKept, Zenon
<1>8. Clean(m)'
  <2> SUFFICES ASSUME faults' = 0, ~autoCommit, NEW p \in Partitions
               PROVE  stored[m][p] \in {0, committed'[p]}
    BY <1>1 DEF Clean
  <2>1. CommitStored(m)
    BY <1>1 DEF MaybeCommitStored
  <2> QED
    BY <1>0, <1>4, <2>1, CommitsAll, Zenon
<1> QED
  BY <1>5, <1>6, <1>7, <1>8 DEF Own

\* A member's own steps keep what the invariant says of it.
LEMMA OwnStep ==
  ASSUME OInv, TypeOK', NEW m \in Members, Own(m), Step(m) \/ Environment(m)
  PROVE  Own(m)'
  BY AsideKeeps, AssignedKeeps, ReleasedKeeps, PolledKeeps, ResolvedKeeps, StoreKeepsOwn, CommittedKeeps, Zenon
     DEF Step, Environment

-----------------------------------------------------------------------------
(***************************************************************************)
(* Nothing that was dealt with is forgotten while nothing fails.           *)
(***************************************************************************)

\* A batch whose every message is resolved is about to be stored.
LEMMA BeginHandled ==
  ASSUME TypeOK, NEW m \in Members, BeginStore(m), inflight' = inflight
  PROVE  Range(inflight[m]) \subseteq Handled(m)'
<1>1. pc'[m] = "store" /\ toStore'[m] = PartsOf(inflight[m])
  BY DEF BeginStore, Goto, TypeOK, LoopTypeOK
<1>2. \A msg \in Range(inflight[m]) : msg.part \in PartsOf(inflight[m])
  BY DEF Range, PartsOf
<1> QED
  BY <1>1, <1>2, Zenon DEF Handled, At

\* The messages a step resolves are in the hands of its member, which has not
\* stored them yet (dispatchMessage, dispatchBatch, HandleError).
LEMMA ResolvedInHand ==
  ASSUME TypeOK, NEW m \in Members, Shape(m), Step(m) \/ Environment(m)
  PROVE  \/ resolved' = resolved
         \/ /\ UNCHANGED <<membership, assigned>>
            /\ pc[m] \in Unstored
            /\ resolved' \subseteq resolved \cup Range(inflight[m])
            /\ Range(inflight[m]) \subseteq Handled(m)'
<1>0. pc \in [Members -> Steps]
  BY SMTT(20), Zenon DEF TypeOK, LoopTypeOK
<1>1. CASE DispatchMessage(m) \/ RouteSingle(m)
  <2>1. UNCHANGED <<membership, assigned, inflight>> /\ pc[m] \in Unstored /\ Mode = "single"
    BY <1>1, Zenon DEF DispatchMessage, RouteSingle, At, Unstored, driverVars, groupVars, clientVars
  <2>2. \/ resolved' = resolved
        \/ resolved' = resolved \cup Range(inflight[m]) /\ pc'[m] = "store"
    BY <1>0, <1>1 DEF DispatchMessage, RouteSingle, StoppedByStrategy, Goto
  <2>3. pc'[m] = "store" => Range(inflight[m]) \subseteq Handled(m)'
    BY <2>1, Zenon DEF Handled, At
  <2> QED
    BY <2>1, <2>2, <2>3
<1>2. CASE InvokeBatchHandler(m) \/ RouteItem(m) \/ RouteWhole(m)
  <2>1. UNCHANGED <<membership, assigned, inflight>> /\ pc[m] \in Unstored
    BY <1>2, Zenon DEF InvokeBatchHandler, RouteItem, RouteWhole, At, Unstored, driverVars, groupVars, clientVars
  <2>2. resolved' \subseteq resolved \cup Range(inflight[m])
    <3>1. CASE InvokeBatchHandler(m)
      <4>1. \A items : {inflight[m][i] : i \in DOMAIN inflight[m] \ items} \subseteq Range(inflight[m])
        BY DEF Range
      <4>2. \/ resolved' = resolved
            \/ \E items : resolved' = resolved \cup {inflight[m][i] : i \in DOMAIN inflight[m] \ items}
        BY <3>1, Zenon DEF InvokeBatchHandler
      <4> QED
        BY <4>1, <4>2
    <3>2. CASE RouteItem(m)
      <4>1. CASE resolved' = resolved
        BY <4>1
      <4>2. ASSUME NEW i \in failed[m], resolved' = resolved \cup {inflight[m][i]}, i \in DOMAIN inflight[m]
            PROVE  resolved' \subseteq resolved \cup Range(inflight[m])
        BY <4>2, Zenon DEF Range
      <4> QED
        BY <3>2, <4>1, <4>2, Zenon DEF RouteItem, StoppedByStrategy, Shape
    <3>3. CASE RouteWhole(m)
      BY <3>3 DEF RouteWhole, StoppedByStrategy
    <3> QED
      BY <1>2, <3>1, <3>2, <3>3
  <2>3. resolved' = resolved \/ BeginStore(m) \/ pc'[m] = "route"
    <3>1. CASE InvokeBatchHandler(m)
      BY <1>0, <3>1 DEF InvokeBatchHandler, Goto
    <3>2. CASE RouteItem(m)
      BY <3>2 DEF RouteItem, StoppedByStrategy, At
    <3>3. CASE RouteWhole(m)
      BY <3>3, Zenon DEF RouteWhole, StoppedByStrategy
    <3> QED
      BY <1>2, <3>1, <3>2, <3>3
  <2>4. pc'[m] = "route" => Range(inflight[m]) \subseteq Handled(m)'
    BY <2>1 DEF Handled, At
  <2> QED
    BY <2>1, <2>2, <2>3, <2>4, BeginHandled, Zenon
<1> QED
  BY <1>1, <1>2, Zenon DEF Step, Connect, Subscribe, CtxDone, PollAssigned, PollRevoked, PollSingle, StoreSingle,
     CommitSingle, PollBatch, BatchTimedOut, StoreHighest, CommitBatch, FinalCommit, CloseDriver,
     Environment, Start, Cancel, PollFatal, Crash, history

\* What a member has handled and not stored it still holds, or stores, or its
\* strategy has stopped it.
LEMMA HandledStays ==
  ASSUME TypeOK, NEW m \in Members, Shape(m), Step(m) \/ Environment(m), ~Fault,
         NEW msg \in Handled(m), msg \notin abandoned', ~StoreSingle(m), ~StoreHighest(m)
  PROVE  msg \in Handled(m)' /\ UNCHANGED <<membership, assigned>>
<1>0. /\ pc \in [Members -> Steps] /\ pc[m] \in {"route", "store"} /\ msg \in Range(inflight[m])
      /\ state[m] # "created"
  BY DEF TypeOK, LoopTypeOK, Handled, At, Shape
<1>1. CASE UNCHANGED <<pc, inflight, toStore, membership, assigned>>
  BY <1>1, Zenon DEF Handled, At
<1>2. CASE Cancel(m) \/ (AutoCommit(m) /\ UNCHANGED <<loopVars, history>>)
  BY <1>1, <1>2, Zenon DEF Cancel, AutoCommit, loopVars, driverVars, groupVars, clientVars
<1>3. CASE RouteSingle(m) \/ RouteItem(m)
  <2>1. UNCHANGED <<membership, assigned, inflight>> /\ At(m, "route")
    BY <1>3, Zenon DEF RouteSingle, RouteItem, groupVars, clientVars
  <2>2. ~StoppedByStrategy(m)
    BY <1>0, Zenon DEF StoppedByStrategy
  <2>3. \/ pc' = pc
        \/ pc'[m] = "store" /\ Mode = "single"
        \/ BeginStore(m)
    BY <1>0, <1>3, <2>2, Zenon DEF RouteSingle, RouteItem, Goto
  <2> QED
    BY <1>0, <2>1, <2>3, BeginHandled, Zenon DEF Handled, At
<1>4. ~Crash(m) /\ ~Evict(m) /\ ~PollFatal(m)
  BY DEF Crash, Die, Evict, PollFatal
<1>5. ~Start(m) /\ ~Connect(m) /\ ~Subscribe(m) /\ ~CtxDone(m) /\ ~PollAssigned(m) /\ ~PollRevoked(m)
  BY <1>0, Zenon DEF Start, Connect, Subscribe, CtxDone, PollAssigned, PollRevoked, At
<1>6. ~PollSingle(m) /\ ~PollBatch(m) /\ ~BatchTimedOut(m) /\ ~DispatchMessage(m) /\ ~InvokeBatchHandler(m)
      /\ ~RouteWhole(m)
  BY <1>0, Zenon DEF PollSingle, PollBatch, BatchTimedOut, DispatchMessage, InvokeBatchHandler, RouteWhole, At
<1>7. ~CommitSingle(m) /\ ~CommitBatch(m) /\ ~FinalCommit(m) /\ ~CloseDriver(m)
  BY <1>0 DEF CommitSingle, CommitBatch, FinalCommit, CloseDriver, At
<1> QED
  BY <1>2, <1>3, <1>4, <1>5, <1>6, <1>7 DEF Step, Environment

\* What a member has stored stays stored, unless the step stores or commits it.
LEMMA StoredStays ==
  ASSUME OInv, NEW m \in Members, Kept(m), Step(m) \/ Environment(m), faults = 0, ~Fault,
         membership[m] = "active", NEW p \in assigned[m], stored[m][p] > 0,
         ~StoreSingle(m), ~StoreHighest(m)
  PROVE  \/ committed'[p] = stored[m][p]
         \/ membership'[m] = "active" /\ assigned'[m] = assigned[m] /\ stored'[m] = stored[m]
<1>0. p \in Partitions /\ Holding(m)
  BY Zenon DEF OInv, Holding
<1>1. CASE PollRevoked(m) \/ CloseDriver(m)
  <2>1. CommitStored(m)
    BY <1>1, Zenon DEF PollRevoked, RevokedPartitions, CloseDriver, Close
  <2> QED
    BY <1>0, <2>1, CommitsAll, Zenon
<1>2. ~Crash(m) /\ ~Evict(m)
  BY DEF Crash, Die, Evict
<1>3. ~PollAssigned(m) /\ ~Subscribe(m) /\ ~Start(m) /\ ~Connect(m)
  <2>1. ~PollAssigned(m)
    BY Zenon DEF PollAssigned, AssignedPartitions
  <2>2. pc[m] \notin {"start", "connect", "subscribe"}
    BY <1>0, Zenon DEF Holding
  <2>3. state[m] = "created" => At(m, "start")
    BY Zenon DEF OInv, IInv, Mine, Shape
  <2> QED
    BY <2>1, <2>2, <2>3, Zenon DEF Subscribe, Connect, Start, At
<1>4. CASE PollSingle(m) \/ PollBatch(m) \/ BatchTimedOut(m)
  BY <1>4 DEF PollSingle, PollBatch, BatchTimedOut, PollMessage, driverVars, groupVars, clientVars
<1>5. CASE CommitSingle(m) \/ CommitBatch(m) \/ FinalCommit(m) \/ AutoCommit(m)
  BY <1>5, Zenon DEF CommitSingle, CommitBatch, FinalCommit, AutoCommit, clientVars
<1>6. CASE DispatchMessage(m) \/ RouteSingle(m) \/ InvokeBatchHandler(m) \/ RouteItem(m) \/ RouteWhole(m)
           \/ CtxDone(m) \/ PollFatal(m) \/ Cancel(m)
  BY <1>6, Zenon DEF DispatchMessage, RouteSingle, InvokeBatchHandler, RouteItem, RouteWhole, CtxDone, PollFatal,
     Cancel, driverVars, groupVars, clientVars
<1> QED
  BY <1>1, <1>2, <1>3, <1>4, <1>5, <1>6, Zenon DEF Step, Environment

\* A store without a fault keeps account of all its member did.
LEMMA StoreAccounts ==
  ASSUME OInv, NEW m \in Members, Kept(m), StoreSingle(m) \/ StoreHighest(m), faults = 0, ~Fault,
         NEW msg \in Messages, Accounts(m, msg)
  PROVE  Accounts(m, msg)'
<1>0. /\ TypeOK /\ Shape(m) /\ Ahead(m) /\ pc \in [Members -> Steps] /\ inflight \in [Members -> Seq(Messages)]
      /\ toStore \in [Members -> SUBSET Partitions] /\ stored \in [Members -> [Partitions -> Offsets]]
  BY DEF OInv, IInv, Mine, TypeOK, DriverTypeOK, LoopTypeOK
<1>1. /\ pc[m] = "store" /\ UNCHANGED <<membership, assigned>>
      /\ membership[m] = "active" /\ msg.part \in assigned[m] /\ msg.part \in Partitions
  BY Zenon DEF StoreSingle, StoreHighest, At, groupVars, Accounts, Messages
<1>2. ~ErrPartitionRevoked(m)
  BY <1>1, Zenon DEF ErrPartitionRevoked
<1>3. ASSUME NEW x \in Due(m), StoreOffset(m, x.part, x.off),
             msg \in Handled(m) => \/ msg \in Handled(m)'
                                   \/ msg.part = x.part /\ msg.off <= x.off
      PROVE  Accounts(m, msg)'
  <2>1. x \in Messages /\ x.off \in Nat /\ msg.off \in Nat /\ stored[m][msg.part] \in Nat
    <3>1. x \in Messages
      BY <1>0, DueType
    <3> QED
      BY <1>0, <1>1, <3>1, MessageParts, Numbers, Zenon
  <2>2. x.part \in assigned[m] /\ x.part \in Partitions
    BY <1>3, <2>1 DEF StoreOffset, Messages
  <2>3. CASE msg.part = x.part
    <3>1. stored'[m][msg.part] = x.off + 1
      BY <1>0, <1>1, <1>3, <2>3, Zenon DEF StoreOffset
    <3>2. stored[m][msg.part] <= x.off
      BY <1>0, <1>1, <1>3, <2>2, <2>3, Zenon DEF Ahead, AheadOf
    <3>3. msg.off < x.off + 1 \/ msg \in Handled(m)'
      <4>1. CASE msg \in Handled(m)
        <5>1. msg.off <= x.off \/ msg \in Handled(m)'
          BY <1>3, <4>1
        <5> QED
          <6>1. \A a, b \in Nat : a <= b => a < b + 1
            BY SMTT(20), Zenon
          <6> QED
            BY <2>1, <5>1, <6>1
      <4>2. CASE msg.off < stored[m][msg.part]
        BY ONLY <2>1, <3>2, <4>2
      <4> QED
        BY <4>1, <4>2, Zenon DEF Accounts
    <3> QED
      BY <1>1, <3>1, <3>3 DEF Accounts
  <2>4. CASE msg.part # x.part
    <3>1. stored'[m][msg.part] = stored[m][msg.part]
      BY <1>0, <1>1, <1>3, <2>4, Zenon DEF StoreOffset
    <3>2. msg.off < stored[m][msg.part] \/ msg \in Handled(m)'
      BY <1>3, <2>4, Zenon DEF Accounts
    <3> QED
      BY <1>1, <3>1, <3>2, Zenon DEF Accounts
  <2> QED
    BY <2>3, <2>4, Zenon
<1>4. CASE StoreSingle(m)
  <2>1. StoreOffset(m, inflight[m][1].part, inflight[m][1].off) /\ Mode = "single"
    BY <1>2, <1>4 DEF StoreSingle
  <2>2. PICK x \in Messages : inflight[m] = <<x>>
    BY <1>1, <2>1, Zenon DEF Kept, Processing
  <2>3. Range(inflight[m]) = {x} /\ inflight[m][1] = x
    <3>1. Range(<<x>>) = {x}
      BY ONLY RangeOne, Zenon
    <3>2. <<x>>[1] = x
      BY ONLY TRUE
    <3> QED
      BY ONLY <2>2, <3>1, <3>2, Zenon
  <2>4. x \in Due(m)
    BY <1>1, <2>1, <2>3, Zenon DEF Due, At
  <2>5. msg \in Handled(m) => msg.part = x.part /\ msg.off <= x.off
    <3>1. x.off <= x.off
      BY DriverAssumption, SMTT(20), Zenon DEF Messages
    <3> QED
      BY <2>3, <3>1 DEF Handled
  <2> QED
    BY <1>3, <2>1, <2>3, <2>4, <2>5, Zenon
<1>5. CASE StoreHighest(m)
  <2>1. PICK i \in DOMAIN inflight[m] :
          /\ inflight[m][i].part \in toStore[m]
          /\ IsHighest(inflight[m], i)
          /\ toStore' = [toStore EXCEPT ![m] = @ \ {inflight[m][i].part}]
          /\ IF toStore[m] = {inflight[m][i].part} THEN Goto(m, "commit") ELSE UNCHANGED pc
          /\ StoreOffset(m, inflight[m][i].part, inflight[m][i].off)
    BY <1>2, <1>5, Zenon DEF StoreHighest
  <2> DEFINE x == inflight[m][i]
  <2>2. Mode = "batch" /\ inflight' = inflight
    BY <1>5 DEF StoreHighest
  <2>3. x \in Due(m)
    BY <1>1, <2>1, Zenon DEF Due, Range, At
  <2>4. ASSUME msg \in Handled(m)
        PROVE  msg \in Handled(m)' \/ (msg.part = x.part /\ msg.off <= x.off)
    <3>1. msg \in Range(inflight[m]) /\ msg.part \in toStore[m]
      BY <1>1, <2>2, <2>4, Zenon DEF Handled, At
    <3>2. CASE msg.part = x.part
      BY <2>1, <3>1, <3>2, Zenon DEF IsHighest, Range
    <3>3. CASE msg.part # x.part
      <4>1. toStore[m] # {x.part} /\ toStore'[m] = toStore[m] \ {x.part}
        BY <1>0, <2>1, <3>1, <3>3, Zenon
      <4>2. pc' = pc
        BY <2>1, <4>1
      <4> QED
        BY <1>1, <2>2, <3>1, <3>3, <4>1, <4>2, Zenon DEF Handled, At
    <3> QED
      BY <3>2, <3>3, Zenon
  <2> HIDE DEF x
  <2>5. StoreOffset(m, x.part, x.off)
    BY <2>1 DEF x
  <2> QED
    BY <1>3, <2>3, <2>4, <2>5
<1> QED
  BY <1>4, <1>5, SMTT(20), Zenon

\* Nobody takes back that the strategy stopped a member.
LEMMA AbandonedStays ==
  ASSUME NEW m \in Members, Step(m) \/ Environment(m)
  PROVE  abandoned \subseteq abandoned'
<1>1. CASE RouteSingle(m) \/ RouteItem(m) \/ RouteWhole(m)
  BY <1>1, Zenon DEF RouteSingle, RouteItem, RouteWhole, StoppedByStrategy
<1>2. CASE DispatchMessage(m) \/ InvokeBatchHandler(m)
  BY <1>2, Zenon DEF DispatchMessage, InvokeBatchHandler
<1> QED
  BY <1>1, <1>2, Zenon DEF Step, Connect, Subscribe, CtxDone, PollAssigned, PollRevoked, PollSingle, StoreSingle,
     CommitSingle, PollBatch, BatchTimedOut, StoreHighest, CommitBatch, FinalCommit, CloseDriver,
     Environment, Start, Cancel, PollFatal, Crash, history

\* What a member accounts for it commits or goes on accounting for.
LEMMA AccountsKept ==
  ASSUME OInv, NEW m \in Members, Kept(m), Step(m) \/ Environment(m), faults = 0, ~Fault,
         NEW msg \in Messages, msg \notin abandoned', Accounts(m, msg)
  PROVE  msg.off < committed'[msg.part] \/ Accounts(m, msg)'
<1>0. /\ TypeOK /\ Shape(m) /\ membership[m] = "active" /\ msg.part \in assigned[m]
      /\ msg.off \in Nat /\ stored[m][msg.part] \in Nat
  <2>1. TypeOK /\ Shape(m)
    BY DEF OInv, IInv, Mine
  <2> QED
    BY <2>1, MessageParts, Numbers DEF Accounts
<1>1. CASE StoreSingle(m) \/ StoreHighest(m)
  BY <1>1, StoreAccounts
<1>2. CASE ~StoreSingle(m) /\ ~StoreHighest(m) /\ msg \in Handled(m)
  <2>1. msg \in Handled(m)' /\ UNCHANGED <<membership, assigned>>
    BY <1>0, <1>2, HandledStays
  <2> QED
    BY <1>0, <2>1 DEF Accounts
<1>3. CASE ~StoreSingle(m) /\ ~StoreHighest(m) /\ msg.off < stored[m][msg.part]
  <2>1. stored[m][msg.part] > 0
    <3>1. \A a, b \in Nat : a < b => b > 0
      OBVIOUS
    <3> QED
      BY <1>0, <1>3, <3>1
  <2>2. \/ committed'[msg.part] = stored[m][msg.part]
        \/ membership'[m] = "active" /\ assigned'[m] = assigned[m] /\ stored'[m] = stored[m]
    BY <1>0, <1>3, <2>1, StoredStays, Zenon
  <2> QED
    BY <1>0, <1>3, <2>2, Zenon DEF Accounts
<1> QED
  BY <1>1, <1>2, <1>3, Zenon DEF Accounts

\* Another member goes on accounting for what it accounted for.
LEMMA OthersAccount ==
  ASSUME TypeOK, NEW m \in Members, Step(m) \/ Environment(m), NEW n \in Members, n # m,
         NEW msg, Accounts(n, msg)
  PROVE  Accounts(n, msg)'
<1>1. Same(n)
  BY StepIsLocal, EnvironmentIsLocal
<1>2. stored'[n] = stored[n] /\ toStore'[n] = toStore[n]
  BY StoreIsLocal
<1>3. Handled(n)' = Handled(n)
  BY <1>1, <1>2 DEF Handled, Same, At
<1> QED
  BY <1>1, <1>2, <1>3, Zenon DEF Accounts, Same

\* A step of a member keeps account of everything that was dealt with.
LEMMA AccountedStep ==
  ASSUME OInv, TypeOK', NEW m \in Members, Kept(m), Accounted, Step(m) \/ Environment(m)
  PROVE  Accounted'
<1> SUFFICES ASSUME faults' = 0, NEW msg \in resolved', msg \notin abandoned'
             PROVE  msg.off < committed'[msg.part] \/ \E n \in Members : Accounts(n, msg)'
  BY DEF Accounted
<1>0. /\ TypeOK /\ Shape(m) /\ faults = 0 /\ ~Fault
      /\ msg \in Messages /\ msg.part \in Partitions /\ msg.off \in Nat /\ msg \notin abandoned
  <2>1. TypeOK /\ Shape(m)
    BY DEF OInv, IInv, Mine
  <2>2. faults = 0 /\ ~Fault
    BY <2>1, NoFaultYet
  <2>3. msg \notin abandoned
    BY AbandonedStays
  <2>4. msg \in Messages
    BY DEF TypeOK, LoopTypeOK
  <2>5. msg.part \in Partitions /\ msg.off \in Nat
    BY <2>4, MessageParts
  <2> QED
    BY <2>1, <2>2, <2>3, <2>4, <2>5
<1>1. CASE msg \in resolved
  <2>1. CASE msg.off < committed[msg.part]
    <3>1. committed[msg.part] <= committed'[msg.part]
      BY <1>0, CommittedGrows
    <3>2. committed[msg.part] \in Nat /\ committed'[msg.part] \in Nat
      <4>1. Offsets \subseteq Nat
        BY DriverAssumption DEF Offsets
      <4> QED
        BY <1>0, <4>1, Zenon DEF TypeOK, DriverTypeOK
    <3>3. \A a, b, c \in Nat : a < b /\ b <= c => a < c
      OBVIOUS
    <3> QED
      BY <1>0, <2>1, <3>1, <3>2, <3>3, SMTT(20), Zenon
  <2>2. CASE Accounts(m, msg)
    BY <1>0, <2>2, AccountsKept, Zenon
  <2>3. ASSUME NEW n \in Members, n # m, Accounts(n, msg)
        PROVE  Accounts(n, msg)'
    BY <1>0, <2>3, OthersAccount, SMTT(20), Zenon
  <2> QED
    BY <1>0, <1>1, <2>1, <2>2, <2>3, Zenon DEF Accounted
<1>2. CASE msg \notin resolved
  <2>1. /\ UNCHANGED <<membership, assigned>> /\ pc[m] \in Unstored
        /\ msg \in Range(inflight[m]) /\ msg \in Handled(m)'
    BY <1>0, <1>2, ResolvedInHand, Zenon
  <2>2. membership[m] = "active" /\ msg.part \in assigned[m]
    BY <1>0, <2>1, Zenon DEF Kept, Processing, Unstored
  <2> QED
    BY <2>1, <2>2 DEF Accounts
<1> QED
  BY <1>1, <1>2

-----------------------------------------------------------------------------
(***************************************************************************)
(* The invariant, and what follows from it.                                *)
(***************************************************************************)

\* A group in which nothing has been started satisfies the invariant.
LEMMA InitVInv == Init => VInv
<1> SUFFICES ASSUME Init PROVE VInv
  OBVIOUS
<1>1. OInv
  BY InitOInv
<1>2. ASSUME NEW m \in Members
      PROVE  Kept(m) /\ Ordered(m) /\ Gaps(m) /\ Clean(m)
  <2>1. /\ buf[m] = <<>> /\ pc[m] = "start" /\ membership[m] = "out" /\ ~storeErr[m]
        /\ \A p \in Partitions : stored[m][p] = 0
    BY DEF Init, DriverInit
  <2>2. Range(buf[m]) = {}
    BY <2>1, RangeEmpty
  <2> QED
    <3>1. pc[m] \notin Processing
      BY <2>1 DEF Processing, Unstored
    <3>2. \A p \in Partitions : ~(stored[m][p] > 0)
      BY <2>1
    <3>3. Kept(m)
      BY <2>1, <2>2, <3>1, <3>2 DEF Kept
    <3>4. Ordered(m)
      BY ONLY <2>1 DEF Ordered
    <3> QED
      BY <2>1, <3>3, <3>4 DEF Gaps, Clean, At
<1>3. Accounted
  BY DEF Init, Accounted
<1> QED
  BY <1>1, <1>2, <1>3 DEF VInv

\* A rebalance completes when nobody is active (CompleteRebalance).
LEMMA RebalanceVInv ==
  ASSUME VInv, CompleteRebalance, UNCHANGED <<loopVars, history>>
  PROVE  /\ \A m \in Members : Kept(m)' /\ Ordered(m)' /\ Gaps(m)' /\ Clean(m)'
         /\ Accounted'
<1>1. UNCHANGED <<pc, buf, inflight, storeErr, toStore, assigned, position, stored, committed, faults,
                  resolved, abandoned>>
  BY DEF CompleteRebalance, NoFault, loopVars, history, clientVars
<1>2. ASSUME NEW m \in Members
      PROVE  /\ membership'[m] # "active" /\ membership[m] # "active"
             /\ membership[m] = "lost" <=> membership'[m] = "lost"
  BY SMTT(20), Zenon DEF CompleteRebalance
<1>3. ASSUME NEW m \in Members
      PROVE  Kept(m)' /\ Ordered(m)' /\ Gaps(m)' /\ Clean(m)'
  <2>1. Kept(m) /\ Ordered(m) /\ Clean(m)
    BY SMTT(20), Zenon DEF VInv
  <2>2. Kept(m)'
    BY <1>1, <1>2, <2>1, SMTT(20), Zenon DEF Kept
  <2>3. Ordered(m)' /\ Clean(m)'
    BY <1>1, <2>1, SMTT(20), Zenon DEF Ordered, Clean, At
  <2> QED
    BY <1>2, <2>2, <2>3 DEF Gaps
<1>4. Accounted'
  BY <1>1, <1>2 DEF VInv, Accounted, Accounts
<1> QED
  BY <1>3, <1>4

\* Every step of the group keeps the invariant.
LEMMA StepVInv == VInv /\ [Next]_vars => VInv'
<1> SUFFICES ASSUME VInv, [Next]_vars PROVE VInv'
  OBVIOUS
<1>1. OInv /\ OInv' /\ TypeOK'
  BY StepOInv DEF VInv, OInv, IInv
<1>2. ASSUME NEW m \in Members, Step(m) \/ Environment(m)
      PROVE  VInv'
  <2>1. Own(m)'
    BY <1>1, <1>2, OwnStep DEF VInv, Own
  <2>2. \A n \in Members : n # m => Kept(n)' /\ Ordered(n)' /\ Gaps(n)' /\ Clean(n)'
    BY <1>1, <1>2, OthersKeep DEF VInv
  <2>3. Accounted'
    BY <1>1, <1>2, AccountedStep DEF VInv
  <2> QED
    BY <1>1, <2>1, <2>2, <2>3 DEF VInv, Own
<1>3. CASE CompleteRebalance /\ UNCHANGED <<loopVars, history>>
  BY <1>1, <1>3, RebalanceVInv DEF VInv
<1>4. CASE UNCHANGED vars
  <2>1. UNCHANGED <<pc, buf, inflight, storeErr, toStore, membership, assigned, position, stored, committed,
                    faults, resolved, abandoned>>
    BY <1>4 DEF vars, driverVars, groupVars, clientVars, loopVars, history
  <2>2. \A m \in Members : Due(m)' = Due(m) /\ Handled(m)' = Handled(m)
    BY <2>1 DEF Due, Handled, At
  <2>3. \A m \in Members : Kept(m)' /\ Ordered(m)' /\ Clean(m)'
    BY <2>1, Zenon DEF VInv, Kept, Ordered, Clean, At
  <2>4. \A m \in Members : Gaps(m)'
    BY <2>1, <2>2, Zenon DEF VInv, Gaps, Gap, From
  <2>5. Accounted'
    BY <2>1, <2>2, Zenon DEF VInv, Accounted, Accounts
  <2> QED
    BY <1>1, <2>3, <2>4, <2>5 DEF VInv
<1> QED
  BY <1>2, <1>3, <1>4 DEF Next, AllDone

\* The invariant holds throughout, whatever the members, the partitions, the
\* batch size, the cadence of commits and the faults.
THEOREM HoldsWhatItPolled == Spec => []VInv
  BY InitVInv, StepVInv, PTL DEF Spec

\* Between two polls the buffer of a member that keeps its partitions is what it
\* polled and did not store, in order and once each, whatever rebalances,
\* flushes and drops came before (batchLoop, OnRevoke, AssignedPartitions).
THEOREM BufferAlwaysCoversTheGap == Spec => []BufferCoversTheGap
<1>1. VInv => BufferCoversTheGap
  <2> SUFFICES ASSUME VInv, NEW m \in Members, NEW p \in Partitions,
                      At(m, "loop"), membership[m] = "active", p \in assigned[m]
               PROVE  LET from == IF stored[m][p] > 0 THEN stored[m][p] ELSE committed[p]
                          mine == {i \in DOMAIN buf[m] : buf[m][i].part = p}
                      IN /\ {buf[m][i].off : i \in mine} = from .. position[m][p] - 1
                         /\ \A i, j \in mine : i < j => buf[m][i].off < buf[m][j].off
    BY DEF BufferCoversTheGap
  <2>1. Kept(m) /\ Ordered(m) /\ Gaps(m) /\ Shape(m)
    BY Zenon DEF VInv, OInv, IInv, Mine
  <2>2. inflight[m] = <<>> /\ ~storeErr[m]
    BY <2>1, Zenon DEF Shape, Kept, At
  <2>3. Gap(m, p)
    BY <2>1, <2>2, Zenon DEF Gaps, At
  <2>4. Due(m) = Range(buf[m])
    BY <2>2, RangeEmpty DEF Due
  <2>5. {msg.off : msg \in {x \in Due(m) : x.part = p}}
           = {buf[m][i].off : i \in {j \in DOMAIN buf[m] : buf[m][j].part = p}}
    BY <2>4 DEF Range
  <2>6. {buf[m][i].off : i \in {j \in DOMAIN buf[m] : buf[m][j].part = p}} = From(m, p) .. position[m][p] - 1
    BY <2>3, <2>5 DEF Gap
  <2>7. \A i, j \in {k \in DOMAIN buf[m] : buf[m][k].part = p} : i < j => buf[m][i].off < buf[m][j].off
    BY <2>1, Zenon DEF Ordered
  <2> QED
    BY <2>6, <2>7, Zenon DEF From
<1> QED
  BY <1>1, HoldsWhatItPolled, PTL

\* With a commit after every message or batch, nothing is stored at the top of
\* the loop that is not committed, as long as nothing failed: the duplicate
\* window is what one turn of the loop processes (MaybeCommitStored).
THEOREM NeverLeftUncommitted == Spec => []NothingLeftUncommitted
<1>1. VInv => NothingLeftUncommitted
  BY Zenon DEF VInv, Clean, NothingLeftUncommitted
<1> QED
  BY <1>1, HoldsWhatItPolled, PTL

\* As long as nothing failed no handler is given a message that was dealt with
\* before, across any number of rebalances and clean stops: whoever holds a
\* partition starts where the last holder's commit ended (rebalanceCallback,
\* CommitStored).
THEOREM NeverReplaysWithoutFault == Spec => []NoReplayWithoutFault
<1>1. VInv => NoReplayWithoutFault
  <2> SUFFICES ASSUME VInv, NEW m \in Members, faults = 0, At(m, "handle"),
                      NEW msg \in Range(inflight[m]), msg \in resolved, msg \notin abandoned
               PROVE  FALSE
    BY DEF NoReplayWithoutFault
  <2>0. OInv /\ TypeOK /\ msg \in Messages /\ msg.part \in Partitions /\ msg.off \in Nat
    <3>1. OInv /\ TypeOK
      BY DEF VInv, OInv, IInv
    <3>2. resolved \subseteq Messages
      BY <3>1 DEF TypeOK, LoopTypeOK
    <3> QED
      BY <3>1, <3>2, MessageParts
  <2>1. membership[m] = "active" /\ msg.part \in assigned[m]
    BY Zenon DEF VInv, Kept, Processing, Unstored, At
  <2>2. msg \in Due(m)
    BY SMTT(20), Zenon DEF Due, Unstored, At
  <2>3. committed[msg.part] <= msg.off /\ stored[m][msg.part] <= msg.off
    BY <2>0, <2>1, <2>2 DEF OInv, Ahead, AheadOf
  <2>4. PICK n \in Members : Accounts(n, msg)
    <3>1. committed[msg.part] \in Nat
      BY <2>0, Numbers, Zenon
    <3>2. ~(msg.off < committed[msg.part])
      BY <2>0, <2>3, <3>1, NotBelow
    <3>3. Accounted
      BY SMTT(20), Zenon DEF VInv
    <3> QED
      BY <3>2, <3>3 DEF Accounted
  <2>5. n = m
    <3>1. Holding(n) /\ Holding(m)
      BY <2>0 DEF OInv
    <3> QED
      BY <2>0, <2>1, <2>4, <3>1 DEF Holding, Accounts
  <2>6. stored[m][msg.part] \in Nat
    BY <2>0, Numbers
  <2>7. Handled(m) = {}
    BY SMTT(20), Zenon DEF Handled, At
  <2>8. ~(msg.off < stored[m][msg.part])
    BY <2>0, <2>3, <2>6, NotBelow
  <2> QED
    BY <2>4, <2>5, <2>7, <2>8, Zenon DEF Accounts
<1> QED
  BY <1>1, HoldsWhatItPolled, PTL

=============================================================================
