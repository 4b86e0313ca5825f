--------------------------- MODULE StrategyProofs ---------------------------
(***************************************************************************)
(* That a retry strategy is held by one consumer at a time, that its       *)
(* holder works with a publisher of its own and leaves none behind, and    *)
(* that a confirmed record was acknowledged, for any number of calls,      *)
(* subscribers, strategies, failures and faults.                           *)
(***************************************************************************)
EXTENDS RetryStrategy, TLAPS

\* The types of the variables a strategy's life is written in.
LifeTypeOK ==
    /\ state \in [Subscribers -> {"created", "running", "stopping", "stopped"}]
    /\ pc \in [Calls -> Steps]
    /\ cancelled \in [Calls -> BOOLEAN]
    /\ inUse \in [Strategies -> BOOLEAN]
    /\ publisher \in [Strategies -> Calls \cup {Nobody}]
    /\ logger \in [Strategies -> Calls \cup {Nobody}]
    /\ pubs \in [Calls -> {"none", "open", "closing", "closed"}]

LEMMA StrategyType ==
  ASSUME NEW s \in Calls
  PROVE  SubscriberOf[s] \in Subscribers /\ Strategy(s) \in Strategies
  BY StrategyAssumption DEF Strategy

\* The steps of one call keep the types.  They are split in two: up to the loop
\* and out of it, and the loop with HandleError.
LEMMA StartType ==
  ASSUME LifeTypeOK, NEW s \in Calls,
         Start(s) \/ Claim(s) \/ Create(s) \/ Bind(s) \/ NewConsumer(s) \/ Cancel(s)
  PROVE  LifeTypeOK'
<1> USE StrategyType
<1>1. CASE Start(s)
  BY <1>1 DEF LifeTypeOK, Start, Refused, Goto, Steps, Holding
<1>2. CASE Claim(s)
  BY <1>2, Zenon DEF LifeTypeOK, Claim, Goto, Steps, Holding
<1>3. CASE Create(s)
  BY <1>3 DEF LifeTypeOK, Create, Goto, Steps, Holding
<1>4. CASE Bind(s)
  BY <1>4 DEF LifeTypeOK, Bind, Goto, Steps, Holding
<1>5. CASE NewConsumer(s)
  BY <1>5 DEF LifeTypeOK, NewConsumer, CleanUp, Goto, Steps, Holding
<1>6. CASE Cancel(s)
  BY <1>6 DEF LifeTypeOK, Cancel
<1> QED
  BY <1>1, <1>2, <1>3, <1>4, <1>5, <1>6

LEMMA LoopType ==
  ASSUME LifeTypeOK, NEW s \in Calls,
         \/ CtxDone(s) \/ LoopEnds(s) \/ LoopFails(s) \/ Poll(s) \/ HandlerSucceeds(s) \/ HandlerFails(s)
         \/ SendAccepted(s) \/ SendRejected(s) \/ Await(s) \/ BrokerAnswers(s)
  PROVE  LifeTypeOK'
<1> USE StrategyType
<1>1. CASE CtxDone(s)
  BY <1>1 DEF LifeTypeOK, CtxDone
<1>2. CASE LoopEnds(s) \/ LoopFails(s) \/ Poll(s) \/ HandlerSucceeds(s) \/ HandlerFails(s)
  BY <1>2 DEF LifeTypeOK, LoopEnds, LoopFails, Poll, HandlerSucceeds, HandlerFails, Goto, Steps, Holding
<1>3. CASE SendAccepted(s)
  BY <1>3 DEF LifeTypeOK, SendAccepted, Goto, Steps, Holding
<1>4. CASE SendRejected(s)
  BY <1>4 DEF LifeTypeOK, SendRejected, HandleErrorFails, Goto, Steps, Holding
<1>5. CASE Await(s)
  BY <1>5 DEF LifeTypeOK, Await, HandleErrorFails, Goto, Steps, Holding
<1>6. CASE BrokerAnswers(s)
  BY <1>6 DEF LifeTypeOK, BrokerAnswers, lifeVars
<1> QED
  BY <1>1, <1>2, <1>3, <1>4, <1>5, <1>6

LEMMA CloseType ==
  ASSUME LifeTypeOK, NEW s \in Calls, BeginClose(s) \/ Drain(s) \/ Release(s) \/ Return(s)
  PROVE  LifeTypeOK'
<1> USE StrategyType
<1>1. CASE BeginClose(s)
  BY <1>1, Zenon DEF LifeTypeOK, BeginClose, Goto, Steps, Holding
<1>2. CASE Drain(s)
  BY <1>2, Zenon DEF LifeTypeOK, Drain, Goto, Steps, Holding
<1>3. CASE Release(s)
  BY <1>3 DEF LifeTypeOK, Release, SetFree, Goto, Steps, Holding
<1>4. CASE Return(s)
  BY <1>4 DEF LifeTypeOK, Return, Ended, Goto, Steps, Holding
<1> QED
  BY <1>1, <1>2, <1>3, <1>4

-----------------------------------------------------------------------------
(***************************************************************************)
(* Mutual exclusion.                                                       *)
(***************************************************************************)

\* A step that takes no strategy and gives none up keeps Exclusive.
LEMMA HoldingUnchanged ==
  ASSUME Exclusive, UNCHANGED inUse,
         \A t \in Calls : pc'[t] \in Holding <=> pc[t] \in Holding
  PROVE  Exclusive'
  BY DEF Exclusive, Holds

\* So does a move of one call between two steps on the same side of the claim.
LEMMA MoveKeeps ==
  ASSUME LifeTypeOK, Exclusive, UNCHANGED inUse, NEW s \in Calls, NEW label,
         Goto(s, label), pc[s] \in Holding <=> label \in Holding
  PROVE  Exclusive'
<1>1. \A t \in Calls : pc'[t] \in Holding <=> pc[t] \in Holding
  BY DEF LifeTypeOK, Goto
<1> QED
  BY <1>1, HoldingUnchanged

\* The claim: nobody held the strategy, so the claimer is alone.
LEMMA ClaimKeeps ==
  ASSUME LifeTypeOK, Exclusive, NEW s \in Calls, Claim(s)
  PROVE  Exclusive'
<1>1. CASE ~Free(s)
  <2>1. Goto(s, "return") /\ UNCHANGED inUse /\ pc[s] = "claim"
    BY <1>1 DEF Claim
  <2> QED
    BY <2>1, MoveKeeps DEF Holding
<1>2. CASE Free(s)
  <2>1. /\ pc[s] = "claim"
        /\ inUse' = [inUse EXCEPT ![Strategy(s)] = TRUE]
        /\ pc' = [pc EXCEPT ![s] = "create"]
    BY <1>2 DEF Claim, Goto
  <2>2. \A t \in Calls : pc'[t] = IF t = s THEN "create" ELSE pc[t]
    BY <2>1 DEF LifeTypeOK
  <2>3. \A t \in Calls, st \in Strategies :
           Holds(t, st)' <=> Holds(t, st) \/ (t = s /\ st = Strategy(s))
    BY <2>1, <2>2 DEF Holds, Holding
  <2>4. \A t \in Calls : ~Holds(t, Strategy(s))
    BY <1>2, StrategyType DEF Free, Exclusive
  <2>5. \A t, u \in Calls : \A st \in Strategies : Holds(t, st)' /\ Holds(u, st)' => t = u
    BY <2>3, <2>4 DEF Exclusive
  <2>6. ASSUME NEW st \in Strategies
        PROVE  inUse'[st] <=> \E t \in Calls : Holds(t, st)'
    <3>1. CASE st = Strategy(s)
      BY <3>1, <2>1, <2>3, StrategyType DEF LifeTypeOK
    <3>2. CASE st # Strategy(s)
      BY <3>2, <2>1, <2>3 DEF LifeTypeOK, Exclusive
    <3> QED
      BY <3>1, <3>2
  <2> QED
    BY <2>5, <2>6 DEF Exclusive
<1> QED
  BY <1>1, <1>2

\* The release: the one holder lets go.
LEMMA ReleaseKeeps ==
  ASSUME LifeTypeOK, Exclusive, NEW s \in Calls, Release(s)
  PROVE  Exclusive'
<1>1. /\ pc[s] \in Holding
      /\ inUse' = [inUse EXCEPT ![Strategy(s)] = FALSE]
      /\ pc' = [pc EXCEPT ![s] = "return"]
  BY DEF Release, SetFree, Goto, Holding
<1>2. \A t \in Calls : pc'[t] = IF t = s THEN "return" ELSE pc[t]
  BY <1>1 DEF LifeTypeOK
<1>3. \A t \in Calls, st \in Strategies : Holds(t, st)' <=> Holds(t, st) /\ t # s
  BY <1>2 DEF Holds, Holding
<1>4. \A t \in Calls : Holds(t, Strategy(s)) => t = s
  BY <1>1, StrategyType DEF Exclusive, Holds
<1>5. \A t, u \in Calls : \A st \in Strategies : Holds(t, st)' /\ Holds(u, st)' => t = u
  BY <1>3 DEF Exclusive
<1>6. ASSUME NEW st \in Strategies
      PROVE  inUse'[st] <=> \E t \in Calls : Holds(t, st)'
  <2>1. CASE st = Strategy(s)
    BY <2>1, <1>1, <1>3, <1>4 DEF LifeTypeOK
  <2>2. CASE st # Strategy(s)
    <3>1. \A t \in Calls : Holds(t, st)' <=> Holds(t, st)
      BY <2>2, <1>3 DEF Holds
    <3> QED
      BY <3>1, <2>2, <1>1 DEF LifeTypeOK, Exclusive
  <2> QED
    BY <2>1, <2>2
<1> QED
  BY <1>5, <1>6 DEF Exclusive

LEMMA ExclusiveStep ==
  ASSUME LifeTypeOK, Exclusive, [Next]_vars
  PROVE  Exclusive'
<1>1. CASE AllReturned \/ UNCHANGED vars
  BY <1>1, HoldingUnchanged DEF AllReturned, vars, lifeVars
<1>2. ASSUME NEW s \in Calls, Start(s)
      PROVE  Exclusive'
  BY <1>2, MoveKeeps DEF Start, Refused, Holding
<1>3. ASSUME NEW s \in Calls, Create(s) \/ Bind(s) \/ NewConsumer(s)
      PROVE  Exclusive'
  BY <1>3, MoveKeeps DEF Create, Bind, NewConsumer, CleanUp, Holding
<1>4. ASSUME NEW s \in Calls, Cancel(s) \/ CtxDone(s) \/ BrokerAnswers(s)
      PROVE  Exclusive'
  BY <1>4, HoldingUnchanged DEF Cancel, CtxDone, BrokerAnswers, lifeVars
<1>5. ASSUME NEW s \in Calls, LoopEnds(s) \/ LoopFails(s) \/ Poll(s) \/ HandlerSucceeds(s) \/ HandlerFails(s)
      PROVE  Exclusive'
  BY <1>5, MoveKeeps DEF LoopEnds, LoopFails, Poll, HandlerSucceeds, HandlerFails, Holding
<1>6. ASSUME NEW s \in Calls, SendAccepted(s)
      PROVE  Exclusive'
  <2>1. PICK label \in {"send", "await"} : Goto(s, label)
    BY <1>6 DEF SendAccepted
  <2> QED
    BY <2>1, <1>6, MoveKeeps DEF SendAccepted, Holding
<1>7. ASSUME NEW s \in Calls, SendRejected(s) \/ Await(s)
      PROVE  Exclusive'
  BY <1>7, MoveKeeps DEF SendRejected, Await, HandleErrorFails, Holding
<1>8. ASSUME NEW s \in Calls, BeginClose(s) \/ Drain(s) \/ Return(s)
      PROVE  Exclusive'
  BY <1>8, MoveKeeps DEF BeginClose, Drain, Return, Holding
<1> QED
  BY <1>1, <1>2, <1>3, <1>4, <1>5, <1>6, <1>7, <1>8, ClaimKeeps, ReleaseKeeps DEF Next, Step

LEMMA TypeStep ==
  ASSUME LifeTypeOK, [Next]_vars
  PROVE  LifeTypeOK'
<1>1. CASE AllReturned \/ UNCHANGED vars
  BY <1>1 DEF AllReturned, vars, lifeVars, LifeTypeOK
<1> QED
  BY <1>1, StartType, LoopType, CloseType DEF Next, Step

-----------------------------------------------------------------------------
(***************************************************************************)
(* The holder's publisher.                                                 *)
(***************************************************************************)

\* What a call may rely on at each step of its way: from Bind to the release
\* the strategy's publisher is its own, which is open until it closes it.
OwnedBy(s) ==
    /\ pc[s] \in {"newConsumer", "close", "drain", "release"} \cup Using => Publisher(s) = s
    /\ pc[s] \in Holding \ {"create"} => logger[Strategy(s)] = s
    /\ pc[s] \in {"start", "claim", "create", "unclaim"} => pubs[s] = "none"
    /\ pc[s] \in {"bind", "newConsumer", "close"} \cup Using => pubs[s] = "open"
    /\ pc[s] = "drain" => pubs[s] = "closing"
    /\ pc[s] = "release" => pubs[s] = "closed"
    /\ pc[s] \in {"return", "done"} => pubs[s] \in {"none", "closed"}

Owned == \A s \in Calls : OwnedBy(s)

\* A step of another call that leaves this one's strategy alone.
LEMMA OwnedFrame ==
  ASSUME NEW t \in Calls, OwnedBy(t), pc'[t] = pc[t], pubs'[t] = pubs[t],
         pc[t] \in Holding => /\ publisher'[Strategy(t)] = publisher[Strategy(t)]
                              /\ logger'[Strategy(t)] = logger[Strategy(t)]
  PROVE  OwnedBy(t)'
  BY DEF OwnedBy, Publisher, Strategy, Using, Holding

\* Only a holder writes to a strategy, so no other holder notices.
LEMMA OthersUndisturbed ==
  ASSUME LifeTypeOK, Exclusive, Owned, NEW s \in Calls, NEW t \in Calls, t # s,
         pc'[t] = pc[t], pubs'[t] = pubs[t],
         \/ UNCHANGED <<publisher, logger>>
         \/ /\ pc[s] \in Holding
            /\ \A st \in Strategies : st # Strategy(s) =>
                  publisher'[st] = publisher[st] /\ logger'[st] = logger[st]
  PROVE  OwnedBy(t)'
<1>1. pc[t] \in Holding /\ pc[s] \in Holding => Strategy(t) # Strategy(s)
  BY StrategyType DEF Exclusive, Holds
<1>2. pc[t] \in Holding => /\ publisher'[Strategy(t)] = publisher[Strategy(t)]
                           /\ logger'[Strategy(t)] = logger[Strategy(t)]
  BY <1>1, StrategyType
<1>3. OwnedBy(t)
  BY DEF Owned
<1> QED
  BY <1>2, <1>3, OwnedFrame

\* A move of s that writes neither the strategy nor a publisher.
LEMMA OwnedMove ==
  ASSUME LifeTypeOK, Exclusive, Owned, NEW s \in Calls, NEW label,
         Goto(s, label), UNCHANGED <<publisher, logger, pubs>>, OwnedBy(s)'
  PROVE  Owned'
<1>1. ASSUME NEW t \in Calls, t # s
      PROVE  OwnedBy(t)'
  <2>1. pc'[t] = pc[t] /\ pubs'[t] = pubs[t]
    BY <1>1 DEF LifeTypeOK, Goto
  <2> QED
    BY <1>1, <2>1, OthersUndisturbed
<1> QED
  BY <1>1 DEF Owned

LEMMA OwnedStart ==
  ASSUME LifeTypeOK, Exclusive, Owned, NEW s \in Calls, Start(s) \/ Claim(s)
  PROVE  Owned'
<1>1. PICK label \in {"claim", "done", "create", "return"} : Goto(s, label)
  BY DEF Start, Refused, Claim
<1>2. UNCHANGED <<publisher, logger, pubs>>
  BY DEF Start, Claim
<1>3. pc'[s] = label /\ pc[s] \in {"start", "claim"}
  BY <1>1 DEF Goto, LifeTypeOK, Start, Claim
<1>4. OwnedBy(s)'
  BY <1>2, <1>3 DEF Owned, OwnedBy, Using, Holding
<1> QED
  BY <1>1, <1>2, <1>4, OwnedMove

LEMMA OwnedCreate ==
  ASSUME LifeTypeOK, Exclusive, Owned, NEW s \in Calls, Create(s)
  PROVE  Owned'
<1>1. /\ pc[s] = "create"
      /\ logger' = [logger EXCEPT ![Strategy(s)] = s]
      /\ publisher' = publisher
      /\ \/ pubs' = [pubs EXCEPT ![s] = "open"] /\ pc' = [pc EXCEPT ![s] = "bind"]
         \/ pubs' = pubs /\ pc' = [pc EXCEPT ![s] = "unclaim"]
  BY DEF Create, Goto
<1>2. ASSUME NEW t \in Calls, t # s
      PROVE  OwnedBy(t)'
  <2>1. pc'[t] = pc[t] /\ pubs'[t] = pubs[t]
    BY <1>1, <1>2 DEF LifeTypeOK
  <2>2. \A st \in Strategies : st # Strategy(s) => publisher'[st] = publisher[st] /\ logger'[st] = logger[st]
    BY <1>1 DEF LifeTypeOK
  <2> QED
    BY <1>1, <1>2, <2>1, <2>2, OthersUndisturbed DEF Holding
<1>3. OwnedBy(s)'
  <2>1. logger'[Strategy(s)] = s
    BY <1>1, StrategyType DEF LifeTypeOK
  <2>2. \/ pc'[s] = "bind" /\ pubs'[s] = "open"
        \/ pc'[s] = "unclaim" /\ pubs'[s] = "none"
    BY <1>1 DEF LifeTypeOK, Owned, OwnedBy
  <2> QED
    BY <2>1, <2>2 DEF OwnedBy, Strategy, Using, Holding
<1> QED
  BY <1>2, <1>3 DEF Owned

LEMMA OwnedBind ==
  ASSUME LifeTypeOK, Exclusive, Owned, NEW s \in Calls, Bind(s) \/ NewConsumer(s)
  PROVE  Owned'
<1>1. /\ pc[s] \in {"bind", "newConsumer"}
      /\ pubs' = pubs
      /\ \A st \in Strategies : st # Strategy(s) => publisher'[st] = publisher[st] /\ logger'[st] = logger[st]
  BY StrategyType DEF Bind, NewConsumer, LifeTypeOK
<1>2. PICK label \in {"newConsumer", "loop", "close"} : pc' = [pc EXCEPT ![s] = label]
  BY DEF Bind, NewConsumer, CleanUp, Goto
<1>3. ASSUME NEW t \in Calls, t # s
      PROVE  OwnedBy(t)'
  <2>1. pc'[t] = pc[t] /\ pubs'[t] = pubs[t]
    BY <1>1, <1>2, <1>3 DEF LifeTypeOK
  <2> QED
    BY <1>1, <1>3, <2>1, OthersUndisturbed DEF Holding
<1>4. OwnedBy(s)'
  <2>1. publisher'[Strategy(s)] = s /\ logger'[Strategy(s)] = s
    BY StrategyType DEF Bind, NewConsumer, LifeTypeOK, Owned, OwnedBy, Holding, Publisher
  <2>2. pc'[s] = label /\ pubs'[s] = "open"
    BY <1>1, <1>2 DEF LifeTypeOK, Owned, OwnedBy
  <2> QED
    BY <2>1, <2>2 DEF OwnedBy, Publisher, Strategy, Using, Holding
<1> QED
  BY <1>3, <1>4 DEF Owned

LEMMA OwnedLoop ==
  ASSUME LifeTypeOK, Exclusive, Owned, NEW s \in Calls,
         \/ LoopEnds(s) \/ LoopFails(s) \/ Poll(s) \/ HandlerSucceeds(s) \/ HandlerFails(s)
         \/ SendAccepted(s) \/ SendRejected(s) \/ Await(s)
  PROVE  Owned'
<1>1. PICK label \in Using \cup {"close"} : Goto(s, label)
  BY DEF LoopEnds, LoopFails, Poll, HandlerSucceeds, HandlerFails, SendAccepted, SendRejected, Await,
         HandleErrorFails, Using
<1>2. UNCHANGED <<publisher, logger, pubs>> /\ pc[s] \in Using
  BY DEF LoopEnds, LoopFails, Poll, HandlerSucceeds, HandlerFails, SendAccepted, SendRejected, Await, Using
<1>3. pc'[s] = label
  BY <1>1 DEF Goto, LifeTypeOK
<1>4. OwnedBy(s)'
  BY <1>2, <1>3 DEF Owned, OwnedBy, Publisher, Strategy, Using, Holding
<1> QED
  BY <1>1, <1>2, <1>4, OwnedMove

\* Close shuts the publisher it finds in the strategy, which is the caller's own.
LEMMA OwnedClose ==
  ASSUME LifeTypeOK, Exclusive, Owned, NEW s \in Calls, BeginClose(s) \/ Drain(s)
  PROVE  Owned'
<1>1. Publisher(s) = s
  BY DEF BeginClose, Drain, Owned, OwnedBy
<1>2. /\ UNCHANGED <<publisher, logger>>
      /\ pc[s] \in {"close", "drain"}
      /\ \/ pubs' = [pubs EXCEPT ![s] = "closing"] /\ pc' = [pc EXCEPT ![s] = "drain"]
         \/ pubs' = [pubs EXCEPT ![s] = "closed"] /\ pc' = [pc EXCEPT ![s] = "release"]
  BY <1>1 DEF BeginClose, Drain, Goto
<1>3. ASSUME NEW t \in Calls, t # s
      PROVE  OwnedBy(t)'
  <2>1. pc'[t] = pc[t] /\ pubs'[t] = pubs[t]
    BY <1>2, <1>3 DEF LifeTypeOK
  <2> QED
    BY <1>2, <1>3, <2>1, OthersUndisturbed
<1>4. OwnedBy(s)'
  <2>1. \/ pubs'[s] = "closing" /\ pc'[s] = "drain"
        \/ pubs'[s] = "closed" /\ pc'[s] = "release"
    BY <1>2 DEF LifeTypeOK
  <2> QED
    BY <1>1, <1>2, <2>1 DEF Owned, OwnedBy, Publisher, Strategy, Using, Holding
<1> QED
  BY <1>3, <1>4 DEF Owned

LEMMA OwnedEnd ==
  ASSUME LifeTypeOK, Exclusive, Owned, NEW s \in Calls, Release(s) \/ Return(s)
  PROVE  Owned'
<1>1. PICK label \in {"return", "done"} : Goto(s, label)
  BY DEF Release, Return
<1>2. UNCHANGED <<publisher, logger, pubs>> /\ pc[s] \in {"unclaim", "release", "return"}
  BY DEF Release, Return
<1>3. pc'[s] = label
  BY <1>1 DEF Goto, LifeTypeOK
<1>4. OwnedBy(s)'
  BY <1>2, <1>3 DEF Owned, OwnedBy, Using, Holding
<1> QED
  BY <1>1, <1>2, <1>4, OwnedMove

LEMMA OwnedStep ==
  ASSUME LifeTypeOK, Exclusive, Owned, [Next]_vars
  PROVE  Owned'
<1>1. ASSUME UNCHANGED <<pc, publisher, logger, pubs>>
      PROVE  Owned'
  BY <1>1 DEF Owned, OwnedBy, Publisher, Strategy
<1>2. CASE AllReturned \/ UNCHANGED vars
  BY <1>1, <1>2 DEF AllReturned, vars, lifeVars
<1>3. ASSUME NEW s \in Calls, Cancel(s) \/ CtxDone(s) \/ BrokerAnswers(s)
      PROVE  Owned'
  BY <1>1, <1>3 DEF Cancel, CtxDone, BrokerAnswers, lifeVars
<1> QED
  BY <1>2, <1>3, OwnedStart, OwnedCreate, OwnedBind, OwnedLoop, OwnedClose, OwnedEnd DEF Next, Step

-----------------------------------------------------------------------------
(***************************************************************************)
(* The records.                                                            *)
(***************************************************************************)

Verdict == {"pending", "acked", "failed", "purged"}

\* What HandleError waits for is in its own publisher, and what it confirmed was
\* acknowledged.
Delivered ==
    /\ sent \in [Calls -> Seq(Verdict)]
    /\ waits \in [Calls -> SUBSET (Calls \X Nat)]
    /\ \A s \in Calls : \A d \in waits[s] : d[1] = s /\ d[2] \in DOMAIN sent[s]
    /\ confirmed \subseteq Calls \X Nat
    /\ \A d \in confirmed : d[2] \in DOMAIN sent[d[1]] /\ sent[d[1]][d[2]] = "acked"

\* A publisher that is gone has nothing pending; while it is there, a pending
\* record is one HandleError is about to wait for, unless a send was rejected.
Accounted ==
    /\ rejected \subseteq Calls
    /\ \A s \in Calls : pubs[s] = "none" => sent[s] = <<>>
    /\ \A s \in Calls : \A i \in DOMAIN sent[s] :
          /\ sent[s][i] = "purged" => s \in rejected
          /\ sent[s][i] = "pending" =>
                /\ pubs[s] # "closed"
                /\ s \in rejected \/ (pc[s] \in {"send", "await"} /\ <<s, i>> \in waits[s])

\* The outcomes of the records already there only change from pending.
OnlyPendingChanges ==
    \A s \in Calls : \A i \in DOMAIN sent[s] :
        /\ i \in DOMAIN sent'[s]
        /\ sent[s][i] # "pending" => sent'[s][i] = sent[s][i]

LEMMA DeliveredFrame ==
  ASSUME Delivered, sent' \in [Calls -> Seq(Verdict)], OnlyPendingChanges, UNCHANGED <<waits, confirmed>>
  PROVE  Delivered'
<1>1. \A s \in Calls : \A d \in waits[s] : d[1] = s /\ d[2] \in DOMAIN sent'[s]
  BY DEF Delivered, OnlyPendingChanges
<1>2. \A d \in confirmed : d[1] \in Calls
  BY DEF Delivered
<1>3. \A d \in confirmed : d[2] \in DOMAIN sent'[d[1]] /\ sent'[d[1]][d[2]] = "acked"
  BY <1>2 DEF Delivered, OnlyPendingChanges
<1> QED
  BY <1>1, <1>3 DEF Delivered

\* A record more in s's publisher.
LEMMA SendAppends ==
  ASSUME Delivered, Owned, NEW s \in Calls, SendAccepted(s)
  PROVE  /\ Publisher(s) = s
         /\ sent' \in [Calls -> Seq(Verdict)]
         /\ \A t \in Calls : t # s => sent'[t] = sent[t]
         /\ DOMAIN sent'[s] = 1 .. Len(sent[s]) + 1
         /\ \A i \in DOMAIN sent[s] : sent'[s][i] = sent[s][i]
         /\ sent'[s][Len(sent[s]) + 1] = "pending"
         /\ Len(sent[s]) \in Nat
         /\ DOMAIN sent[s] = 1 .. Len(sent[s])
<1>1. Publisher(s) = s
  BY DEF SendAccepted, Owned, OwnedBy, Using
<1>2. sent' = [sent EXCEPT ![s] = Append(sent[s], "pending")]
  BY <1>1 DEF SendAccepted
<1>3. sent[s] \in Seq(Verdict) /\ "pending" \in Verdict
  BY DEF Delivered, Verdict
<1>4. sent'[s] = Append(sent[s], "pending")
  BY <1>2 DEF Delivered
<1>5. /\ Append(sent[s], "pending") \in Seq(Verdict)
      /\ Len(sent[s]) \in Nat
      /\ DOMAIN sent[s] = 1 .. Len(sent[s])
      /\ DOMAIN Append(sent[s], "pending") = 1 .. Len(sent[s]) + 1
      /\ \A i \in DOMAIN sent[s] : Append(sent[s], "pending")[i] = sent[s][i]
      /\ Append(sent[s], "pending")[Len(sent[s]) + 1] = "pending"
  BY <1>3
<1> QED
  BY <1>1, <1>2, <1>4, <1>5 DEF Delivered

LEMMA DeliveredSend ==
  ASSUME Delivered, Owned, NEW s \in Calls, SendAccepted(s)
  PROVE  Delivered'
<1> DEFINE n == Len(sent[s]) + 1
<1>1. waits' = [waits EXCEPT ![s] = waits[s] \cup {<<s, n>>}] /\ confirmed' = confirmed
  BY SendAppends, Zenon DEF SendAccepted
<1>2. n \in Nat /\ n \in DOMAIN sent'[s]
  BY SendAppends
<1>3. \A t \in Calls : waits'[t] = IF t = s THEN waits[s] \cup {<<s, n>>} ELSE waits[t]
  BY <1>1 DEF Delivered
<1>4. waits' \in [Calls -> SUBSET (Calls \X Nat)]
  BY <1>1, <1>2 DEF Delivered
<1>5. \A t \in Calls : DOMAIN sent[t] \subseteq DOMAIN sent'[t]
  BY SendAppends
<1>6. \A t \in Calls : \A d \in waits'[t] : d[1] = t /\ d[2] \in DOMAIN sent'[t]
  <2> SUFFICES ASSUME NEW t \in Calls, NEW d \in waits'[t]
               PROVE  d[1] = t /\ d[2] \in DOMAIN sent'[t]
    OBVIOUS
  <2>1. CASE d \in waits[t]
    <3>1. d[1] = t /\ d[2] \in DOMAIN sent[t]
      BY <2>1 DEF Delivered
    <3> QED
      BY <3>1, <1>5
  <2>2. CASE d \notin waits[t]
    <3>1. t = s /\ d = <<s, n>>
      BY <2>2, <1>3
    <3> QED
      BY <3>1, <1>2
  <2> QED
    BY <2>1, <2>2
<1>7. \A d \in confirmed : d[1] \in Calls /\ d[2] \in DOMAIN sent[d[1]] /\ sent[d[1]][d[2]] = "acked"
  BY DEF Delivered
<1>8. \A d \in confirmed' : d[2] \in DOMAIN sent'[d[1]] /\ sent'[d[1]][d[2]] = "acked"
  BY <1>1, <1>5, <1>7, SendAppends
<1> QED
  BY <1>1, <1>4, <1>6, <1>8, SendAppends DEF Delivered

LEMMA DeliveredAwait ==
  ASSUME Delivered, NEW s \in Calls, Await(s) \/ SendRejected(s)
  PROVE  Delivered'
<1>1. waits' = [waits EXCEPT ![s] = {}] /\ sent' = sent
  BY DEF Await, SendRejected, HandleErrorFails
<1>2. waits' \in [Calls -> SUBSET (Calls \X Nat)] /\ \A t \in Calls : waits'[t] \subseteq waits[t]
  BY <1>1 DEF Delivered
<1>3. confirmed' \subseteq confirmed \cup (IF AllAcked(s) THEN waits[s] ELSE {})
  BY DEF Await, SendRejected
<1>4. AllAcked(s) => \A d \in waits[s] : sent[d[1]][d[2]] = "acked"
  BY Zenon DEF AllAcked, Outcomes
<1>5. waits[s] \subseteq Calls \X Nat /\ \A d \in waits[s] : d[2] \in DOMAIN sent[d[1]]
  BY DEF Delivered
<1>6. \A d \in confirmed' : d \in Calls \X Nat /\ d[2] \in DOMAIN sent[d[1]] /\ sent[d[1]][d[2]] = "acked"
  BY <1>3, <1>4, <1>5 DEF Delivered
<1> QED
  BY <1>1, <1>2, <1>6 DEF Delivered

\* A pending record of p gets its outcome; nothing else changes.
LEMMA BrokerChanges ==
  ASSUME Delivered, NEW p \in Calls, BrokerAnswers(p)
  PROVE  /\ sent' \in [Calls -> Seq(Verdict)]
         /\ \A t \in Calls : DOMAIN sent'[t] = DOMAIN sent[t]
         /\ \A t \in Calls : \A i \in DOMAIN sent[t] :
               \/ sent'[t][i] = sent[t][i]
               \/ sent[t][i] = "pending" /\ sent'[t][i] \in {"acked", "failed"}
<1>1. PICK i \in DOMAIN sent[p], v \in {"acked", "failed"} :
         sent[p][i] = "pending" /\ sent' = [sent EXCEPT ![p][i] = v]
  BY DEF BrokerAnswers
<1>2. sent[p] \in Seq(Verdict) /\ v \in Verdict
  BY DEF Delivered, Verdict
<1>3. sent'[p] = [sent[p] EXCEPT ![i] = v]
  BY <1>1 DEF Delivered
<1>4. [sent[p] EXCEPT ![i] = v] \in Seq(Verdict)
  BY <1>2
<1>5. sent' \in [Calls -> Seq(Verdict)] /\ \A t \in Calls : t # p => sent'[t] = sent[t]
  BY <1>1, <1>4 DEF Delivered
<1> QED
  BY <1>1, <1>3, <1>5

\* Close settles every record of the caller's publisher.
LEMMA DrainChanges ==
  ASSUME Delivered, Owned, NEW s \in Calls, Drain(s)
  PROVE  /\ Publisher(s) = s
         /\ sent' \in [Calls -> Seq(Verdict)]
         /\ \A t \in Calls : DOMAIN sent'[t] = DOMAIN sent[t]
         /\ \A t \in Calls : t # s => sent'[t] = sent[t]
         /\ \A i \in DOMAIN sent[s] :
               sent'[s][i] = IF sent[s][i] = "pending" THEN "purged" ELSE sent[s][i]
<1> DEFINE purged == [i \in DOMAIN sent[s] |-> IF sent[s][i] = "pending" THEN "purged" ELSE sent[s][i]]
<1>1. Publisher(s) = s
  BY DEF Drain, Owned, OwnedBy
<1>2. sent' = [sent EXCEPT ![s] = purged]
  BY <1>1 DEF Drain
<1>3. sent[s] \in Seq(Verdict)
  BY DEF Delivered
<1>4. /\ Len(sent[s]) \in Nat
      /\ DOMAIN sent[s] = 1 .. Len(sent[s])
      /\ \A i \in 1 .. Len(sent[s]) : sent[s][i] \in Verdict
  BY <1>3
<1>5. purged \in [1 .. Len(sent[s]) -> Verdict]
  BY <1>4 DEF Verdict
<1>6. purged \in Seq(Verdict)
  BY <1>4, <1>5
<1>7. sent'[s] = purged
  BY <1>2 DEF Delivered
<1>8. sent' \in [Calls -> Seq(Verdict)] /\ \A t \in Calls : t # s => sent'[t] = sent[t]
  BY <1>2, <1>6 DEF Delivered
<1> QED
  BY <1>1, <1>7, <1>8

LEMMA DeliveredStep ==
  ASSUME Delivered, Owned, [Next]_vars
  PROVE  Delivered'
<1>1. ASSUME UNCHANGED <<sent, waits, confirmed>>
      PROVE  Delivered'
  BY <1>1 DEF Delivered
<1>2. CASE AllReturned \/ UNCHANGED vars
  BY <1>1, <1>2 DEF AllReturned, vars, sendVars
<1>3. ASSUME NEW s \in Calls, Start(s) \/ Claim(s) \/ Create(s) \/ Bind(s) \/ NewConsumer(s) \/ Cancel(s)
      PROVE  Delivered'
  BY <1>1, <1>3, SMTT(20), Zenon DEF Start, Claim, Create, Bind, NewConsumer, Cancel, sendVars
<1>4. ASSUME NEW s \in Calls,
             CtxDone(s) \/ LoopEnds(s) \/ LoopFails(s) \/ Poll(s) \/ HandlerSucceeds(s) \/ HandlerFails(s)
      PROVE  Delivered'
  BY <1>1, <1>4 DEF CtxDone, LoopEnds, LoopFails, Poll, HandlerSucceeds, HandlerFails, sendVars
<1>5. ASSUME NEW s \in Calls, BeginClose(s) \/ Release(s) \/ Return(s)
      PROVE  Delivered'
  BY <1>1, <1>5, Zenon DEF BeginClose, Release, Return, sendVars
<1>6. ASSUME NEW s \in Calls, BrokerAnswers(s)
      PROVE  Delivered'
  <2>1. OnlyPendingChanges
    BY <1>6, BrokerChanges DEF OnlyPendingChanges
  <2> QED
    BY <1>6, <2>1, BrokerChanges, DeliveredFrame DEF BrokerAnswers
<1>7. ASSUME NEW s \in Calls, Drain(s)
      PROVE  Delivered'
  <2>1. OnlyPendingChanges
    BY <1>7, DrainChanges DEF OnlyPendingChanges
  <2> QED
    BY <1>7, <2>1, DrainChanges, DeliveredFrame, Zenon DEF Drain
<1> QED
  BY <1>2, <1>3, <1>4, <1>5, <1>6, <1>7, DeliveredSend, DeliveredAwait DEF Next, Step

\* A step that touches no record, and no publisher but to open or close s's own,
\* and that moves s neither out of a wait nor into the end of a publisher.
LEMMA AccountedFrame ==
  ASSUME LifeTypeOK, Accounted, NEW s \in Calls, UNCHANGED <<sent, waits, rejected>>,
         pc[s] \notin {"send", "await"} \/ pc'[s] \in {"send", "await"},
         \A t \in Calls : t # s => pc'[t] = pc[t] /\ pubs'[t] = pubs[t],
         pubs'[s] = pubs[s] \/ pubs'[s] \in {"open", "closing"}
  PROVE  Accounted'
  BY DEF Accounted

LEMMA AccountedStart ==
  ASSUME LifeTypeOK, Accounted, NEW s \in Calls,
         \/ Start(s) \/ Claim(s) \/ Create(s) \/ Bind(s) \/ NewConsumer(s) \/ Cancel(s)
         \/ CtxDone(s) \/ LoopEnds(s) \/ LoopFails(s) \/ Poll(s) \/ HandlerSucceeds(s) \/ HandlerFails(s)
         \/ Release(s) \/ Return(s)
  PROVE  Accounted'
<1>1. UNCHANGED <<sent, waits, rejected>>
  BY Zenon DEF Start, Claim, Create, Bind, NewConsumer, Cancel, CtxDone, LoopEnds, LoopFails, Poll, HandlerSucceeds,
         HandlerFails, Release, Return, sendVars
<1>2. pc[s] \notin {"send", "await"} \/ pc'[s] \in {"send", "await"}
  BY Zenon DEF Start, Claim, Create, Bind, NewConsumer, Cancel, CtxDone, LoopEnds, LoopFails, Poll, HandlerSucceeds,
         HandlerFails, Release, Return
<1>3. pc' = pc \/ \E label \in Steps : pc' = [pc EXCEPT ![s] = label]
  BY Zenon DEF Start, Refused, Claim, Create, Bind, NewConsumer, CleanUp, Cancel, CtxDone, LoopEnds, LoopFails, Poll,
         HandlerSucceeds, HandlerFails, Release, Return, Goto, Steps, Holding
<1>4. pubs' = pubs \/ pubs' = [pubs EXCEPT ![s] = "open"]
  BY Zenon DEF Start, Claim, Create, Bind, NewConsumer, Cancel, CtxDone, LoopEnds, LoopFails, Poll, HandlerSucceeds,
         HandlerFails, Release, Return
<1>5. /\ \A t \in Calls : t # s => pc'[t] = pc[t] /\ pubs'[t] = pubs[t]
      /\ pubs'[s] = pubs[s] \/ pubs'[s] \in {"open", "closing"}
  BY <1>3, <1>4 DEF LifeTypeOK
<1> QED
  BY <1>1, <1>2, <1>5, AccountedFrame

LEMMA AccountedBeginClose ==
  ASSUME LifeTypeOK, Owned, Accounted, NEW s \in Calls, BeginClose(s)
  PROVE  Accounted'
<1>1. Publisher(s) = s
  BY DEF BeginClose, Owned, OwnedBy
<1>2. /\ pubs' = [pubs EXCEPT ![s] = "closing"]
      /\ pc' = [pc EXCEPT ![s] = "drain"]
      /\ pc[s] = "close"
      /\ UNCHANGED <<sent, waits, rejected>>
  BY <1>1 DEF BeginClose, Goto, sendVars
<1>3. /\ \A t \in Calls : t # s => pc'[t] = pc[t] /\ pubs'[t] = pubs[t]
      /\ pubs'[s] \in {"open", "closing"}
  BY <1>2 DEF LifeTypeOK
<1> QED
  BY <1>2, <1>3, AccountedFrame

\* A new record is pending, in an open publisher, and will be waited for.
LEMMA AccountedSend ==
  ASSUME LifeTypeOK, Owned, Delivered, Accounted, NEW s \in Calls, SendAccepted(s)
  PROVE  Accounted'
<1> DEFINE n == Len(sent[s]) + 1
<1>1. /\ waits' = [waits EXCEPT ![s] = waits[s] \cup {<<s, n>>}]
      /\ rejected' = rejected /\ pubs' = pubs /\ pubs[s] = "open"
  BY SendAppends, Zenon DEF SendAccepted
<1>2. pc'[s] \in {"send", "await"} /\ \A t \in Calls : t # s => pc'[t] = pc[t]
  BY DEF SendAccepted, Goto, LifeTypeOK
<1>3. waits'[s] = waits[s] \cup {<<s, n>>} /\ \A t \in Calls : t # s => waits'[t] = waits[t]
  BY <1>1 DEF Delivered
<1>4. ASSUME NEW t \in Calls, t # s
      PROVE  /\ pubs'[t] = "none" => sent'[t] = <<>>
             /\ \A i \in DOMAIN sent'[t] :
                  /\ sent'[t][i] = "purged" => t \in rejected'
                  /\ sent'[t][i] = "pending" =>
                        /\ pubs'[t] # "closed"
                        /\ t \in rejected' \/ (pc'[t] \in {"send", "await"} /\ <<t, i>> \in waits'[t])
  <2>1. sent'[t] = sent[t]
    BY <1>4, SendAppends
  <2>2. pubs'[t] = pubs[t] /\ pc'[t] = pc[t] /\ waits'[t] = waits[t] /\ rejected' = rejected
    BY <1>1, <1>2, <1>3, <1>4
  <2> QED
    BY <2>1, <2>2 DEF Accounted
<1>5. ASSUME NEW i \in DOMAIN sent'[s]
      PROVE  /\ sent'[s][i] = "purged" => s \in rejected'
             /\ sent'[s][i] = "pending" =>
                   s \in rejected' \/ (pc'[s] \in {"send", "await"} /\ <<s, i>> \in waits'[s])
  <2>1. CASE i = n
    BY <2>1, <1>2, <1>3, SendAppends
  <2>2. CASE i # n
    <3>1. i \in DOMAIN sent[s]
      BY <2>2, SendAppends
    <3>2. sent'[s][i] = sent[s][i]
      BY <3>1, SendAppends
    <3>3. /\ sent[s][i] = "purged" => s \in rejected
          /\ sent[s][i] = "pending" => s \in rejected \/ <<s, i>> \in waits[s]
      BY <3>1 DEF Accounted
    <3> QED
      BY <3>2, <3>3, <1>1, <1>2, <1>3
  <2> QED
    BY <2>1, <2>2
<1>6. pubs'[s] # "none" /\ pubs'[s] # "closed"
  BY <1>1
<1>7. rejected' \subseteq Calls
  BY <1>1 DEF Accounted
<1>8. \A t \in Calls : pubs'[t] = "none" => sent'[t] = <<>>
  BY <1>4, <1>6
<1>9. \A t \in Calls : \A i \in DOMAIN sent'[t] :
          /\ sent'[t][i] = "purged" => t \in rejected'
          /\ sent'[t][i] = "pending" =>
                /\ pubs'[t] # "closed"
                /\ t \in rejected' \/ (pc'[t] \in {"send", "await"} /\ <<t, i>> \in waits'[t])
  BY <1>4, <1>5, <1>6, Zenon
<1> QED
  BY <1>7, <1>8, <1>9 DEF Accounted

LEMMA AccountedRejected ==
  ASSUME LifeTypeOK, Delivered, Accounted, NEW s \in Calls, SendRejected(s)
  PROVE  Accounted'
<1>1. /\ sent' = sent /\ pubs' = pubs /\ rejected' = rejected \cup {s}
      /\ waits' = [waits EXCEPT ![s] = {}] /\ pc' = [pc EXCEPT ![s] = "close"]
  BY DEF SendRejected, HandleErrorFails, Goto
<1>2. \A t \in Calls : t # s => pc'[t] = pc[t] /\ waits'[t] = waits[t]
  BY <1>1 DEF LifeTypeOK, Delivered
<1> QED
  BY <1>1, <1>2 DEF Accounted

\* When the wait is over nothing of this call is pending.
LEMMA AccountedAwait ==
  ASSUME LifeTypeOK, Delivered, Accounted, NEW s \in Calls, Await(s)
  PROVE  Accounted'
<1>1. /\ sent' = sent /\ pubs' = pubs /\ rejected' = rejected
      /\ waits' = [waits EXCEPT ![s] = {}]
      /\ \E label \in Steps : pc' = [pc EXCEPT ![s] = label]
  BY DEF Await, HandleErrorFails, Goto, Steps, Holding
<1>2. \A t \in Calls : t # s => pc'[t] = pc[t] /\ waits'[t] = waits[t]
  BY <1>1 DEF LifeTypeOK, Delivered
<1>3. \A d \in waits[s] : sent[d[1]][d[2]] # "pending"
  BY DEF Await, Settled, Outcomes
<1>4. \A i \in DOMAIN sent[s] : <<s, i>> \in waits[s] => sent[s][i] # "pending"
  BY <1>3
<1> QED
  BY <1>1, <1>2, <1>4 DEF Accounted

LEMMA AccountedBroker ==
  ASSUME Delivered, Accounted, NEW p \in Calls, BrokerAnswers(p)
  PROVE  Accounted'
<1>1. UNCHANGED <<pc, pubs, waits, rejected>>
  BY DEF BrokerAnswers, lifeVars
<1>2. pubs[p] # "none" /\ \A t \in Calls : t # p => sent'[t] = sent[t]
  BY DEF BrokerAnswers, Delivered
<1>3. \A t \in Calls : \A i \in DOMAIN sent'[t] :
         i \in DOMAIN sent[t] /\ (sent'[t][i] = sent[t][i] \/ sent'[t][i] \in {"acked", "failed"})
  BY BrokerChanges
<1>4. \A t \in Calls : pubs'[t] = "none" => sent'[t] = <<>>
  BY <1>1, <1>2 DEF Accounted
<1>5. \A t \in Calls : \A i \in DOMAIN sent'[t] :
          /\ sent'[t][i] = "purged" => t \in rejected'
          /\ sent'[t][i] = "pending" =>
                /\ pubs'[t] # "closed"
                /\ t \in rejected' \/ (pc'[t] \in {"send", "await"} /\ <<t, i>> \in waits'[t])
  BY <1>1, <1>3, Zenon DEF Accounted
<1> QED
  BY <1>1, <1>4, <1>5 DEF Accounted

\* Close purges what is pending, which is the rest of a rejected send.
LEMMA AccountedDrain ==
  ASSUME LifeTypeOK, Owned, Delivered, Accounted, NEW s \in Calls, Drain(s)
  PROVE  Accounted'
<1>1. /\ UNCHANGED <<waits, rejected>> /\ pc[s] = "drain"
      /\ pubs' = [pubs EXCEPT ![s] = "closed"] /\ pc' = [pc EXCEPT ![s] = "release"]
  BY DrainChanges, Zenon DEF Drain, Goto
<1>2. pubs'[s] = "closed" /\ \A t \in Calls : t # s => pc'[t] = pc[t] /\ pubs'[t] = pubs[t]
  BY <1>1 DEF LifeTypeOK
<1>3. \A i \in DOMAIN sent[s] : sent[s][i] = "pending" => s \in rejected
  BY <1>1, Zenon DEF Accounted
<1>4. \A i \in DOMAIN sent'[s] : sent'[s][i] # "pending" /\ (sent'[s][i] = "purged" => s \in rejected)
  <2>1. \A i \in DOMAIN sent[s] : sent[s][i] = "purged" => s \in rejected
    BY Zenon DEF Accounted
  <2> QED
    BY <1>3, <2>1, DrainChanges
<1>5. \A t \in Calls : pubs'[t] = "none" => sent'[t] = <<>>
  BY <1>2, DrainChanges DEF Accounted
<1>6. ASSUME NEW t \in Calls, t # s, NEW i \in DOMAIN sent'[t]
      PROVE  /\ sent'[t][i] = "purged" => t \in rejected'
             /\ sent'[t][i] = "pending" =>
                   /\ pubs'[t] # "closed"
                   /\ t \in rejected' \/ (pc'[t] \in {"send", "await"} /\ <<t, i>> \in waits'[t])
  <2>1. sent'[t] = sent[t]
    BY <1>6, DrainChanges
  <2>2. pubs'[t] = pubs[t] /\ pc'[t] = pc[t] /\ waits' = waits /\ rejected' = rejected
    BY <1>1, <1>2, <1>6
  <2> QED
    BY <1>6, <2>1, <2>2 DEF Accounted
<1>7. rejected' \subseteq Calls
  BY <1>1 DEF Accounted
<1>8. \A t \in Calls : \A i \in DOMAIN sent'[t] :
          /\ sent'[t][i] = "purged" => t \in rejected'
          /\ sent'[t][i] = "pending" =>
                /\ pubs'[t] # "closed"
                /\ t \in rejected' \/ (pc'[t] \in {"send", "await"} /\ <<t, i>> \in waits'[t])
  BY <1>1, <1>4, <1>6, Zenon
<1> QED
  BY <1>5, <1>7, <1>8 DEF Accounted

LEMMA AccountedStep ==
  ASSUME LifeTypeOK, Owned, Delivered, Accounted, [Next]_vars
  PROVE  Accounted'
<1>1. CASE AllReturned \/ UNCHANGED vars
  BY <1>1 DEF AllReturned, vars, lifeVars, sendVars, Accounted
<1> QED
  BY <1>1, AccountedStart, AccountedBeginClose, AccountedSend, AccountedRejected, AccountedAwait,
     AccountedBroker, AccountedDrain DEF Next, Step

-----------------------------------------------------------------------------
(***************************************************************************)
(* One call per subscriber.                                                *)
(***************************************************************************)

Active == Steps \ {"start", "done"}

\* A call past the swap is the only one on its subscriber, which runs until that
\* call's own loop has stopped it.
Claimed ==
    /\ \A s, t \in Calls :
          SubscriberOf[s] = SubscriberOf[t] /\ pc[s] \in Active /\ pc[t] \in Active => s = t
    /\ \A s \in Calls : state[SubscriberOf[s]] = "created" => pc[s] = "start"
    /\ \A s \in Calls :
          pc[s] \in {"claim", "create", "unclaim", "bind", "newConsumer", "handle", "send", "await"}
             => Running(s)
    /\ \A s \in Calls : pc[s] = "loop" /\ ~Running(s) => cancelled[s]

\* A move that leaves the subscriber's state alone.
LEMMA ClaimedMove ==
  ASSUME LifeTypeOK, Claimed, NEW s \in Calls, NEW label \in Active, Goto(s, label),
         pc[s] \in Active, UNCHANGED <<state, cancelled>>,
         \/ Running(s)
         \/ label \in {"close", "drain", "release", "return"}
  PROVE  Claimed'
<1>1. \A t \in Calls : pc'[t] = IF t = s THEN label ELSE pc[t]
  BY DEF LifeTypeOK, Goto
<1>2. state[SubscriberOf[s]] # "created"
  BY DEF Claimed, Active
<1> QED
  BY <1>1, <1>2 DEF Claimed, Running, Active

\* The one call on a subscriber stops it, or leaves it.
LEMMA ClaimedStops ==
  ASSUME LifeTypeOK, Claimed, NEW s \in Calls, NEW label \in {"loop", "close", "done"},
         NEW st \in {"stopping", "stopped"}, Goto(s, label), pc[s] \in Active,
         state' = [state EXCEPT ![SubscriberOf[s]] = st],
         UNCHANGED cancelled, label = "loop" => cancelled[s]
  PROVE  Claimed'
<1>1. \A t \in Calls : pc'[t] = IF t = s THEN label ELSE pc[t]
  BY DEF LifeTypeOK, Goto
<1>2. \A u \in Subscribers : state'[u] = IF u = SubscriberOf[s] THEN st ELSE state[u]
  BY DEF LifeTypeOK
<1>3. \A t \in Calls : SubscriberOf[t] \in Subscribers
  BY StrategyType
<1>4. \A t \in Calls : t # s /\ SubscriberOf[t] = SubscriberOf[s] => pc[t] \notin Active
  BY DEF Claimed
<1>5. ASSUME NEW t \in Calls, t # s, SubscriberOf[t] = SubscriberOf[s]
      PROVE  pc'[t] \in {"start", "done"}
  BY <1>1, <1>4, <1>5 DEF Active, LifeTypeOK
<1>6. \A t \in Calls : SubscriberOf[t] # SubscriberOf[s] =>
         pc'[t] = pc[t] /\ state'[SubscriberOf[t]] = state[SubscriberOf[t]]
  BY <1>1, <1>2, <1>3
<1>7. state'[SubscriberOf[s]] = st
  BY <1>2, <1>3
<1>8. \A t, u \in Calls :
         SubscriberOf[t] = SubscriberOf[u] /\ pc'[t] \in Active /\ pc'[u] \in Active => t = u
  BY <1>1, <1>4 DEF Claimed, Active
<1>9. \A t \in Calls : state'[SubscriberOf[t]] = "created" => pc'[t] = "start"
  BY <1>6, <1>7 DEF Claimed
<1>10. \A t \in Calls :
         pc'[t] \in {"claim", "create", "unclaim", "bind", "newConsumer", "handle", "send", "await"}
             => state'[SubscriberOf[t]] = "running"
  <2> SUFFICES ASSUME NEW t \in Calls,
                      pc'[t] \in {"claim", "create", "unclaim", "bind", "newConsumer", "handle", "send", "await"}
               PROVE  state'[SubscriberOf[t]] = "running"
    OBVIOUS
  <2>1. SubscriberOf[t] # SubscriberOf[s]
    BY <1>1, <1>5
  <2> QED
    BY <1>6, <2>1 DEF Claimed, Running
<1>11. \A t \in Calls : pc'[t] = "loop" /\ state'[SubscriberOf[t]] # "running" => cancelled'[t]
  <2> SUFFICES ASSUME NEW t \in Calls, pc'[t] = "loop", state'[SubscriberOf[t]] # "running"
               PROVE  cancelled'[t]
    OBVIOUS
  <2>1. CASE SubscriberOf[t] = SubscriberOf[s]
    BY <1>1, <1>5, <2>1
  <2>2. CASE SubscriberOf[t] # SubscriberOf[s]
    BY <1>6, <2>2 DEF Claimed, Running
  <2> QED
    BY <2>1, <2>2
<1> QED
  BY <1>8, <1>9, <1>10, <1>11 DEF Claimed, Running

LEMMA ClaimedStart ==
  ASSUME LifeTypeOK, Claimed, NEW s \in Calls, Start(s)
  PROVE  Claimed'
<1>1. CASE state[SubscriberOf[s]] # "created"
  <2>1. pc' = [pc EXCEPT ![s] = "done"] /\ UNCHANGED <<state, cancelled>>
    BY <1>1 DEF Start, Refused, Goto
  <2>2. \A t \in Calls : pc'[t] = IF t = s THEN "done" ELSE pc[t]
    BY <2>1 DEF LifeTypeOK
  <2>3. "done" \notin Active /\ \A t \in Calls : pc'[t] \in Active => pc'[t] = pc[t]
    BY <2>2 DEF Active
  <2>4. \A t \in Calls : state'[SubscriberOf[t]] = "created" => pc'[t] = "start"
    BY <1>1, <2>1, <2>2 DEF Claimed
  <2>5. \A t, u \in Calls :
           SubscriberOf[t] = SubscriberOf[u] /\ pc'[t] \in Active /\ pc'[u] \in Active => t = u
    BY <2>3 DEF Claimed
  <2>6. \A t \in Calls : Running(t)' <=> Running(t)
    BY <2>1 DEF Running
  <2>7. \A t \in Calls : pc'[t] # "done" => pc'[t] = pc[t]
    BY <2>2
  <2>8. /\ \A t \in Calls :
             pc'[t] \in {"claim", "create", "unclaim", "bind", "newConsumer", "handle", "send", "await"}
                => Running(t)'
        /\ \A t \in Calls : pc'[t] = "loop" /\ ~Running(t)' => cancelled'[t]
    BY <2>1, <2>6, <2>7 DEF Claimed
  <2> QED
    BY <2>4, <2>5, <2>8 DEF Claimed
<1>2. CASE state[SubscriberOf[s]] = "created"
  <2>1. /\ pc' = [pc EXCEPT ![s] = "claim"] /\ UNCHANGED cancelled
        /\ state' = [state EXCEPT ![SubscriberOf[s]] = "running"]
    BY <1>2 DEF Start, Goto
  <2>2. \A t \in Calls : pc'[t] = IF t = s THEN "claim" ELSE pc[t]
    BY <2>1 DEF LifeTypeOK
  <2>3. \A t \in Calls : state'[SubscriberOf[t]] =
           IF SubscriberOf[t] = SubscriberOf[s] THEN "running" ELSE state[SubscriberOf[t]]
    BY <2>1, StrategyType DEF LifeTypeOK
  <2>4. \A t \in Calls : SubscriberOf[t] = SubscriberOf[s] => pc[t] = "start"
    BY <1>2 DEF Claimed
  <2>5. "start" \notin Active /\ "start" # "claim"
    BY DEF Active
  <2>6. \A t, u \in Calls :
           SubscriberOf[t] = SubscriberOf[u] /\ pc'[t] \in Active /\ pc'[u] \in Active => t = u
    BY <2>2, <2>4, <2>5 DEF Claimed
  <2>7. \A t \in Calls : state'[SubscriberOf[t]] = "created" => pc'[t] = "start"
    BY <2>2, <2>3 DEF Claimed
  <2>8. \A t \in Calls :
           pc'[t] \in {"claim", "create", "unclaim", "bind", "newConsumer", "handle", "send", "await"}
              => state'[SubscriberOf[t]] = "running"
    BY <2>2, <2>3 DEF Claimed, Running
  <2>9. \A t \in Calls : pc'[t] = "loop" /\ state'[SubscriberOf[t]] # "running" => cancelled'[t]
    BY <2>1, <2>2, <2>3 DEF Claimed, Running
  <2> QED
    BY <2>6, <2>7, <2>8, <2>9 DEF Claimed, Running
<1> QED
  BY <1>1, <1>2

LEMMA ClaimedLife ==
  ASSUME LifeTypeOK, Claimed, NEW s \in Calls,
         \/ Claim(s) \/ Create(s) \/ Bind(s) \/ NewConsumer(s) \/ LoopEnds(s)
         \/ BeginClose(s) \/ Drain(s) \/ Release(s)
  PROVE  Claimed'
<1>1. UNCHANGED <<state, cancelled>> /\ pc[s] \in Active
  BY DEF Claim, Create, Bind, NewConsumer, LoopEnds, BeginClose, Drain, Release, Active, Steps, Holding
<1>2. PICK label \in Active :
         /\ Goto(s, label)
         /\ \/ pc[s] \in {"claim", "create", "bind", "newConsumer"}
            \/ label \in {"close", "drain", "release", "return"}
  BY DEF Claim, Create, Bind, NewConsumer, CleanUp, LoopEnds, BeginClose, Drain, Release,
         Active, Steps, Holding
<1> QED
  BY <1>1, <1>2, ClaimedMove, Zenon DEF Claimed

LEMMA ClaimedLoop ==
  ASSUME LifeTypeOK, Claimed, NEW s \in Calls,
         Poll(s) \/ HandlerSucceeds(s) \/ HandlerFails(s) \/ SendAccepted(s)
  PROVE  Claimed'
<1>1. UNCHANGED <<state, cancelled>> /\ pc[s] \in Active /\ Running(s)
  BY Zenon DEF Poll, HandlerSucceeds, HandlerFails, SendAccepted, Claimed, Active, Steps, Holding
<1>2. PICK label \in Active : Goto(s, label)
  BY DEF Poll, HandlerSucceeds, HandlerFails, SendAccepted, Active, Steps, Holding
<1> QED
  BY <1>1, <1>2, ClaimedMove

LEMMA ClaimedEnd ==
  ASSUME LifeTypeOK, Claimed, NEW s \in Calls,
         CtxDone(s) \/ LoopFails(s) \/ SendRejected(s) \/ Await(s) \/ Return(s)
  PROVE  Claimed'
<1>1. CASE CtxDone(s)
  <2>1. pc' = [pc EXCEPT ![s] = "loop"]
    BY <1>1 DEF CtxDone, LifeTypeOK
  <2> QED
    BY <1>1, <2>1, ClaimedStops, Zenon DEF CtxDone, Goto, Active, Steps, Holding
<1>2. CASE SendRejected(s)
  BY <1>2, ClaimedStops, Zenon DEF SendRejected, HandleErrorFails, Active, Steps, Holding
<1>3. CASE Await(s) /\ ~AllAcked(s)
  BY <1>3, ClaimedStops DEF Await, HandleErrorFails, Active, Steps, Holding
<1>4. CASE Await(s) /\ AllAcked(s)
  <2>1. pc[s] = "await" /\ Goto(s, "loop") /\ UNCHANGED <<state, cancelled>>
    BY <1>4, SMTT(20), Zenon DEF Await
  <2>2. Running(s)
    BY <2>1 DEF Claimed
  <2> QED
    BY <2>1, <2>2, ClaimedMove DEF Active, Steps, Holding
<1>5. CASE Return(s)
  BY <1>5, ClaimedStops, Zenon DEF Return, Ended, Active, Steps, Holding
<1>6. CASE LoopFails(s)
  BY <1>6, ClaimedStops, Zenon DEF LoopFails, Active, Steps, Holding
<1> QED
  BY <1>1, <1>2, <1>3, <1>4, <1>5, <1>6

LEMMA ClaimedStep ==
  ASSUME LifeTypeOK, Claimed, [Next]_vars
  PROVE  Claimed'
<1>1. ASSUME UNCHANGED <<state, pc>>, \A t \in Calls : cancelled[t] => cancelled'[t]
      PROVE  Claimed'
  BY <1>1 DEF Claimed, Running
<1>2. CASE AllReturned \/ UNCHANGED vars
  BY <1>1, <1>2 DEF AllReturned, vars, lifeVars
<1>3. ASSUME NEW s \in Calls, Cancel(s) \/ BrokerAnswers(s)
      PROVE  Claimed'
  <2>1. UNCHANGED <<state, pc>> /\ \A t \in Calls : cancelled[t] => cancelled'[t]
    BY <1>3 DEF Cancel, BrokerAnswers, lifeVars, LifeTypeOK
  <2> QED
    BY <2>1, <1>1
<1> QED
  BY <1>2, <1>3, ClaimedStart, ClaimedLife, ClaimedLoop, ClaimedEnd DEF Next, Step

-----------------------------------------------------------------------------
(***************************************************************************)
(* The theorems.                                                           *)
(***************************************************************************)

Inv == LifeTypeOK /\ Exclusive /\ Owned /\ Delivered /\ Accounted /\ Claimed

LEMMA InitInv ==
  ASSUME Init
  PROVE  Inv
<1>1. LifeTypeOK
  BY DEF Init, LifeTypeOK, Steps
<1>2. \A s \in Calls : pc[s] = "start" /\ pubs[s] = "none"
  BY Zenon DEF Init
<1>3. Exclusive
  BY <1>2 DEF Init, Exclusive, Holds, Holding
<1>4. Owned
  BY <1>2, Zenon DEF Owned, OwnedBy, Using, Holding
<1>5. Delivered
  BY DEF Init, Delivered
<1>6. Accounted
  BY DEF Init, Accounted
<1>7. \A s \in Calls : Running(s) \/ pc[s] \notin {"handle", "send", "await", "loop"}
  BY <1>2, Zenon
<1>8. Claimed
  BY <1>2 DEF Claimed, Active
<1> QED
  BY <1>1, <1>3, <1>4, <1>5, <1>6, <1>8 DEF Inv

LEMMA NextInv ==
  ASSUME Inv, [Next]_vars
  PROVE  Inv'
  BY TypeStep, ExclusiveStep, OwnedStep, DeliveredStep, AccountedStep, ClaimedStep DEF Inv

LEMMA AlwaysInv ==
  Spec => []Inv
  BY InitInv, NextInv, PTL DEF Spec

\* A retry strategy has one consumer at a time, and its inUse flag says whether
\* it has one: the claim of Initialize and the releases of Close and of a failed
\* Initialize, for any calls of Start on any subscribers that share strategies.
THEOREM StrategyExclusive == Spec => []Exclusive
  BY AlwaysInv, PTL DEF Inv

\* A running consumer writes through a publisher of its own that is open, with
\* its own logger: no Initialize and no Close of another Start touches them.
THEOREM StrategyOwnPublisher == Spec => []OwnPublisher
<1>1. Inv => OwnPublisher
  BY DEF Inv, Owned, OwnedBy, OwnPublisher, Using, Holding
<1> QED
  BY <1>1, AlwaysInv, PTL

\* Start leaves no publisher open and no record without its outcome.
THEOREM StrategyNothingLeftOpen == Spec => []NothingLeftOpen
<1>1. Inv => NothingLeftOpen
  <2>1. ASSUME Inv, NEW s \in Calls, pc[s] = "done"
        PROVE  /\ pubs[s] \in {"none", "closed"}
               /\ \A i \in DOMAIN sent[s] : sent[s][i] # "pending"
    <3>1. pubs[s] \in {"none", "closed"}
      BY <2>1 DEF Inv, Owned, OwnedBy
    <3>2. CASE pubs[s] = "closed"
      BY <2>1, <3>2, Zenon DEF Inv, Accounted
    <3>3. CASE pubs[s] = "none"
      BY <2>1, <3>3 DEF Inv, Accounted
    <3> QED
      BY <3>1, <3>2, <3>3
  <2> QED
    BY <2>1 DEF NothingLeftOpen
<1> QED
  BY <1>1, AlwaysInv, PTL

\* A nil from HandleError means that every record was acknowledged, and Close
\* purges only what a locally rejected send kept HandleError from waiting for.
THEOREM StrategyConfirms == Spec => [](ConfirmedMeansAcked /\ PurgedOnlyAfterRejection)
<1>1. Inv => ConfirmedMeansAcked /\ PurgedOnlyAfterRejection
  BY Zenon DEF Inv, Delivered, Accounted, ConfirmedMeansAcked, PurgedOnlyAfterRejection
<1> QED
  BY <1>1, AlwaysInv, PTL

\* A second Start on a subscriber, however it races the first, does not stop it.
THEOREM StrategyLoopIsItsOwn == Spec => []NobodyElseStopsTheLoop
<1>1. Inv => NobodyElseStopsTheLoop
  BY DEF Inv, Claimed, NobodyElseStopsTheLoop
<1> QED
  BY <1>1, AlwaysInv, PTL

\* A subscriber is single-use: no step of any call takes its state back.
THEOREM StrategySingleUse == Spec => SingleUse
<1> DEFINE Forward == \A u \in Subscribers :
              /\ state[u] # "created" => state'[u] # "created"
              /\ state[u] = "stopped" => state'[u] = "stopped"
              /\ state[u] = "stopping" => state'[u] # "running"
<1>1. ASSUME Inv, [Next]_vars
      PROVE  Forward
  <2>1. ASSUME UNCHANGED state
        PROVE  Forward
    BY <2>1
  <2>2. ASSUME NEW s \in Calls, NEW st \in {"running", "stopping", "stopped"},
               state' = [state EXCEPT ![SubscriberOf[s]] = st],
               \/ state[SubscriberOf[s]] = "created" 
               \/ Running(s) /\ st # "running"
               \/ st = "stopped"
        PROVE  Forward
    BY <1>1, <2>2, StrategyType DEF Inv, LifeTypeOK, Running
  <2>3. CASE AllReturned \/ UNCHANGED vars
    BY <2>3, SMTT(20), Zenon DEF AllReturned, vars, lifeVars
  <2>4. ASSUME NEW s \in Calls, Start(s)
        PROVE  Forward
    BY <2>1, <2>2, <2>4 DEF Start
  <2>5. ASSUME NEW s \in Calls, CtxDone(s) \/ LoopFails(s)
        PROVE  Forward
    BY <2>2, <2>5, Zenon DEF CtxDone, LoopFails
  <2>6. ASSUME NEW s \in Calls, SendRejected(s) \/ Await(s)
        PROVE  Forward
    <3>1. Running(s)
      BY <1>1, <2>6 DEF Inv, Claimed, SendRejected, Await
    <3>2. state' = state \/ state' = [state EXCEPT ![SubscriberOf[s]] = "stopping"]
      BY <2>6 DEF SendRejected, Await, HandleErrorFails
    <3> QED
      BY <2>1, <2>2, <3>1, <3>2
  <2>7. ASSUME NEW s \in Calls, Return(s)
        PROVE  Forward
    BY <2>2, <2>7, Zenon DEF Return, Ended
  <2>8. ASSUME NEW s \in Calls, Claim(s) \/ Create(s) \/ Bind(s) \/ NewConsumer(s) \/ Cancel(s) \/ LoopEnds(s)
        PROVE  Forward
    BY <2>1, <2>8 DEF Claim, Create, Bind, NewConsumer, Cancel, LoopEnds
  <2>9. ASSUME NEW s \in Calls, Poll(s) \/ HandlerSucceeds(s) \/ HandlerFails(s) \/ SendAccepted(s)
        PROVE  Forward
    BY <2>1, <2>9, Zenon DEF Poll, HandlerSucceeds, HandlerFails, SendAccepted
  <2>10. ASSUME NEW s \in Calls, BrokerAnswers(s) \/ BeginClose(s) \/ Drain(s) \/ Release(s)
         PROVE  Forward
    BY <2>1, <2>10 DEF BrokerAnswers, BeginClose, Drain, Release, lifeVars
  <2> QED
    BY <1>1, <2>3, <2>4, <2>5, <2>6, <2>7, <2>8, <2>9, <2>10, Zenon DEF Next, Step
<1>2. Inv /\ [Next]_vars => [Forward]_vars
  BY <1>1
<1> QED
  BY <1>2, AlwaysInv, PTL DEF Spec, SingleUse

-----------------------------------------------------------------------------
(***************************************************************************)
(* The lease.                                                              *)
(***************************************************************************)

\* The holder of a strategy is the one call that holds it.
LEMMA HolderIs ==
  ASSUME Exclusive, NEW st \in Strategies
  PROVE  /\ \A s \in Calls : Holds(s, st) => HolderOf(st) = s
         /\ (\A s \in Calls : ~Holds(s, st)) => HolderOf(st) = Nobody
  BY Zenon DEF Exclusive, HolderOf

LEMMA HolderSame ==
  ASSUME Exclusive, Exclusive', NEW st \in Strategies,
         \A s \in Calls : Holds(s, st)' <=> Holds(s, st)
  PROVE  HolderOf(st)' = HolderOf(st)
<1>1. \A s \in Calls : Holds(s, st)' => HolderOf(st)' = s
  BY DEF Exclusive, HolderOf
<1>2. (\A s \in Calls : ~Holds(s, st)') => HolderOf(st)' = Nobody
  BY DEF HolderOf
<1> QED
  BY <1>1, <1>2, HolderIs

\* Apart from a claim that succeeds and from a release, no step moves a call in
\* or out of its strategy.
LEMMA OtherStepsHold ==
  ASSUME LifeTypeOK, [Next]_vars,
         \A s \in Calls : ~(Claim(s) /\ Free(s)) /\ ~Release(s)
  PROVE  \A t \in Calls : pc'[t] \in Holding <=> pc[t] \in Holding
<1>1. ASSUME NEW s \in Calls, NEW label, Goto(s, label), pc[s] \in Holding <=> label \in Holding
      PROVE  \A t \in Calls : pc'[t] \in Holding <=> pc[t] \in Holding
  BY <1>1 DEF Goto, LifeTypeOK
<1>2. ASSUME pc' = pc
      PROVE  \A t \in Calls : pc'[t] \in Holding <=> pc[t] \in Holding
  BY <1>2
<1>3. CASE AllReturned \/ UNCHANGED vars
  BY <1>2, <1>3 DEF AllReturned, vars, lifeVars
<1>4. ASSUME NEW s \in Calls, Start(s) \/ Claim(s) \/ Create(s) \/ Bind(s) \/ NewConsumer(s)
      PROVE  \A t \in Calls : pc'[t] \in Holding <=> pc[t] \in Holding
  <2>1. CASE Start(s)
    BY <1>1, <2>1 DEF Start, Refused, Holding
  <2>2. CASE Claim(s)
    BY <1>1, <2>2 DEF Claim, Holding
  <2>3. CASE Create(s)
    BY <1>1, <2>3 DEF Create, Holding
  <2>4. CASE Bind(s)
    BY <1>1, <2>4 DEF Bind, Holding
  <2>5. CASE NewConsumer(s)
    BY <1>1, <2>5 DEF NewConsumer, CleanUp, Holding
  <2> QED
    BY <1>4, <2>1, <2>2, <2>3, <2>4, <2>5
<1>5. ASSUME NEW s \in Calls, Cancel(s) \/ CtxDone(s) \/ BrokerAnswers(s)
      PROVE  \A t \in Calls : pc'[t] \in Holding <=> pc[t] \in Holding
  BY <1>2, <1>5 DEF Cancel, CtxDone, BrokerAnswers, lifeVars
<1>6. ASSUME NEW s \in Calls,
             \/ LoopEnds(s) \/ LoopFails(s) \/ Poll(s) \/ HandlerSucceeds(s) \/ HandlerFails(s)
             \/ SendAccepted(s) \/ SendRejected(s) \/ Await(s)
      PROVE  \A t \in Calls : pc'[t] \in Holding <=> pc[t] \in Holding
  <2>1. \E label \in Holding : Goto(s, label) /\ pc[s] \in Holding
    BY <1>6, Zenon DEF LoopEnds, LoopFails, Poll, HandlerSucceeds, HandlerFails, SendAccepted, SendRejected, Await,
                HandleErrorFails, Holding
  <2> QED
    BY <1>1, <2>1
<1>7. ASSUME NEW s \in Calls, BeginClose(s) \/ Drain(s) \/ Return(s)
      PROVE  \A t \in Calls : pc'[t] \in Holding <=> pc[t] \in Holding
  <2>1. CASE BeginClose(s)
    BY <1>1, <2>1 DEF BeginClose, Holding
  <2>2. CASE Drain(s)
    BY <1>1, <2>2 DEF Drain, Holding
  <2>3. CASE Return(s)
    BY <1>1, <2>3 DEF Return, Holding
  <2> QED
    BY <1>7, <2>1, <2>2, <2>3, SMTT(20), Zenon
<1> QED
  BY <1>3, <1>4, <1>5, <1>6, <1>7, Zenon DEF Next, Step

\* Sharing a strategy is a lease: every step of the calls acquires a strategy
\* nobody holds, releases one its caller holds, or changes no holder.
THEOREM StrategyImplementsLease == Spec => ImplementsLease
<1> DEFINE holders == [st \in Strategies |-> HolderOf(st)]
<1>1. Init => Lease!Init
  <2> SUFFICES ASSUME Init PROVE Lease!Init
    OBVIOUS
  <2>1. \A s \in Calls, st \in Strategies : ~Holds(s, st)
    BY DEF Init, Holds, Holding
  <2>2. \A st \in Strategies : HolderOf(st) = Nobody
    BY <2>1 DEF HolderOf
  <2> QED
    BY <2>2 DEF Lease!Init
<1>2. ASSUME Inv, Inv', [Next]_vars
      PROVE  [Lease!Next]_holders
  <2> USE DEF Inv
  <2>1. ASSUME NEW s \in Calls, Claim(s), Free(s)
        PROVE  Lease!Next
    <3>0. /\ \A t \in Calls : pc'[t] = IF t = s THEN "create" ELSE pc[t]
          /\ pc[s] = "claim"
      BY <1>2, <2>1 DEF Claim, Goto, LifeTypeOK
    <3>1. /\ \A t \in Calls : ~Holds(t, Strategy(s))
          /\ \A t \in Calls : pc'[t] = IF t = s THEN "create" ELSE pc[t]
          /\ pc[s] = "claim"
      BY <1>2, <2>1, <3>0, StrategyType, Zenon DEF Free, Exclusive
    <3>2. Holds(s, Strategy(s))'
      BY <3>1 DEF Holds, Holding, Strategy
    <3>3. \A t \in Calls, st \in Strategies : st # Strategy(s) => (Holds(t, st)' <=> Holds(t, st))
      BY <3>1 DEF Holds, Holding, Strategy
    <3>4. holders[Strategy(s)] = Nobody
      BY <1>2, <3>1, HolderIs, StrategyType
    <3>5. HolderOf(Strategy(s))' = s
      BY <1>2, <3>2, StrategyType DEF Exclusive, HolderOf, Strategy
    <3>6. \A st \in Strategies : st # Strategy(s) => HolderOf(st)' = HolderOf(st)
      BY <1>2, <3>3, HolderSame
    <3>7. holders' = [holders EXCEPT ![Strategy(s)] = s]
      BY <3>5, <3>6, StrategyType, Zenon
    <3>8. Lease!Acquire(s, Strategy(s))
      BY <3>4, <3>7 DEF Lease!Acquire
    <3> QED
      BY <3>8, StrategyType DEF Lease!Next
  <2>2. ASSUME NEW s \in Calls, Release(s)
        PROVE  Lease!Next
    <3>1. /\ Holds(s, Strategy(s))
          /\ \A t \in Calls : pc'[t] = IF t = s THEN "return" ELSE pc[t]
      BY <1>2, <2>2 DEF Release, Goto, LifeTypeOK, Holds, Holding
    <3>0. \A t \in Calls : t # s => ~Holds(t, Strategy(s))
      BY <1>2, <3>1, StrategyType DEF Exclusive
    <3>2. \A t \in Calls : ~Holds(t, Strategy(s))'
      BY <3>0, <3>1 DEF Holds, Holding, Strategy
    <3>3. \A t \in Calls, st \in Strategies : st # Strategy(s) => (Holds(t, st)' <=> Holds(t, st))
      BY <3>1 DEF Holds, Holding, Strategy
    <3>4. holders[Strategy(s)] = s
      BY <1>2, <3>1, HolderIs, StrategyType
    <3>5. HolderOf(Strategy(s))' = Nobody
      BY <3>2 DEF HolderOf, Strategy
    <3>6. \A st \in Strategies : st # Strategy(s) => HolderOf(st)' = HolderOf(st)
      BY <1>2, <3>3, HolderSame
    <3>7. holders' = [holders EXCEPT ![Strategy(s)] = Nobody]
      BY <3>5, <3>6, StrategyType, Zenon
    <3>8. Lease!Release(s, Strategy(s))
      BY <3>4, <3>7 DEF Lease!Release
    <3> QED
      BY <3>8, StrategyType DEF Lease!Next
  <2>3. CASE \A s \in Calls : ~(Claim(s) /\ Free(s)) /\ ~Release(s)
    <3>1. \A t \in Calls, st \in Strategies : Holds(t, st)' <=> Holds(t, st)
      BY <1>2, <2>3, OtherStepsHold DEF Holds, Strategy
    <3>2. \A st \in Strategies : HolderOf(st)' = HolderOf(st)
      BY <1>2, <3>1, HolderSame
    <3> QED
      BY <3>2
  <2> QED
    BY <2>1, <2>2, <2>3
<1> QED
  BY <1>1, <1>2, AlwaysInv, PTL DEF Spec, ImplementsLease, Lease!Spec

=============================================================================
