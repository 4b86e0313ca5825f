--------------------------- MODULE PublisherProofs ---------------------------
(***************************************************************************)
(* That the publisher keeps its contract, for any number of senders and    *)
(* Close calls, any queue, and any number of duplicate reports and fatal   *)
(* errors; and that a Close that returns nil has purged nothing.           *)
(***************************************************************************)
EXTENDS Publisher, Functions, FiniteSetTheorems, TLAPS

\* What Send answered, by where it is, and what Wait returned.
Senders ==
    \A r \in Records :
        /\ sender[r] \in {"idle", "locked"} <=> answer[r] = "none"
        /\ sender[r] = "waiting" => answer[r] = "accepted"
        /\ waited[r] \in Codes => delivery[r] = waited[r]

\* The reports on their way to the report goroutine.
Queued == {e \in Range(events) \cup {translated} : e \in Reports}

\* Only accepted records are held, reported on or resolved.
Sources ==
    /\ \A r \in held : answer[r] = "accepted"
    /\ \A e \in inside \cap Reports : answer[e.rec] = "accepted"
    /\ \A e \in Queued : answer[e.rec] = "accepted"
    /\ \A r \in Records : delivery[r] # "pending" => answer[r] = "accepted"

\* What the report goroutine has in its hands between the callback and resolve
\* is the failure of a record that is not resolved yet.
InHand ==
    reporter \in {"callback", "resolve"} =>
        /\ report \in Reports
        /\ report.code # "acked"
        /\ delivery[report.rec] = "pending"
        /\ answer[report.rec] = "accepted"

\* The callback has run once for a failed record, and for none other.
Told ==
    \A r \in Records :
        callbacks[r] = IF delivery[r] \in {"refused", "purged"} \/ (reporter = "resolve" /\ report.rec = r)
                       THEN 1 ELSE 0

\* A fatal error comes from a producer that has failed, and the handler has run
\* once for the first, or is about to.
Fatality ==
    /\ fatal \/ FatalErr \in inside \cup Range(events) \cup {translated} => failed
    /\ reporter = "onFatal" => fatal
    /\ fatalCalls = IF fatal /\ reporter # "onFatal" THEN 1 ELSE 0

\* The report of r has left librdkafka and is not worked off yet.
OnItsWay(r) ==
    \/ \E e \in Queued : e.rec = r
    \/ reporter \in {"callback", "resolve"} /\ report.rec = r

\* r was accepted, and its delivery is not resolved.
Open(r) == answer[r] = "accepted" /\ delivery[r] = "pending"

\* No open record is forgotten: librdkafka has it, or its report.
Tracked ==
    \A r \in Records : Open(r) =>
        r \in held \/ (\E e \in inside \cap Reports : e.rec = r) \/ OnItsWay(r)

\* What a Close that has got so far can rely on.
Shutdown ==
    /\ \A c \in Closers : closer[c] \notin {"idle", "locking"} => closed
    /\ closed => \A r \in Records : sender[r] # "locked"
    /\ ~handleOpen => closed
    /\ ~handleOpen \/ (\E c \in Closers : closer[c] \in {"destroying", "reports"}) =>
          \A r \in Records : Open(r) => OnItsWay(r)
    /\ reporter = "done" => ~handleOpen /\ events = <<>> /\ translated = NoEvent
    /\ \A c \in Closers : closer[c] = "returned" => reporter = "done"
    /\ closeErr.done => reporter = "done"

\* The Close call that shuts down.
First(c) == closer[c] \in {"draining", "purging", "flushing", "destroying", "reports"}

\* There is one of them, it sets closeErr once, and everybody returns that.
Agreement ==
    /\ \A c, d \in Closers : First(c) /\ First(d) => c = d
    /\ closeErr.done => closed /\ \A c \in Closers : ~First(c)
    /\ closeErr.fatal => fatal
    /\ \A c \in Closers : returned[c].done => closeErr.done /\ returned[c] = closeErr

\* The sets librdkafka keeps are finite, so an empty count means an empty set.
Finite == IsFiniteSet(held) /\ IsFiniteSet(inside)

\* The inductive invariant.
PInv ==
    /\ TypeOK /\ Finite /\ Senders /\ Sources /\ InHand /\ Told /\ Fatality
    /\ Tracked /\ Shutdown /\ Agreement

-----------------------------------------------------------------------------
(***************************************************************************)
(* Events and sequences of them.                                           *)
(***************************************************************************)

\* A report names its record and its code.
LEMMA ReportFields ==
  ASSUME NEW e \in Reports
  PROVE  e.kind = "report" /\ e.rec \in Records /\ e.code \in Codes
  BY DEF Reports, Report

\* Making one.
LEMMA ReportOf ==
  ASSUME NEW r \in Records, NEW code \in Codes
  PROVE  Report(r, code) \in Reports /\ Report(r, code).rec = r /\ Report(r, code).code = code
  BY DEF Reports, Report

\* The three kinds of events are told apart by their kind.
LEMMA EventKinds ==
  /\ FatalErr \in Events /\ FatalErr \notin Reports /\ NoEvent \notin Reports /\ NoEvent # FatalErr
  /\ \A e \in Events \cup {NoEvent} : e.kind = "report" <=> e \in Reports
<1>1. FatalErr.kind = "fatal" /\ NoEvent.kind = "none"
  BY DEF FatalErr, NoEvent
<1> QED
  BY <1>1, ReportFields DEF Events

\* Appending to the channel adds one event.
LEMMA ChannelAppend ==
  ASSUME NEW s \in Seq(Events), NEW e \in Events
  PROVE  Append(s, e) \in Seq(Events) /\ Range(Append(s, e)) = Range(s) \cup {e}
<1>1. Append(s, e) \in Seq(Events) /\ Len(s) \in Nat /\ DOMAIN s = 1 .. Len(s)
  OBVIOUS
<1>2. DOMAIN Append(s, e) = 1 .. (Len(s) + 1) /\ Append(s, e)[Len(s) + 1] = e
  OBVIOUS
<1>3. \A i \in 1 .. Len(s) : Append(s, e)[i] = s[i] /\ i \in 1 .. (Len(s) + 1)
  BY <1>1
<1>4. \A i \in 1 .. (Len(s) + 1) : i \in 1 .. Len(s) \/ i = Len(s) + 1
  BY <1>1
<1>5. Len(s) + 1 \in 1 .. (Len(s) + 1)
  BY <1>1
<1> QED
  BY <1>1, <1>2, <1>3, <1>4, <1>5, Zenon DEF Range

\* Taking one from it leaves the others.
LEMMA ChannelTake ==
  ASSUME NEW s \in Seq(Events), s # <<>>
  PROVE  Head(s) \in Events /\ Tail(s) \in Seq(Events) /\ Range(s) = Range(Tail(s)) \cup {Head(s)}
<1>1. Len(s) \in Nat \ {0} /\ DOMAIN s = 1 .. Len(s)
  OBVIOUS
<1>2. Head(s) = s[1] /\ Tail(s) \in Seq(Events) /\ DOMAIN Tail(s) = 1 .. (Len(s) - 1)
  BY <1>1
<1>3. \A i \in 1 .. (Len(s) - 1) : Tail(s)[i] = s[i + 1] /\ i + 1 \in 1 .. Len(s)
  BY <1>1
<1>4. \A i \in 1 .. Len(s) : i = 1 \/ (i - 1 \in 1 .. (Len(s) - 1) /\ Tail(s)[i - 1] = s[i])
  BY <1>1
<1>5. 1 \in 1 .. Len(s)
  BY <1>1
<1>6. Range(Tail(s)) \cup {Head(s)} \subseteq Range(s)
  BY <1>1, <1>2, <1>3, <1>5, Zenon DEF Range
<1>7. Range(s) \subseteq Range(Tail(s)) \cup {Head(s)}
  <2>1. SUFFICES ASSUME NEW i \in 1 .. Len(s)
                 PROVE  s[i] = Head(s) \/ \E j \in DOMAIN Tail(s) : s[i] = Tail(s)[j]
    BY <1>1, Zenon DEF Range
  <2>2. CASE i = 1
    BY <1>2, <2>2
  <2>3. CASE i - 1 \in DOMAIN Tail(s) /\ Tail(s)[i - 1] = s[i]
    BY <2>3
  <2> QED
    BY <1>2, <1>4, <2>2, <2>3
<1>8. Head(s) \in Events
  BY <1>1, <1>2, <1>5
<1> QED
  BY <1>2, <1>6, <1>7, <1>8

\* An empty channel has no events.
LEMMA ChannelEmpty == Range(<<>>) = {}
  BY DEF Range

\* Counting nothing, in librdkafka or in the channel, means that nothing is there.
LEMMA NothingPending ==
  ASSUME TypeOK, Finite, PendingLen = 0
  PROVE  held = {} /\ inside = {} /\ events = <<>>
<1>1. Cardinality(held) \in Nat /\ Cardinality(inside) \in Nat
  BY FS_CardinalityType DEF Finite
<1>2. Len(events) \in Nat /\ events \in Seq(Events)
  BY DEF TypeOK
<1>3. Cardinality(held) = 0 /\ Cardinality(inside) = 0 /\ Len(events) = 0
  BY <1>1, <1>2 DEF PendingLen
<1>4. held = {} /\ inside = {}
  BY <1>3, FS_EmptySet DEF Finite
<1> QED
  BY <1>2, <1>3, <1>4

-----------------------------------------------------------------------------
(***************************************************************************)
(* Sending.                                                                *)
(***************************************************************************)

\* What the four steps of a sender leave alone.
Aside == <<outcomes, closeVars, reportVars, translated, ping,
           purging, failed, inside, events, handleOpen, duplicates>>

\* A step of a sender keeps the types.
LEMMA SendType ==
  ASSUME PInv, NEW r \in Records, EncodeFails(r) \/ Enqueue(r) \/ Produce(r) \/ Wait(r)
  PROVE  TypeOK' /\ Finite' /\ UNCHANGED Aside
<1>1. UNCHANGED Aside
  BY DEF Aside, EncodeFails, Enqueue, Produce, Wait, rdVars
<1>t. /\ sender \in [Records -> {"idle", "locked", "waiting", "done"}]
      /\ answer \in [Records -> {"none", "accepted", "ErrEncode", "ErrClosed", "ErrFatal", "ErrQueueFull"}]
      /\ waited \in [Records -> Codes \cup {"none", "ctxErr"}]
      /\ delivery \in [Records -> Codes \cup {"pending"}]
  BY DEF PInv, TypeOK
<1>2. sender' \in [Records -> {"idle", "locked", "waiting", "done"}]
  BY <1>t DEF EncodeFails, Enqueue, Produce, Wait
<1>3. answer' \in [Records -> {"none", "accepted", "ErrEncode", "ErrClosed", "ErrFatal", "ErrQueueFull"}]
  BY <1>t DEF EncodeFails, Enqueue, Produce, Wait
<1>4. waited' \in [Records -> Codes \cup {"none", "ctxErr"}]
  BY <1>t DEF EncodeFails, Enqueue, Produce, Wait
<1>5. held' = held \/ held' = held \cup {r}
  BY DEF EncodeFails, Enqueue, Produce, Wait, rdVars
<1>6. TypeOK'
  BY <1>1, <1>2, <1>3, <1>4, <1>5
     DEF PInv, TypeOK, Aside, outcomes, closeVars, reportVars
<1>7. IsFiniteSet(held')
  BY <1>5, FS_AddElement DEF PInv, Finite
<1> QED
  BY <1>1, <1>6, <1>7 DEF PInv, Finite, Aside

\* A step of a sender keeps the rest of the invariant: a record is accepted only
\* under the lock, so before any Close has gone past it.
LEMMA SendKeeps ==
  ASSUME PInv, NEW r \in Records, EncodeFails(r) \/ Enqueue(r) \/ Produce(r) \/ Wait(r)
  PROVE  PInv'
<1>1. TypeOK' /\ Finite' /\ UNCHANGED Aside
  BY SendType
<1>2. /\ UNCHANGED <<delivery, callbacks, closed, closer, remaining, closeErr, returned, reporter, report>>
      /\ UNCHANGED <<fatal, fatalCalls, translated, failed, inside, events, handleOpen>>
  BY <1>1 DEF Aside, outcomes, closeVars, reportVars
<1>3. Told' /\ Fatality' /\ Agreement'
  BY <1>2 DEF PInv, Told, Fatality, Agreement, First
<1>t. /\ sender \in [Records -> {"idle", "locked", "waiting", "done"}]
      /\ answer \in [Records -> {"none", "accepted", "ErrEncode", "ErrClosed", "ErrFatal", "ErrQueueFull"}]
      /\ waited \in [Records -> Codes \cup {"none", "ctxErr"}]
      /\ delivery \in [Records -> Codes \cup {"pending"}]
  BY DEF PInv, TypeOK
<1>s. /\ sender[r] \in {"idle", "locked"} <=> answer[r] = "none"
      /\ sender[r] = "waiting" => answer[r] = "accepted"
      /\ waited[r] \in Codes => delivery[r] = waited[r]
  BY DEF PInv, Senders
<1>4. \A x \in Records : x # r => sender'[x] = sender[x] /\ answer'[x] = answer[x] /\ waited'[x] = waited[x]
  BY <1>t DEF EncodeFails, Enqueue, Produce, Wait
<1>5. Senders'
  <2>1. /\ sender'[r] \in {"idle", "locked"} <=> answer'[r] = "none"
        /\ sender'[r] = "waiting" => answer'[r] = "accepted"
        /\ waited'[r] \in Codes => delivery[r] = waited'[r]
    <3>1. CASE EncodeFails(r)
      BY <3>1, <1>t, <1>s DEF EncodeFails
    <3>2. CASE Enqueue(r)
      BY <3>2, <1>t, <1>s DEF Enqueue
    <3>3. CASE Produce(r)
      BY <3>3, <1>t, <1>s DEF Produce
    <3>4. CASE Wait(r)
      BY <3>4, <1>t, <1>s DEF Wait, Codes
    <3> QED
      BY <3>1, <3>2, <3>3, <3>4
  <2> QED
    BY <1>2, <1>4, <2>1 DEF PInv, Senders
<1>6. answer[r] = "accepted" => answer'[r] = "accepted"
  BY <1>t, <1>s DEF EncodeFails, Enqueue, Produce, Wait
<1>7. \A x \in Records : answer[x] = "accepted" => answer'[x] = "accepted"
  BY <1>4, <1>6
<1>8. held' = held \/ (held' = held \cup {r} /\ answer'[r] = "accepted")
  BY <1>t DEF EncodeFails, Enqueue, Produce, Wait, rdVars
<1>9. answer'[r] = "accepted" /\ answer[r] # "accepted" => ~closed /\ r \in held'
  <2>1. sender[r] = "locked" => ~closed
    BY DEF PInv, Shutdown
  <2> QED
    BY <1>t, <2>1 DEF EncodeFails, Enqueue, Produce, Wait
<1>10. Queued' = Queued
  BY <1>2 DEF Queued
<1>11. Sources'
  <2>1. \A e \in Queued : e \in Reports
    BY DEF Queued
  <2> QED
    BY <1>2, <1>7, <1>8, <1>10, <2>1, ReportFields DEF PInv, TypeOK, Sources
<1>12. InHand'
  BY <1>2, <1>7, ReportFields DEF PInv, InHand
<1>13. \A x \in Records : Open(x)' => Open(x) \/ (x = r /\ ~closed /\ r \in held')
  BY <1>2, <1>4, <1>9, SMTT(20), Zenon DEF Open
<1>14. \A x : OnItsWay(x)' <=> OnItsWay(x)
  BY <1>2, <1>10, SMTT(20), Zenon DEF OnItsWay
<1>15. Tracked'
  BY <1>2, <1>8, <1>13, <1>14 DEF PInv, Tracked
<1>16. closed => sender'[r] # "locked"
  BY DEF EncodeFails, Enqueue, Produce, Wait, PInv, TypeOK
<1>17. Shutdown'
  BY <1>2, <1>4, <1>13, <1>14, <1>16, Zenon DEF PInv, Shutdown
<1> QED
  BY <1>1, <1>3, <1>5, <1>11, <1>12, <1>15, <1>17 DEF PInv

-----------------------------------------------------------------------------
(***************************************************************************)
(* librdkafka.                                                             *)
(***************************************************************************)

\* What neither a sender, a Close, nor the report goroutine has done.
Within == <<sendVars, outcomes, closeVars, reportVars, translated, ping, handleOpen>>

\* A step within librdkafka touches neither deliveries nor goroutines, so what
\* is said of those alone is kept.
LEMMA WithinKeeps ==
  ASSUME PInv, UNCHANGED Within
  PROVE  /\ Senders' /\ InHand' /\ Told' /\ Agreement'
         /\ \A r : Open(r)' <=> Open(r)
         /\ UNCHANGED <<sender, answer, delivery, reporter, report, fatal, fatalCalls, translated, handleOpen>>
         /\ UNCHANGED <<closed, closer, closeErr>>
<1>1. /\ UNCHANGED <<sender, answer, waited, delivery, callbacks, reporter, report, fatal, fatalCalls>>
      /\ UNCHANGED <<translated, handleOpen, closed, closer, closeErr, returned>>
  BY DEF Within, sendVars, outcomes, closeVars, reportVars
<1>2. Senders' /\ InHand' /\ Told'
  BY <1>1 DEF PInv, Senders, InHand, Told
<1>3. Agreement' /\ \A r : Open(r)' <=> Open(r)
  BY <1>1 DEF PInv, Agreement, First, Open
<1> QED
  BY <1>1, <1>2, <1>3

\* A record librdkafka holds is reported on.
LEMMA ReportedKeeps ==
  ASSUME PInv, NEW r \in Records, NEW code \in Codes, Reported(r, code)
  PROVE  PInv'
<1>1. /\ r \in held /\ held' = held \ {r} /\ inside' = inside \cup {Report(r, code)}
      /\ events' = events /\ failed' = failed /\ purging' = purging /\ duplicates' = duplicates
      /\ UNCHANGED Within
  BY DEF Reported, Within
<1>2. /\ Senders' /\ InHand' /\ Told' /\ Agreement'
      /\ \A x : Open(x)' <=> Open(x)
      /\ UNCHANGED <<sender, answer, delivery, reporter, report, fatal, fatalCalls, translated, handleOpen>>
      /\ UNCHANGED <<closed, closer, closeErr>>
  BY <1>1, WithinKeeps
<1>3. Report(r, code) \in Reports /\ Report(r, code).rec = r /\ Report(r, code) # FatalErr
  BY ReportOf, EventKinds
<1>4. TypeOK'
  BY <1>1, <1>3 DEF PInv, TypeOK, Events, Within, sendVars, outcomes, closeVars, reportVars
<1>5. Finite'
  BY <1>1, FS_AddElement, FS_RemoveElement DEF PInv, Finite
<1>6. Queued' = Queued /\ \A x : OnItsWay(x)' <=> OnItsWay(x)
  BY <1>1, <1>2 DEF Queued, OnItsWay
<1>7. Sources'
  BY <1>1, <1>2, <1>3, <1>6, Zenon DEF PInv, Sources
<1>8. Fatality'
  BY <1>1, <1>2, <1>3 DEF PInv, Fatality
<1>9. Tracked'
  BY <1>1, <1>2, <1>3, <1>6, Zenon DEF PInv, Tracked
<1>10. Shutdown'
  BY <1>1, <1>2, <1>6 DEF PInv, Shutdown
<1> QED
  BY <1>2, <1>4, <1>5, <1>7, <1>8, <1>9, <1>10 DEF PInv

\* A further report on an accepted record, or a fatal error.
LEMMA MoreInside ==
  ASSUME PInv, UNCHANGED <<Within, held, events>>, NEW e \in Events, inside' = inside \cup {e},
         e \in Reports => answer[e.rec] = "accepted", failed => failed', e = FatalErr => failed',
         purging' \in BOOLEAN, failed' \in BOOLEAN, duplicates' \in Nat
  PROVE  PInv'
<1>1. UNCHANGED Within /\ held' = held /\ events' = events
  OBVIOUS
<1>2. /\ Senders' /\ InHand' /\ Told' /\ Agreement'
      /\ \A x : Open(x)' <=> Open(x)
      /\ UNCHANGED <<sender, answer, delivery, reporter, report, fatal, fatalCalls, translated, handleOpen>>
      /\ UNCHANGED <<closed, closer, closeErr>>
  BY <1>1, WithinKeeps, Zenon
<1>3. TypeOK'
  BY <1>1 DEF PInv, TypeOK, Within, sendVars, outcomes, closeVars, reportVars
<1>4. Finite'
  BY <1>1, FS_AddElement DEF PInv, Finite
<1>5. Queued' = Queued /\ \A x : OnItsWay(x)' <=> OnItsWay(x)
  BY <1>1, <1>2 DEF Queued, OnItsWay
<1>6. Sources'
  BY <1>1, <1>2, <1>5 DEF PInv, Sources
<1>7. Fatality'
  BY <1>1, <1>2 DEF PInv, Fatality
<1>8. Tracked'
  BY <1>1, <1>2, <1>5 DEF PInv, Tracked
<1>9. Shutdown'
  BY <1>1, <1>2, <1>5 DEF PInv, Shutdown
<1> QED
  BY <1>2, <1>3, <1>4, <1>6, <1>7, <1>8, <1>9, Zenon DEF PInv

\* A second report, and a failure of the producer.
LEMMA FaultKeeps ==
  ASSUME PInv, FailFatally \/ \E r \in Records : ReportAgain(r)
  PROVE  PInv'
<1>1. CASE FailFatally
  <2>1. UNCHANGED <<Within, held, events>> /\ inside' = inside \cup {FatalErr} /\ failed' = TRUE /\ purging' = TRUE
    BY <1>1 DEF FailFatally, Within
  <2>2. duplicates' \in Nat
    BY <1>1 DEF FailFatally, PInv, TypeOK
  <2> QED
    BY <2>1, <2>2, MoreInside, EventKinds
<1>2. ASSUME NEW r \in Records, ReportAgain(r)
      PROVE  PInv'
  <2>1. PICK code \in Codes : inside' = inside \cup {Report(r, code)}
    BY <1>2 DEF ReportAgain
  <2>2. UNCHANGED <<Within, held, events>> /\ failed' = failed /\ purging' = purging /\ answer[r] = "accepted"
    BY <1>2 DEF ReportAgain, Within
  <2>3. duplicates' \in Nat /\ failed' \in BOOLEAN /\ purging' \in BOOLEAN
    BY <1>2, <2>2 DEF ReportAgain, PInv, TypeOK
  <2>4. Report(r, code) \in Events /\ Report(r, code).rec = r /\ Report(r, code) # FatalErr
    BY ReportOf, EventKinds DEF Events
  <2> QED
    BY <2>1, <2>2, <2>3, <2>4, MoreInside
<1> QED
  BY <1>1, <1>2

\* An event leaves librdkafka for the channel.
LEMMA HandOverKeeps ==
  ASSUME PInv, HandOver
  PROVE  PInv'
<1>1. PICK e \in inside : inside' = inside \ {e} /\ events' = Append(events, e)
  BY DEF HandOver
<1>2. UNCHANGED Within /\ held' = held /\ failed' = failed /\ purging' = purging /\ duplicates' = duplicates /\ handleOpen
  BY DEF HandOver, Within
<1>3. /\ Senders' /\ InHand' /\ Told' /\ Agreement'
      /\ \A x : Open(x)' <=> Open(x)
      /\ UNCHANGED <<sender, answer, delivery, reporter, report, fatal, fatalCalls, translated, handleOpen>>
      /\ UNCHANGED <<closed, closer, closeErr>>
  BY <1>2, WithinKeeps
<1>4. e \in Events /\ events \in Seq(Events)
  BY DEF PInv, TypeOK
<1>5. events' \in Seq(Events) /\ Range(events') = Range(events) \cup {e}
  BY <1>1, <1>4, ChannelAppend
<1>6. TypeOK'
  BY <1>1, <1>2, <1>5 DEF PInv, TypeOK, Within, sendVars, outcomes, closeVars, reportVars
<1>7. Finite'
  BY <1>1, <1>2, FS_RemoveElement DEF PInv, Finite
<1>8. Queued' = Queued \cup {x \in {e} : x \in Reports}
  BY <1>3, <1>5 DEF Queued
<1>9. Sources'
  BY <1>1, <1>2, <1>3, <1>8 DEF PInv, Sources
<1>10. Fatality'
  BY <1>1, <1>2, <1>3, <1>5 DEF PInv, Fatality
<1>11. \A x : OnItsWay(x)' <=> OnItsWay(x) \/ (e \in Reports /\ e.rec = x)
  BY <1>3, <1>8 DEF OnItsWay
<1>12. Tracked'
  BY <1>1, <1>2, <1>3, <1>11 DEF PInv, Tracked
<1>13. Shutdown'
  BY <1>2, <1>3, <1>11 DEF PInv, Shutdown
<1> QED
  BY <1>3, <1>6, <1>7, <1>9, <1>10, <1>12, <1>13 DEF PInv

-----------------------------------------------------------------------------
(***************************************************************************)
(* The report goroutine.                                                   *)
(***************************************************************************)

\* What the report goroutine leaves alone.
Beside == <<sendVars, closeVars, ping, held, purging, failed, inside, handleOpen, duplicates>>

\* A report is worked off if it resolves its record: no other record loses its
\* place on the way, and a delivery is resolved once.
LEMMA WorkedOff ==
  ASSUME PInv, UNCHANGED Beside, reporter # "done",
         reporter' = "done" => ~handleOpen /\ events' = <<>> /\ translated' = NoEvent,
         Queued' \subseteq Queued, fatal => fatal',
         \A r \in Records : delivery'[r] = delivery[r] \/ (delivery[r] = "pending" /\ answer[r] = "accepted"),
         \A r \in Records : Open(r)' /\ OnItsWay(r) => OnItsWay(r)'
  PROVE  Finite' /\ Senders' /\ Sources' /\ Tracked' /\ Shutdown' /\ Agreement'
<1>1. /\ UNCHANGED <<sender, answer, waited, closed, closer, closeErr, returned>>
      /\ UNCHANGED <<held, inside, handleOpen>>
  BY DEF Beside, sendVars, closeVars
<1>2. Senders'
  <2>1. \A r \in Records : waited[r] \in Codes => delivery'[r] = waited[r]
    BY DEF PInv, Senders, Codes
  <2> QED
    BY <1>1, <2>1, Zenon DEF PInv, Senders
<1>3. Sources'
  BY <1>1 DEF PInv, Sources
<1>4. \A r \in Records : Open(r)' => Open(r)
  BY <1>1 DEF Open
<1>5. Tracked'
  BY <1>1, <1>4 DEF PInv, Tracked
<1>6. Shutdown'
  BY <1>1, <1>4 DEF PInv, Shutdown
<1>7. Agreement'
  BY <1>1 DEF PInv, Agreement, First
<1> QED
  BY <1>1, <1>2, <1>3, <1>5, <1>6, <1>7 DEF PInv, Finite

\* translate.
LEMMA TranslateKeeps ==
  ASSUME PInv, Translate
  PROVE  PInv'
<1>1. /\ translated = NoEvent /\ events # <<>> /\ translated' = Head(events) /\ events' = Tail(events)
      /\ UNCHANGED Beside /\ UNCHANGED <<delivery, callbacks, reporter, report, fatal, fatalCalls>>
  BY DEF Translate, Beside, outcomes, reportVars
<1>2. /\ events \in Seq(Events) /\ Head(events) \in Events /\ Tail(events) \in Seq(Events)
      /\ Range(events) = Range(Tail(events)) \cup {Head(events)}
  BY <1>1, ChannelTake DEF PInv, TypeOK
<1>3. TypeOK'
  BY <1>1, <1>2 DEF PInv, TypeOK, Beside, sendVars, closeVars
<1>4. Queued' = Queued
  BY <1>1, <1>2, EventKinds DEF Queued
<1>5. \A r \in Records : OnItsWay(r) => OnItsWay(r)'
  BY <1>1, <1>4 DEF OnItsWay
<1>6. reporter # "done" /\ reporter' # "done"
  BY <1>1 DEF PInv, Shutdown
<1>7. Finite' /\ Senders' /\ Sources' /\ Tracked' /\ Shutdown' /\ Agreement'
  BY <1>1, <1>4, <1>5, <1>6, WorkedOff
<1>8. InHand' /\ Told'
  <2>1. answer' = answer
    BY <1>1 DEF Beside, sendVars
  <2> QED
    BY <1>1, <2>1 DEF PInv, InHand, Told
<1>9. Fatality'
  <2>1. failed' = failed /\ inside' = inside
    BY <1>1 DEF Beside
  <2> QED
    BY <1>1, <1>2, <2>1 DEF PInv, Fatality
<1> QED
  BY <1>3, <1>7, <1>8, <1>9 DEF PInv

\* settle, up to the callback.
LEMMA SettleKeeps ==
  ASSUME PInv, Settle
  PROVE  PInv'
<1> DEFINE r == translated.rec
<1>1. /\ reporter = "read" /\ translated.kind = "report" /\ translated' = NoEvent /\ events' = events
      /\ UNCHANGED Beside /\ UNCHANGED <<callbacks, fatal, fatalCalls>>
  BY DEF Settle, Beside, rdVars
<1>2. translated \in Reports /\ r \in Records /\ translated.code \in Codes
  BY <1>1, EventKinds, ReportFields DEF PInv, TypeOK
<1>3. answer[r] = "accepted"
  BY <1>2 DEF PInv, Sources, Queued
<1>4. Queued = {e \in Range(events) : e \in Reports} \cup {translated}
  BY <1>2 DEF Queued
<1>5. Queued' = {e \in Range(events) : e \in Reports}
  BY <1>1, EventKinds DEF Queued
<1>6. reporter' # "done" => Fatality'
  <2> HAVE reporter' # "done"
  <2>1. reporter' \in {"read", "callback"}
    BY <1>1 DEF Settle
  <2>2. failed' = failed /\ inside' = inside
    BY <1>1 DEF Beside
  <2> QED
    BY <1>1, <2>1, <2>2, EventKinds DEF PInv, Fatality
<1>7. CASE delivery[r] # "pending" /\ UNCHANGED <<delivery, reporter, report>>
  <2>1. TypeOK'
    BY <1>1, <1>7 DEF PInv, TypeOK, Beside, sendVars, closeVars
  <2>2. \A x \in Records : Open(x)' /\ OnItsWay(x) => OnItsWay(x)'
    BY <1>1, <1>4, <1>5, <1>7 DEF Open, OnItsWay
  <2>3. Finite' /\ Senders' /\ Sources' /\ Tracked' /\ Shutdown' /\ Agreement'
    BY <1>1, <1>4, <1>5, <1>7, <2>2, WorkedOff, Zenon
  <2>4. InHand' /\ Told'
    BY <1>1, <1>7, Zenon DEF PInv, InHand, Told
  <2> QED
    BY <1>1, <1>6, <1>7, <2>1, <2>3, <2>4 DEF PInv
<1>8. CASE /\ delivery[r] = "pending" /\ translated.code = "acked"
           /\ delivery' = [delivery EXCEPT ![r] = "acked"] /\ UNCHANGED <<reporter, report>>
  <2>1. delivery'[r] = "acked" /\ \A x \in Records : x # r => delivery'[x] = delivery[x]
    BY <1>2, <1>8 DEF PInv, TypeOK
  <2>2. delivery' \in [Records -> Codes \cup {"pending"}]
    BY <1>2, <1>8 DEF PInv, TypeOK, Codes
  <2>3. TypeOK'
    BY <1>1, <1>8, <2>2 DEF PInv, TypeOK, Beside, sendVars, closeVars
  <2>4. \A x \in Records : Open(x)' /\ OnItsWay(x) => OnItsWay(x)'
    BY <1>1, <1>4, <1>5, <1>8, <2>1 DEF Open, OnItsWay
  <2>5. Finite' /\ Senders' /\ Sources' /\ Tracked' /\ Shutdown' /\ Agreement'
    BY <1>1, <1>3, <1>4, <1>5, <1>8, <2>1, <2>4, WorkedOff, Zenon
  <2>6. InHand' /\ Told'
    BY <1>1, <1>8, <2>1 DEF PInv, InHand, Told
  <2> QED
    BY <1>1, <1>6, <1>8, <2>3, <2>5, <2>6 DEF PInv
<1>9. CASE /\ delivery[r] = "pending" /\ translated.code # "acked"
           /\ reporter' = "callback" /\ report' = translated /\ UNCHANGED delivery
  <2>1. TypeOK'
    BY <1>1, <1>2, <1>9 DEF PInv, TypeOK, Beside, sendVars, closeVars
  <2>2. \A x \in Records : Open(x)' /\ OnItsWay(x) => OnItsWay(x)'
    BY <1>1, <1>4, <1>5, <1>9 DEF Open, OnItsWay
  <2>3. Finite' /\ Senders' /\ Sources' /\ Tracked' /\ Shutdown' /\ Agreement'
    BY <1>1, <1>4, <1>5, <1>9, <2>2, WorkedOff, Zenon
  <2>4. InHand'
    <3>1. answer' = answer
      BY <1>1 DEF Beside, sendVars
    <3> QED
      BY <1>2, <1>3, <1>9, <3>1 DEF InHand
  <2>5. Told'
    BY <1>1, <1>9 DEF PInv, Told
  <2> QED
    BY <1>6, <1>9, <2>1, <2>3, <2>4, <2>5 DEF PInv
<1> QED
  BY <1>7, <1>8, <1>9 DEF Settle

\* The callback, and the resolution of a failed delivery after it.
LEMMA FailureKeeps ==
  ASSUME PInv, InvokeDeliveryErrorFunc \/ ResolveFailed
  PROVE  PInv'
<1> DEFINE r == report.rec
<1>1. /\ UNCHANGED Beside /\ UNCHANGED <<events, translated, fatal, fatalCalls>>
      /\ reporter \in {"callback", "resolve"}
  BY DEF InvokeDeliveryErrorFunc, ResolveFailed, Beside, rdVars
<1>2. /\ report \in Reports /\ r \in Records /\ report.code \in {"refused", "purged"}
      /\ delivery[r] = "pending" /\ answer[r] = "accepted"
  BY <1>1, ReportFields DEF PInv, InHand, Codes
<1>3. Queued' = Queued
  BY <1>1 DEF Queued
<1>4. failed' = failed /\ inside' = inside /\ answer' = answer
  BY <1>1 DEF Beside, sendVars
<1>5. reporter' \in {"read", "resolve"}
  BY DEF InvokeDeliveryErrorFunc, ResolveFailed
<1>6. Fatality'
  BY <1>1, <1>4, <1>5 DEF PInv, Fatality
<1>7. CASE InvokeDeliveryErrorFunc
  <2>1. reporter = "callback" /\ reporter' = "resolve" /\ report' = report /\ delivery' = delivery
    BY <1>7 DEF InvokeDeliveryErrorFunc
  <2>2. \A x \in Records : callbacks'[x] = IF x = r THEN callbacks[x] + 1 ELSE callbacks[x]
    BY <1>2, <1>7 DEF InvokeDeliveryErrorFunc, PInv, TypeOK
  <2>3. Told'
    <3>1. callbacks[r] = 0
      BY <1>2, <2>1 DEF PInv, Told
    <3>2. \A x \in Records : x # r => callbacks'[x] = IF delivery[x] \in {"refused", "purged"} THEN 1 ELSE 0
      BY <2>1, <2>2 DEF PInv, Told
    <3>3. callbacks'[r] = 1
      BY <1>2, <2>2, <3>1
    <3> QED
      BY <2>1, <3>2, <3>3 DEF Told
  <2>4. callbacks' \in [Records -> 0 .. 1]
    <3>1. callbacks' = [callbacks EXCEPT ![r] = callbacks[r] + 1]
      BY <1>7 DEF InvokeDeliveryErrorFunc
    <3>2. callbacks[r] = 0
      BY <1>2, <2>1 DEF PInv, Told
    <3> QED
      BY <1>2, <3>1, <3>2 DEF PInv, TypeOK
  <2>5. TypeOK'
    BY <1>1, <2>1, <2>4 DEF PInv, TypeOK, Beside, sendVars, closeVars
  <2>6. \A x \in Records : Open(x)' /\ OnItsWay(x) => OnItsWay(x)'
    BY <1>3, <2>1 DEF OnItsWay
  <2>7. Finite' /\ Senders' /\ Sources' /\ Tracked' /\ Shutdown' /\ Agreement'
    BY <1>1, <1>3, <2>1, <2>6, WorkedOff, Zenon
  <2>8. InHand'
    BY <1>2, <1>4, <2>1 DEF PInv, InHand
  <2> QED
    BY <1>6, <2>3, <2>5, <2>7, <2>8 DEF PInv
<1>8. CASE ResolveFailed
  <2>1. reporter = "resolve" /\ reporter' = "read" /\ report' = NoEvent /\ callbacks' = callbacks
    BY <1>8 DEF ResolveFailed
  <2>2. delivery'[r] = report.code /\ \A x \in Records : x # r => delivery'[x] = delivery[x]
    BY <1>2, <1>8 DEF ResolveFailed, PInv, TypeOK
  <2>3. delivery' \in [Records -> Codes \cup {"pending"}]
    BY <1>2, <1>8 DEF ResolveFailed, PInv, TypeOK, Codes
  <2>4. TypeOK'
    BY <1>1, <2>1, <2>3 DEF PInv, TypeOK, Beside, sendVars, closeVars
  <2>5. \A x \in Records : Open(x)' /\ OnItsWay(x) => OnItsWay(x)'
    BY <1>2, <1>3, <2>1, <2>2 DEF Open, OnItsWay
  <2>6. Finite' /\ Senders' /\ Sources' /\ Tracked' /\ Shutdown' /\ Agreement'
    BY <1>1, <1>2, <1>3, <2>1, <2>2, <2>5, WorkedOff
  <2>7. InHand'
    BY <2>1 DEF InHand
  <2>8. Told'
    BY <1>2, <2>1, <2>2 DEF PInv, Told
  <2> QED
    BY <1>6, <2>4, <2>6, <2>7, <2>8 DEF PInv
<1> QED
  BY <1>7, <1>8

\* noteFatal, the fatal handler, and the end of the goroutine.
LEMMA FatalKeeps ==
  ASSUME PInv, NoteFatal \/ InvokeFatalHandler \/ ReportsDone
  PROVE  PInv'
<1>1. /\ UNCHANGED Beside /\ UNCHANGED <<events, delivery, callbacks, report>>
      /\ reporter \in {"read", "onFatal"} /\ reporter' \in {"read", "onFatal", "done"}
  BY DEF NoteFatal, InvokeFatalHandler, ReportsDone, Beside, outcomes, rdVars
<1>2. failed' = failed /\ inside' = inside
  BY <1>1 DEF Beside
<1>3. translated' \in {translated, NoEvent} /\ (translated' # translated => translated = FatalErr)
  BY DEF NoteFatal, InvokeFatalHandler, ReportsDone
<1>4. Queued' = Queued
  BY <1>1, <1>3, EventKinds DEF Queued
<1>5. \A x \in Records : Open(x)' /\ OnItsWay(x) => OnItsWay(x)'
  BY <1>1, <1>4 DEF OnItsWay
<1>6. reporter' = "done" => ~handleOpen /\ events' = <<>> /\ translated' = NoEvent
  BY <1>1 DEF NoteFatal, InvokeFatalHandler, ReportsDone
<1>7. fatal => fatal'
  BY Zenon DEF NoteFatal, InvokeFatalHandler, ReportsDone
<1>8. Finite' /\ Senders' /\ Sources' /\ Tracked' /\ Shutdown' /\ Agreement'
  BY <1>1, <1>4, <1>5, <1>6, <1>7, WorkedOff
<1>9. InHand' /\ Told'
  BY <1>1 DEF PInv, InHand, Told
<1>10. Fatality' /\ fatal' \in BOOLEAN
  <2>1. CASE NoteFatal
    <3>1. /\ translated = FatalErr /\ translated' = NoEvent /\ fatal' = TRUE /\ fatalCalls' = fatalCalls
          /\ reporter = "read" /\ reporter' = IF fatal THEN "read" ELSE "onFatal"
      BY <2>1 DEF NoteFatal
    <3>2. failed
      BY <3>1 DEF PInv, Fatality
    <3> QED
      BY <1>2, <3>1, <3>2 DEF PInv, Fatality
  <2>2. CASE InvokeFatalHandler
    <3>1. fatal' = fatal /\ translated' = translated /\ fatalCalls' = fatalCalls + 1
      BY <2>2 DEF InvokeFatalHandler
    <3>2. reporter = "onFatal" /\ reporter' = "read"
      BY <2>2 DEF InvokeFatalHandler
    <3>3. fatal /\ fatalCalls = 0
      BY <3>2 DEF PInv, Fatality
    <3> QED
      BY <1>1, <1>2, <3>1, <3>2, <3>3 DEF PInv, Fatality
  <2>3. CASE ReportsDone
    BY <1>1, <1>2, <2>3 DEF ReportsDone, PInv, TypeOK, Fatality
  <2> QED
    BY <2>1, <2>2, <2>3
<1>11. fatalCalls' \in 0 .. 1
  BY <1>10 DEF Fatality
<1>12. TypeOK'
  BY <1>1, <1>3, <1>10, <1>11 DEF PInv, TypeOK, Beside, sendVars, closeVars
<1> QED
  BY <1>8, <1>9, <1>10, <1>12 DEF PInv

-----------------------------------------------------------------------------
(***************************************************************************)
(* Close and Ping.                                                         *)
(***************************************************************************)

\* What Close leaves alone.
Around == <<sendVars, outcomes, reportVars, translated, failed, events, duplicates>>

\* The types of these.
LEMMA AroundType ==
  ASSUME PInv, UNCHANGED Around
  PROVE  /\ sender' \in [Records -> {"idle", "locked", "waiting", "done"}]
         /\ answer' \in [Records -> {"none", "accepted", "ErrEncode", "ErrClosed", "ErrFatal", "ErrQueueFull"}]
         /\ waited' \in [Records -> Codes \cup {"none", "ctxErr"}]
         /\ delivery' \in [Records -> Codes \cup {"pending"}]
         /\ callbacks' \in [Records -> 0 .. 1]
         /\ fatal' \in BOOLEAN /\ fatalCalls' \in 0 .. 1
         /\ reporter' \in {"read", "callback", "resolve", "onFatal", "done"}
         /\ report' \in Reports \cup {NoEvent} /\ translated' \in Events \cup {NoEvent}
         /\ failed' \in BOOLEAN /\ events' \in Seq(Events) /\ duplicates' \in Nat
<1>1. /\ UNCHANGED <<sender, answer, waited, delivery, callbacks, reporter, report, fatal, fatalCalls>>
      /\ UNCHANGED <<translated, events, failed, duplicates>>
  BY DEF Around, sendVars, outcomes, reportVars
<1> QED
  BY <1>1 DEF PInv, TypeOK

\* The steps of a Close call.
Phases == {"idle", "locking", "waiting", "draining", "purging", "flushing", "destroying", "reports",
           "returned"}

\* Moving from one to the next changes nothing for the other calls (Close).
LEMMA GoMoves ==
  ASSUME PInv, NEW c \in Closers, NEW l \in Phases, Go(c, l)
  PROVE  /\ closer'[c] = l /\ \A d \in Closers : d # c => closer'[d] = closer[d]
         /\ closer' \in [Closers -> Phases]
<1>1. closer \in [Closers -> Phases]
  BY DEF PInv, TypeOK, Phases
<1> QED
  BY <1>1 DEF Go

\* What is said of senders, deliveries and reports alone is kept.
LEMMA AroundKeeps ==
  ASSUME PInv, UNCHANGED Around
  PROVE  /\ Senders' /\ InHand' /\ Told'
         /\ Queued' = Queued
         /\ \A r : (Open(r)' <=> Open(r)) /\ (OnItsWay(r)' <=> OnItsWay(r))
         /\ UNCHANGED <<sender, answer, delivery, reporter, fatal, fatalCalls, translated, events, failed>>
<1>1. /\ UNCHANGED <<sender, answer, waited, delivery, callbacks, reporter, report, fatal, fatalCalls>>
      /\ UNCHANGED <<translated, events, failed>>
  BY DEF Around, sendVars, outcomes, reportVars
<1>2. Senders' /\ InHand' /\ Told'
  BY <1>1 DEF PInv, Senders, InHand, Told
<1>3. Queued' = Queued
  BY <1>1 DEF Queued
<1>4. \A r : (Open(r)' <=> Open(r)) /\ (OnItsWay(r)' <=> OnItsWay(r))
  BY <1>1, <1>3 DEF Open, OnItsWay
<1> QED
  BY <1>1, <1>2, <1>3, <1>4

\* Ping concerns nobody else.
LEMMA PingKeeps ==
  ASSUME PInv, Ping \/ PingReturns
  PROVE  PInv'
<1>1. /\ UNCHANGED <<Around, held, purging, inside, handleOpen, closed, closer, remaining, closeErr, returned>>
      /\ ping' \in BOOLEAN
  BY Zenon DEF Ping, PingReturns, Around, closeVars, rdVars
<1>2. /\ Senders' /\ InHand' /\ Told' /\ Queued' = Queued
      /\ \A r : (Open(r)' <=> Open(r)) /\ (OnItsWay(r)' <=> OnItsWay(r))
      /\ UNCHANGED <<sender, answer, delivery, reporter, fatal, fatalCalls, translated, events, failed>>
  BY <1>1, AroundKeeps
<1>3. TypeOK'
  BY <1>1, Zenon DEF PInv, TypeOK, Around, sendVars, outcomes, reportVars
<1>4. Finite' /\ Sources' /\ Fatality' /\ Tracked'
  BY <1>1, <1>2, Zenon DEF PInv, Finite, Sources, Fatality, Tracked
<1>5. Shutdown' /\ Agreement'
  BY <1>1, <1>2, Zenon DEF PInv, Shutdown, Agreement, First
<1> QED
  BY <1>2, <1>3, <1>4, <1>5 DEF PInv

\* Close up to the point where the handle is destroyed.  Only the first Close to
\* get the lock shuts down, and it goes on to destroy the handle once librdkafka
\* has nothing left to tell.
LEMMA CloseBegins ==
  ASSUME PInv, NEW c \in Closers,
         Close(c) \/ CloseLocked(c) \/ Drained(c) \/ DrainCut(c) \/ Purge(c) \/ FlushReports(c)
  PROVE  PInv'
<1>1. UNCHANGED <<Around, ping, held, inside, handleOpen, closeErr, returned>>
  BY DEF Around, Close, CloseLocked, Drained, DrainCut, Purge, FlushReports, rdVars
<1>2. /\ Senders' /\ InHand' /\ Told' /\ Queued' = Queued
      /\ \A r : (Open(r)' <=> Open(r)) /\ (OnItsWay(r)' <=> OnItsWay(r))
      /\ UNCHANGED <<sender, answer, delivery, reporter, fatal, fatalCalls, translated, events, failed>>
  BY <1>1, AroundKeeps
<1>3. /\ closer'[c] \in {"locking", "waiting", "draining", "purging", "flushing", "destroying"}
      /\ \A d \in Closers : d # c => closer'[d] = closer[d]
      /\ closer' \in [Closers -> Phases]
  <2>1. PICK l \in {"locking", "waiting", "draining", "purging", "flushing", "destroying"} : Go(c, l)
    BY SMTT(20), Zenon DEF Close, CloseLocked, Drained, DrainCut, Purge, FlushReports
  <2> QED
    BY <2>1, GoMoves DEF Phases
<1>4. remaining' \in Nat
  <2>1. PendingLen \in Nat
    BY FS_CardinalityType DEF PInv, TypeOK, Finite, PendingLen
  <2> QED
    BY <2>1 DEF PInv, TypeOK, Close, CloseLocked, Drained, DrainCut, Purge, FlushReports
<1>5. closed' \in BOOLEAN /\ purging' \in BOOLEAN /\ (closed => closed')
  BY Zenon DEF PInv, TypeOK, Close, CloseLocked, Drained, DrainCut, Purge, FlushReports, rdVars
<1>6. TypeOK'
  BY <1>1, <1>3, <1>4, <1>5, AroundType DEF PInv, TypeOK, Phases
<1>7. Finite' /\ Sources' /\ Fatality' /\ Tracked'
  BY <1>1, <1>2, Zenon DEF PInv, Finite, Sources, Fatality, Tracked
<1>8. closer'[c] # "locking" => closed'
  BY Zenon DEF PInv, TypeOK, Shutdown, Close, CloseLocked, Drained, DrainCut, Purge, FlushReports, Go
<1>9. closed' => \A r \in Records : sender[r] # "locked"
  BY Zenon DEF PInv, Shutdown, Close, CloseLocked, Drained, DrainCut, Purge, FlushReports
<1>10. closer'[c] = "destroying" => held = {} /\ inside = {}
  BY NothingPending, Zenon DEF PInv, TypeOK, Close, CloseLocked, Drained, DrainCut, Purge, FlushReports, Go
<1>11. closer'[c] = "destroying" => \A r \in Records : Open(r) => OnItsWay(r)
  BY <1>10 DEF PInv, Tracked
<1>12. Shutdown'
  <2>1. ~handleOpen' \/ (\E d \in Closers : closer'[d] \in {"destroying", "reports"}) =>
          \A r \in Records : Open(r) => OnItsWay(r)
    BY <1>1, <1>3, <1>11 DEF PInv, Shutdown
  <2>2. \A d \in Closers : closer'[d] \notin {"idle", "locking"} => closed'
    BY <1>3, <1>5, <1>8 DEF PInv, Shutdown
  <2>3. \A d \in Closers : closer'[d] = "returned" => reporter = "done"
    BY <1>3, SMTT(20), Zenon DEF PInv, Shutdown
  <2> QED
    BY <1>1, <1>2, <1>5, <1>9, <2>1, <2>2, <2>3, Zenon DEF PInv, Shutdown
<1>13. closer'[c] \in {"locking", "waiting"} \/ First(c) \/ ~closed
  BY DEF PInv, TypeOK, First, Close, CloseLocked, Drained, DrainCut, Purge, FlushReports, Go
<1>14. ~closed => ~closeErr.done /\ \A d \in Closers : ~First(d)
  BY Zenon DEF PInv, Shutdown, Agreement, First
<1>15. \A d \in Closers : First(d)' => First(d) \/ (d = c /\ ~closed)
  BY <1>3, <1>13 DEF First
<1>16. Agreement'
  BY <1>1, <1>2, <1>5, <1>14, <1>15 DEF PInv, Agreement
<1> QED
  BY <1>2, <1>6, <1>7, <1>12, <1>16, SMTT(20), Zenon DEF PInv

\* The handle is destroyed with nothing in it that anyone waits for.
LEMMA DestroyKeeps ==
  ASSUME PInv, NEW c \in Closers, DestroyHandle(c)
  PROVE  PInv'
<1>1. /\ UNCHANGED <<Around, ping, purging, closed, remaining, closeErr, returned>>
      /\ handleOpen' = FALSE /\ held' = {} /\ inside' = {} /\ closer[c] = "destroying"
  BY DEF Around, DestroyHandle
<1>2. /\ Senders' /\ InHand' /\ Told' /\ Queued' = Queued
      /\ \A r : (Open(r)' <=> Open(r)) /\ (OnItsWay(r)' <=> OnItsWay(r))
      /\ UNCHANGED <<sender, answer, delivery, reporter, fatal, fatalCalls, translated, events, failed>>
  BY <1>1, AroundKeeps
<1>3. /\ closer'[c] = "reports" /\ \A d \in Closers : d # c => closer'[d] = closer[d]
      /\ closer' \in [Closers -> Phases]
  BY GoMoves DEF DestroyHandle, Phases
<1>4. TypeOK'
  <2>1. /\ closed' \in BOOLEAN /\ remaining' \in Nat /\ closeErr' \in Results
        /\ returned' \in [Closers -> Results] /\ ping' \in BOOLEAN /\ purging' \in BOOLEAN
    BY <1>1 DEF PInv, TypeOK
  <2>2. held' \subseteq Records /\ inside' \subseteq Events /\ handleOpen' \in BOOLEAN
    BY <1>1, Zenon
  <2> QED
    BY <1>1, <1>3, <2>1, <2>2, AroundType DEF TypeOK, Phases
<1>5. Finite'
  BY <1>1, FS_EmptySet DEF Finite
<1>6. Sources' /\ Fatality'
  BY <1>1, <1>2, Zenon DEF PInv, Sources, Fatality
<1>7. closed /\ \A r \in Records : Open(r) => OnItsWay(r)
  BY <1>1 DEF PInv, Shutdown
<1>8. Tracked'
  BY <1>2, <1>7, SMTT(20), Zenon DEF Tracked
<1>9. Shutdown'
  BY <1>1, <1>2, <1>3, <1>7 DEF PInv, Shutdown
<1>10. Agreement'
  BY <1>1, <1>2, <1>3, Zenon DEF PInv, Agreement, First
<1> QED
  BY <1>2, <1>4, <1>5, <1>6, <1>8, <1>9, <1>10 DEF PInv

\* A Close returns.
LEMMA ReturnKeeps ==
  ASSUME PInv, NEW c \in Closers, CloseReturns(c) \/ CloseAgainReturns(c)
  PROVE  PInv'
<1>1. UNCHANGED <<Around, ping, purging, closed, remaining, held, inside, handleOpen>>
  BY DEF Around, CloseReturns, CloseAgainReturns, rdVars
<1>2. /\ Senders' /\ InHand' /\ Told' /\ Queued' = Queued
      /\ \A r : (Open(r)' <=> Open(r)) /\ (OnItsWay(r)' <=> OnItsWay(r))
      /\ UNCHANGED <<sender, answer, delivery, reporter, fatal, fatalCalls, translated, events, failed>>
  BY <1>1, AroundKeeps
<1>3. /\ closer'[c] = "returned" /\ \A d \in Closers : d # c => closer'[d] = closer[d]
      /\ closer' \in [Closers -> Phases]
  <2>1. Go(c, "returned")
    BY DEF CloseReturns, CloseAgainReturns
  <2> QED
    BY <2>1, GoMoves DEF Phases
<1>4. reporter = "done" /\ closed /\ closer[c] \notin {"idle", "locking", "returned"}
  BY DEF PInv, Shutdown, CloseReturns, CloseAgainReturns
<1>5. /\ closeErr' \in Results /\ closeErr'.done /\ (closeErr'.fatal => fatal)
      /\ closeErr' = closeErr \/ (First(c) /\ ~closeErr.done)
  <2>1. CASE CloseReturns(c)
    <3>1. closeErr' = [count |-> remaining, fatal |-> fatal, done |-> TRUE]
      BY <2>1 DEF CloseReturns
    <3>2. First(c) /\ ~closeErr.done
      BY <2>1, Zenon DEF CloseReturns, First, PInv, Agreement
    <3> QED
      BY <3>1, <3>2 DEF Results, PInv, TypeOK
  <2>2. CASE CloseAgainReturns(c)
    BY <2>2 DEF CloseAgainReturns, PInv, TypeOK, Agreement
  <2> QED
    BY <2>1, <2>2
<1>6. /\ returned'[c] = closeErr' /\ \A d \in Closers : d # c => returned'[d] = returned[d]
      /\ returned' \in [Closers -> Results]
  <2>1. returned' = [returned EXCEPT ![c] = closeErr']
    BY DEF CloseReturns, CloseAgainReturns
  <2> QED
    BY <1>5, <2>1 DEF PInv, TypeOK
<1>7. TypeOK'
  BY <1>1, <1>3, <1>5, <1>6, AroundType, Zenon DEF PInv, TypeOK, Phases
<1>8. Finite' /\ Sources' /\ Fatality' /\ Tracked'
  BY <1>1, <1>2, Zenon DEF PInv, Finite, Sources, Fatality, Tracked
<1>9. Shutdown'
  BY <1>1, <1>2, <1>3, <1>4, <1>5 DEF PInv, Shutdown
<1>10. Agreement'
  <2>1. \A d \in Closers : First(d)' => First(d) /\ d # c
    BY <1>3 DEF First
  <2>2. \A d \in Closers : ~First(d)'
    BY <1>5, <2>1, Zenon DEF CloseReturns, CloseAgainReturns, PInv, Agreement, First
  <2>3. \A d \in Closers : returned'[d].done => returned'[d] = closeErr'
    BY <1>5, <1>6 DEF PInv, Agreement
  <2> QED
    BY <1>1, <1>2, <1>4, <1>5, <2>2, <2>3, Zenon DEF Agreement
<1> QED
  BY <1>2, <1>7, <1>8, <1>9, <1>10 DEF PInv

-----------------------------------------------------------------------------
(***************************************************************************)
(* The theorems.                                                           *)
(***************************************************************************)

\* A new publisher satisfies the invariant.
LEMMA InitPInv == Init => PInv
<1> SUFFICES ASSUME Init PROVE PInv
  OBVIOUS
<1> USE DEF Init
<1>1. NoResult \in Results /\ ~NoResult.done /\ ~NoResult.fatal
  BY DEF NoResult, Results
<1>2. TypeOK
  <2>1. events \in Seq(Events)
    OBVIOUS
  <2>2. callbacks \in [Records -> 0 .. 1]
    OBVIOUS
  <2>3. returned \in [Closers -> Results]
    BY <1>1
  <2>4. /\ sender \in [Records -> {"idle", "locked", "waiting", "done"}]
        /\ answer \in [Records -> {"none", "accepted", "ErrEncode", "ErrClosed", "ErrFatal", "ErrQueueFull"}]
        /\ waited \in [Records -> Codes \cup {"none", "ctxErr"}]
        /\ delivery \in [Records -> Codes \cup {"pending"}]
    OBVIOUS
  <2>5. closer \in [Closers -> {"idle", "locking", "waiting", "draining", "purging",
                               "flushing", "destroying", "reports", "returned"}]
    OBVIOUS
  <2>6. fatalCalls \in 0 .. 1 /\ remaining \in Nat /\ duplicates \in Nat
    OBVIOUS
  <2> QED
    BY <1>1, <2>1, <2>2, <2>3, <2>4, <2>5, <2>6, Zenon DEF TypeOK
<1>3. Finite
  BY FS_EmptySet DEF Finite
<1>4. Queued = {}
  BY EventKinds, ChannelEmpty, SMTT(20), Zenon DEF Queued
<1>5. Senders /\ Sources /\ InHand /\ Told
  BY <1>4 DEF Senders, Sources, InHand, Told, Codes
<1>6. Fatality
  BY EventKinds, ChannelEmpty DEF Fatality
<1>7. Tracked /\ Shutdown /\ Agreement
  BY <1>1 DEF Tracked, Open, Shutdown, Agreement, First
<1> QED
  BY <1>2, <1>3, <1>5, <1>6, <1>7 DEF PInv

\* Every step keeps it.
LEMMA StepPInv == PInv /\ [Next]_vars => PInv'
<1> SUFFICES ASSUME PInv, [Next]_vars PROVE PInv'
  OBVIOUS
<1>1. ASSUME NEW r \in Records, EncodeFails(r) \/ Enqueue(r) \/ Produce(r) \/ Wait(r)
      PROVE  PInv'
  BY <1>1, SendKeeps
<1>2. ASSUME NEW r \in Records, Acknowledged(r) \/ Refused(r) \/ Purged(r) \/ ReportAgain(r)
      PROVE  PInv'
  BY <1>2, ReportedKeeps, FaultKeeps DEF Acknowledged, Refused, Purged, Codes
<1>3. CASE FailFatally \/ HandOver
  BY <1>3, FaultKeeps, HandOverKeeps
<1>4. CASE Reporting
  BY <1>4, TranslateKeeps, SettleKeeps, FailureKeeps, FatalKeeps DEF Reporting
<1>5. ASSUME NEW c \in Closers, Close(c) \/ DrainCut(c) \/ Closing(c)
      PROVE  PInv'
  BY <1>5, CloseBegins, DestroyKeeps, ReturnKeeps DEF Closing
<1>6. CASE Ping \/ PingReturns
  BY <1>6, PingKeeps
<1>7. CASE UNCHANGED vars
  <2>1. /\ UNCHANGED <<Around, ping, held, purging, inside, handleOpen, closed, closer, remaining>>
        /\ UNCHANGED <<closeErr, returned>>
    BY <1>7 DEF vars, closeVars, rdVars, Around
  <2>2. /\ Senders' /\ InHand' /\ Told' /\ Queued' = Queued
        /\ \A r : (Open(r)' <=> Open(r)) /\ (OnItsWay(r)' <=> OnItsWay(r))
        /\ UNCHANGED <<sender, answer, delivery, reporter, fatal, fatalCalls, translated, events, failed>>
    BY <2>1, AroundKeeps
  <2>3. TypeOK'
    BY <2>1, AroundType, Zenon DEF PInv, TypeOK
  <2>4. Finite' /\ Sources' /\ Fatality' /\ Tracked'
    BY <2>1, <2>2, Zenon DEF PInv, Finite, Sources, Fatality, Tracked
  <2>5. Shutdown' /\ Agreement'
    BY <2>1, <2>2, Zenon DEF PInv, Shutdown, Agreement, First
  <2> QED
    BY <2>2, <2>3, <2>4, <2>5 DEF PInv
<1> QED
  BY <1>1, <1>2, <1>3, <1>4, <1>5, <1>6, <1>7 DEF Next, AllDone

\* The invariant holds throughout.
LEMMA AlwaysPInv == Spec => []PInv
  BY InitPInv, StepPInv, PTL DEF Spec

\* Once the report goroutine is done, nothing accepted is unresolved.
LEMMA NothingOpen ==
  ASSUME PInv, reporter = "done", NEW r \in Records
  PROVE  ~Open(r)
<1>1. ~handleOpen /\ events = <<>> /\ translated = NoEvent
  BY DEF PInv, Shutdown
<1>2. Queued = {}
  BY <1>1, EventKinds, ChannelEmpty DEF Queued
<1> QED
  BY <1>1, <1>2 DEF PInv, Shutdown, OnItsWay

\* Every variable keeps its type: in particular the delivery error callback runs
\* at most once for a record and the fatal handler at most once (settle,
\* noteFatal).
THEOREM PublisherTypeCorrect == Spec => []TypeOK
<1>1. PInv => TypeOK
  BY DEF PInv
<1> QED
  BY <1>1, AlwaysPInv, PTL

\* When any Close has returned, every record that Send accepted has its outcome,
\* whatever raced with it (enqueue, Close, drain).
THEOREM CloseLosesNothing == Spec => []NothingAcceptedIsLost
<1>1. PInv => NothingAcceptedIsLost
  <2> SUFFICES ASSUME PInv, NEW c \in Closers, closer[c] = "returned", NEW r \in Records
               PROVE  sender[r] # "locked" /\ (answer[r] = "accepted" => delivery[r] # "pending")
    BY DEF NothingAcceptedIsLost
  <2>1. reporter = "done" /\ sender[r] # "locked"
    BY DEF PInv, Shutdown
  <2> QED
    BY <2>1, NothingOpen DEF Open
<1> QED
  BY <1>1, AlwaysPInv, PTL

\* What Wait returns as the outcome stays the outcome, and the callback has run
\* before, once, if and only if the record failed (settle, resolve, Wait).
THEOREM WaitIsTruthful == Spec => []WaitTellsTheTruth
<1>1. PInv => WaitTellsTheTruth
  <2> SUFFICES ASSUME PInv, NEW r \in Records, waited[r] \in Codes
               PROVE  /\ delivery[r] = waited[r]
                      /\ callbacks[r] = IF waited[r] = "acked" THEN 0 ELSE 1
    BY DEF WaitTellsTheTruth
  <2>1. delivery[r] = waited[r]
    BY DEF PInv, Senders
  <2>2. ~(reporter = "resolve" /\ report.rec = r)
    BY <2>1 DEF PInv, InHand, Codes
  <2> QED
    BY <2>1, <2>2 DEF PInv, Told, Codes
<1> QED
  BY <1>1, AlwaysPInv, PTL

\* Every Close returns the same error, and one that names a fatal error returns
\* after the fatal handler ran (Close, closeDone).
THEOREM EveryCloseAgrees == Spec => []ClosesAgree
<1>1. PInv => ClosesAgree
  <2> SUFFICES ASSUME PInv, NEW c \in Closers, returned[c].done
               PROVE  /\ \A d \in Closers : returned[d].done => returned[d] = returned[c]
                      /\ returned[c].fatal => fatalCalls = 1
    BY DEF ClosesAgree
  <2>1. closeErr.done /\ \A d \in Closers : returned[d].done => returned[d] = closeErr
    BY DEF PInv, Agreement
  <2>2. reporter = "done" /\ (closeErr.fatal => fatal)
    BY <2>1, Zenon DEF PInv, Shutdown, Agreement
  <2> QED
    BY <2>1, <2>2 DEF PInv, Fatality
<1> QED
  BY <1>1, AlwaysPInv, PTL

\* Send answers for its own record, once, and accepts it only from librdkafka.
LEMMA SendAnswers ==
  ASSUME PInv, NEW r \in Records, EncodeFails(r) \/ Enqueue(r) \/ Produce(r) \/ Wait(r), answer' # answer
  PROVE  /\ answer[r] = "none" /\ answer'[r] # "none"
         /\ answer'[r] = "accepted" => ~failed /\ sender[r] = "locked"
         /\ \A x \in Records : x # r => answer'[x] = answer[x]
<1>1. answer \in [Records -> {"none", "accepted", "ErrEncode", "ErrClosed", "ErrFatal", "ErrQueueFull"}]
  BY DEF PInv, TypeOK
<1>2. sender[r] \in {"idle", "locked"}
  BY Zenon DEF EncodeFails, Enqueue, Produce, Wait
<1>3. answer[r] = "none"
  BY <1>2, Zenon DEF PInv, Senders
<1>4. PICK a \in {"accepted", "ErrEncode", "ErrClosed", "ErrFatal", "ErrQueueFull"} :
         /\ answer' = [answer EXCEPT ![r] = a]
         /\ a = "accepted" => ~failed /\ sender[r] = "locked"
  BY Zenon DEF EncodeFails, Enqueue, Produce, Wait
<1> QED
  BY <1>1, <1>3, <1>4

\* Once fatal is set Send accepts nothing, not even a record whose enqueue had
\* passed the check before, because librdkafka refuses it by then (enqueue).
THEOREM FatalEndsSending == Spec => FatalStopsSending
<1>1. ASSUME PInv, [Next]_vars
      PROVE  [\A r \in Records : fatal /\ answer[r] # "accepted" => answer'[r] # "accepted"]_vars
  <2>1. CASE UNCHANGED answer
    BY <2>1
  <2>2. ASSUME NEW r \in Records, EncodeFails(r) \/ Enqueue(r) \/ Produce(r) \/ Wait(r)
        PROVE  \A x \in Records : fatal /\ answer[x] # "accepted" => answer'[x] # "accepted"
    <3>1. fatal => failed
      BY <1>1 DEF PInv, Fatality
    <3> QED
      BY <1>1, <2>1, <2>2, <3>1, SendAnswers, Zenon
  <2>3. CASE ~\E r \in Records : EncodeFails(r) \/ Enqueue(r) \/ Produce(r) \/ Wait(r)
    <3>1. UNCHANGED answer
      BY <1>1, <2>3, Zenon DEF Next, Acknowledged, Refused, Purged, Reported, ReportAgain, FailFatally, HandOver,
         Reporting, Translate, Settle, InvokeDeliveryErrorFunc, ResolveFailed, NoteFatal,
         InvokeFatalHandler, ReportsDone, Close, DrainCut, Closing, CloseLocked, Drained, Purge,
         FlushReports, DestroyHandle, CloseReturns, CloseAgainReturns, Ping, PingReturns, AllDone,
         vars, sendVars
    <3> QED
      BY <2>1, <3>1
  <2> QED
    BY <2>2, <2>3, Zenon
<1> QED
  BY <1>1, AlwaysPInv, PTL DEF Spec, FatalStopsSending

-----------------------------------------------------------------------------
(***************************************************************************)
(* The delivery contract.                                                  *)
(***************************************************************************)

\* The records whose failure the callback has seen, and whether a Close has
\* returned: the mapping of Contract, with OutcomeOf.
ToldOf     == {r \in Records : callbacks[r] > 0}
FinishedOf == \E c \in Closers : closer[c] = "returned"

\* What the outcome of a record means in the publisher.
LEMMA OutcomeMeans ==
  ASSUME PInv, NEW r \in Records
  PROVE  /\ OutcomeOf(r) = "accepted" <=> Open(r)
         /\ OutcomeOf(r) = "unsent" <=> answer[r] = "none"
         /\ delivery[r] = "pending" => (r \in ToldOf <=> reporter = "resolve" /\ report.rec = r)
<1>1. /\ delivery[r] \in {"acked", "refused", "purged", "pending"}
      /\ delivery[r] # "pending" => answer[r] = "accepted"
  BY DEF PInv, TypeOK, Sources, Codes
<1>2. OutcomeOf(r) = "accepted" <=> Open(r)
  BY <1>1 DEF OutcomeOf, Open
<1>3. OutcomeOf(r) = "unsent" <=> answer[r] = "none"
  BY <1>1 DEF OutcomeOf
<1>4. delivery[r] = "pending" => (r \in ToldOf <=> reporter = "resolve" /\ report.rec = r)
  <2>1. r \in ToldOf <=> callbacks[r] > 0
    BY DEF ToldOf
  <2>2. callbacks[r] = IF delivery[r] \in {"refused", "purged"} \/ (reporter = "resolve" /\ report.rec = r)
                       THEN 1 ELSE 0
    BY DEF PInv, Told
  <2>3. CASE delivery[r] = "pending" /\ reporter = "resolve" /\ report.rec = r
    <3>1. callbacks[r] = 1
      BY <2>2, <2>3
    <3>2. callbacks[r] > 0
      BY ONLY <3>1
    <3> QED
      BY <2>1, <2>3, <3>2, Zenon
  <2>4. CASE delivery[r] = "pending" /\ ~(reporter = "resolve" /\ report.rec = r)
    <3>1. callbacks[r] = 0
      BY <2>2, <2>4
    <3>2. ~(callbacks[r] > 0)
      BY ONLY <3>1
    <3> QED
      BY <2>1, <2>4, <3>2, Zenon
  <2> QED
    BY <2>3, <2>4, Zenon
<1> QED
  BY <1>2, <1>3, <1>4, Zenon

\* A step that changes no outcome, no callback count and nothing of Close that
\* the contract sees.
LEMMA ContractStutters ==
  ASSUME UNCHANGED <<answer, delivery, callbacks, closed>>, FinishedOf' = FinishedOf
  PROVE  UNCHANGED Contract!contractVars
<1>1. \A r \in Records : OutcomeOf(r)' = OutcomeOf(r)
  BY DEF OutcomeOf
<1>2. [r \in Records |-> OutcomeOf(r)]' = [r \in Records |-> OutcomeOf(r)]
  BY <1>1
<1> QED
  BY <1>2 DEF Contract!contractVars, FinishedOf

\* Send accepts or rejects, or has not decided yet.
LEMMA SendIsContract ==
  ASSUME PInv, PInv', NEW r \in Records, EncodeFails(r) \/ Enqueue(r) \/ Produce(r) \/ Wait(r)
  PROVE  [Contract!Next]_(Contract!contractVars)
<1>1. UNCHANGED <<delivery, callbacks, closed, closer>>
  BY Zenon DEF EncodeFails, Enqueue, Produce, Wait, outcomes, closeVars
<1>2. FinishedOf' = FinishedOf /\ ToldOf' = ToldOf
  BY <1>1 DEF FinishedOf, ToldOf
<1>3. CASE answer' = answer
  BY <1>1, <1>2, <1>3, ContractStutters
<1>4. CASE answer' # answer
  <2>1. /\ answer[r] = "none" /\ answer'[r] # "none" /\ (answer'[r] = "accepted" => ~closed)
        /\ \A x \in Records : x # r => answer'[x] = answer[x]
    <3>1. closed => sender[r] # "locked"
      BY Zenon DEF PInv, Shutdown
    <3> QED
      BY <1>4, <3>1, SendAnswers, Zenon
  <2>2. OutcomeOf(r) = "unsent" /\ delivery[r] = "pending"
    BY <2>1, OutcomeMeans, Zenon DEF PInv, Sources
  <2>3. \A x \in Records : x # r => OutcomeOf(x)' = OutcomeOf(x)
    BY <1>1, <2>1 DEF OutcomeOf
  <2>4. CASE answer'[r] = "accepted"
    <3>1. OutcomeOf(r)' = "accepted"
      BY <1>1, <2>2, <2>4 DEF OutcomeOf
    <3>2. Contract!Accept(r)
      BY <1>1, <1>2, <2>1, <2>2, <2>3, <2>4, <3>1, Zenon DEF Contract!Accept, ToldOf, FinishedOf
    <3> QED
      BY <3>2 DEF Contract!Next
  <2>5. CASE answer'[r] # "accepted"
    <3>1. OutcomeOf(r)' = "rejected"
      BY <1>1, <2>1, <2>2, <2>5 DEF OutcomeOf
    <3>2. Contract!Reject(r)
      BY <1>1, <1>2, <2>2, <2>3, <3>1, Zenon DEF Contract!Reject, ToldOf, FinishedOf
    <3> QED
      BY <3>2 DEF Contract!Next
  <2> QED
    BY <2>4, <2>5
<1> QED
  BY <1>3, <1>4

\* The report goroutine acknowledges, tells or fails an accepted record.
LEMMA ReportIsContract ==
  ASSUME PInv, PInv', Reporting
  PROVE  [Contract!Next]_(Contract!contractVars)
<1>1. UNCHANGED <<answer, closed, closer>>
  BY DEF Reporting, Translate, Settle, InvokeDeliveryErrorFunc, ResolveFailed, NoteFatal,
     InvokeFatalHandler, ReportsDone, sendVars, closeVars
<1>2. FinishedOf' = FinishedOf
  BY <1>1 DEF FinishedOf
<1>3. CASE UNCHANGED <<delivery, callbacks>>
  BY <1>1, <1>2, <1>3, ContractStutters
<1>4. CASE Settle /\ delivery' # delivery
  <2>0. translated \in Reports /\ translated.rec \in Records
    BY <1>4, EventKinds, ReportFields, Zenon DEF Settle, PInv, TypeOK
  <2>1. PICK r \in Records : r = translated.rec
    BY <2>0
  <2>2. /\ delivery[r] = "pending" /\ delivery' = [delivery EXCEPT ![r] = "acked"]
        /\ callbacks' = callbacks /\ reporter = "read"
    BY <1>4, <2>1 DEF Settle
  <2>3. Open(r) /\ r \notin ToldOf
    BY <2>0, <2>1, <2>2, OutcomeMeans, Zenon DEF PInv, Sources, Queued, Open
  <2>4. OutcomeOf(r)' = "acked" /\ \A x \in Records : x # r => OutcomeOf(x)' = OutcomeOf(x)
    BY <1>1, <2>1, <2>2 DEF OutcomeOf, PInv, TypeOK
  <2>5. ToldOf' = ToldOf
    BY <2>2 DEF ToldOf
  <2>6. Contract!Acknowledge(r)
    <3>1. OutcomeOf(r) = "accepted"
      BY <2>3, OutcomeMeans
    <3> QED
      BY <1>1, <1>2, <2>3, <2>4, <2>5, <3>1, Zenon DEF Contract!Acknowledge, ToldOf, FinishedOf
  <2> QED
    BY <2>1, <2>6 DEF Contract!Next
<1>5. CASE InvokeDeliveryErrorFunc
  <2>1. reporter = "callback" /\ reporter' = "resolve" /\ delivery' = delivery /\ report' = report
    BY <1>5 DEF InvokeDeliveryErrorFunc
  <2>2. PICK r \in Records : r = report.rec /\ Open(r)
    BY <2>1, ReportFields DEF PInv, InHand, Open
  <2>3. r \notin ToldOf
    BY <2>1, <2>2, OutcomeMeans DEF Open
  <2>4. ToldOf' = ToldOf \cup {r}
    <3>1. callbacks[r] = 0 /\ \A x \in Records : callbacks'[x] = IF x = r THEN callbacks[x] + 1 ELSE callbacks[x]
      <4>1. callbacks[r] = 0
        BY <2>1, <2>2 DEF PInv, Told, Open
      <4>2. callbacks \in [Records -> 0 .. 1] /\ callbacks' = [callbacks EXCEPT ![r] = @ + 1]
        BY <1>5, <2>2, Zenon DEF InvokeDeliveryErrorFunc, PInv, TypeOK
      <4> QED
        BY <4>1, <4>2
    <3>2. ASSUME NEW x \in Records
          PROVE  x \in ToldOf' <=> x \in ToldOf \cup {r}
      <4>1. CASE x = r
        BY <3>1, <4>1 DEF ToldOf
      <4>2. CASE x # r
        BY <3>1, <4>2 DEF ToldOf
      <4> QED
        BY <4>1, <4>2
    <3> QED
      BY <3>2 DEF ToldOf
  <2>5. \A x \in Records : OutcomeOf(x)' = OutcomeOf(x)
    BY <1>1, <2>1, SMTT(20), Zenon DEF OutcomeOf
  <2>6. Contract!Tell(r)
    <3>1. OutcomeOf(r) = "accepted"
      BY <2>2, OutcomeMeans
    <3> QED
      BY <1>1, <1>2, <2>3, <2>4, <2>5, <3>1, SMTT(20), Zenon DEF Contract!Tell, ToldOf, FinishedOf
  <2> QED
    BY <2>2, <2>6 DEF Contract!Next
<1>6. CASE ResolveFailed
  <2>1. reporter = "resolve" /\ callbacks' = callbacks
    BY <1>6, SMTT(20), Zenon DEF ResolveFailed
  <2>2. PICK r \in Records : r = report.rec /\ Open(r) /\ report.code \in {"refused", "purged"}
    BY <2>1, ReportFields, Zenon DEF PInv, InHand, Open, Codes
  <2>3. r \in ToldOf /\ ToldOf' = ToldOf
    BY <2>1, <2>2, OutcomeMeans DEF Open, ToldOf
  <2>4. delivery'[r] = report.code /\ \A x \in Records : x # r => delivery'[x] = delivery[x]
    <3>1. delivery \in [Records -> Codes \cup {"pending"}]
      BY DEF PInv, TypeOK
    <3>2. delivery' = [delivery EXCEPT ![r] = report.code]
      BY <1>6, <2>2 DEF ResolveFailed
    <3> QED
      BY <3>1, <3>2, SMTT(20), Zenon
  <2>5. OutcomeOf(r)' = "failed" /\ \A x \in Records : x # r => OutcomeOf(x)' = OutcomeOf(x)
    BY <1>1, <2>2, <2>4, SMTT(20), Zenon DEF OutcomeOf
  <2>6. Contract!Fail(r)
    <3>1. OutcomeOf(r) = "accepted"
      BY <2>2, OutcomeMeans, Zenon
    <3> QED
      BY <1>1, <1>2, <2>3, <2>5, <3>1, Zenon DEF Contract!Fail, ToldOf, FinishedOf
  <2> QED
    BY <2>2, <2>6 DEF Contract!Next
<1> QED
  BY <1>3, <1>4, <1>5, <1>6, Zenon DEF Reporting, Translate, Settle, NoteFatal, InvokeFatalHandler, ReportsDone,
     outcomes

\* Close begins to close, and returns when every accepted record has its outcome.
LEMMA CloseIsContract ==
  ASSUME PInv, PInv', NEW c \in Closers, Close(c) \/ DrainCut(c) \/ Closing(c)
  PROVE  [Contract!Next]_(Contract!contractVars)
<1>1. UNCHANGED <<answer, delivery, callbacks>>
  BY Zenon DEF Close, DrainCut, Closing, CloseLocked, Drained, Purge, FlushReports, DestroyHandle,
     CloseReturns, CloseAgainReturns, sendVars, outcomes
<1>2. ToldOf' = ToldOf /\ \A r \in Records : OutcomeOf(r)' = OutcomeOf(r)
  BY <1>1 DEF ToldOf, OutcomeOf
<1>3. PICK l \in Phases : /\ Go(c, l)
                          /\ l = "returned" <=> CloseReturns(c) \/ CloseAgainReturns(c)
  BY Zenon DEF Close, DrainCut, Closing, CloseLocked, Drained, Purge, FlushReports,
     DestroyHandle, CloseReturns, CloseAgainReturns, Phases
<1>4. closer'[c] = l /\ \A d \in Closers : d # c => closer'[d] = closer[d]
  BY <1>3, GoMoves
<1>5. CASE CloseReturns(c) \/ CloseAgainReturns(c)
  <2>1. closed' = closed /\ reporter = "done" /\ closed /\ closer'[c] = "returned"
    <3>1. closed' = closed /\ closer'[c] = "returned"
      BY <1>3, <1>4, <1>5, Zenon DEF CloseReturns, CloseAgainReturns
    <3>2. reporter = "done" /\ closed
      BY <1>5, Zenon DEF CloseReturns, CloseAgainReturns, PInv, Shutdown
    <3> QED
      BY <3>1, <3>2
  <2>2. \A r \in Records : OutcomeOf(r) # "accepted"
    BY <2>1, NothingOpen, OutcomeMeans, Zenon
  <2>3. FinishedOf' = TRUE
    BY <2>1 DEF FinishedOf
  <2>4. Contract!FinishClose
    BY <1>2, <2>1, <2>2, <2>3, Zenon DEF Contract!FinishClose, ToldOf, FinishedOf
  <2> QED
    BY <2>4 DEF Contract!Next
<1>6. CASE ~(CloseReturns(c) \/ CloseAgainReturns(c))
  <2>1. closer[c] # "returned" /\ closer'[c] # "returned"
    BY <1>3, <1>4, <1>6, Zenon DEF Close, DrainCut, Closing, CloseLocked, Drained, Purge, FlushReports,
       DestroyHandle
  <2>2. FinishedOf' = FinishedOf
    BY <1>4, <2>1 DEF FinishedOf
  <2>3. closed' = closed \/ closed' = TRUE
    BY <1>6, Zenon DEF Close, DrainCut, Closing, CloseLocked, Drained, Purge, FlushReports, DestroyHandle
  <2>4. CASE closed' = closed
    BY <1>1, <2>2, <2>4, ContractStutters
  <2>5. CASE closed' = TRUE
    <3>1. Contract!BeginClose
      BY <1>2, <2>2, <2>5, Zenon DEF Contract!BeginClose, ToldOf, FinishedOf
    <3> QED
      BY <3>1 DEF Contract!Next
  <2> QED
    BY <2>3, <2>4, <2>5, Zenon
<1> QED
  BY <1>5, <1>6

\* The publisher keeps the delivery contract: an accepted record has one outcome,
\* the callback sees a failure first, nothing is accepted once closing has begun,
\* and Close returns after the last outcome (enqueue, settle, Close).
THEOREM PublisherKeepsContract == Spec => ImplementsContract
<1>1. Init => Contract!Init
  BY DEF Init, Contract!Init, OutcomeOf
<1>2. ASSUME PInv, PInv', [Next]_vars
      PROVE  [Contract!Next]_(Contract!contractVars)
  <2>1. CASE UNCHANGED <<answer, delivery, callbacks, closed, closer>>
    BY <2>1, ContractStutters DEF FinishedOf
  <2>2. ASSUME NEW r \in Records, Acknowledged(r) \/ Refused(r) \/ Purged(r) \/ ReportAgain(r)
        PROVE  UNCHANGED <<answer, delivery, callbacks, closed, closer>>
    BY <2>2, Zenon DEF Acknowledged, Refused, Purged, Reported, ReportAgain, sendVars, outcomes, closeVars
  <2>3. CASE FailFatally \/ HandOver \/ Ping \/ PingReturns
    BY <2>1, <2>3 DEF FailFatally, HandOver, Ping, PingReturns, sendVars, outcomes, closeVars
  <2>4. CASE UNCHANGED vars
    BY <2>1, <2>4 DEF vars, sendVars, outcomes, closeVars
  <2> QED
    BY <1>2, <2>1, <2>2, <2>3, <2>4, SendIsContract, ReportIsContract, CloseIsContract DEF Next, AllDone
<1> QED
  BY <1>1, <1>2, AlwaysPInv, PTL DEF Spec, ImplementsContract, Contract!Spec

-----------------------------------------------------------------------------
(***************************************************************************)
(* What a Close that returns nil says of purges.                           *)
(***************************************************************************)

\* The report goroutine is at work on a failure of r.
Busy(r) == reporter \in {"callback", "resolve"} /\ report.rec = r

\* A purge is the outcome of r, or the next thing to become it.
PurgeCounts(r) ==
    \/ delivery[r] = "purged"
    \/ Busy(r) /\ report.code = "purged"
    \/ translated = Report(r, "purged") /\ Open(r) /\ ~Busy(r)

\* The fatal error is recorded, or the next thing to be.
FatalDue == fatal \/ translated = FatalErr

\* A purge comes from a failed producer or a drain that was cut, and while the
\* handle is open the failure is known or on its way.
PurgeCause ==
    /\ \A e \in (inside \cap Reports) \cup Queued : e.code = "purged" => purging
    /\ \A r \in Records : delivery[r] = "purged" \/ (Busy(r) /\ report.code = "purged") => purging
    /\ purging => failed \/ remaining > 0
    /\ failed /\ handleOpen => fatal \/ FatalErr \in inside \cup Range(events) \cup {translated}

\* remaining counts something only once a drain was cut, and it is what Close
\* returns, with the fatal error as it stands.
Counted ==
    /\ ~closed => remaining = 0
    /\ \A c \in Closers :
          /\ closer[c] = "draining" => remaining = 0 /\ handleOpen
          /\ closer[c] \in {"purging", "flushing"} => remaining > 0
    /\ closeErr.done => closeErr.count = remaining /\ closeErr.fatal = fatal

\* The Close that shuts down is past its drain.
Past == closeErr.done \/ \E c \in Closers : closer[c] \in {"destroying", "reports"}

\* A drain that ended empty left no open record but those the report goroutine
\* has before it, so that a later report changes no outcome; and a purge that
\* counts was a fatal failure, which is recorded by the time Close returns.
CleanDrain ==
    Past /\ remaining = 0 => \A r \in Records :
        /\ Open(r) => Busy(r) \/ (translated \in Reports /\ translated.rec = r)
        /\ PurgeCounts(r) => FatalDue

\* The invariant of purges, over PInv.
GInv == PurgeCause /\ Counted /\ CleanDrain

\* A step of a sender opens a record only before any Close has gone past the
\* lock, and touches nothing else of the invariant.
LEMMA SendPurges ==
  ASSUME PInv, GInv, NEW s \in Records, EncodeFails(s) \/ Enqueue(s) \/ Produce(s) \/ Wait(s)
  PROVE  GInv'
<1>1. UNCHANGED Aside
  BY SendType
<1>2. /\ UNCHANGED <<delivery, closed, closer, remaining, closeErr, reporter, report, fatal, translated>>
      /\ UNCHANGED <<purging, failed, inside, events, handleOpen>>
  BY <1>1 DEF Aside, outcomes, closeVars, reportVars
<1>3. Queued' = Queued /\ (FatalDue' <=> FatalDue) /\ (Past' <=> Past) /\ \A r : Busy(r)' <=> Busy(r)
  BY <1>2 DEF Queued, FatalDue, Past, Busy
<1>4. PurgeCause'
  BY <1>2, <1>3 DEF GInv, PurgeCause
<1>5. Counted'
  BY <1>2, SMTT(20), Zenon DEF GInv, Counted
<1>6. Past => closed
  BY DEF PInv, Shutdown, Agreement, Past
<1>7. \A r \in Records : closed /\ Open(r)' => Open(r)
  <2>1. sender[s] = "locked" => ~closed
    BY DEF PInv, Shutdown
  <2>2. answer \in [Records -> {"none", "accepted", "ErrEncode", "ErrClosed", "ErrFatal", "ErrQueueFull"}]
    BY DEF PInv, TypeOK
  <2>3. \A r \in Records : closed /\ answer'[r] = "accepted" => answer[r] = "accepted"
    BY <2>1, <2>2, Zenon DEF EncodeFails, Enqueue, Produce, Wait
  <2> QED
    BY <1>2, <2>3 DEF Open
<1>8. CleanDrain'
  <2> SUFFICES ASSUME Past', remaining' = 0, NEW r \in Records
               PROVE  /\ Open(r)' => Busy(r)' \/ (translated' \in Reports /\ translated'.rec = r)
                      /\ PurgeCounts(r)' => FatalDue'
    BY DEF CleanDrain
  <2>1. Past /\ remaining = 0 /\ (Open(r)' => Open(r))
    BY <1>2, <1>3, <1>6, <1>7
  <2>2. PurgeCounts(r)' => PurgeCounts(r)
    BY <1>2, <1>3, <2>1 DEF PurgeCounts
  <2> QED
    BY <1>2, <1>3, <2>1, <2>2 DEF GInv, CleanDrain
<1> QED
  BY <1>4, <1>5, <1>8 DEF GInv

\* What happens within librdkafka changes neither what Close counts nor what a
\* clean drain left.
LEMMA WithinPurges ==
  ASSUME PInv, GInv, UNCHANGED Within
  PROVE  /\ Counted' /\ CleanDrain'
         /\ UNCHANGED <<delivery, reporter, report, fatal, translated, remaining, handleOpen>>
         /\ \A r : Busy(r)' <=> Busy(r)
<1>1. /\ UNCHANGED <<answer, delivery, closed, closer, remaining, closeErr, reporter, report, fatal, translated>>
      /\ UNCHANGED handleOpen
  BY DEF Within, sendVars, outcomes, closeVars, reportVars
<1>2. /\ (FatalDue' <=> FatalDue) /\ (Past' <=> Past)
      /\ \A r : (Busy(r)' <=> Busy(r)) /\ (Open(r)' <=> Open(r))
  BY <1>1 DEF FatalDue, Past, Busy, Open
<1>3. \A r : PurgeCounts(r)' <=> PurgeCounts(r)
  BY <1>1, <1>2 DEF PurgeCounts
<1>4. Counted'
  BY <1>1 DEF GInv, Counted
<1>5. CleanDrain'
  BY <1>1, <1>2, <1>3, SMTT(20), Zenon DEF GInv, CleanDrain
<1> QED
  BY <1>1, <1>2, <1>4, <1>5

\* librdkafka reports a record as purged only while it purges, and puts the
\* fatal error with its reports when it fails.
LEMMA InsidePurges ==
  ASSUME PInv, GInv, UNCHANGED <<Within, events>>, NEW e \in Events, inside' = inside \cup {e},
         e \in Reports /\ e.code = "purged" => purging', purging => purging', failed => failed',
         purging' => purging \/ failed', failed' => failed \/ e = FatalErr
  PROVE  GInv'
<1>1. UNCHANGED Within /\ events' = events
  OBVIOUS
<1>2. /\ Counted' /\ CleanDrain'
      /\ UNCHANGED <<delivery, reporter, report, fatal, translated, remaining, handleOpen>>
      /\ \A r : Busy(r)' <=> Busy(r)
  BY <1>1, WithinPurges
<1>3. Queued' = Queued
  BY <1>1, <1>2 DEF Queued
<1>4. \A x \in (inside' \cap Reports) \cup Queued' : x.code = "purged" => purging'
  BY <1>3 DEF GInv, PurgeCause
<1>5. \A r \in Records : delivery'[r] = "purged" \/ (Busy(r)' /\ report'.code = "purged") => purging'
  BY <1>2 DEF GInv, PurgeCause
<1>6. purging' => failed' \/ remaining' > 0
  BY <1>2 DEF GInv, PurgeCause
<1>7. failed' /\ handleOpen' => fatal' \/ FatalErr \in inside' \cup Range(events') \cup {translated'}
  BY <1>1, <1>2 DEF GInv, PurgeCause
<1> QED
  BY <1>2, <1>4, <1>5, <1>6, <1>7 DEF GInv, PurgeCause

\* The steps of librdkafka.
LEMMA RdPurges ==
  ASSUME PInv, GInv,
         FailFatally \/ HandOver
         \/ \E s \in Records : Acknowledged(s) \/ Refused(s) \/ Purged(s) \/ ReportAgain(s)
  PROVE  GInv'
<1>1. CASE FailFatally
  <2>1. UNCHANGED <<Within, events>> /\ inside' = inside \cup {FatalErr} /\ failed' = TRUE /\ purging' = TRUE
    BY <1>1 DEF FailFatally, Within
  <2> QED
    BY <2>1, InsidePurges, EventKinds
<1>2. CASE HandOver
  <2>1. PICK e \in inside : inside' = inside \ {e} /\ events' = Append(events, e)
    BY <1>2 DEF HandOver
  <2>2. UNCHANGED Within /\ failed' = failed /\ purging' = purging
    BY <1>2 DEF HandOver, Within
  <2>3. /\ Counted' /\ CleanDrain'
        /\ UNCHANGED <<delivery, reporter, report, fatal, translated, remaining, handleOpen>>
        /\ \A r : Busy(r)' <=> Busy(r)
    BY <2>2, WithinPurges
  <2>4. Range(events') = Range(events) \cup {e}
    BY <2>1, ChannelAppend DEF PInv, TypeOK
  <2>5. (inside' \cap Reports) \cup Queued' \subseteq (inside \cap Reports) \cup Queued
    BY <2>1, <2>3, <2>4 DEF Queued
  <2>6. inside \subseteq inside' \cup Range(events') /\ Range(events) \subseteq Range(events')
    BY <2>1, <2>4
  <2>7. PurgeCause'
    BY <2>2, <2>3, <2>5, <2>6 DEF GInv, PurgeCause
  <2> QED
    BY <2>3, <2>7 DEF GInv
<1>3. ASSUME NEW s \in Records, NEW code \in Codes, Reported(s, code), code = "purged" => purging
      PROVE  GInv'
  <2>1. UNCHANGED <<Within, events>> /\ inside' = inside \cup {Report(s, code)} /\ failed' = failed /\ purging' = purging
    BY <1>3 DEF Reported, Within
  <2>2. Report(s, code) \in Reports /\ Report(s, code).code = code /\ Report(s, code) \in Events
    BY ReportOf DEF Events
  <2> QED
    BY <1>3, <2>1, <2>2, InsidePurges
<1>4. ASSUME NEW s \in Records, ReportAgain(s)
      PROVE  GInv'
  <2>1. PICK code \in Codes : (code = "purged" => purging) /\ inside' = inside \cup {Report(s, code)}
    BY <1>4 DEF ReportAgain
  <2>2. UNCHANGED <<Within, events>> /\ failed' = failed /\ purging' = purging
    BY <1>4 DEF ReportAgain, Within
  <2>3. Report(s, code) \in Reports /\ Report(s, code).code = code /\ Report(s, code) \in Events
    BY ReportOf DEF Events
  <2> QED
    BY <2>1, <2>2, <2>3, InsidePurges
<1> QED
  BY <1>1, <1>2, <1>3, <1>4 DEF Acknowledged, Refused, Purged, Codes

\* What the report goroutine has to keep, of the records a clean drain left.
CleanAt(r) ==
    /\ Open(r) => Busy(r) \/ (translated \in Reports /\ translated.rec = r)
    /\ PurgeCounts(r) => FatalDue

\* A step of the report goroutine, before Close has its result.
LEMMA BesidePurges ==
  ASSUME PInv, GInv, UNCHANGED Beside, ~closeErr.done, Queued' \subseteq Queued,
         fatal \/ FatalErr \in Range(events) \cup {translated}
             => fatal' \/ FatalErr \in Range(events') \cup {translated'},
         \A r \in Records : delivery'[r] = "purged" \/ (Busy(r)' /\ report'.code = "purged") => purging,
         \A r \in Records : Past /\ remaining = 0 /\ CleanAt(r) => CleanAt(r)'
  PROVE  GInv'
<1>1. UNCHANGED <<closed, closer, remaining, closeErr, purging, failed, inside, handleOpen>>
  BY DEF Beside, closeVars
<1>2. \A e \in (inside' \cap Reports) \cup Queued' : e.code = "purged" => purging'
  BY <1>1, Zenon DEF GInv, PurgeCause
<1>3. failed' /\ handleOpen' => fatal' \/ FatalErr \in inside' \cup Range(events') \cup {translated'}
  BY <1>1, Zenon DEF GInv, PurgeCause
<1>4. PurgeCause'
  BY <1>1, <1>2, <1>3, Zenon DEF GInv, PurgeCause
<1>5. Counted'
  BY <1>1 DEF GInv, Counted
<1>6. Past' <=> Past
  BY <1>1 DEF Past
<1>7. CleanDrain'
  BY <1>1, <1>6, Zenon DEF GInv, CleanDrain, CleanAt
<1> QED
  BY <1>4, <1>5, <1>7 DEF GInv

\* translate: behind a clean drain, only a report that changes no outcome or a
\* further fatal error can still come.
LEMMA TranslatePurges ==
  ASSUME PInv, GInv, Translate
  PROVE  GInv'
<1>1. /\ translated = NoEvent /\ events # <<>> /\ translated' = Head(events) /\ events' = Tail(events)
      /\ UNCHANGED Beside /\ UNCHANGED <<answer, delivery, reporter, report, fatal>>
  BY DEF Translate, Beside, sendVars, outcomes, reportVars
<1>2. Range(events) = Range(events') \cup {translated'}
  BY <1>1, ChannelTake DEF PInv, TypeOK
<1>3. ~closeErr.done
  BY <1>1 DEF PInv, Shutdown
<1>4. Queued' = Queued
  BY <1>1, <1>2, EventKinds DEF Queued
<1>5. \A r : (Busy(r)' <=> Busy(r)) /\ (Open(r)' <=> Open(r))
  BY <1>1 DEF Busy, Open
<1>6. \A r \in Records : delivery'[r] = "purged" \/ (Busy(r)' /\ report'.code = "purged") => purging
  BY <1>1, <1>5 DEF GInv, PurgeCause
<1>7. ASSUME NEW r \in Records, CleanAt(r)
      PROVE  CleanAt(r)'
  <2>1. Open(r) => Busy(r)
    BY <1>1, <1>7, EventKinds DEF CleanAt
  <2>2. PurgeCounts(r)' => PurgeCounts(r)
    BY <1>1, <1>5, <2>1 DEF PurgeCounts
  <2>3. FatalDue => FatalDue'
    BY <1>1, EventKinds DEF FatalDue
  <2> QED
    BY <1>5, <1>7, <2>1, <2>2, <2>3 DEF CleanAt
<1>8. fatal \/ FatalErr \in Range(events) \cup {translated} => fatal' \/ FatalErr \in Range(events') \cup {translated'}
  BY <1>1, <1>2, EventKinds
<1> QED
  BY <1>1, <1>3, <1>4, <1>6, <1>7, <1>8, BesidePurges

\* settle up to the callback: the report that was read becomes the outcome, is
\* taken in hand, or says nothing new.
LEMMA SettlePurges ==
  ASSUME PInv, GInv, Settle
  PROVE  GInv'
<1>1. /\ reporter = "read" /\ translated.kind = "report" /\ translated' = NoEvent
      /\ UNCHANGED Beside /\ UNCHANGED <<answer, events, fatal>>
  BY DEF Settle, Beside, sendVars, rdVars
<1>2. translated \in Reports /\ translated # FatalErr /\ NoEvent \notin Reports /\ NoEvent # FatalErr
  BY <1>1, EventKinds DEF PInv, TypeOK
<1> DEFINE t == translated.rec
           code == translated.code
<1>3. t \in Records /\ code \in Codes
  BY <1>2, ReportFields
<1>4. ~closeErr.done
  BY <1>1 DEF PInv, Shutdown
<1>5. Queued' \subseteq Queued /\ translated \in Queued
  BY <1>1, <1>2 DEF Queued
<1>6. code = "purged" => purging
  BY <1>5 DEF GInv, PurgeCause
<1>7. \A r : ~Busy(r)
  BY <1>1 DEF Busy
<1>8. \/ /\ delivery[t] # "pending" /\ UNCHANGED <<delivery, reporter, report>>
      \/ /\ delivery[t] = "pending" /\ code = "acked"
         /\ delivery' = [delivery EXCEPT ![t] = "acked"] /\ UNCHANGED <<reporter, report>>
      \/ /\ delivery[t] = "pending" /\ code # "acked"
         /\ reporter' = "callback" /\ report' = translated /\ UNCHANGED delivery
  BY DEF Settle
<1>9. delivery \in [Records -> Codes \cup {"pending"}]
  BY SMTT(20), Zenon DEF PInv, TypeOK
<1>10. \A r \in Records :
          /\ delivery'[r] = "purged" => delivery[r] = "purged"
          /\ Busy(r)' => r = t /\ report' = translated /\ delivery[t] = "pending" /\ delivery' = delivery
          /\ Open(r)' => Open(r) /\ (r = t => Busy(r)')
  BY <1>1, <1>3, <1>7, <1>8, <1>9, SMTT(20), Zenon DEF Busy, Open
<1>11. \A r \in Records : delivery'[r] = "purged" \/ (Busy(r)' /\ report'.code = "purged") => purging
  BY <1>6, <1>10 DEF GInv, PurgeCause
<1>12. ASSUME NEW r \in Records, CleanAt(r)
       PROVE  CleanAt(r)'
  <2>1. Open(r)' => r = t /\ Busy(r)'
    BY <1>2, <1>7, <1>10, <1>12, Zenon DEF CleanAt
  <2>2. ASSUME PurgeCounts(r)' PROVE PurgeCounts(r)
    <3>1. delivery'[r] = "purged" \/ (Busy(r)' /\ report'.code = "purged")
      BY <2>1, <2>2, SMTT(20), Zenon DEF PurgeCounts
    <3>2. CASE delivery'[r] = "purged"
      BY <1>10, <3>2 DEF PurgeCounts
    <3>3. CASE Busy(r)' /\ report'.code = "purged"
      <4>1. r = t /\ code = "purged" /\ delivery[t] = "pending"
        BY <1>10, <3>3
      <4>2. PICK x \in Records, y \in Codes : translated = Report(x, y)
        BY <1>2 DEF Reports
      <4>3. translated = Report(t, "purged")
        BY <4>1, <4>2, ReportOf
      <4>4. Open(t)
        BY <1>5, <4>1 DEF PInv, Sources, Open
      <4> QED
        BY <1>7, <4>1, <4>3, <4>4, SMTT(20), Zenon DEF PurgeCounts
    <3> QED
      BY <3>1, <3>2, <3>3
  <2>3. FatalDue => FatalDue'
    BY <1>1, <1>2 DEF FatalDue
  <2> QED
    BY <1>12, <2>1, <2>2, <2>3 DEF CleanAt
<1>13. fatal \/ FatalErr \in Range(events) \cup {translated} => fatal' \/ FatalErr \in Range(events') \cup {translated'}
  BY <1>1, <1>2
<1> QED
  BY <1>1, <1>4, <1>5, <1>11, <1>12, <1>13, BesidePurges

\* The callback and resolve: the failure in hand becomes the outcome.
LEMMA FailurePurges ==
  ASSUME PInv, GInv, InvokeDeliveryErrorFunc \/ ResolveFailed
  PROVE  GInv'
<1>1. /\ reporter \in {"callback", "resolve"} /\ UNCHANGED Beside
      /\ UNCHANGED <<answer, events, fatal, translated>>
  BY DEF InvokeDeliveryErrorFunc, ResolveFailed, Beside, sendVars, rdVars
<1>2. ~closeErr.done
  BY <1>1 DEF PInv, Shutdown
<1>3. Queued' = Queued /\ (FatalDue' <=> FatalDue)
  BY <1>1 DEF Queued, FatalDue
<1>4. report \in Reports /\ report.rec \in Records
  BY <1>1, ReportFields DEF PInv, InHand
<1>5. CASE InvokeDeliveryErrorFunc
  <2>1. reporter' \in {"callback", "resolve"} /\ UNCHANGED <<delivery, report>>
    BY <1>5 DEF InvokeDeliveryErrorFunc
  <2>2. \A r : (Busy(r)' <=> Busy(r)) /\ (Open(r)' <=> Open(r))
    BY <1>1, <2>1 DEF Busy, Open
  <2>3. \A r \in Records : delivery'[r] = "purged" \/ (Busy(r)' /\ report'.code = "purged") => purging
    BY <2>1, <2>2 DEF GInv, PurgeCause
  <2>4. \A r : PurgeCounts(r)' <=> PurgeCounts(r)
    BY <1>1, <2>1, <2>2 DEF PurgeCounts
  <2>5. \A r \in Records : CleanAt(r) => CleanAt(r)'
    BY <1>1, <1>3, <2>2, <2>4 DEF CleanAt
  <2> QED
    BY <1>1, <1>2, <1>3, <2>3, <2>5, BesidePurges
<1>6. CASE ResolveFailed
  <2>1. delivery' = [delivery EXCEPT ![report.rec] = report.code] /\ reporter' = "read"
    BY <1>6 DEF ResolveFailed
  <2>2. \A r : ~Busy(r)'
    BY <2>1, SMTT(20), Zenon DEF Busy
  <2>3. delivery \in [Records -> Codes \cup {"pending"}] /\ report.code \in Codes
    BY <1>4, ReportFields DEF PInv, TypeOK
  <2>4. \A r \in Records :
          /\ r = report.rec => delivery'[r] = report.code /\ Busy(r)
          /\ r # report.rec => delivery'[r] = delivery[r] /\ ~Busy(r)
    BY <1>1, <2>1, <2>3, SMTT(20), Zenon DEF Busy
  <2>5. \A r \in Records : Open(r)' => Open(r) /\ ~Busy(r)
    BY <1>1, <2>3, <2>4, SMTT(20), Zenon DEF Open, Codes
  <2>6. \A r \in Records : delivery'[r] = "purged" \/ (Busy(r)' /\ report'.code = "purged") => purging
    BY <2>2, <2>4 DEF GInv, PurgeCause
  <2>7. \A r \in Records : PurgeCounts(r)' => PurgeCounts(r)
    BY <1>1, <2>2, <2>4, <2>5, Zenon DEF PurgeCounts
  <2>8. \A r \in Records : CleanAt(r) => CleanAt(r)'
    BY <1>1, <1>3, <2>5, <2>7 DEF CleanAt
  <2> QED
    BY <1>1, <1>2, <1>3, <2>6, <2>8, BesidePurges
<1> QED
  BY <1>5, <1>6, SMTT(20), Zenon

\* noteFatal and its handler, and the end of the goroutine.
LEMMA FatalPurges ==
  ASSUME PInv, GInv, NoteFatal \/ InvokeFatalHandler \/ ReportsDone
  PROVE  GInv'
<1>1. /\ reporter \in {"read", "onFatal"} /\ reporter' \in {"read", "onFatal", "done"}
      /\ UNCHANGED Beside /\ UNCHANGED <<answer, delivery, events, report>>
  BY DEF NoteFatal, InvokeFatalHandler, ReportsDone, Beside, sendVars, rdVars, outcomes
<1>2. UNCHANGED <<fatal, translated>> \/ (fatal' /\ translated = FatalErr /\ translated' = NoEvent)
  BY DEF NoteFatal, InvokeFatalHandler, ReportsDone
<1>3. ~closeErr.done
  BY <1>1 DEF PInv, Shutdown
<1>4. Queued' \subseteq Queued
  BY <1>1, <1>2, EventKinds DEF Queued
<1>5. \A r : ~Busy(r) /\ ~Busy(r)' /\ (Open(r)' <=> Open(r))
  BY <1>1 DEF Busy, Open
<1>6. \A r \in Records : delivery'[r] = "purged" \/ (Busy(r)' /\ report'.code = "purged") => purging
  BY <1>1, <1>5 DEF GInv, PurgeCause
<1>7. ASSUME NEW r \in Records, CleanAt(r)
      PROVE  CleanAt(r)'
  <2>1. CASE UNCHANGED <<fatal, translated>>
    <3>1. PurgeCounts(r)' => PurgeCounts(r)
      BY <1>1, <1>5, <2>1 DEF PurgeCounts
    <3> QED
      BY <1>5, <1>7, <2>1, <3>1 DEF CleanAt, FatalDue
  <2>2. CASE fatal' /\ translated = FatalErr
    BY <1>5, <1>7, <2>2, EventKinds DEF CleanAt, FatalDue
  <2> QED
    BY <1>2, <2>1, <2>2
<1>8. fatal \/ FatalErr \in Range(events) \cup {translated} => fatal' \/ FatalErr \in Range(events') \cup {translated'}
  BY <1>1, <1>2
<1> QED
  BY <1>1, <1>3, <1>4, <1>6, <1>7, <1>8, BesidePurges, SMTT(20), Zenon

\* Close leaves alone what the purges of single records are told from.
LEMMA AroundPurges ==
  ASSUME PInv, UNCHANGED Around
  PROVE  /\ UNCHANGED <<delivery, reporter, report, fatal, translated, events, failed>>
         /\ Queued' = Queued /\ (FatalDue' <=> FatalDue)
         /\ \A r : (Busy(r)' <=> Busy(r)) /\ (Open(r)' <=> Open(r)) /\ (PurgeCounts(r)' <=> PurgeCounts(r))
<1>1. UNCHANGED <<answer, delivery, reporter, report, fatal, translated, events, failed>>
  BY DEF Around, sendVars, outcomes, reportVars
<1>2. \A r : (Busy(r)' <=> Busy(r)) /\ (Open(r)' <=> Open(r))
  BY <1>1, SMTT(20), Zenon DEF Busy, Open
<1> QED
  BY <1>1, <1>2 DEF Queued, FatalDue, PurgeCounts

\* A step of Close that neither ends the drain nor purges: the causes stay what
\* they were.
LEMMA CauseKept ==
  ASSUME PInv, GInv, UNCHANGED <<Around, purging>>, inside' = inside \/ (inside' = {} /\ ~handleOpen'),
         handleOpen' => handleOpen, remaining > 0 => remaining' > 0
  PROVE  PurgeCause'
<1>1. UNCHANGED Around /\ purging' = purging
  OBVIOUS
<1>2. /\ UNCHANGED <<delivery, reporter, report, fatal, translated, events, failed>>
      /\ Queued' = Queued /\ \A r : Busy(r)' <=> Busy(r)
  BY <1>1, AroundPurges
<1>3. \A e \in (inside' \cap Reports) \cup Queued' : e.code = "purged" => purging'
  BY <1>1, <1>2 DEF GInv, PurgeCause
<1>4. failed' /\ handleOpen' => fatal' \/ FatalErr \in inside' \cup Range(events') \cup {translated'}
  BY <1>2 DEF GInv, PurgeCause
<1>5. purging' => failed' \/ remaining' > 0
  BY <1>1, <1>2 DEF GInv, PurgeCause
<1> QED
  BY <1>1, <1>2, <1>3, <1>4, <1>5 DEF GInv, PurgeCause

\* drain ends with nothing left: what is open is in hand, and a purge that
\* counts was a fatal failure that has left librdkafka and the channel.
LEMMA DrainedPurges ==
  ASSUME PInv, GInv, NEW c \in Closers, Drained(c)
  PROVE  GInv'
<1>1. /\ closer[c] = "draining" /\ PendingLen = 0 /\ remaining' = 0 /\ Go(c, "destroying")
      /\ UNCHANGED <<Around, purging>> /\ UNCHANGED <<closed, closeErr, inside, handleOpen>>
  BY DEF Drained, Around, rdVars
<1>2. held = {} /\ inside = {} /\ events = <<>>
  BY <1>1, NothingPending, SMTT(20), Zenon DEF PInv
<1>3. remaining = 0 /\ handleOpen /\ ~closeErr.done /\ closed
  BY <1>1 DEF GInv, Counted, PInv, Agreement, First, Shutdown
<1>4. /\ closer'[c] = "destroying" /\ \A d \in Closers : d # c => closer'[d] = closer[d]
  BY <1>1, GoMoves DEF Phases
<1>5. PurgeCause'
  BY <1>1, <1>3, CauseKept, SMTT(20), Zenon
<1>6. \A d \in Closers : d # c => closer[d] \notin {"draining", "purging", "flushing"}
  BY <1>1, SMTT(20), Zenon DEF PInv, Agreement, First
<1>7. Counted'
  BY <1>1, <1>3, <1>4, <1>6 DEF Counted
<1>8. /\ UNCHANGED <<fatal, translated>> /\ (FatalDue' <=> FatalDue)
      /\ \A r : (Busy(r)' <=> Busy(r)) /\ (Open(r)' <=> Open(r)) /\ (PurgeCounts(r)' <=> PurgeCounts(r))
  BY <1>1, AroundPurges
<1>9. Queued \subseteq {translated} \cap Reports
  BY <1>2, ChannelEmpty, SMTT(20), Zenon DEF Queued
<1>10. \A r \in Records : Open(r) => Busy(r) \/ (translated \in Reports /\ translated.rec = r)
  BY <1>2, <1>9 DEF PInv, Tracked, OnItsWay, Busy
<1>11. ASSUME NEW r \in Records, PurgeCounts(r) PROVE FatalDue
  <2>1. translated = Report(r, "purged") => purging
    <3>1. Report(r, "purged") \in Reports /\ Report(r, "purged").code = "purged"
      BY ReportOf DEF Codes
    <3> QED
      BY <3>1 DEF GInv, PurgeCause, Queued
  <2>2. purging
    BY <1>11, <2>1 DEF PurgeCounts, GInv, PurgeCause
  <2>3. failed
    BY <1>3, <2>2 DEF GInv, PurgeCause
  <2> QED
    BY <1>2, <1>3, <2>3, ChannelEmpty DEF GInv, PurgeCause, FatalDue
<1>12. CleanDrain'
  BY <1>8, <1>10, <1>11 DEF CleanDrain
<1> QED
  BY <1>5, <1>7, <1>12 DEF GInv

\* drain is cut: there is something to count, and Purge and Flush come next.
LEMMA CutPurges ==
  ASSUME PInv, GInv, NEW c \in Closers, DrainCut(c) \/ Purge(c) \/ FlushReports(c)
  PROVE  GInv'
<1>1. UNCHANGED Around /\ UNCHANGED <<closed, closeErr, inside, handleOpen>>
  BY DEF DrainCut, Purge, FlushReports, Around, rdVars
<1>2. First(c) /\ closed /\ ~closeErr.done
  BY Zenon DEF DrainCut, Purge, FlushReports, PInv, Agreement, First, Shutdown
<1>3. /\ closer'[c] \in {"purging", "flushing", "destroying"}
      /\ \A d \in Closers : d # c => closer'[d] = closer[d]
  <2>1. PICK l \in {"purging", "flushing", "destroying"} : Go(c, l)
    BY SMTT(20), Zenon DEF DrainCut, Purge, FlushReports
  <2> QED
    BY <2>1, GoMoves DEF Phases
<1>4. remaining' > 0
  BY DEF DrainCut, Purge, FlushReports, GInv, Counted
<1>5. \A d \in Closers : d # c => closer'[d] # "draining"
  BY <1>2, <1>3, Zenon DEF PInv, Agreement, First
<1>6. Counted'
  BY <1>1, <1>2, <1>3, <1>4, <1>5 DEF Counted
<1>7. remaining' # 0
  BY ONLY <1>4
<1>8. CleanDrain'
  BY <1>7 DEF CleanDrain
<1>9. PurgeCause'
  <2>1. CASE Purge(c)
    <3>1. purging' = TRUE
      BY <2>1 DEF Purge
    <3>2. /\ UNCHANGED <<delivery, reporter, report, fatal, translated, events, failed>>
      BY <1>1, AroundPurges
    <3>3. failed' /\ handleOpen' => fatal' \/ FatalErr \in inside' \cup Range(events') \cup {translated'}
      BY <1>1, <3>2 DEF GInv, PurgeCause
    <3> QED
      BY <1>4, <3>1, <3>3 DEF PurgeCause
  <2>2. CASE DrainCut(c) \/ FlushReports(c)
    <3>1. purging' = purging
      BY <2>2 DEF DrainCut, FlushReports, rdVars
    <3> QED
      BY <1>1, <1>4, <3>1, CauseKept, SMTT(20), Zenon
  <2> QED
    BY <2>1, <2>2
<1> QED
  BY <1>6, <1>8, <1>9 DEF GInv

\* The other steps of Close: taking the lock, destroying the handle, returning.
LEMMA ClosePurges ==
  ASSUME PInv, GInv, NEW c \in Closers,
         Close(c) \/ CloseLocked(c) \/ DestroyHandle(c) \/ CloseReturns(c) \/ CloseAgainReturns(c)
  PROVE  GInv'
<1>1. UNCHANGED <<Around, purging>> /\ UNCHANGED remaining
  BY Zenon DEF Close, CloseLocked, DestroyHandle, CloseReturns, CloseAgainReturns, Around, rdVars
<1>2. /\ inside' = inside \/ (inside' = {} /\ ~handleOpen')
      /\ handleOpen' => handleOpen
  <2>1. CASE DestroyHandle(c)
    BY ONLY <2>1 DEF DestroyHandle
  <2>2. CASE Close(c) \/ CloseLocked(c) \/ CloseReturns(c) \/ CloseAgainReturns(c)
    <3>1. inside' = inside /\ handleOpen' = handleOpen
      BY ONLY <2>2 DEF Close, CloseLocked, CloseReturns, CloseAgainReturns, rdVars
    <3> QED
      BY ONLY <3>1, SMTT(20), Zenon
  <2> QED
    BY ONLY <2>1, <2>2, Close(c) \/ CloseLocked(c) \/ DestroyHandle(c) \/ CloseReturns(c) \/ CloseAgainReturns(c)
<1>3. PurgeCause'
  BY <1>1, <1>2, CauseKept
<1>4. PICK l \in {"locking", "waiting", "draining", "reports", "returned"} : Go(c, l)
  BY Zenon DEF Close, CloseLocked, DestroyHandle, CloseReturns, CloseAgainReturns
<1>5. closer'[c] = l /\ \A d \in Closers : d # c => closer'[d] = closer[d]
  BY <1>4, GoMoves DEF Phases
<1>6. UNCHANGED fatal /\ (FatalDue' <=> FatalDue) /\ UNCHANGED translated
      /\ \A r : (Busy(r)' <=> Busy(r)) /\ (Open(r)' <=> Open(r)) /\ (PurgeCounts(r)' <=> PurgeCounts(r))
  BY <1>1, AroundPurges, SMTT(20), Zenon
<1>7. closed => closed'
  BY Zenon DEF Close, CloseLocked, DestroyHandle, CloseReturns, CloseAgainReturns, PInv, TypeOK
<1>8. /\ closeErr' = closeErr \/ (closeErr'.count = remaining /\ closeErr'.fatal = fatal)
      /\ closeErr' = closeErr \/ closer[c] = "reports"
  <2>1. CASE CloseReturns(c)
    BY ONLY <2>1, SMTT(20), Zenon DEF CloseReturns
  <2>2. CASE Close(c) \/ CloseLocked(c) \/ DestroyHandle(c) \/ CloseAgainReturns(c)
    BY ONLY <2>2 DEF Close, CloseLocked, DestroyHandle, CloseAgainReturns
  <2> QED
    BY ONLY <2>1, <2>2, Close(c) \/ CloseLocked(c) \/ DestroyHandle(c) \/ CloseReturns(c) \/ CloseAgainReturns(c)
<1>9. closer'[c] = "draining" => remaining = 0 /\ handleOpen' /\ ~closed
  <2>1. CloseLocked(c) \/ l # "draining"
    BY <1>5, Zenon DEF Close, DestroyHandle, CloseReturns, CloseAgainReturns, Go, PInv, TypeOK
  <2>2. CloseLocked(c) /\ closer'[c] = "draining" => ~closed /\ handleOpen' = handleOpen
    BY DEF CloseLocked, Go, PInv, TypeOK, rdVars
  <2> QED
    BY <1>5, <2>1, <2>2, Zenon DEF GInv, Counted, PInv, Shutdown
<1>10. \A d \in Closers : d # c /\ closer[d] = "draining" => handleOpen' = handleOpen
  BY Zenon DEF Close, CloseLocked, DestroyHandle, CloseReturns, CloseAgainReturns, rdVars, PInv, Agreement, First
<1>11. Counted'
  <2>1. \A d \in Closers :
          /\ closer'[d] = "draining" => remaining' = 0 /\ handleOpen'
          /\ closer'[d] \in {"purging", "flushing"} => remaining' > 0
    <3> TAKE d \in Closers
    <3>1. /\ closer[d] = "draining" => remaining = 0 /\ handleOpen
          /\ closer[d] \in {"purging", "flushing"} => remaining > 0
      BY DEF GInv, Counted
    <3>2. CASE d = c
      BY ONLY <1>1, <1>4, <1>5, <1>9, <3>2, SMTT(20), Zenon
    <3>3. CASE d # c
      <4>1. closer'[d] = closer[d] /\ (closer[d] = "draining" => handleOpen' = handleOpen)
        BY ONLY <1>5, <1>10, <3>3
      <4> QED
        BY ONLY <1>1, <3>1, <4>1
    <3> QED
      BY ONLY <3>2, <3>3
  <2>2. closeErr'.done => closeErr'.count = remaining' /\ closeErr'.fatal = fatal'
    BY <1>1, <1>6, <1>8 DEF GInv, Counted
  <2> QED
    BY <1>1, <1>7, <2>1, <2>2 DEF GInv, Counted
<1>12. Past' => Past
  <2>1. closer'[c] = "reports" => closer[c] \in {"destroying", "reports"}
    <3>1. CASE DestroyHandle(c)
      BY ONLY <3>1 DEF DestroyHandle
    <3>2. ASSUME NEW k \in {"locking", "waiting", "draining", "returned"}, Go(c, k)
          PROVE  closer'[c] # "reports"
      BY <3>2, GoMoves DEF Phases
    <3>3. CASE Close(c) \/ CloseLocked(c) \/ CloseReturns(c) \/ CloseAgainReturns(c)
      BY <3>2, <3>3, Zenon DEF Close, CloseLocked, CloseReturns, CloseAgainReturns
    <3> QED
      BY ONLY <3>1, <3>3, Close(c) \/ CloseLocked(c) \/ DestroyHandle(c) \/ CloseReturns(c) \/ CloseAgainReturns(c), Zenon
  <2> QED
    BY <1>5, <1>8, <2>1, Zenon DEF Past
<1>13. CleanDrain'
  BY <1>1, <1>6, <1>12 DEF GInv, CleanDrain
<1> QED
  BY <1>3, <1>11, <1>13 DEF GInv

\* Ping, and a step that changes nothing.
LEMMA PingPurges ==
  ASSUME PInv, GInv, Ping \/ PingReturns \/ UNCHANGED vars
  PROVE  GInv'
<1>1. /\ UNCHANGED <<Around, purging>>
      /\ UNCHANGED <<closed, closer, remaining, closeErr, inside, handleOpen>>
  BY DEF Ping, PingReturns, vars, closeVars, rdVars, Around
<1>2. PurgeCause'
  BY <1>1, CauseKept
<1>3. UNCHANGED <<fatal, translated>> /\ (FatalDue' <=> FatalDue)
      /\ \A r : (Busy(r)' <=> Busy(r)) /\ (Open(r)' <=> Open(r)) /\ (PurgeCounts(r)' <=> PurgeCounts(r))
  BY <1>1, AroundPurges
<1>4. Counted'
  BY <1>1, <1>3 DEF GInv, Counted
<1>5. CleanDrain'
  BY <1>1, <1>3 DEF GInv, CleanDrain, Past
<1> QED
  BY <1>2, <1>4, <1>5 DEF GInv

\* The invariant of purges holds throughout.
LEMMA AlwaysGInv == Spec => []GInv
<1>1. Init => GInv
  <2> SUFFICES ASSUME Init PROVE GInv
    OBVIOUS
  <2>1. Queued = {} /\ Range(events) = {}
    BY EventKinds, ChannelEmpty DEF Init, Queued
  <2>2. PurgeCause
    BY <2>1 DEF Init, PurgeCause, Busy
  <2>3. ~closeErr.done
    BY DEF Init, NoResult
  <2>4. Counted
    BY <2>3 DEF Init, Counted
  <2>5. CleanDrain
    BY <2>3 DEF Init, CleanDrain, Past
  <2> QED
    BY <2>2, <2>4, <2>5 DEF GInv
<1>2. PInv /\ GInv /\ [Next]_vars => GInv'
  <2> SUFFICES ASSUME PInv, GInv, [Next]_vars PROVE GInv'
    OBVIOUS
  <2>1. ASSUME NEW r \in Records, EncodeFails(r) \/ Enqueue(r) \/ Produce(r) \/ Wait(r)
        PROVE  GInv'
    BY <2>1, SendPurges
  <2>2. ASSUME NEW r \in Records, Acknowledged(r) \/ Refused(r) \/ Purged(r) \/ ReportAgain(r)
        PROVE  GInv'
    BY <2>2, RdPurges
  <2>3. CASE FailFatally \/ HandOver
    BY <2>3, RdPurges
  <2>4. CASE Reporting
    BY <2>4, TranslatePurges, SettlePurges, FailurePurges, FatalPurges DEF Reporting
  <2>5. ASSUME NEW c \in Closers, Close(c) \/ DrainCut(c) \/ Closing(c)
        PROVE  GInv'
    BY <2>5, DrainedPurges, CutPurges, ClosePurges DEF Closing
  <2>6. CASE Ping \/ PingReturns \/ UNCHANGED vars
    BY <2>6, PingPurges
  <2> QED
    BY <2>1, <2>2, <2>3, <2>4, <2>5, <2>6 DEF Next, AllDone
<1> QED
  BY <1>1, <1>2, AlwaysPInv, PTL DEF Spec

\* A Close that returns nil purged nothing: neither its own purge nor a fatal
\* failure it does not name made any record's outcome, even when a failure comes
\* after the drain and its error is lost with the handle (Close, drain, settle).
THEOREM NilNeverHidesAPurge == Spec => []NilMeansNothingPurged
<1>1. PInv /\ GInv => NilMeansNothingPurged
  <2> SUFFICES ASSUME PInv, GInv, NEW c \in Closers,
                      returned[c].done, returned[c].count = 0, ~returned[c].fatal, NEW r \in Records
               PROVE  delivery[r] # "purged"
    BY Zenon DEF NilMeansNothingPurged
  <2>1. closeErr.done /\ closeErr.count = 0 /\ ~closeErr.fatal
    BY Zenon DEF PInv, Agreement
  <2>2. remaining = 0 /\ ~fatal
    BY <2>1, SMTT(20), Zenon DEF GInv, Counted
  <2>3. translated # FatalErr
    BY <2>1, EventKinds DEF PInv, Shutdown
  <2> QED
    BY <2>1, <2>2, <2>3, Zenon DEF GInv, CleanDrain, Past, PurgeCounts, FatalDue
<1> QED
  BY <1>1, AlwaysPInv, AlwaysGInv, PTL

=============================================================================
