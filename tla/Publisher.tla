------------------------------ MODULE Publisher ------------------------------
(***************************************************************************)
(* A publisher (publish/publisher.go, publish/delivery.go) over its driver *)
(* (internal/publish/publishdriver/producer.go) and librdkafka's producer, *)
(* which is external.  Goroutines: one per Send call, with the Wait that   *)
(* follows it; the driver's translate; the report goroutine; one per Close *)
(* call; and one that pings.                                               *)
(***************************************************************************)
EXTENDS Naturals, Sequences, FiniteSets

CONSTANTS Records,        \* records, each sent by a goroutine of its own
          Closers,        \* calls of Close
          QueueLimit,     \* records librdkafka's queue holds
          MaxDuplicates,  \* bound on reports for a record reported before
          CanFail         \* whether the producer may fail fatally

ASSUME PublisherAssumption ==
    /\ QueueLimit \in Nat
    /\ MaxDuplicates \in Nat
    /\ CanFail \in BOOLEAN

VARIABLES
    sender,      \* per record: where its Send and Wait are
    answer,      \* per record: what Send returned
    waited,      \* per record: what Wait returned
    delivery,    \* per record: outcome of its Delivery
    callbacks,   \* per record: calls of the delivery error callback
    closed,      \* Publisher.closed
    closer,      \* per Close call: where it is
    remaining,   \* what drain returned
    closeErr,    \* Publisher.closeErr, NoResult until closeDone is closed
    returned,    \* per Close call: what it returned
    fatal,       \* Publisher.fatal is set
    fatalCalls,  \* calls of the fatal handler
    reporter,    \* where the report goroutine is
    report,      \* the event it is working on
    translated,  \* the event translate is handing over
    ping         \* a Ping holds the driver's handle

\* librdkafka and confluent's pipeline.
VARIABLES
    held,        \* records queued or in flight
    purging,     \* the queue is being purged
    failed,      \* the producer has failed fatally
    inside,      \* events librdkafka has not handed to Go yet
    events,      \* the events channel
    handleOpen,  \* the handle has not been destroyed
    duplicates   \* duplicate reports made so far

sendVars   == <<sender, answer, waited>>
outcomes   == <<delivery, callbacks>>
closeVars  == <<closed, closer, remaining, closeErr, returned>>
reportVars == <<reporter, report, fatal, fatalCalls>>
rdVars     == <<held, purging, failed, inside, events, handleOpen, duplicates>>
vars       == <<sendVars, outcomes, closeVars, reportVars, translated, ping, rdVars>>

NoEvent  == [kind |-> "none"]
FatalErr == [kind |-> "fatal"]
Report(r, code) == [kind |-> "report", rec |-> r, code |-> code]
Codes    == {"acked", "refused", "purged"}
Reports  == {Report(r, code) : r \in Records, code \in Codes}
NoResult == [count |-> 0, fatal |-> FALSE, done |-> FALSE]

Init ==
    /\ sender     = [r \in Records |-> "idle"]
    /\ answer     = [r \in Records |-> "none"]
    /\ waited     = [r \in Records |-> "none"]
    /\ delivery   = [r \in Records |-> "pending"]
    /\ callbacks  = [r \in Records |-> 0]
    /\ closed     = FALSE
    /\ closer     = [c \in Closers |-> "idle"]
    /\ remaining  = 0
    /\ closeErr   = NoResult
    /\ returned   = [c \in Closers |-> NoResult]
    /\ fatal      = FALSE
    /\ fatalCalls = 0
    /\ reporter   = "read"
    /\ report     = NoEvent
    /\ translated = NoEvent
    /\ ping       = FALSE
    /\ held       = {}
    /\ purging    = FALSE
    /\ failed     = FALSE
    /\ inside     = {}
    /\ events     = <<>>
    /\ handleOpen = TRUE
    /\ duplicates = 0

-----------------------------------------------------------------------------
(***************************************************************************)
(* Sending.  lifecycle is a sync.RWMutex: a sender in "locked" holds the   *)
(* read lock, and a Close waiting in Lock keeps new readers out.           *)
(***************************************************************************)

\* Send cannot encode the key or the value, and never reaches enqueue.
EncodeFails(r) ==
    /\ sender[r] = "idle"
    /\ answer' = [answer EXCEPT ![r] = "ErrEncode"]
    /\ sender' = [sender EXCEPT ![r] = "done"]
    /\ UNCHANGED <<waited, outcomes, closeVars, reportVars, translated, ping, rdVars>>

\* enqueue up to Produce: the read lock, then the checks of closed and fatal.
Enqueue(r) ==
    /\ sender[r] = "idle"
    /\ \A c \in Closers : closer[c] # "locking"
    /\ LET refusal == IF closed THEN "ErrClosed" ELSE "ErrFatal" IN
       IF closed \/ fatal
       THEN /\ answer' = [answer EXCEPT ![r] = refusal]
            /\ sender' = [sender EXCEPT ![r] = "done"]
       ELSE /\ sender' = [sender EXCEPT ![r] = "locked"]
            /\ UNCHANGED answer
    /\ UNCHANGED <<waited, outcomes, closeVars, reportVars, translated, ping, rdVars>>

\* Mutant of Produce: the error of a failed producer is dropped.
ProduceDropsError(r) ==
    /\ sender[r] = "locked"
    /\ answer' = [answer EXCEPT ![r] = "accepted"]
    /\ sender' = [sender EXCEPT ![r] = "waiting"]
    /\ held' = IF failed THEN held ELSE held \cup {r}
    /\ UNCHANGED <<waited, outcomes, closeVars, reportVars, translated, ping,
                   purging, failed, inside, events, handleOpen, duplicates>>

\* enqueue from Produce on: librdkafka takes the record, or refuses it because
\* it has failed or its queue is full; then the read lock is released.
Produce(r) ==
    /\ sender[r] = "locked"
    /\ \/ /\ failed
          /\ answer' = [answer EXCEPT ![r] = "ErrFatal"]
          /\ sender' = [sender EXCEPT ![r] = "done"]
          /\ UNCHANGED held
       \/ /\ ~failed
          /\ Cardinality(held) >= QueueLimit
          /\ answer' = [answer EXCEPT ![r] = "ErrQueueFull"]
          /\ sender' = [sender EXCEPT ![r] = "done"]
          /\ UNCHANGED held
       \/ /\ ~failed
          /\ Cardinality(held) < QueueLimit
          /\ answer' = [answer EXCEPT ![r] = "accepted"]
          /\ sender' = [sender EXCEPT ![r] = "waiting"]
          /\ held' = held \cup {r}
    /\ UNCHANGED <<waited, outcomes, closeVars, reportVars, translated, ping,
                   purging, failed, inside, events, handleOpen, duplicates>>

\* Delivery.Wait: a known outcome is returned even if the context has ended.
Wait(r) ==
    /\ sender[r] = "waiting"
    /\ \/ delivery[r] # "pending" /\ waited' = [waited EXCEPT ![r] = delivery[r]]
       \/ delivery[r] = "pending" /\ waited' = [waited EXCEPT ![r] = "ctxErr"]
    /\ sender' = [sender EXCEPT ![r] = "done"]
    /\ UNCHANGED <<answer, outcomes, closeVars, reportVars, translated, ping, rdVars>>

-----------------------------------------------------------------------------
(***************************************************************************)
(* librdkafka (external): every record it holds gets one report, which     *)
(* confluent's poller moves to the events channel while the handle lives.  *)
(***************************************************************************)

Reported(r, code) ==
    /\ r \in held
    /\ held'   = held \ {r}
    /\ inside' = inside \cup {Report(r, code)}
    /\ UNCHANGED <<sendVars, outcomes, closeVars, reportVars, translated, ping,
                   purging, failed, events, handleOpen, duplicates>>

\* The broker acknowledges the record.
Acknowledged(r) == ~failed /\ Reported(r, "acked")

\* The broker refuses it, or its delivery timeout passes.
Refused(r) == Reported(r, "refused")

\* The record is purged, by Purge or by the producer's own failure.
Purged(r) == purging /\ Reported(r, "purged")

\* The producer fails fatally, and purges what it holds.  It may report a
\* further fatal error later.
FailFatally ==
    /\ CanFail
    /\ handleOpen
    /\ failed => duplicates < MaxDuplicates
    /\ duplicates' = IF failed THEN duplicates + 1 ELSE duplicates
    /\ failed'  = TRUE
    /\ purging' = TRUE
    /\ inside'  = inside \cup {FatalErr}
    /\ UNCHANGED <<sendVars, outcomes, closeVars, reportVars, translated, ping,
                   held, events, handleOpen>>

\* A second report for a record, which the publisher guards against.
ReportAgain(r) ==
    /\ handleOpen
    /\ duplicates < MaxDuplicates
    /\ answer[r] = "accepted"
    /\ r \notin held
    /\ \A code \in Codes : Report(r, code) \notin inside
    /\ \E code \in Codes :
          /\ code = "purged" => purging
          /\ inside' = inside \cup {Report(r, code)}
    /\ duplicates' = duplicates + 1
    /\ UNCHANGED <<sendVars, outcomes, closeVars, reportVars, translated, ping,
                   held, purging, failed, events, handleOpen>>

\* The poller hands an event to the channel.
HandOver ==
    /\ handleOpen
    /\ \E event \in inside :
          /\ inside' = inside \ {event}
          /\ events' = Append(events, event)
    /\ UNCHANGED <<sendVars, outcomes, closeVars, reportVars, translated, ping,
                   held, purging, failed, handleOpen, duplicates>>

\* Len: what librdkafka and the events channel hold.
PendingLen == Cardinality(held) + Cardinality(inside) + Len(events)

-----------------------------------------------------------------------------
(***************************************************************************)
(* The reports.                                                            *)
(***************************************************************************)

\* translate takes the next event; it blocks until the last one is read.
Translate ==
    /\ translated = NoEvent
    /\ events # <<>>
    /\ translated' = Head(events)
    /\ events' = Tail(events)
    /\ UNCHANGED <<sendVars, outcomes, closeVars, reportVars, ping,
                   held, purging, failed, inside, handleOpen, duplicates>>

\* Mutant of Settle: resolved is not checked.
SettleUnchecked ==
    /\ reporter = "read"
    /\ translated.kind = "report"
    /\ translated' = NoEvent
    /\ \/ /\ translated.code = "acked"
          /\ delivery' = [delivery EXCEPT ![translated.rec] = "acked"]
          /\ UNCHANGED <<reporter, report>>
       \/ /\ translated.code # "acked"
          /\ reporter' = "callback"
          /\ report' = translated
          /\ UNCHANGED delivery
    /\ UNCHANGED <<sendVars, callbacks, closeVars, fatal, fatalCalls, ping, rdVars>>

\* Mutant of Settle: the delivery is resolved before the callback runs.
SettleResolvesFirst ==
    /\ reporter = "read"
    /\ translated.kind = "report"
    /\ translated' = NoEvent
    /\ IF delivery[translated.rec] # "pending"
       THEN UNCHANGED <<delivery, reporter, report>>
       ELSE /\ delivery' = [delivery EXCEPT ![translated.rec] = translated.code]
            /\ reporter' = IF translated.code = "acked" THEN "read" ELSE "callback"
            /\ report' = IF translated.code = "acked" THEN NoEvent ELSE translated
    /\ UNCHANGED <<sendVars, callbacks, closeVars, fatal, fatalCalls, ping, rdVars>>

\* readReports and settle, up to the callback.  A report for a delivery already
\* resolved is dropped; an acknowledgement resolves the delivery.
Settle ==
    /\ reporter = "read"
    /\ translated.kind = "report"
    /\ translated' = NoEvent
    /\ LET r == translated.rec IN
       \/ /\ delivery[r] # "pending"
          /\ UNCHANGED <<delivery, reporter, report>>
       \/ /\ delivery[r] = "pending"
          /\ translated.code = "acked"
          /\ delivery' = [delivery EXCEPT ![r] = "acked"]
          /\ UNCHANGED <<reporter, report>>
       \/ /\ delivery[r] = "pending"
          /\ translated.code # "acked"
          /\ reporter' = "callback"
          /\ report' = translated
          /\ UNCHANGED delivery
    /\ UNCHANGED <<sendVars, callbacks, closeVars, fatal, fatalCalls, ping, rdVars>>

\* Mutant of InvokeDeliveryErrorFunc: a panic ends the report goroutine.
InvokeUnrecovered ==
    /\ reporter = "callback"
    /\ callbacks' = [callbacks EXCEPT ![report.rec] = @ + 1]
    /\ reporter' \in {"resolve", "dead"}
    /\ UNCHANGED <<sendVars, delivery, closeVars, report, fatal, fatalCalls, translated, ping, rdVars>>

\* The delivery error callback runs; a panic in it is recovered.
InvokeDeliveryErrorFunc ==
    /\ reporter = "callback"
    /\ callbacks' = [callbacks EXCEPT ![report.rec] = @ + 1]
    /\ reporter'  = "resolve"
    /\ UNCHANGED <<sendVars, delivery, closeVars, report, fatal, fatalCalls, translated, ping, rdVars>>

\* settle after the callback: the delivery is resolved with the error.
ResolveFailed ==
    /\ reporter = "resolve"
    /\ delivery' = [delivery EXCEPT ![report.rec] = report.code]
    /\ reporter' = "read"
    /\ report'   = NoEvent
    /\ UNCHANGED <<sendVars, callbacks, closeVars, fatal, fatalCalls, translated, ping, rdVars>>

\* Mutant of NoteFatal: every fatal error goes to the handler.
NoteEveryFatal ==
    /\ reporter = "read"
    /\ translated = FatalErr
    /\ translated' = NoEvent
    /\ fatal'    = TRUE
    /\ reporter' = "onFatal"
    /\ UNCHANGED <<sendVars, outcomes, closeVars, report, fatalCalls, ping, rdVars>>

\* noteFatal: the first error is recorded, for good; later ones are ignored.
NoteFatal ==
    /\ reporter = "read"
    /\ translated = FatalErr
    /\ translated' = NoEvent
    /\ fatal'    = TRUE
    /\ reporter' = IF fatal THEN "read" ELSE "onFatal"
    /\ UNCHANGED <<sendVars, outcomes, closeVars, report, fatalCalls, ping, rdVars>>

\* The fatal handler runs; a panic in it is recovered.
InvokeFatalHandler ==
    /\ reporter = "onFatal"
    /\ fatalCalls' = fatalCalls + 1
    /\ reporter'   = "read"
    /\ UNCHANGED <<sendVars, outcomes, closeVars, report, fatal, translated, ping, rdVars>>

\* The channel is closed and drained: the report goroutine ends.
ReportsDone ==
    /\ reporter = "read"
    /\ ~handleOpen
    /\ events = <<>>
    /\ translated = NoEvent
    /\ reporter' = "done"
    /\ UNCHANGED <<sendVars, outcomes, closeVars, report, fatal, fatalCalls, translated, ping, rdVars>>

-----------------------------------------------------------------------------
(***************************************************************************)
(* Close and Ping.                                                         *)
(***************************************************************************)

Go(c, label) == closer' = [closer EXCEPT ![c] = label]

\* Close is called and asks for the write lock.
Close(c) ==
    /\ closer[c] = "idle"
    /\ Go(c, "locking")
    /\ UNCHANGED <<sendVars, outcomes, closed, remaining, closeErr, returned,
                   reportVars, translated, ping, rdVars>>

\* It gets the lock once every enqueue in progress is over.  The first Close
\* sets closed and shuts down; any other waits for that one.
CloseLocked(c) ==
    /\ closer[c] = "locking"
    /\ \A r \in Records : sender[r] # "locked"
    /\ closed' = TRUE
    /\ Go(c, IF closed THEN "waiting" ELSE "draining")
    /\ UNCHANGED <<sendVars, outcomes, remaining, closeErr, returned,
                   reportVars, translated, ping, rdVars>>

\* drain ends with nothing left to report.
Drained(c) ==
    /\ closer[c] = "draining"
    /\ PendingLen = 0
    /\ remaining' = 0
    /\ Go(c, "destroying")
    /\ UNCHANGED <<sendVars, outcomes, closed, closeErr, returned,
                   reportVars, translated, ping, rdVars>>

\* drain ends with its context, after a Flush that left something.
DrainCut(c) ==
    /\ closer[c] = "draining"
    /\ PendingLen > 0
    /\ remaining' = PendingLen
    /\ Go(c, "purging")
    /\ UNCHANGED <<sendVars, outcomes, closed, closeErr, returned,
                   reportVars, translated, ping, rdVars>>

\* Purge, which does not wait for the records to be purged.
Purge(c) ==
    /\ closer[c] = "purging"
    /\ purging' = TRUE
    /\ Go(c, "flushing")
    /\ UNCHANGED <<sendVars, outcomes, closed, remaining, closeErr, returned,
                   reportVars, translated, ping,
                   held, failed, inside, events, handleOpen, duplicates>>

\* Mutant of FlushReports: no Flush after the purge.
FlushNothing(c) ==
    /\ closer[c] = "flushing"
    /\ Go(c, "destroying")
    /\ UNCHANGED <<sendVars, outcomes, closed, remaining, closeErr, returned,
                   reportVars, translated, ping, rdVars>>

\* Mutant of FlushReports: it is repeated while remaining, never updated, is
\* above zero.
FlushForever(c) ==
    /\ closer[c] = "flushing"
    /\ \/ remaining > 0 /\ UNCHANGED vars
       \/ /\ remaining = 0
          /\ Go(c, "destroying")
          /\ UNCHANGED <<sendVars, outcomes, closed, remaining, closeErr, returned,
                         reportVars, translated, ping, rdVars>>

\* The Flush after it: purge reports are local, so librdkafka has handed all of
\* them to Go when it returns; the channel may still hold some.
FlushReports(c) ==
    /\ closer[c] = "flushing"
    /\ held = {}
    /\ inside = {}
    /\ Go(c, "destroying")
    /\ UNCHANGED <<sendVars, outcomes, closed, remaining, closeErr, returned,
                   reportVars, translated, ping, rdVars>>

\* The driver's Close: it waits for the calls that hold the handle, destroys it
\* and closes the channel.  What librdkafka still holds is gone.
DestroyHandle(c) ==
    /\ closer[c] = "destroying"
    /\ ~ping
    /\ handleOpen' = FALSE
    /\ held'   = {}
    /\ inside' = {}
    /\ Go(c, "reports")
    /\ UNCHANGED <<sendVars, outcomes, closed, remaining, closeErr, returned,
                   reportVars, translated, ping, purging, failed, events, duplicates>>

\* Mutant of CloseReturns: the fatal error is left out.
CloseHidesFatal(c) ==
    /\ closer[c] = "reports"
    /\ reporter = "done"
    /\ closeErr' = [count |-> remaining, fatal |-> FALSE, done |-> TRUE]
    /\ returned' = [returned EXCEPT ![c] = closeErr']
    /\ Go(c, "returned")
    /\ UNCHANGED <<sendVars, outcomes, closed, remaining, reportVars, translated, ping, rdVars>>

\* The report goroutine is done: closeErr is set, closeDone closed, and Close
\* returns.
CloseReturns(c) ==
    /\ closer[c] = "reports"
    /\ reporter = "done"
    /\ closeErr' = [count |-> remaining, fatal |-> fatal, done |-> TRUE]
    /\ returned' = [returned EXCEPT ![c] = closeErr']
    /\ Go(c, "returned")
    /\ UNCHANGED <<sendVars, outcomes, closed, remaining, reportVars, translated, ping, rdVars>>

\* Mutant of CloseAgainReturns: closeDone is not waited for.
CloseAgainAtOnce(c) ==
    /\ closer[c] = "waiting"
    /\ returned' = [returned EXCEPT ![c] = [closeErr EXCEPT !.done = TRUE]]
    /\ Go(c, "returned")
    /\ UNCHANGED <<sendVars, outcomes, closed, remaining, closeErr, reportVars, translated, ping, rdVars>>

\* Another Close returns once closeDone is closed.
CloseAgainReturns(c) ==
    /\ closer[c] = "waiting"
    /\ closeErr.done
    /\ returned' = [returned EXCEPT ![c] = closeErr]
    /\ Go(c, "returned")
    /\ UNCHANGED <<sendVars, outcomes, closed, remaining, closeErr, reportVars, translated, ping, rdVars>>

\* Ping asks the cluster, holding the driver's handle, unless the publisher has
\* failed or the handle is closed.  A driver Close waiting for the handle keeps
\* new calls out.
Ping ==
    /\ ~ping
    /\ ~fatal
    /\ handleOpen
    /\ \A c \in Closers : closer[c] # "destroying"
    /\ ping' = TRUE
    /\ UNCHANGED <<sendVars, outcomes, closeVars, reportVars, translated, rdVars>>

\* The cluster answers, or Ping's deadline passes.
PingReturns ==
    /\ ping
    /\ ping' = FALSE
    /\ UNCHANGED <<sendVars, outcomes, closeVars, reportVars, translated, rdVars>>

-----------------------------------------------------------------------------
Reporting == Translate \/ Settle \/ InvokeDeliveryErrorFunc \/ ResolveFailed
             \/ NoteFatal \/ InvokeFatalHandler \/ ReportsDone

Closing(c) == CloseLocked(c) \/ Drained(c) \/ Purge(c) \/ FlushReports(c)
              \/ DestroyHandle(c) \/ CloseReturns(c) \/ CloseAgainReturns(c)

\* Every call has returned.
AllDone ==
    /\ \A c \in Closers : closer[c] = "returned"
    /\ \A r \in Records : sender[r] = "done"
    /\ UNCHANGED vars

Next ==
    \/ \E r \in Records : EncodeFails(r) \/ Enqueue(r) \/ Produce(r) \/ Wait(r)
    \/ \E r \in Records : Acknowledged(r) \/ Refused(r) \/ Purged(r) \/ ReportAgain(r)
    \/ FailFatally \/ HandOver
    \/ Reporting
    \/ \E c \in Closers : Close(c) \/ DrainCut(c) \/ Closing(c)
    \/ Ping \/ PingReturns
    \/ AllDone

Spec == Init /\ [][Next]_vars

\* Goroutines that can go on do so, the callbacks return, a Ping has a deadline,
\* and librdkafka reports every record within the delivery timeout.  Nobody has
\* to send or to close, and no context has to end.
Fairness ==
    /\ \A r \in Records : WF_vars(Produce(r)) /\ WF_vars(Refused(r))
    /\ \A c \in Closers : WF_vars(Closing(c))
    /\ WF_vars(HandOver)
    /\ WF_vars(Reporting)
    /\ WF_vars(PingReturns)

FairSpec == Spec /\ Fairness

-----------------------------------------------------------------------------
(***************************************************************************)
(* Properties.                                                             *)
(***************************************************************************)

Events == Reports \cup {FatalErr}
Results == [count : Nat, fatal : BOOLEAN, done : BOOLEAN]

\* Every variable has its type; in particular neither callback of the report
\* goroutine runs twice for the same cause.
TypeOK ==
    /\ sender \in [Records -> {"idle", "locked", "waiting", "done"}]
    /\ answer \in [Records -> {"none", "accepted", "ErrEncode", "ErrClosed", "ErrFatal", "ErrQueueFull"}]
    /\ waited \in [Records -> Codes \cup {"none", "ctxErr"}]
    /\ delivery \in [Records -> Codes \cup {"pending"}]
    /\ callbacks \in [Records -> 0 .. 1]
    /\ closed \in BOOLEAN
    /\ closer \in [Closers -> {"idle", "locking", "waiting", "draining", "purging",
                               "flushing", "destroying", "reports", "returned"}]
    /\ remaining \in Nat
    /\ closeErr \in Results
    /\ returned \in [Closers -> Results]
    /\ fatal \in BOOLEAN
    /\ fatalCalls \in 0 .. 1
    /\ reporter \in {"read", "callback", "resolve", "onFatal", "done"}
    /\ report \in Reports \cup {NoEvent}
    /\ translated \in Events \cup {NoEvent}
    /\ ping \in BOOLEAN
    /\ held \subseteq Records
    /\ purging \in BOOLEAN
    /\ failed \in BOOLEAN
    /\ inside \subseteq Events
    /\ events \in Seq(Events)
    /\ handleOpen \in BOOLEAN
    /\ duplicates \in Nat

\* When any call of Close has returned, every record that Send accepted has its
\* outcome: none was enqueued behind the flush and the purge, and no report was
\* left behind in librdkafka, the channel or the report goroutine.
NothingAcceptedIsLost ==
    (\E c \in Closers : closer[c] = "returned")
        => \A r \in Records : sender[r] # "locked" /\ (answer[r] = "accepted" => delivery[r] # "pending")

\* What a Wait has returned as the outcome is the outcome, and the callback had
\* seen the record by then if and only if it failed, whatever second reports
\* librdkafka makes.
WaitTellsTheTruth ==
    \A r \in Records : waited[r] \in Codes =>
        /\ delivery[r] = waited[r]
        /\ callbacks[r] = IF waited[r] = "acked" THEN 0 ELSE 1

\* A Close that returned nil purged nothing: no record was reported as purged,
\* by Close or by a fatal failure the caller has not been told of.
NilMeansNothingPurged ==
    \A c \in Closers :
        returned[c].done /\ returned[c].count = 0 /\ ~returned[c].fatal
            => \A r \in Records : delivery[r] # "purged"

\* Every Close returns the same error, and one that names a fatal error returns
\* after the fatal handler ran.
ClosesAgree ==
    \A c \in Closers : returned[c].done =>
        /\ \A d \in Closers : returned[d].done => returned[d] = returned[c]
        /\ returned[c].fatal => fatalCalls = 1

\* What the sender of r can know.
OutcomeOf(r) ==
    CASE delivery[r] = "acked"                             -> "acked"
      [] delivery[r] \in {"refused", "purged"}             -> "failed"
      [] delivery[r] = "pending" /\ answer[r] = "none"     -> "unsent"
      [] delivery[r] = "pending" /\ answer[r] = "accepted" -> "accepted"
      [] OTHER                                             -> "rejected"

\* The publisher implements the delivery contract.
Contract == INSTANCE DeliveryContract WITH
    outcome  <- [r \in Records |-> OutcomeOf(r)],
    told     <- {r \in Records : callbacks[r] > 0},
    closing  <- closed,
    finished <- \E c \in Closers : closer[c] = "returned"

ImplementsContract == Contract!Spec

\* Once fatal is set, Send accepts nothing, even a record whose enqueue had
\* passed the check of fatal before.
FatalStopsSending ==
    [][\A r \in Records : fatal /\ answer[r] # "accepted" => answer'[r] # "accepted"]_vars

\* Every Close returns, with a Ping on the handle, callbacks that panic or a
\* context that never ends, because the delivery timeout bounds every record.
EveryCloseReturns ==
    \A c \in Closers : closer[c] = "locking" ~> closer[c] = "returned"

\* Every accepted record gets its outcome, whether or not anyone closes.
EveryDeliveryResolves ==
    \A r \in Records : answer[r] = "accepted" ~> delivery[r] # "pending"

\* Close's comment says it returns "an error wrapping ErrNotDelivered with the
\* count when records were purged": an error that counts records means that
\* some were.
ErrNotDeliveredMeansPurged ==
    \A c \in Closers : returned[c].count > 0 => \E r \in Records : delivery[r] = "purged"

=============================================================================
