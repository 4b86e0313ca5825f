----------------------------- MODULE Playground -----------------------------
(***************************************************************************)
(* The playground (examples/playground): a source and a retry consumer in  *)
(* one process whose handler carries out the script in a message's payload *)
(* (internal/script/script.go, cmd/consumer/handler.go), one token per     *)
(* delivery.  It is RetryPipeline with the verdicts of its batch handler.  *)
(***************************************************************************)
EXTENDS RetryPipeline

Kinds == {"ok", "ko", "perm", "panic", "batchko", "nil"}
Unset == -1     \* a token's step when none is written

-----------------------------------------------------------------------------
(***************************************************************************)
(* Scripts.                                                                *)
(***************************************************************************)

\* A token parseToken accepts: ok and panic take no modifiers, and a step is a
\* positive number of 32 bits.
parseToken(token) ==
    /\ token.kind \in Kinds
    /\ token.kind \in {"ok", "panic"} => token.step = Unset /\ token.code = ""
    /\ token.step = Unset \/ token.step \in 1 .. MaxStep

\* A payload that is text, not empty, and whose tokens all parse.
Parse(payload) ==
    /\ payload.kind = "script"
    /\ payload.script # <<>>
    /\ \A i \in DOMAIN payload.script : parseToken(payload.script[i])

\* The outcome for an attempt, counted from 0; the last one repeats.
At(script, attempt) ==
    IF attempt >= Len(script) THEN script[Len(script)] ELSE script[attempt + 1]

-----------------------------------------------------------------------------
(***************************************************************************)
(* The handler.                                                            *)
(***************************************************************************)

Malformed == [kind |-> "malformed", step |-> Unset, code |-> ""]

\* The outcome a payload's script gives for an attempt.
Outcome(payload, attempt) == IF Parse(payload) THEN At(payload.script, attempt) ELSE Malformed

\* The outcome for the attempt a message is on.
resolve(msg) == Outcome(msg.payload, GetRetryAttempt(msg))

\* No script has an outcome for an attempt below 0, which a producer's own header
\* may name: At indexes the script with it, and panics.
OutOfRange(msg) == Parse(msg.payload) /\ GetRetryAttempt(msg) < 0

\* A failure recorded without an error is given ErrUnspecified.
withReason(err, step, code) ==
    [err |-> IF err = "" THEN "unspecified" ELSE err, step |-> step, code |-> code]

\* The failure to report for one message's outcome.
carryOut(o) ==
    LET step == IF o.step = Unset THEN 0 ELSE o.step
    IN  CASE o.kind = "malformed" -> withReason("permanent", 0, "")
          [] o.kind = "ok"        -> NoFailure
          [] o.kind = "perm"      -> withReason("permanent", step, o.code)
          [] o.kind = "nil"       -> withReason("", step, o.code)
          [] OTHER                -> withReason("scripted", step, o.code)

\* A panic the subscriber recovers: a failure with no step and no code.
Panicked == [err |-> "panic", step |-> 0, code |-> ""]

\* Mutant of Decides: a failed message fails its batch.
DecidesAny(o) == o.kind \in {"ko", "batchko", "panic"}

\* The outcomes that decide the fate of a whole batch.
Decides(o) == o.kind \in {"batchko", "panic"}

\* The failure of a whole batch that a deciding outcome makes.
BatchFailure(o) ==
    IF o.kind = "panic" THEN Panicked
    ELSE [err |-> "batchko", step |-> IF o.step = Unset THEN 0 ELSE o.step, code |-> o.code]

\* handleBatch: every message is resolved first; then the first message that
\* decides for the batch does; with none, every message has its own verdict.
handleBatch(msgs) ==
    LET deciding == {i \in DOMAIN msgs : Decides(resolve(msgs[i]))}
        first    == CHOOSE i \in deciding : \A j \in deciding : i <= j
        none     == [i \in DOMAIN msgs |-> NoFailure]
    IN  IF \E i \in DOMAIN msgs : OutOfRange(msgs[i]) THEN [whole |-> Panicked, items |-> none]
        ELSE IF deciding # {} THEN [whole |-> BatchFailure(resolve(msgs[first])), items |-> none]
        ELSE [whole |-> NoFailure, items |-> [i \in DOMAIN msgs |-> carryOut(resolve(msgs[i]))]]

\* The one verdict the playground's handler gives.
ScriptVerdicts(msgs) == {handleBatch(msgs)}

-----------------------------------------------------------------------------
(***************************************************************************)
(* Properties.                                                             *)
(***************************************************************************)

\* The records that one poll can return with the record of a root and a history.
Beside(logs, root, trail) ==
    UNION {{logs[c][j] : j \in {j \in DOMAIN logs[c] : \E i \in DOMAIN logs[c] :
                                /\ i - j < BatchSize /\ j - i < BatchSize
                                /\ logs[c][i].root = root /\ logs[c][i].trail = trail}} : c \in Consumers}

\* A script accounts for the failure of a record that had failed as trail says:
\* its own does, for the attempt it was on, or that of a record polled with it
\* decides for the batch.
AccountedFor(beside, root, trail, failure) ==
    LET src == Source[root + 1]
    IN  /\ failure.err = "panic" => \E rec \in beside : OutOfRange(rec) \/ resolve(rec).kind = "panic"
        /\ failure.err = "batchko" =>
              \E rec \in beside : /\ resolve(rec).kind = "batchko"
                                  /\ failure.step = BatchFailure(resolve(rec)).step
                                  /\ failure.code = BatchFailure(resolve(rec)).code
        /\ failure.err \notin {"cancelled", "panic", "batchko"} =>
              [err |-> failure.err, step |-> failure.step, code |-> failure.code] =
                  carryOut(Outcome(src.payload, GetRetryAttempt(src) + Len(trail)))

\* One bad record does not drag its batch along: a failure of its own kind, step
\* and code is routed for a message only when its own script asks for it at that
\* attempt.  Only a batchko, a panic or an interrupted wait fails the messages
\* around it, and then with what the script of a record within a batch's reach
\* says.  And none hides in its batch: what counts as processed has a record at
\* an attempt for which its script says ok.
OwnVerdict ==
    /\ \A t \in {"retry", "dlq"} : \A rec \in Records(t) : \A n \in DOMAIN rec.trail :
          LET before == SubSeq(rec.trail, 1, n - 1)
          IN  AccountedFor(Beside(log, rec.root, before), rec.root, before, rec.trail[n])
    /\ \A root \in processed : \E t \in Consumers : \E rec \in Records(t) :
          rec.root = root /\ resolve(rec).kind = "ok"

=============================================================================
