--------------------------- MODULE MCRetryPipeline ---------------------------
(***************************************************************************)
(* RetryPipeline for TLC: the verdicts of a handler on small batches, over *)
(* a tombstone that comes back from the DLQ with some of its headers on,   *)
(* beside one of the application's.                                        *)
(***************************************************************************)
EXTENDS RetryPipeline

Transient == [err |-> "transient", step |-> 0, code |-> ""]
AtStep    == [err |-> "transient", step |-> 2, code |-> "write_failed"]
Fatal     == [err |-> "permanent", step |-> 0, code |-> ""]

\* Each item of a batch succeeds or fails in any of these ways, or the batch
\* fails as a whole.
AllVerdicts(msgs) ==
    [whole : {NoFailure}, items : [DOMAIN msgs -> {NoFailure, Transient, AtStep, Fatal}]]
    \cup [whole : {Transient}, items : {[i \in DOMAIN msgs |-> NoFailure]}]

Replayed ==
    [key |-> "k1", payload |-> [kind |-> "nil"],
     headers |-> [k \in {"trace", HeaderRetryAttempt, HeaderRetryStep, HeaderOriginalTopic,
                         HeaderOriginalOffset} |->
                    CASE k = "trace" -> Text("t")
                      [] k = HeaderRetryAttempt -> Text("one")
                      [] k = HeaderRetryStep -> Itoa(1)
                      [] k = HeaderOriginalTopic -> Text("")
                      [] OTHER -> Itoa(7)]]

OneReplayed == <<Replayed>>

Steep     == <<8, 1>>
NoBackoff == <<>>

=============================================================================
