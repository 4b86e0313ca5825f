---------------------------- MODULE RetryHeaders ----------------------------
(***************************************************************************)
(* The metadata a failed message carries to the retry topic and the DLQ    *)
(* (internal/subscribe/metadata/headers.go) and its back-off               *)
(* (RetryStrategy.computeBackoff), as operators.  A header value is text,  *)
(* written <<form, what>>: text of form "number" parses as a number, text  *)
(* of form "time" as a time, and text of form "text" as neither.  Times    *)
(* and durations count ticks, TicksPerSecond of them to the second.        *)
(***************************************************************************)
EXTENDS Integers, Sequences

CONSTANTS InitialDelay,    \* WithInitialDelay
          MaxDelay,        \* WithMaxDelay
          Multiplier,      \* WithBackoffMultiplier, as <<numerator, denominator>>
          CustomBackoff,   \* WithCustomBackoff, as the delays by attempt; <<>> if unset
          TicksPerSecond,
          MaxDuration,     \* the largest time.Duration
          MaxStep          \* the largest int32

ASSUME RetryHeadersAssumption ==
    /\ {InitialDelay, MaxDelay, TicksPerSecond, MaxDuration, MaxStep} \subseteq Nat \ {0}
    /\ Multiplier \in Nat \X Nat
    /\ Multiplier[1] >= Multiplier[2] /\ Multiplier[2] > 0
    /\ InitialDelay <= MaxDuration /\ MaxDelay <= MaxDuration

HeaderRetryAttempt      == "easykafka.retry.attempt"
HeaderRetryTime         == "easykafka.retry.time"
HeaderRetryStep         == "easykafka.retry.step"
HeaderErrorCode         == "easykafka.error.code"
HeaderErrorMessage      == "easykafka.error.message"
HeaderOriginalTopic     == "easykafka.original.topic"
HeaderOriginalPartition == "easykafka.original.partition"
HeaderOriginalOffset    == "easykafka.original.offset"
HeaderFailedAt          == "easykafka.failed.at"

isRetryHeader(key) ==
    key \in {HeaderRetryAttempt, HeaderRetryTime, HeaderRetryStep, HeaderErrorCode,
             HeaderErrorMessage, HeaderOriginalTopic, HeaderOriginalPartition,
             HeaderOriginalOffset, HeaderFailedAt}

-----------------------------------------------------------------------------
(***************************************************************************)
(* Conversions to and from text.                                           *)
(***************************************************************************)

Text(s) == <<"text", s>>
Itoa(n) == <<"number", n>>

\* time.Format(RFC3339) keeps whole seconds only.
FormatTime(t) == <<"time", t \div TicksPerSecond>>

HeaderValues == ({"text"} \X STRING) \cup ({"number", "time"} \X Int)

NoTime == -1

-----------------------------------------------------------------------------
(***************************************************************************)
(* The readers.  An absent or unparseable header reads as none.            *)
(***************************************************************************)

HasForm(msg, key, form) == key \in DOMAIN msg.headers /\ msg.headers[key][1] = form

GetRetryAttempt(msg) ==
    IF HasForm(msg, HeaderRetryAttempt, "number") THEN msg.headers[HeaderRetryAttempt][2] ELSE 0

GetRetryTime(msg) ==
    IF HasForm(msg, HeaderRetryTime, "time")
    THEN msg.headers[HeaderRetryTime][2] * TicksPerSecond
    ELSE NoTime

\* Parsed at 32 bits: a number out of range is no step.
GetRetryStep(msg) ==
    IF /\ HasForm(msg, HeaderRetryStep, "number")
       /\ msg.headers[HeaderRetryStep][2] \in -MaxStep - 1 .. MaxStep
    THEN msg.headers[HeaderRetryStep][2]
    ELSE 0

GetErrorCode(msg) ==
    IF HeaderErrorCode \in DOMAIN msg.headers THEN msg.headers[HeaderErrorCode] ELSE Text("")

GetOriginalTopic(msg) ==
    IF HeaderOriginalTopic \in DOMAIN msg.headers THEN msg.headers[HeaderOriginalTopic] ELSE Text("")

-----------------------------------------------------------------------------
(***************************************************************************)
(* The writer.  A failure is what a handler reports: its error, step and   *)
(* code.                                                                   *)
(***************************************************************************)

\* Mutant of resolveStep: a failure without a step forgets the resume point.
resolveStepForgets(msg, f) == f.step

resolveStep(msg, f) == IF f.step # 0 THEN f.step ELSE GetRetryStep(msg)

\* The inbound code is never carried forward.
resolveErrorCode(f) == IF f.code # "" THEN f.code ELSE "HANDLER_ERROR"

\* Mutant of resolveOriginalHeader: every hop names the record it came from.
resolveOriginalHeaderCurrent(msg, key, current) == current

resolveOriginalHeader(msg, key, current) ==
    IF key \in DOMAIN msg.headers /\ msg.headers[key] # Text("")
    THEN msg.headers[key]
    ELSE current

\* The library's headers, over a copy of the record's own.
buildFailureHeaders(msg, attempt, f, now) ==
    LET step == resolveStep(msg, f)
        kept == {key \in DOMAIN msg.headers : ~isRetryHeader(key)}
        ours == {HeaderRetryAttempt, HeaderErrorCode, HeaderErrorMessage, HeaderOriginalTopic,
                 HeaderOriginalPartition, HeaderOriginalOffset, HeaderFailedAt}
                \cup (IF step # 0 THEN {HeaderRetryStep} ELSE {})
    IN  [key \in kept \cup ours |->
            CASE key = HeaderRetryAttempt      -> Itoa(attempt)
              [] key = HeaderRetryStep         -> Itoa(step)
              [] key = HeaderErrorCode         -> Text(resolveErrorCode(f))
              [] key = HeaderErrorMessage      -> Text(f.err)
              [] key = HeaderOriginalTopic     -> resolveOriginalHeader(msg, key, Text(msg.topic))
              [] key = HeaderOriginalPartition -> resolveOriginalHeader(msg, key, Itoa(msg.partition))
              [] key = HeaderOriginalOffset    -> resolveOriginalHeader(msg, key, Itoa(msg.offset))
              [] key = HeaderFailedAt          -> FormatTime(now)
              [] OTHER                         -> msg.headers[key]]

BuildDLQHeaders(msg, attempt, f, now) == buildFailureHeaders(msg, attempt, f, now)

\* The DLQ's headers and the time the record is due again.
BuildRetryHeaders(msg, attempt, retryTime, f, now) ==
    LET headers == buildFailureHeaders(msg, attempt, f, now)
    IN  [key \in DOMAIN headers \cup {HeaderRetryTime} |->
            IF key = HeaderRetryTime THEN FormatTime(retryTime) ELSE headers[key]]

-----------------------------------------------------------------------------
(***************************************************************************)
(* The back-off: InitialDelay * Multiplier^(attempt-1), at most MaxDelay.  *)
(***************************************************************************)

\* time.Duration(x) for a float x: what is out of range becomes the smallest one.
ToDuration(x) == IF x <= MaxDuration THEN x ELSE -MaxDuration - 1

\* The powers of a whole number.
PowersOf(a) == LET power[n \in Nat] == IF n = 0 THEN 1 ELSE a * power[n - 1] IN power

\* math.Pow: the numerator of (a / b)^n, whose denominator is Pow(b, a, n).
Pow(a, b, n) == IF n >= 0 THEN PowersOf(a)[n] ELSE PowersOf(b)[-n]

\* Mutant of computeBackoff: the delay is converted before it is capped.
computeBackoffCapsLate(attempt) ==
    LET delay == ToDuration((InitialDelay * Pow(Multiplier[1], Multiplier[2], attempt - 1))
                                \div Pow(Multiplier[2], Multiplier[1], attempt - 1))
    IN  IF delay >= MaxDelay THEN MaxDelay ELSE delay

computeBackoff(attempt) ==
    IF CustomBackoff # <<>>
    THEN CustomBackoff[attempt]
    ELSE LET num == InitialDelay * Pow(Multiplier[1], Multiplier[2], attempt - 1)
             den == Pow(Multiplier[2], Multiplier[1], attempt - 1)
         IN  IF num >= MaxDelay * den THEN MaxDelay ELSE ToDuration(num \div den)

=============================================================================
