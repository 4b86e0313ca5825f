--------------------------- MODULE PipelineProofs ---------------------------
(***************************************************************************)
(* The inductive invariant of RetryPipeline: what a record in the retry    *)
(* topic or the DLQ says of itself, and where the source records are.      *)
(***************************************************************************)
EXTENDS RetryPipeline, TLAPS

-----------------------------------------------------------------------------
(***************************************************************************)
(* Records and messages.                                                   *)
(***************************************************************************)

\* The strings there are, the ones the code writes named: the provers do not
\* know that a string is in STRING.
Strings == STRING \cup {"", "source", "cancelled", "HANDLER_ERROR"}
Keys    == STRING \cup {HeaderRetryAttempt, HeaderRetryTime, HeaderRetryStep, HeaderErrorCode,
                        HeaderErrorMessage, HeaderOriginalTopic, HeaderOriginalPartition,
                        HeaderOriginalOffset, HeaderFailedAt}
Values  == ({"text"} \X Strings) \cup ({"number", "time"} \X Int)
Headers == UNION {[keys -> Values] : keys \in SUBSET Keys}
Reasons == [err : Strings, step : -MaxStep - 1 .. MaxStep, code : Strings]
Entries == [err : Strings, step : -MaxStep - 1 .. MaxStep, code : Strings, delay : Int, due : Int]
Contents == [key : {Source[i].key : i \in DOMAIN Source},
             payload : {Source[i].payload : i \in DOMAIN Source},
             headers : Headers, root : Roots, trail : Seq(Entries)]

\* The record at an offset of the source topic.
SourceRecord(o) == [key |-> Source[o + 1].key, payload |-> Source[o + 1].payload,
                    headers |-> Source[o + 1].headers, root |-> o, trail |-> <<>>]

\* A record has the key, the payload and the application's headers it started with.
SameContent(x) ==
    LET src == Source[x.root + 1]
    IN  /\ x.key = src.key
        /\ x.payload = src.payload
        /\ \A key \in DOMAIN src.headers \cup DOMAIN x.headers : ~isRetryHeader(key) =>
              /\ key \in DOMAIN src.headers /\ key \in DOMAIN x.headers
              /\ x.headers[key] = src.headers[key]

\* It counts the attempts made on it.
Attempted(x) == GetRetryAttempt(x) = GetRetryAttempt(Source[x.root + 1]) + Len(x.trail)

\* Its n-th failure ends its way through the retry topic.
Spent(x, n) == GetRetryAttempt(Source[x.root + 1]) + n >= MaxAttempts \/ Permanent(x.trail[n])

\* Its step is the last one a failure reported.
StepKept(x) ==
    \/ /\ \A i \in DOMAIN x.trail : x.trail[i].step = 0
       /\ GetRetryStep(x) = GetRetryStep(Source[x.root + 1])
    \/ \E i \in DOMAIN x.trail :
          /\ x.trail[i].step # 0
          /\ \A j \in DOMAIN x.trail : x.trail[j].step # 0 => j <= i
          /\ GetRetryStep(x) = x.trail[i].step

\* It names where it was first consumed, or what the source record named.
OriginOf(x, key, value) ==
    IF Names(Source[x.root + 1], key) THEN Source[x.root + 1].headers[key] ELSE value
OriginKept(x) ==
    /\ {HeaderOriginalTopic, HeaderOriginalPartition, HeaderOriginalOffset} \subseteq DOMAIN x.headers
    /\ x.headers[HeaderOriginalTopic] = OriginOf(x, HeaderOriginalTopic, Text("source"))
    /\ x.headers[HeaderOriginalPartition] = OriginOf(x, HeaderOriginalPartition, Itoa(Partition("source")))
    /\ x.headers[HeaderOriginalOffset] = OriginOf(x, HeaderOriginalOffset, Itoa(x.root))

\* It has its last failure's code.
CodeTold(x) ==
    GetErrorCode(x) = Text(IF LastOf(x.trail).code = "" THEN "HANDLER_ERROR" ELSE LastOf(x.trail).code)

\* It names the time it is due, to the second.
DueTold(x) ==
    /\ HeaderRetryTime \in DOMAIN x.headers
    /\ x.headers[HeaderRetryTime] = FormatTime(LastOf(x.trail).due)

\* Each of its failures was given the back-off of its attempt.
Delayed(x) ==
    \A n \in DOMAIN x.trail : x.trail[n].delay = computeBackoff(GetRetryAttempt(Source[x.root + 1]) + n)

\* What is true of a record at any time.
Sound(x) == SameContent(x) /\ Attempted(x) /\ StepKept(x)

\* What is true of a record written on a failure.
Written(x) ==
    /\ Sound(x) /\ OriginKept(x) /\ CodeTold(x)
    /\ x.trail # <<>>
    /\ \A n \in 1 .. Len(x.trail) - 1 : ~Spent(x, n)

RetryRecords ==
    {x \in Contents : Written(x) /\ ~Spent(x, Len(x.trail)) /\ DueTold(x) /\ Delayed(x)}
DeadRecords  == {x \in Contents : Written(x) /\ Spent(x, Len(x.trail))}

\* A source record is its own root.
LEMMA SourceRoot == \A o : SourceRecord(o).root = o
  BY DEF SourceRecord

\* A record as a consumer of its topic sees it.
Message(topic, offset, rec) ==
    [topic |-> topic, partition |-> Partition(topic), offset |-> offset, key |-> rec.key,
     payload |-> rec.payload, headers |-> rec.headers, root |-> rec.root, trail |-> rec.trail]

\* It sees the record's headers and history.
LEMMA MessageFields ==
  ASSUME NEW topic, NEW o, NEW rec
  PROVE  Message(topic, o, rec).headers = rec.headers /\ Message(topic, o, rec).trail = rec.trail
  BY DEF Message

SourceMessages == {Message("source", o, SourceRecord(o)) : o \in Roots}
RetryMessages  == {Message("retry", o, rec) : o \in Nat, rec \in RetryRecords}
Messages       == SourceMessages \cup RetryMessages

Writes == [topic : {"retry"}, status : {"pending", "acked", "failed"}, rec : RetryRecords]
          \cup [topic : {"dlq"}, status : {"pending", "acked", "failed"}, rec : DeadRecords]

\* The types of the constants, one at a time.
LEMMA ConstantTypes ==
  /\ Len(Source) \in Nat /\ DOMAIN Source = 1 .. Len(Source)
  /\ MaxStep \in Nat /\ TicksPerSecond \in Nat \ {0} /\ MaxAttempts \in Nat /\ BatchSize \in Nat
  /\ \A o \in Roots : o \in Nat /\ o + 1 \in DOMAIN Source
  BY SourceAssumption, RetryHeadersAssumption, PipelineAssumption DEF Roots

\* A source record's headers are headers.
LEMMA SourceHeaders ==
  ASSUME NEW o \in Roots
  PROVE  Source[o + 1].headers \in Headers
<1>1. o + 1 \in DOMAIN Source
  BY ConstantTypes
<1>2. /\ DOMAIN Source[o + 1].headers \subseteq STRING
      /\ Source[o + 1].headers \in [DOMAIN Source[o + 1].headers -> HeaderValues]
  BY <1>1, SourceAssumption
<1>3. HeaderValues \subseteq Values
  BY Zenon DEF HeaderValues, Values, Strings
<1>4. DOMAIN Source[o + 1].headers \in SUBSET Keys
  BY <1>2 DEF Keys
<1>5. Source[o + 1].headers \in [DOMAIN Source[o + 1].headers -> Values]
  BY <1>2, <1>3
<1> QED
  BY <1>4, <1>5 DEF Headers

\* An attempt and a step read from headers are numbers, the step of 32 bits.
LEMMA HeadersRead ==
  ASSUME NEW x, x.headers \in Headers
  PROVE  /\ \A key \in DOMAIN x.headers : x.headers[key] \in Values
         /\ DOMAIN x.headers \subseteq Keys
         /\ GetRetryAttempt(x) \in Int
         /\ GetRetryStep(x) \in -MaxStep - 1 .. MaxStep
<1>1. /\ DOMAIN x.headers \subseteq Keys
      /\ \A key \in DOMAIN x.headers : x.headers[key] \in Values
  BY DEF Headers
<1>2. \A v \in Values : v[1] = "number" => v[2] \in Int
  BY DEF Values
<1>3. GetRetryAttempt(x) \in Int
  BY <1>1, <1>2 DEF GetRetryAttempt, HasForm
<1>4. GetRetryStep(x) \in -MaxStep - 1 .. MaxStep
  BY <1>1, <1>2, ConstantTypes DEF GetRetryStep, HasForm
<1> QED
  BY <1>1, <1>3, <1>4

\* A source record as it is consumed is sound: nothing has happened to it yet.
LEMMA SourceSound ==
  ASSUME NEW m \in SourceMessages
  PROVE  /\ m.root \in Roots /\ m.trail = <<>> /\ m.headers = Source[m.root + 1].headers
         /\ m.topic = "source" /\ m.offset = m.root /\ m.partition = Partition("source")
         /\ Sound(m)
<1>1. PICK o \in Roots : m = Message("source", o, SourceRecord(o))
  BY DEF SourceMessages
<1>2. /\ m.root = o /\ m.trail = <<>> /\ m.headers = Source[o + 1].headers
      /\ m.key = Source[o + 1].key /\ m.payload = Source[o + 1].payload
      /\ m.topic = "source" /\ m.offset = o /\ m.partition = Partition("source")
  BY <1>1 DEF Message, SourceRecord
<1>3. SameContent(m)
  BY <1>2 DEF SameContent
<1>4. Attempted(m)
  <2>1. GetRetryAttempt(m) = GetRetryAttempt(Source[o + 1])
    BY <1>2 DEF GetRetryAttempt, HasForm
  <2>2. GetRetryAttempt(Source[o + 1]) \in Int
    BY SourceHeaders, HeadersRead
  <2> QED
    BY <1>2, <2>1, <2>2 DEF Attempted
<1>5. StepKept(m)
  BY <1>2 DEF StepKept, GetRetryStep, HasForm
<1> QED
  BY <1>2, <1>3, <1>4, <1>5 DEF Sound

\* What a retry message brings from the record it was.
LEMMA RetrySound ==
  ASSUME NEW m \in RetryMessages
  PROVE  /\ m.root \in Roots /\ m.trail \in Seq(Entries) /\ m.headers \in Headers
         /\ m.trail # <<>> /\ \A n \in 1 .. Len(m.trail) : ~Spent(m, n)
         /\ Sound(m) /\ OriginKept(m) /\ DueTold(m) /\ Delayed(m)
<1>1. PICK o \in Nat, rec \in RetryRecords : m = Message("retry", o, rec)
  BY DEF RetryMessages
<1>2. /\ m.root = rec.root /\ m.trail = rec.trail /\ m.headers = rec.headers
      /\ m.key = rec.key /\ m.payload = rec.payload
  BY <1>1 DEF Message
<1>3. rec.root \in Roots /\ rec.trail \in Seq(Entries) /\ rec.headers \in Headers
  BY DEF RetryRecords, Contents
<1>4. Written(rec) /\ ~Spent(rec, Len(rec.trail)) /\ DueTold(rec) /\ Delayed(rec)
  BY DEF RetryRecords
<1>5. Sound(m)
  <2>1. SameContent(rec) /\ Attempted(rec) /\ StepKept(rec)
    BY <1>4 DEF Written, Sound
  <2>2. GetRetryAttempt(m) = GetRetryAttempt(rec)
    BY ONLY <1>2 DEF GetRetryAttempt, HasForm
  <2>3. GetRetryStep(m) = GetRetryStep(rec)
    BY ONLY <1>2 DEF GetRetryStep, HasForm
  <2>4. SameContent(m)
    BY ONLY <1>2, <2>1 DEF SameContent
  <2>5. Attempted(m)
    BY ONLY <1>2, <2>1, <2>2 DEF Attempted
  <2>6. StepKept(m)
    BY ONLY <1>2, <2>1, <2>3 DEF StepKept
  <2> QED
    BY <2>4, <2>5, <2>6 DEF Sound
<1>6. OriginKept(m) /\ DueTold(m)
  BY <1>2, <1>4 DEF Written, OriginKept, OriginOf, DueTold
<1>8. Delayed(m)
  BY ONLY <1>2, <1>4, Zenon DEF Delayed
<1>7. ASSUME NEW n \in 1 .. Len(m.trail)
      PROVE  ~Spent(m, n)
  <2>1. Len(m.trail) \in Nat
    BY <1>2, <1>3
  <2>2. n = Len(m.trail) \/ n \in 1 .. Len(m.trail) - 1
    BY <1>7, <2>1
  <2>3. ~Spent(rec, n)
    BY <1>2, <1>4, <2>2 DEF Written
  <2> QED
    BY <1>2, <2>3 DEF Spent
<1> QED
  BY <1>2, <1>3, <1>4, <1>5, <1>6, <1>7, <1>8 DEF Written

\* What the strategy may assume of a message, from either topic.
LEMMA MessageSound ==
  ASSUME NEW m \in Messages
  PROVE  /\ m.root \in Roots /\ m.trail \in Seq(Entries) /\ m.headers \in Headers /\ Sound(m)
         /\ \A n \in 1 .. Len(m.trail) : ~Spent(m, n)
         /\ GetRetryAttempt(m) \in Int
         /\ GetRetryStep(m) \in -MaxStep - 1 .. MaxStep
<1>1. /\ m.root \in Roots /\ m.trail \in Seq(Entries) /\ m.headers \in Headers /\ Sound(m)
      /\ \A n \in 1 .. Len(m.trail) : ~Spent(m, n)
  <2>1. CASE m \in SourceMessages
    <3>1. m.trail = <<>>
      BY <2>1, SourceSound
    <3>2. Len(m.trail) = 0 /\ m.trail \in Seq(Entries)
      BY <3>1
    <3> QED
      BY <2>1, <3>2, SourceSound, SourceHeaders
  <2>2. CASE m \in RetryMessages
    BY <2>2, RetrySound
  <2> QED
    BY <2>1, <2>2 DEF Messages
<1> QED
  BY <1>1, HeadersRead

\* The origin the strategy reads off a message is the source record's: on the
\* first hop that is the message itself (resolveOriginalHeader).
LEMMA OriginResolved ==
  ASSUME NEW m \in Messages
  PROVE  /\ resolveOriginalHeader(m, HeaderOriginalTopic, Text(m.topic))
                = OriginOf(m, HeaderOriginalTopic, Text("source"))
         /\ resolveOriginalHeader(m, HeaderOriginalPartition, Itoa(m.partition))
                = OriginOf(m, HeaderOriginalPartition, Itoa(Partition("source")))
         /\ resolveOriginalHeader(m, HeaderOriginalOffset, Itoa(m.offset))
                = OriginOf(m, HeaderOriginalOffset, Itoa(m.root))
<1>1. CASE m \in SourceMessages
  BY <1>1, SourceSound, Zenon DEF resolveOriginalHeader, OriginOf, Names
<1>2. CASE m \in RetryMessages
  <2>1. OriginKept(m)
    BY <1>2, RetrySound
  <2>2. Text("source") # Text("") /\ \A n : Itoa(n) # Text("")
    BY DEF Text, Itoa
  <2> QED
    BY <2>1, <2>2, Zenon DEF OriginKept, OriginOf, resolveOriginalHeader, Names
<1> QED
  BY <1>1, <1>2 DEF Messages

-----------------------------------------------------------------------------
(***************************************************************************)
(* The headers of a failure.                                               *)
(***************************************************************************)

\* What the two writers of headers have in common.
Built(m, f, h) ==
    /\ h \in Headers
    /\ \A key \in DOMAIN m.headers \cup DOMAIN h : ~isRetryHeader(key) =>
          key \in DOMAIN m.headers /\ key \in DOMAIN h /\ h[key] = m.headers[key]
    /\ {HeaderRetryAttempt, HeaderErrorCode, HeaderOriginalTopic, HeaderOriginalPartition,
        HeaderOriginalOffset} \subseteq DOMAIN h
    /\ h[HeaderRetryAttempt] = Itoa(GetRetryAttempt(m) + 1)
    /\ h[HeaderErrorCode] = Text(resolveErrorCode(f))
    /\ h[HeaderOriginalTopic] = resolveOriginalHeader(m, HeaderOriginalTopic, Text(m.topic))
    /\ h[HeaderOriginalPartition] = resolveOriginalHeader(m, HeaderOriginalPartition, Itoa(m.partition))
    /\ h[HeaderOriginalOffset] = resolveOriginalHeader(m, HeaderOriginalOffset, Itoa(m.offset))
    /\ HeaderRetryStep \in DOMAIN h <=> resolveStep(m, f) # 0
    /\ HeaderRetryStep \in DOMAIN h => h[HeaderRetryStep] = Itoa(resolveStep(m, f))

\* The DLQ's headers are such.
LEMMA DLQHeadersBuilt ==
  ASSUME NEW m \in Messages, NEW f \in Reasons, NEW t \in Nat
  PROVE  Built(m, f, BuildDLQHeaders(m, GetRetryAttempt(m) + 1, f, t))
<1> DEFINE attempt == GetRetryAttempt(m) + 1
           step == resolveStep(m, f)
           kept == {key \in DOMAIN m.headers : ~isRetryHeader(key)}
           ours == {HeaderRetryAttempt, HeaderErrorCode, HeaderErrorMessage, HeaderOriginalTopic,
                    HeaderOriginalPartition, HeaderOriginalOffset, HeaderFailedAt}
                   \cup (IF step # 0 THEN {HeaderRetryStep} ELSE {})
           h == BuildDLQHeaders(m, attempt, f, t)
<1>1. attempt \in Int /\ step \in Int
  BY MessageSound, ConstantTypes DEF resolveStep, Reasons
<1>2. DOMAIN m.headers \subseteq Keys /\ \A key \in DOMAIN m.headers : m.headers[key] \in Values
  BY MessageSound, HeadersRead
<1>3. DOMAIN h = kept \cup ours
  BY DEF BuildDLQHeaders, buildFailureHeaders
<1>4. \A key \in ours : isRetryHeader(key)
  BY DEF isRetryHeader
<1>5. \A key \in kept : h[key] = m.headers[key]
  BY DEF BuildDLQHeaders, buildFailureHeaders, isRetryHeader
<1>6. /\ h[HeaderRetryAttempt] = Itoa(attempt)
      /\ h[HeaderErrorCode] = Text(resolveErrorCode(f))
      /\ h[HeaderErrorMessage] = Text(f.err)
      /\ h[HeaderFailedAt] = FormatTime(t)
  BY DEF BuildDLQHeaders, buildFailureHeaders, HeaderRetryAttempt, HeaderRetryStep, HeaderErrorCode,
         HeaderErrorMessage, HeaderOriginalTopic, HeaderOriginalPartition, HeaderOriginalOffset,
         HeaderFailedAt
<1>7. /\ h[HeaderOriginalTopic] = resolveOriginalHeader(m, HeaderOriginalTopic, Text(m.topic))
      /\ h[HeaderOriginalPartition] = resolveOriginalHeader(m, HeaderOriginalPartition, Itoa(m.partition))
      /\ h[HeaderOriginalOffset] = resolveOriginalHeader(m, HeaderOriginalOffset, Itoa(m.offset))
  BY DEF BuildDLQHeaders, buildFailureHeaders, HeaderRetryAttempt, HeaderRetryStep, HeaderErrorCode,
         HeaderErrorMessage, HeaderOriginalTopic, HeaderOriginalPartition, HeaderOriginalOffset,
         HeaderFailedAt
<1>8. step # 0 => h[HeaderRetryStep] = Itoa(step)
  BY DEF BuildDLQHeaders, buildFailureHeaders, HeaderRetryAttempt, HeaderRetryStep, HeaderErrorCode,
         HeaderErrorMessage, HeaderOriginalTopic, HeaderOriginalPartition, HeaderOriginalOffset,
         HeaderFailedAt
<1>9. h \in Headers
  <2>1. \A key \in kept : h[key] \in Values
    BY <1>2, <1>5
  <2>2. \A key \in ours : h[key] \in Values
    <3>1. Itoa(attempt) \in Values /\ Itoa(step) \in Values
      BY <1>1 DEF Itoa, Values
    <3>2. Text(resolveErrorCode(f)) \in Values /\ Text(f.err) \in Values
      <4>1. f.err \in Strings /\ resolveErrorCode(f) \in Strings
        BY Zenon DEF resolveErrorCode, Reasons, Strings
      <4> QED
        BY <4>1 DEF Text, Values
    <3>3. FormatTime(t) \in Values
      BY ConstantTypes DEF FormatTime, Values
    <3>4. /\ h[HeaderOriginalTopic] \in Values
          /\ h[HeaderOriginalPartition] \in Values
          /\ h[HeaderOriginalOffset] \in Values
      <4>1. Source[m.root + 1].headers \in Headers /\ m.root \in Nat
        BY MessageSound, SourceHeaders, ConstantTypes
      <4>2. \A key \in DOMAIN Source[m.root + 1].headers : Source[m.root + 1].headers[key] \in Values
        BY <4>1, HeadersRead
      <4>3. Text("source") \in Values /\ \A n \in Int : Itoa(n) \in Values
        BY Zenon DEF Text, Itoa, Values, Strings
      <4>4. /\ OriginOf(m, HeaderOriginalTopic, Text("source")) \in Values
            /\ OriginOf(m, HeaderOriginalPartition, Itoa(Partition("source"))) \in Values
            /\ OriginOf(m, HeaderOriginalOffset, Itoa(m.root)) \in Values
        <5>1. Itoa(m.root) \in Values /\ Itoa(Partition("source")) \in Values
          BY <4>1, <4>3 DEF Partition
        <5> QED
          BY <4>2, <4>3, <5>1, Zenon DEF OriginOf, Names
      <4> QED
        BY <1>7, <4>4, OriginResolved
    <3> QED
      BY <1>6, <1>8, <3>1, <3>2, <3>3, <3>4
  <2>3. DOMAIN h \in SUBSET Keys
    BY <1>2, <1>3 DEF Keys
  <2>4. h = [key \in DOMAIN h |-> h[key]]
    BY DEF BuildDLQHeaders, buildFailureHeaders
  <2>5. h \in [DOMAIN h -> Values]
    BY <1>3, <2>1, <2>2, <2>4
  <2> QED
    BY <2>3, <2>5 DEF Headers
<1>10. HeaderRetryStep \in DOMAIN h <=> step # 0
  BY <1>3 DEF isRetryHeader, HeaderRetryAttempt, HeaderRetryStep, HeaderErrorCode, HeaderErrorMessage,
         HeaderOriginalTopic, HeaderOriginalPartition, HeaderOriginalOffset, HeaderFailedAt
<1>11. \A key \in DOMAIN m.headers \cup DOMAIN h : ~isRetryHeader(key) => key \in kept
  BY <1>3, <1>4
<1> QED
  BY <1>3, <1>5, <1>6, <1>7, <1>8, <1>9, <1>10, <1>11 DEF Built

\* So are the retry topic's, which add the time.
LEMMA RetryHeadersBuilt ==
  ASSUME NEW m \in Messages, NEW f \in Reasons, NEW t \in Nat, NEW due \in Int
  PROVE  LET h == BuildRetryHeaders(m, GetRetryAttempt(m) + 1, due, f, t)
         IN  /\ Built(m, f, h)
             /\ HeaderRetryTime \in DOMAIN h /\ h[HeaderRetryTime] = FormatTime(due)
<1> DEFINE g == BuildDLQHeaders(m, GetRetryAttempt(m) + 1, f, t)
           h == BuildRetryHeaders(m, GetRetryAttempt(m) + 1, due, f, t)
<1>1. Built(m, f, g)
  BY DLQHeadersBuilt
<1>2. h = [key \in DOMAIN g \cup {HeaderRetryTime} |-> IF key = HeaderRetryTime THEN FormatTime(due) ELSE g[key]]
  BY DEF BuildRetryHeaders, BuildDLQHeaders
<1> HIDE DEF g, h
<1>3. DOMAIN h = DOMAIN g \cup {HeaderRetryTime} /\ h[HeaderRetryTime] = FormatTime(due)
  BY <1>2
<1>4. \A key \in DOMAIN g : key # HeaderRetryTime => h[key] = g[key]
  BY <1>2
<1>5. isRetryHeader(HeaderRetryTime)
      /\ HeaderRetryTime \notin {HeaderRetryAttempt, HeaderErrorCode, HeaderOriginalTopic,
                                 HeaderOriginalPartition, HeaderOriginalOffset, HeaderRetryStep}
  BY DEF isRetryHeader, HeaderRetryAttempt, HeaderRetryTime, HeaderRetryStep, HeaderErrorCode,
         HeaderOriginalTopic, HeaderOriginalPartition, HeaderOriginalOffset
<1>6. h \in Headers
  <2>1. DOMAIN g \subseteq Keys /\ \A key \in DOMAIN g : g[key] \in Values
    BY <1>1 DEF Built, Headers
  <2>2. FormatTime(due) \in Values
    BY ConstantTypes DEF FormatTime, Values
  <2>3. DOMAIN h \in SUBSET Keys
    BY <1>3, <2>1 DEF Keys
  <2>4. h \in [DOMAIN h -> Values]
    BY <1>2, <2>1, <2>2
  <2> QED
    BY <2>3, <2>4 DEF Headers
<1>7. Built(m, f, h)
  BY <1>1, <1>3, <1>4, <1>5, <1>6 DEF Built
<1> QED
  BY <1>3, <1>7 DEF h

-----------------------------------------------------------------------------
(***************************************************************************)
(* What is written on a failure.                                           *)
(***************************************************************************)

\* The failure added to a record's history.
LEMMA TrailGrows ==
  ASSUME NEW m \in Messages, NEW e \in Entries
  PROVE  LET trail == Append(m.trail, e)
         IN  /\ trail \in Seq(Entries) /\ trail # <<>>
             /\ Len(trail) = Len(m.trail) + 1 /\ Len(m.trail) \in Nat
             /\ DOMAIN trail = 1 .. Len(m.trail) + 1 /\ DOMAIN m.trail = 1 .. Len(m.trail)
             /\ \A n \in 1 .. Len(m.trail) : trail[n] = m.trail[n]
             /\ trail[Len(m.trail) + 1] = e /\ LastOf(trail) = e
  BY MessageSound DEF LastOf

\* A record is written as what it was, with one more failure.
LEMMA SentSound ==
  ASSUME NEW m \in Messages, NEW f \in Reasons, now \in Nat, NEW delay \in Int,
         NEW h, Built(m, f, h)
  PROVE  LET x == send(m, h, Failure(f, delay))
         IN  /\ x \in Contents /\ Written(x) /\ x.root = m.root /\ x.headers = h
             /\ LastOf(x.trail).due = now + delay
             /\ Spent(x, Len(x.trail)) <=> GoesToDLQ(GetRetryAttempt(m) + 1, f)
<1> DEFINE e == Failure(f, delay)
           x == send(m, h, e)
           n == Len(m.trail)
           src == Source[m.root + 1]
<1>1. e \in Entries /\ e.err = f.err /\ e.step = f.step /\ e.code = f.code /\ e.due = now + delay
  BY DEF Failure, Entries, Reasons
<1> HIDE DEF e
<1>2. /\ x.key = m.key /\ x.payload = m.payload /\ x.headers = h /\ x.root = m.root
      /\ x.trail = Append(m.trail, e)
  BY DEF send
<1>3. /\ x.trail \in Seq(Entries) /\ x.trail # <<>>
      /\ Len(x.trail) = n + 1 /\ n \in Nat
      /\ DOMAIN x.trail = 1 .. n + 1 /\ DOMAIN m.trail = 1 .. n
      /\ \A i \in 1 .. n : x.trail[i] = m.trail[i]
      /\ x.trail[n + 1] = e /\ LastOf(x.trail) = e
  BY <1>1, <1>2, TrailGrows
<1>4. /\ m.root \in Roots /\ m.headers \in Headers
      /\ SameContent(m) /\ Attempted(m) /\ StepKept(m)
      /\ \A i \in 1 .. n : ~Spent(m, i)
      /\ GetRetryAttempt(m) \in Int /\ GetRetryAttempt(src) \in Int
      /\ GetRetryStep(m) \in -MaxStep - 1 .. MaxStep
  BY MessageSound, SourceHeaders, HeadersRead DEF Sound
<1>5. x \in Contents
  <2>1. m.key = src.key /\ m.payload = src.payload /\ m.root + 1 \in DOMAIN Source
    BY <1>4, ConstantTypes DEF SameContent
  <2>2. h \in Headers
    BY DEF Built
  <2>3. x = [key |-> m.key, payload |-> m.payload, headers |-> h, root |-> m.root,
             trail |-> Append(m.trail, e)]
    BY DEF send
  <2> QED
    BY <1>2, <1>3, <1>4, <2>1, <2>2, <2>3 DEF Contents
<1> HIDE DEF x
<1>6. SameContent(x)
  BY <1>2, <1>4 DEF SameContent, Built
<1>7. GetRetryAttempt(x) = GetRetryAttempt(m) + 1
  BY <1>2 DEF GetRetryAttempt, HasForm, Built, Itoa
<1>8. Attempted(x)
  <2>1. x.root = m.root /\ Len(x.trail) = n + 1 /\ n \in Nat
    BY ONLY <1>2, <1>3
  <2>2. GetRetryAttempt(m) = GetRetryAttempt(src) + n /\ GetRetryAttempt(src) \in Int
    BY ONLY <1>4 DEF Attempted
  <2>3. GetRetryAttempt(x) = GetRetryAttempt(src) + (n + 1)
    BY ONLY <1>7, <2>1, <2>2
  <2> QED
    BY ONLY <2>1, <2>3 DEF Attempted
<1>9. GetRetryStep(x) = resolveStep(m, f)
  <2>1. resolveStep(m, f) \in -MaxStep - 1 .. MaxStep
    BY <1>4 DEF resolveStep, Reasons
  <2> QED
    BY <1>2, <2>1 DEF GetRetryStep, HasForm, Built, Itoa
<1>10. StepKept(x)
  <2>1. CASE f.step # 0
    <3>1. GetRetryStep(x) = e.step /\ e.step # 0
      BY <1>1, <1>9, <2>1 DEF resolveStep
    <3>2. n + 1 \in DOMAIN x.trail /\ \A j \in DOMAIN x.trail : j <= n + 1
      BY <1>3
    <3> QED
      BY <1>3, <3>1, <3>2 DEF StepKept
  <2>2. CASE f.step = 0
    <3>1. GetRetryStep(x) = GetRetryStep(m) /\ e.step = 0
      BY <1>1, <1>9, <2>2 DEF resolveStep
    <3>2. CASE /\ \A i \in DOMAIN m.trail : m.trail[i].step = 0
               /\ GetRetryStep(m) = GetRetryStep(src)
      <4>1. \A i \in DOMAIN x.trail : x.trail[i].step = 0
        BY <1>3, <3>1, <3>2
      <4> QED
        BY <1>2, <3>1, <3>2, <4>1 DEF StepKept
    <3>3. ASSUME NEW i \in DOMAIN m.trail, m.trail[i].step # 0,
                 \A j \in DOMAIN m.trail : m.trail[j].step # 0 => j <= i,
                 GetRetryStep(m) = m.trail[i].step
          PROVE  StepKept(x)
      <4>1. i \in DOMAIN x.trail /\ x.trail[i] = m.trail[i]
        BY <1>3, <3>3
      <4>2. ASSUME NEW j \in DOMAIN x.trail, x.trail[j].step # 0
            PROVE  j <= i
        <5>1. j # n + 1
          BY <1>3, <3>1, <4>2
        <5>2. j \in DOMAIN m.trail /\ x.trail[j] = m.trail[j]
          BY <1>3, <4>2, <5>1
        <5> QED
          BY <3>3, <4>2, <5>2
      <4> QED
        BY <3>1, <3>3, <4>1, <4>2 DEF StepKept
    <3> QED
      BY <1>4, <3>2, <3>3 DEF StepKept
  <2> QED
    BY <2>1, <2>2
<1>11. OriginKept(x)
  <2>1. \A key, value : OriginOf(x, key, value) = OriginOf(m, key, value)
    BY <1>2 DEF OriginOf
  <2> QED
    BY <1>2, <2>1, OriginResolved DEF OriginKept, Built
<1>12. CodeTold(x)
  BY <1>1, <1>2, <1>3, Zenon DEF CodeTold, GetErrorCode, Built, resolveErrorCode
<1>13. \A i \in 1 .. n : ~Spent(x, i)
  BY <1>2, <1>3, <1>4 DEF Spent
<1>14. Spent(x, n + 1) <=> GoesToDLQ(GetRetryAttempt(m) + 1, f)
  <2>1. GetRetryAttempt(m) = GetRetryAttempt(src) + n
    BY <1>4 DEF Attempted
  <2>2. GetRetryAttempt(src) + (n + 1) = GetRetryAttempt(m) + 1
    BY <1>3, <1>4, <2>1
  <2>3. Permanent(x.trail[n + 1]) <=> Permanent(f)
    BY <1>1, <1>3 DEF Permanent
  <2> QED
    BY <1>2, <2>2, <2>3, Zenon DEF Spent, GoesToDLQ
<1>15. Written(x)
  <2>1. \A i \in 1 .. Len(x.trail) - 1 : ~Spent(x, i)
    BY <1>3, <1>13
  <2> QED
    BY <1>3, <1>6, <1>8, <1>10, <1>11, <1>12, <2>1 DEF Written, Sound
<1> QED
  BY <1>1, <1>2, <1>3, <1>5, <1>14, <1>15 DEF x, e

\* Its delay is the back-off of the attempt (computeBackoff).
LEMMA DelayKept ==
  ASSUME NEW m \in Messages, NEW h, NEW e \in Entries,
         e.delay = computeBackoff(GetRetryAttempt(m) + 1)
  PROVE  Delayed(send(m, h, e))
<1> DEFINE x == send(m, h, e)
           base == GetRetryAttempt(Source[m.root + 1])
<1>1. x.root = m.root /\ x.trail = Append(m.trail, e)
  BY DEF send
<1> HIDE DEF x
<1>2. \A n \in DOMAIN m.trail : m.trail[n].delay = computeBackoff(base + n)
  <2>1. CASE m \in SourceMessages
    <3>1. m.trail = <<>>
      BY <2>1, SourceSound
    <3>2. DOMAIN m.trail = {}
      BY ONLY <3>1
    <3> QED
      BY ONLY <3>2
  <2>2. CASE m \in RetryMessages
    BY <2>2, RetrySound, Zenon DEF Delayed
  <2> QED
    BY <2>1, <2>2 DEF Messages
<1>3. GetRetryAttempt(m) + 1 = base + (Len(m.trail) + 1)
  <2>1. base \in Int /\ Len(m.trail) \in Nat /\ GetRetryAttempt(m) = base + Len(m.trail)
    BY MessageSound, SourceHeaders, HeadersRead, TrailGrows DEF Sound, Attempted
  <2> QED
    BY ONLY <2>1
<1> HIDE DEF base
<1>4. ASSUME NEW n \in DOMAIN x.trail
      PROVE  x.trail[n].delay = computeBackoff(base + n)
  <2>1. \/ n \in DOMAIN m.trail /\ x.trail[n] = m.trail[n]
        \/ n = Len(m.trail) + 1 /\ x.trail[n] = e
    <3>1. m.trail \in Seq(Entries)
      BY MessageSound
    <3> QED
      BY <1>1, <3>1
  <2> QED
    BY <1>2, <1>3, <2>1, Zenon
<1> QED
  BY <1>1, <1>4 DEF Delayed, base, x

\* The message of a failure is written to the retry topic, or to the DLQ once it
\* is spent, as a record of that topic (WriteOf).
LEMMA WriteSound ==
  ASSUME NEW m \in Messages, NEW f \in Reasons, now \in Nat
  PROVE  WriteOf(m, f) \in Writes /\ WriteOf(m, f).rec.root = m.root /\ WriteOf(m, f).status = "pending"
<1> DEFINE attempt == GetRetryAttempt(m) + 1
           delay   == computeBackoff(attempt)
           dlq     == send(m, BuildDLQHeaders(m, attempt, f, now), Failure(f, 0))
           retry   == send(m, BuildRetryHeaders(m, attempt, now + delay, f, now), Failure(f, delay))
<1>1. CASE GoesToDLQ(attempt, f)
  <2>1. /\ dlq \in Contents /\ Written(dlq) /\ dlq.root = m.root
        /\ Spent(dlq, Len(dlq.trail))
    <3> DEFINE h == BuildDLQHeaders(m, attempt, f, now)
    <3>1. Built(m, f, h)
      BY DLQHeadersBuilt
    <3>2. GoesToDLQ(GetRetryAttempt(m) + 1, f) /\ 0 \in Int
      BY <1>1
    <3> HIDE DEF h
    <3>3. LET x == send(m, h, Failure(f, 0))
          IN  /\ x \in Contents /\ Written(x) /\ x.root = m.root
              /\ Spent(x, Len(x.trail))
      BY <3>1, <3>2, SentSound
    <3> QED
      BY ONLY <3>3 DEF h
  <2>2. dlq \in DeadRecords
    BY <2>1 DEF DeadRecords
  <2>3. WriteOf(m, f) = [topic |-> "dlq", status |-> "pending", rec |-> dlq]
    BY <1>1 DEF WriteOf
  <2> HIDE DEF dlq
  <2> QED
    BY <2>1, <2>2, <2>3 DEF Writes
<1>2. CASE ~GoesToDLQ(attempt, f)
  <2>1. delay \in Int
    <3>1. /\ m.root \in Roots /\ Attempted(m) /\ Len(m.trail) \in Nat
          /\ GetRetryAttempt(m) \in Int /\ GetRetryAttempt(Source[m.root + 1]) \in Int
      BY MessageSound, SourceHeaders, HeadersRead DEF Sound
    <3>2. attempt < MaxAttempts
      BY <1>2, <3>1, ConstantTypes DEF GoesToDLQ
    <3>3. attempt \in GetRetryAttempt(Source[m.root + 1]) + 1 .. MaxAttempts - 1
      BY <3>1, <3>2, ConstantTypes, SMTT(20), Zenon DEF Attempted
    <3>4. m.root + 1 \in DOMAIN Source
      BY <3>1, ConstantTypes
    <3> QED
      BY <3>3, <3>4, SourceAssumption
  <2>2. LET h == BuildRetryHeaders(m, attempt, now + delay, f, now)
        IN  Built(m, f, h) /\ HeaderRetryTime \in DOMAIN h /\ h[HeaderRetryTime] = FormatTime(now + delay)
    BY <2>1, RetryHeadersBuilt, SMTT(20), Zenon
  <2>3. /\ retry \in Contents /\ Written(retry) /\ retry.root = m.root
        /\ retry.headers = BuildRetryHeaders(m, attempt, now + delay, f, now)
        /\ LastOf(retry.trail).due = now + delay
        /\ ~Spent(retry, Len(retry.trail))
    <3> DEFINE h == BuildRetryHeaders(m, attempt, now + delay, f, now)
    <3>1. Built(m, f, h)
      BY <2>2
    <3>2. ~GoesToDLQ(GetRetryAttempt(m) + 1, f)
      BY <1>2, SMTT(20), Zenon
    <3> HIDE DEF h, delay
    <3>3. LET x == send(m, h, Failure(f, delay))
          IN  /\ x \in Contents /\ Written(x) /\ x.root = m.root /\ x.headers = h
              /\ LastOf(x.trail).due = now + delay
              /\ ~Spent(x, Len(x.trail))
      BY <2>1, <3>1, <3>2, SentSound
    <3> QED
      BY ONLY <3>3 DEF h
  <2>4. WriteOf(m, f) = [topic |-> "retry", status |-> "pending", rec |-> retry]
    BY <1>2 DEF WriteOf
  <2>6. Delayed(retry)
    <3> DEFINE e == Failure(f, delay)
    <3>1. e \in Entries
      BY <2>1, ConstantTypes DEF Failure, Entries, Reasons
    <3>2. e.delay = computeBackoff(GetRetryAttempt(m) + 1)
      BY DEF Failure
    <3> HIDE DEF e
    <3>3. \A h : Delayed(send(m, h, e))
      BY <3>1, <3>2, DelayKept
    <3> QED
      BY <3>3 DEF e
  <2> HIDE DEF retry
  <2>5. retry \in RetryRecords
    BY <2>2, <2>3, <2>6 DEF RetryRecords, DueTold
  <2> QED
    BY <2>3, <2>4, <2>5 DEF Writes
<1> QED
  BY <1>1, <1>2

-----------------------------------------------------------------------------
(***************************************************************************)
(* Every record in the system is a record of its topic.                    *)
(***************************************************************************)

Labels == {"poll", "wait", "process", "route", "await", "store", "stopping", "close", "down"}
Calls  == [at : Nat, msgs : Seq(Messages), f : Reasons]

Typed ==
    /\ log \in [Topics -> Seq(Contents)]
    /\ log["source"] = [i \in 1 .. Len(Source) |-> SourceRecord(i - 1)]
    /\ log["retry"] \in Seq(RetryRecords)
    /\ log["dlq"] \in Seq(DeadRecords)
    /\ committed \in [Consumers -> Nat]
    /\ stored \in [Consumers -> Nat]
    /\ pc \in [Consumers -> Labels]
    /\ batch \in [Consumers -> Seq(Messages)]
    /\ calls \in [Consumers -> SUBSET Calls]
    /\ writes \in [Consumers -> Seq(Writes)]
    /\ now \in Nat

-----------------------------------------------------------------------------
(***************************************************************************)
(* Where a source record is.                                               *)
(***************************************************************************)

\* A source record was processed, or is in the DLQ, or is in the retry topic
\* after the first n records.
SafeIn(topics, done, root, n) ==
    \/ root \in done
    \/ \E i \in 1 .. Len(topics["dlq"]) : topics["dlq"][i].root = root
    \/ \E i \in n + 1 .. Len(topics["retry"]) : topics["retry"][i].root = root
Safe(root, n) == SafeIn(log, processed, root, n)

\* How far the retry topic is read once c's batch is stored.
Past(c) == IF c = "retry" THEN stored["retry"] + Len(batch["retry"]) ELSE stored["retry"]

\* A batch is the records from the stored offset on, and the writes of a call
\* are gone when it is over.
Placed(c) ==
    /\ committed[c] <= stored[c]
    /\ stored[c] + Len(batch[c]) <= Len(log[c])
    /\ \A i \in 1 .. Len(batch[c]) : batch[c][i].root = log[c][stored[c] + i].root
    /\ pc[c] \in {"poll", "stopping", "close", "down"} => batch[c] = <<>>
    /\ pc[c] \notin {"await", "stopping", "close"} => writes[c] = <<>>

\* There is one call at a time, and it waits for a write of each of its messages.
Calling(c) ==
    /\ \A x, y \in calls[c] : x.at = y.at => x = y
    /\ pc[c] = "await" =>
          \E call \in Current(c) :
              /\ Len(writes[c]) = Len(call.msgs)
              /\ \A i \in 1 .. Len(call.msgs) : writes[c][i].rec.root = call.msgs[i].root

\* An acknowledged write is safe behind the batch.
Acked(c) ==
    \A i \in 1 .. Len(writes[c]) :
        writes[c][i].status = "acked" => Safe(writes[c][i].rec.root, Past(c))

\* A call of HandleError is still to be made for a source record.
ToCall(c, root) == \E call \in calls[c] : \E i \in 1 .. Len(call.msgs) : call.msgs[i].root = root

\* Of a batch that has its verdict, every message is safe or still to be routed.
Routed(c) ==
    pc[c] \in {"route", "await", "store"} =>
        \A i \in 1 .. Len(batch[c]) :
            \/ Safe(batch[c][i].root, Past(c))
            \/ pc[c] # "store" /\ ToCall(c, batch[c][i].root)

\* What either consumer has stored is safe in what the retry consumer has not.
StoredSafe ==
    /\ \A o \in 0 .. stored["source"] - 1 : Safe(o, stored["retry"])
    /\ \A i \in 1 .. stored["retry"] : Safe(log["retry"][i].root, stored["retry"])

RInv ==
    /\ Typed
    /\ StoredSafe
    /\ \A c \in Consumers : Placed(c) /\ Calling(c) /\ Acked(c) /\ Routed(c)

-----------------------------------------------------------------------------
(***************************************************************************)
(* Facts about the pieces.                                                 *)
(***************************************************************************)

\* A function on 1 .. n is a sequence.
LEMMA Enumerated ==
  ASSUME NEW S, NEW n \in Nat, NEW s \in [1 .. n -> S]
  PROVE  s \in Seq(S) /\ Len(s) = n
  OBVIOUS

\* A topic, a batch or the writes of a call is a sequence.
LEMMA Lengths ==
  ASSUME NEW I, NEW S, NEW s \in [I -> Seq(S)], NEW i \in I
  PROVE  s[i] \in Seq(S) /\ Len(s[i]) \in Nat /\ DOMAIN s[i] = 1 .. Len(s[i])
  OBVIOUS

\* A message of a batch has its place in the log.
LEMMA InsideLog ==
  ASSUME NEW from \in Nat, NEW size \in Nat, NEW len \in Nat, from + size <= len, NEW k \in 1 .. size
  PROVE  from + k \in 1 .. len
  OBVIOUS

\* The elements of a sequence.
LEMMA Elements ==
  ASSUME NEW S, NEW s \in Seq(S)
  PROVE  Len(s) \in Nat /\ DOMAIN s = 1 .. Len(s) /\ \A i \in DOMAIN s : s[i] \in S
  OBVIOUS

\* A sum bounds what it is the sum of.
LEMMA SumBelow ==
  ASSUME NEW a \in Nat, NEW b \in Nat, NEW n \in Nat, a + b <= n
  PROVE  a <= n
  OBVIOUS

\* The last failure of a record that has one.
LEMMA LastEntry ==
  ASSUME NEW s \in Seq(Entries), s # <<>>
  PROVE  LastOf(s) \in Entries
  BY DEF LastOf

\* What the invariant says of the types, one variable at a time.
LEMMA Types ==
  ASSUME RInv
  PROVE  /\ log \in [Topics -> Seq(Contents)] /\ committed \in [Consumers -> Nat]
         /\ stored \in [Consumers -> Nat] /\ pc \in [Consumers -> Labels]
         /\ batch \in [Consumers -> Seq(Messages)] /\ calls \in [Consumers -> SUBSET Calls]
         /\ writes \in [Consumers -> Seq(Writes)] /\ now \in Nat
  BY DEF RInv, Typed

\* A consumer's part of the invariant does not depend on what stays.
LEMMA SafeUnchanged ==
  ASSUME UNCHANGED <<log, processed>>
  PROVE  \A root, n : SafeIn(log', processed', root, n) <=> Safe(root, n)
  BY DEF Safe

\* The consumers and their topics.
LEMMA Consumer == Consumers \subseteq Topics /\ \A c \in Consumers : c = "source" \/ c = "retry"
  BY DEF Consumers, Topics

\* A log that grows and more records processed keep a record safe, behind any
\* smaller number of retry records.
LEMMA SafeKept ==
  ASSUME NEW old \in [Topics -> Seq(Contents)], NEW new \in [Topics -> Seq(Contents)],
         NEW done, NEW more, done \subseteq more,
         \A t \in Topics : /\ Len(old[t]) <= Len(new[t])
                           /\ \A i \in 1 .. Len(old[t]) : new[t][i] = old[t][i],
         NEW root, NEW n \in Nat, NEW k \in Nat, k <= n, SafeIn(old, done, root, n)
  PROVE  SafeIn(new, more, root, k)
<1>0. {"dlq", "retry"} \subseteq Topics
  BY DEF Topics, Consumers
<1>1. \A t \in {"dlq", "retry"} : Len(old[t]) \in Nat /\ Len(new[t]) \in Nat
  BY <1>0
<1>2. CASE root \in done
  BY <1>2 DEF SafeIn
<1>3. ASSUME NEW i \in 1 .. Len(old["dlq"]), old["dlq"][i].root = root
      PROVE  SafeIn(new, more, root, k)
  <2>1. i \in 1 .. Len(new["dlq"]) /\ new["dlq"][i].root = root
    BY <1>0, <1>1, <1>3
  <2> QED
    BY <2>1 DEF SafeIn
<1>4. ASSUME NEW i \in n + 1 .. Len(old["retry"]), old["retry"][i].root = root
      PROVE  SafeIn(new, more, root, k)
  <2>1. i \in 1 .. Len(old["retry"]) /\ i \in k + 1 .. Len(new["retry"])
    BY <1>0, <1>1, <1>4
  <2>2. new["retry"][i].root = root
    BY <1>0, <1>4, <2>1
  <2> QED
    BY <2>1, <2>2 DEF SafeIn
<1> QED
  BY <1>2, <1>3, <1>4 DEF SafeIn

\* What each step does to the history: it only grows.
Grows ==
    /\ processed \subseteq processed'
    /\ \A t \in Topics : /\ Len(log[t]) <= Len(log'[t])
                         /\ \A i \in 1 .. Len(log[t]) : log'[t][i] = log[t][i]

\* A safe record stays safe while the topics and the processed records grow.
LEMMA SafeStays ==
  ASSUME log \in [Topics -> Seq(Contents)], log' \in [Topics -> Seq(Contents)], Grows,
         NEW root, NEW n \in Nat, NEW k \in Nat, k <= n, Safe(root, n)
  PROVE  SafeIn(log', processed', root, k)
<1>1. SafeIn(log, processed, root, n)
  BY DEF Safe
<1>2. /\ processed \subseteq processed'
      /\ \A t \in Topics : /\ Len(log[t]) <= Len(log'[t])
                           /\ \A i \in 1 .. Len(log[t]) : log'[t][i] = log[t][i]
  BY DEF Grows
<1> QED
  BY <1>1, <1>2, SafeKept, Zenon

\* A consumer that a step leaves alone, but for its commit, keeps its part of the
\* invariant.
LEMMA LeftAlone ==
  ASSUME RInv, log' \in [Topics -> Seq(Contents)], Grows, NEW c \in Consumers,
         UNCHANGED <<stored, pc[c], batch[c], calls[c], writes[c]>>, committed'[c] <= stored[c]
  PROVE  Placed(c)' /\ Calling(c)' /\ Acked(c)' /\ Routed(c)'
<1>1. /\ log \in [Topics -> Seq(Contents)] /\ stored \in [Consumers -> Nat]
      /\ batch \in [Consumers -> Seq(Messages)] /\ c \in Topics
  BY Consumer DEF RInv, Typed
<1>2. Placed(c) /\ Calling(c) /\ Acked(c) /\ Routed(c)
  BY DEF RInv
<1>3. Past(c)' = Past(c) /\ Past(c) \in Nat
  BY <1>1 DEF Past, Consumers
<1>4. ASSUME NEW root, Safe(root, Past(c))
      PROVE  SafeIn(log', processed', root, Past(c))
  <2>1. Past(c) <= Past(c)
    BY <1>3
  <2> QED
    BY <1>1, <1>3, <1>4, <2>1, SafeStays
<1>5. Placed(c)'
  <2>0. log' \in [Topics -> Seq(Contents)]
    OBVIOUS
  <2>1. Len(log[c]) \in Nat /\ Len(log'[c]) \in Nat /\ stored[c] \in Nat /\ Len(batch[c]) \in Nat
    BY ONLY <1>1, <2>0, Lengths
  <2>2. stored[c] + Len(batch[c]) <= Len(log'[c])
    BY <1>1, <1>2, <2>1, SMTT(20), Zenon DEF Placed, Grows
  <2>3. \A i \in 1 .. Len(batch[c]) : batch[c][i].root = log'[c][stored[c] + i].root
    <3> SUFFICES ASSUME NEW i \in 1 .. Len(batch[c])
                 PROVE  batch[c][i].root = log'[c][stored[c] + i].root
      OBVIOUS
    <3>1. stored[c] + i \in 1 .. Len(log[c])
      BY <1>2, <2>1 DEF Placed
    <3>2. log'[c][stored[c] + i] = log[c][stored[c] + i]
      BY <1>1, <3>1 DEF Grows
    <3> QED
      BY <1>2, <3>2, SMTT(20), Zenon DEF Placed
  <2> QED
    BY <1>2, <2>2, <2>3, Zenon DEF Placed
<1>6. Calling(c)'
  BY <1>2, SMTT(20), Zenon DEF Calling, Current
<1>7. Acked(c)'
  BY <1>2, <1>3, <1>4, SMTT(20), Zenon DEF Acked, Safe
<1>8. Routed(c)'
  BY <1>2, <1>3, <1>4 DEF Routed, ToCall, Safe
<1> QED
  BY <1>5, <1>6, <1>7, <1>8

\* What is stored stays safe while nothing more is.
LEMMA StoredKept ==
  ASSUME RInv, log' \in [Topics -> Seq(Contents)], Grows, UNCHANGED stored
  PROVE  StoredSafe'
<1>1. /\ log \in [Topics -> Seq(Contents)] /\ stored \in [Consumers -> Nat]
      /\ {"source", "retry"} \subseteq Consumers /\ Consumers \subseteq Topics
  BY DEF RInv, Typed, Consumers, Topics
<1>2. ASSUME NEW root, Safe(root, stored["retry"])
      PROVE  SafeIn(log', processed', root, stored["retry"])
  <2>1. stored["retry"] \in Nat /\ stored["retry"] <= stored["retry"]
    BY <1>1
  <2> QED
    BY <1>1, <1>2, <2>1, SafeStays
<1>3. \A i \in 1 .. stored["retry"] : log'["retry"][i] = log["retry"][i]
  <2>1. stored["retry"] \in Nat /\ Len(log["retry"]) \in Nat /\ Len(batch["retry"]) \in Nat
    <3>1. batch \in [Consumers -> Seq(Messages)]
      BY Types
    <3> QED
      BY ONLY <1>1, <3>1, Lengths
  <2>2. stored["retry"] + Len(batch["retry"]) <= Len(log["retry"])
    BY <1>1 DEF RInv, Placed
  <2>3. stored["retry"] <= Len(log["retry"])
    BY ONLY <2>1, <2>2
  <2> QED
    BY <1>1, <2>1, <2>3 DEF Grows
<1> QED
  BY <1>2, <1>3 DEF RInv, StoredSafe, Safe

\* A step that changes no log, no offset and no record of what was processed.
LEMMA Quiet ==
  ASSUME RInv, UNCHANGED <<log, processed>>
  PROVE  /\ log' \in [Topics -> Seq(Contents)] /\ Grows
         /\ log'["source"] = [i \in 1 .. Len(Source) |-> SourceRecord(i - 1)]
         /\ log'["retry"] \in Seq(RetryRecords) /\ log'["dlq"] \in Seq(DeadRecords)
<1>1. log \in [Topics -> Seq(Contents)] /\ \A t \in Topics : Len(log[t]) \in Nat
  BY DEF RInv, Typed
<1> QED
  BY <1>1 DEF RInv, Typed, Grows

\* A label is set for one consumer (the steps of a consumer).
LEMMA Goes ==
  ASSUME Typed, NEW c \in Consumers, NEW label \in Labels, Goto(c, label)
  PROVE  /\ pc' \in [Consumers -> Labels] /\ pc'[c] = label
         /\ \A d \in Consumers : d # c => pc'[d] = pc[d]
  BY DEF Typed, Goto

\* A step of one consumer, that stores nothing: its own part is left to show.
LEMMA OneMoves ==
  ASSUME RInv, Typed', Grows, NEW c \in Consumers, UNCHANGED stored,
         \A d \in Consumers : d # c => UNCHANGED <<pc[d], batch[d], calls[d], writes[d], committed[d]>>,
         Placed(c)', Calling(c)', Acked(c)', Routed(c)'
  PROVE  RInv'
<1>1. log' \in [Topics -> Seq(Contents)]
  BY DEF Typed
<1>2. StoredSafe'
  BY <1>1, StoredKept
<1>3. ASSUME NEW d \in Consumers, d # c
      PROVE  Placed(d)' /\ Calling(d)' /\ Acked(d)' /\ Routed(d)'
  <2>1. committed'[d] <= stored[d]
    BY <1>3 DEF RInv, Placed
  <2> QED
    BY <1>1, <1>3, <2>1, LeftAlone
<1> QED
  BY <1>2, <1>3 DEF RInv

\* A message polled is a message of the topic.
LEMMA PolledSound ==
  ASSUME Typed, NEW c \in Consumers, NEW o \in Nat, o < Len(log[c])
  PROVE  MessageAt(c, o) \in Messages /\ MessageAt(c, o).root = log[c][o + 1].root
<1>1. MessageAt(c, o) = Message(c, o, log[c][o + 1])
  BY DEF MessageAt, Message
<1>2. MessageAt(c, o).root = log[c][o + 1].root
  BY DEF MessageAt
<1>3. CASE c = "source"
  <2>1. Len(log["source"]) = Len(Source) /\ o \in Roots
    BY <1>3, ConstantTypes DEF Typed, Roots
  <2>2. log["source"][o + 1] = SourceRecord(o)
    BY <2>1, ConstantTypes DEF Typed, Roots
  <2> QED
    BY <1>1, <1>2, <1>3, <2>1, <2>2 DEF Messages, SourceMessages
<1>4. CASE c = "retry"
  <2>1. log["retry"] \in Seq(RetryRecords) /\ o + 1 \in 1 .. Len(log["retry"])
    BY <1>4 DEF Typed
  <2>2. log["retry"][o + 1] \in RetryRecords
    BY <2>1, SMTT(20), Zenon
  <2> QED
    BY <1>1, <1>2, <1>4, <2>2 DEF Messages, RetryMessages
<1> QED
  BY <1>3, <1>4, Consumer

\* A batch is polled past the stored offset: its messages are sound and none of
\* them is resolved yet (the poll of the consumer's loop).
LEMMA PollKeeps ==
  ASSUME RInv, NEW c \in Consumers, Poll(c)
  PROVE  RInv'
<1>1. PICK n \in 1 .. BatchSize :
         /\ stored[c] + n <= Len(log[c])
         /\ batch' = [batch EXCEPT ![c] = [i \in 1 .. n |-> MessageAt(c, stored[c] + i - 1)]]
  BY Zenon DEF Poll
<1>2. /\ pc[c] = "poll" /\ Goto(c, "wait")
      /\ UNCHANGED <<log, committed, stored, calls, writes, now, processed>>
  BY DEF Poll
<1>3. /\ stored[c] \in Nat /\ n \in Nat /\ Len(log[c]) \in Nat
      /\ batch \in [Consumers -> Seq(Messages)]
  BY ConstantTypes, Consumer DEF RInv, Typed
<1>4. ASSUME NEW i \in 1 .. n
      PROVE  /\ MessageAt(c, stored[c] + i - 1) \in Messages
             /\ MessageAt(c, stored[c] + i - 1).root = log[c][stored[c] + i].root
  <2>1. stored[c] + i - 1 \in Nat /\ stored[c] + i - 1 < Len(log[c]) /\ (stored[c] + i - 1) + 1 = stored[c] + i
    BY <1>1, <1>3
  <2> QED
    BY <2>1, PolledSound, Zenon DEF RInv
<1>5. batch'[c] \in Seq(Messages) /\ Len(batch'[c]) = n /\ \A i \in 1 .. n : batch'[c][i].root = log[c][stored[c] + i].root
  <2>1. batch'[c] = [i \in 1 .. n |-> MessageAt(c, stored[c] + i - 1)]
    BY <1>1, <1>3
  <2>2. batch'[c] \in [1 .. n -> Messages]
    BY <1>4, <2>1, Zenon
  <2>3. batch'[c] \in Seq(Messages) /\ Len(batch'[c]) = n
    BY <1>3, <2>2, Enumerated
  <2> QED
    BY <1>4, <2>1, <2>3
<1>6. batch' \in [Consumers -> Seq(Messages)] /\ \A d \in Consumers : d # c => batch'[d] = batch[d]
  BY <1>1, <1>3, <1>5
<1>7. /\ pc' \in [Consumers -> Labels] /\ pc'[c] = "wait"
      /\ \A d \in Consumers : d # c => pc'[d] = pc[d]
  BY <1>2, Goes DEF RInv, Labels
<1>8. Typed'
  BY <1>2, <1>6, <1>7, Quiet DEF RInv, Typed
<1>9. Placed(c)' /\ Calling(c)' /\ Acked(c)' /\ Routed(c)'
  <2>1. Placed(c) /\ Calling(c) /\ writes[c] = <<>>
    BY <1>2, Zenon DEF RInv, Placed
  <2>2. Placed(c)'
    BY <1>1, <1>2, <1>5, <1>7, <2>1, Zenon DEF Placed
  <2>3. Calling(c)'
    BY <1>2, <1>7, <2>1, Zenon DEF Calling
  <2>4. Acked(c)'
    <3>1. writes'[c] = <<>>
      BY <1>2, <2>1, Zenon
    <3>2. 1 .. Len(writes'[c]) = {}
      BY ONLY <3>1, SMTT(20), Zenon
    <3> QED
      BY ONLY <3>2 DEF Acked
  <2>5. Routed(c)'
    BY <1>7 DEF Routed
  <2> QED
    BY <2>2, <2>3, <2>4, <2>5
<1> QED
  BY <1>2, <1>6, <1>7, <1>8, <1>9, Quiet, OneMoves

\* The wait ends, the loop stops, and the final commit and Close go by: labels
\* and the commit change, and Close forgets its writes.
LEMMA PlainKeeps ==
  ASSUME RInv, NEW c \in Consumers,
         WaitUntilRetryTime(c) \/ CtxDone(c) \/ FinalCommit(c) \/ CloseStrategy(c)
  PROVE  RInv'
<1>1. UNCHANGED <<log, stored, batch, calls, now, processed>>
  BY Zenon DEF WaitUntilRetryTime, CtxDone, FinalCommit, CloseStrategy
<1>2. PICK label \in {"process", "stopping", "close", "down"} :
         /\ Goto(c, label)
         /\ label = "process" => pc[c] = "wait"
         /\ label = "stopping" => pc[c] = "poll"
         /\ label = "close" => pc[c] = "stopping"
         /\ label = "down" => pc[c] = "close" /\ writes' = [writes EXCEPT ![c] = <<>>]
         /\ label # "down" => writes' = writes
         /\ label # "close" => committed' = committed
         /\ committed' = committed \/ committed' = [committed EXCEPT ![c] = stored[c]]
  <2>1. CASE WaitUntilRetryTime(c)
    BY <2>1, Zenon DEF WaitUntilRetryTime
  <2>2. CASE CtxDone(c)
    BY <2>2, Zenon DEF CtxDone
  <2>3. CASE FinalCommit(c)
    BY <2>3, Zenon DEF FinalCommit
  <2>4. CASE CloseStrategy(c)
    BY <2>4, Zenon DEF CloseStrategy
  <2> QED
    BY <2>1, <2>2, <2>3, <2>4, Zenon
<1>3. /\ committed \in [Consumers -> Nat] /\ stored \in [Consumers -> Nat]
      /\ writes \in [Consumers -> Seq(Writes)] /\ Typed
  BY DEF RInv, Typed
<1>4. /\ pc' \in [Consumers -> Labels] /\ pc'[c] = label
      /\ \A d \in Consumers : d # c => pc'[d] = pc[d]
  BY <1>2, <1>3, Goes DEF Labels
<1>5. /\ committed' \in [Consumers -> Nat]
      /\ \A d \in Consumers : d # c => committed'[d] = committed[d]
      /\ committed'[c] \in {committed[c], stored[c]}
  BY <1>2, <1>3, Zenon
<1>6. /\ writes' \in [Consumers -> Seq(Writes)]
      /\ \A d \in Consumers : d # c => writes'[d] = writes[d]
      /\ label = "down" => writes'[c] = <<>>
      /\ label # "down" => writes'[c] = writes[c]
  <2>1. <<>> \in Seq(Writes)
    OBVIOUS
  <2>2. CASE label = "down"
    BY <1>2, <1>3, <2>1, <2>2, Zenon
  <2>3. CASE label # "down"
    BY <1>2, <1>3, <2>3
  <2> QED
    BY <2>2, <2>3
<1>7. Typed'
  BY <1>1, <1>4, <1>5, <1>6, Quiet DEF RInv, Typed
<1>8. Placed(c) /\ Calling(c) /\ Acked(c)
  BY DEF RInv
<1>9. Placed(c)'
  <2>0. committed[c] <= stored[c] /\ committed[c] \in Nat /\ stored[c] \in Nat
    BY <1>3, <1>8, Zenon DEF Placed
  <2>1. committed'[c] <= stored[c]
    BY ONLY <1>5, <2>0
  <2>2. label # "process" => batch[c] = <<>>
    BY <1>2, <1>8, Zenon DEF Placed
  <2>3. label \notin {"stopping", "close"} => writes'[c] = <<>>
    BY <1>2, <1>6, <1>8, Zenon DEF Placed
  <2> QED
    BY <1>1, <1>4, <1>8, <2>1, <2>2, <2>3, Zenon DEF Placed
<1>10. Calling(c)'
  BY <1>1, <1>4, <1>8, Zenon DEF Calling
<1>11. Acked(c)'
  <2>1. CASE writes'[c] = <<>>
    <3>1. 1 .. Len(writes'[c]) = {}
      BY ONLY <2>1
    <3> QED
      BY ONLY <3>1 DEF Acked
  <2>2. CASE writes'[c] = writes[c]
    <3>1. /\ Past(c)' = Past(c) /\ \A root, n : Safe(root, n)' <=> Safe(root, n)
      BY <1>1 DEF Past, Safe
    <3> QED
      BY ONLY <1>8, <2>2, <3>1, Zenon DEF Acked
  <2> QED
    BY <1>6, <2>1, <2>2, Zenon
<1>12. Routed(c)'
  BY <1>4, Zenon DEF Routed
<1> QED
  BY <1>1, <1>4, <1>5, <1>6, <1>7, <1>9, <1>10, <1>11, <1>12, Quiet, OneMoves, Zenon

\* A batch whose messages are each processed or in a call to make is routed
\* (Interrupted, Process).
LEMMA VerdictKeeps ==
  ASSUME RInv, NEW c \in Consumers, NEW made \in SUBSET Calls, NEW label \in {"route", "store"},
         pc[c] \in {"wait", "process"}, Goto(c, label), calls' = [calls EXCEPT ![c] = made],
         UNCHANGED <<log, committed, stored, batch, writes, now>>, processed \subseteq processed',
         \A x, y \in made : x.at = y.at => x = y,
         label = "store" => made = {},
         \A i \in 1 .. Len(batch[c]) :
             \/ batch[c][i].root \in processed'
             \/ \E call \in made : \E j \in 1 .. Len(call.msgs) : call.msgs[j].root = batch[c][i].root
  PROVE  RInv'
<1>1. /\ pc' \in [Consumers -> Labels] /\ pc'[c] = label
      /\ \A d \in Consumers : d # c => pc'[d] = pc[d]
  BY Goes, Zenon DEF RInv, Labels
<1>2. /\ calls' \in [Consumers -> SUBSET Calls] /\ calls'[c] = made
      /\ \A d \in Consumers : d # c => calls'[d] = calls[d]
  BY Zenon DEF RInv, Typed
<1>3. Typed'
  BY <1>1, <1>2, Zenon DEF RInv, Typed
<1>4. Grows
  <2>1. log \in [Topics -> Seq(Contents)] /\ log' = log /\ processed \subseteq processed'
    BY Types, Zenon
  <2>2. \A t \in Topics : Len(log[t]) <= Len(log[t])
    BY ONLY <2>1, Lengths
  <2> QED
    BY ONLY <2>1, <2>2 DEF Grows
<1>5. Placed(c) /\ writes[c] = <<>>
  BY Zenon DEF RInv, Placed
<1>6. Placed(c)'
  BY <1>1, <1>5, Zenon DEF Placed
<1>7. Calling(c)'
  BY <1>1, <1>2 DEF Calling
<1>8. Acked(c)'
  BY <1>5 DEF Acked
<1>9. Routed(c)'
  BY <1>1, <1>2 DEF Routed, ToCall, Safe, SafeIn
<1> QED
  BY <1>1, <1>2, <1>3, <1>4, <1>6, <1>7, <1>8, <1>9, OneMoves, Zenon

\* The one call for a whole batch is a call for each of its messages.
LEMMA WholeCallCovers ==
  ASSUME NEW msgs \in Seq(Messages), NEW f \in Reasons
  PROVE  /\ WholeCall(msgs, f) \in SUBSET Calls
         /\ \A x, y \in WholeCall(msgs, f) : x.at = y.at => x = y
         /\ \A i \in 1 .. Len(msgs) :
               \E call \in WholeCall(msgs, f) : \E j \in 1 .. Len(call.msgs) : call.msgs[j].root = msgs[i].root
<1> DEFINE whole == [at |-> 1, msgs |-> msgs, f |-> f]
<1>1. WholeCall(msgs, f) = {whole} /\ whole \in Calls /\ whole.msgs = msgs
  BY DEF WholeCall, Calls
<1> HIDE DEF whole
<1> QED
  BY <1>1

\* A wait cut short fails the whole batch: every message is still to be routed
\* (WaitUntilRetryTime returning ctx.Err()).
LEMMA InterruptedKeeps ==
  ASSUME RInv, NEW c \in Consumers, Interrupted(c)
  PROVE  RInv'
<1> DEFINE f == [err |-> "cancelled", step |-> 0, code |-> ""]
<1>1. /\ pc[c] = "wait" /\ Goto(c, "route")
      /\ calls' = [calls EXCEPT ![c] = WholeCall(batch[c], f)]
      /\ UNCHANGED <<log, committed, stored, batch, writes, now, processed>>
  BY Zenon DEF Interrupted
<1>2. f \in Reasons
  BY ConstantTypes DEF Reasons, Strings
<1> HIDE DEF f
<1>3. batch[c] \in Seq(Messages)
  BY DEF RInv, Typed
<1> DEFINE made == WholeCall(batch[c], f)
<1>4. /\ made \in SUBSET Calls
      /\ \A x, y \in made : x.at = y.at => x = y
      /\ \A i \in 1 .. Len(batch[c]) :
            \E call \in made : \E j \in 1 .. Len(call.msgs) : call.msgs[j].root = batch[c][i].root
  BY <1>2, <1>3, WholeCallCovers, Zenon
<1>5. calls' = [calls EXCEPT ![c] = made] /\ processed \subseteq processed'
  BY <1>1
<1>6. PICK label \in {"route", "store"} : Goto(c, label) /\ label # "store"
  BY <1>1
<1>7. /\ pc[c] \in {"wait", "process"}
      /\ UNCHANGED <<log, committed, stored, batch, writes, now>>
  BY <1>1, SMTT(20), Zenon
<1> HIDE DEF made
<1> QED
  BY <1>4, <1>5, <1>6, <1>7, VerdictKeeps, Zenon

\* Every message of a batch that a verdict does not count as processed has a call.
LEMMA CallsCover ==
  ASSUME NEW msgs \in Seq(Messages),
         NEW verdict \in [whole : Failures, items : [DOMAIN msgs -> Failures]]
  PROVE  /\ CallsFor(msgs, verdict) \in SUBSET Calls
         /\ \A x, y \in CallsFor(msgs, verdict) : x.at = y.at => x = y
         /\ \A i \in 1 .. Len(msgs) :
               \/ ~Failed(verdict.whole) /\ ~Failed(verdict.items[i])
               \/ \E call \in CallsFor(msgs, verdict) :
                     \E j \in 1 .. Len(call.msgs) : call.msgs[j].root = msgs[i].root
<1>1. Failures \subseteq Reasons
  BY Zenon DEF Failures, Reasons, Strings
<1>2. CASE Failed(verdict.whole)
  <2>1. CallsFor(msgs, verdict) = WholeCall(msgs, verdict.whole) /\ verdict.whole \in Reasons
    BY <1>1, <1>2 DEF CallsFor
  <2> DEFINE made == WholeCall(msgs, verdict.whole)
  <2>2. /\ made \in SUBSET Calls
        /\ \A x, y \in made : x.at = y.at => x = y
        /\ \A i \in 1 .. Len(msgs) :
              \E call \in made : \E j \in 1 .. Len(call.msgs) : call.msgs[j].root = msgs[i].root
    BY <2>1, WholeCallCovers, Zenon
  <2>3. CallsFor(msgs, verdict) = made
    BY <2>1
  <2> HIDE DEF made
  <2> QED
    BY <2>2, <2>3
<1>3. CASE ~Failed(verdict.whole)
  <2> DEFINE call(i) == [at |-> i, msgs |-> <<msgs[i]>>, f |-> verdict.items[i]]
             failing == {i \in DOMAIN msgs : Failed(verdict.items[i])}
  <2>1. CallsFor(msgs, verdict) = {call(i) : i \in failing}
    BY <1>3 DEF CallsFor
  <2>2. ASSUME NEW i \in DOMAIN msgs
        PROVE  /\ call(i) \in Calls /\ call(i).at = i
               /\ Len(call(i).msgs) = 1 /\ call(i).msgs[1] = msgs[i]
    <3>1. i \in Nat /\ msgs[i] \in Messages /\ verdict.items[i] \in Reasons
      BY <1>1
    <3>2. <<msgs[i]>> \in Seq(Messages)
      BY <3>1
    <3> QED
      BY <3>1, <3>2 DEF Calls
  <2> HIDE DEF call
  <2>3. \A x, y \in CallsFor(msgs, verdict) : x.at = y.at => x = y
    BY <2>1, <2>2
  <2>4. ASSUME NEW i \in 1 .. Len(msgs), Failed(verdict.items[i])
        PROVE  \E k \in CallsFor(msgs, verdict) : \E j \in 1 .. Len(k.msgs) : k.msgs[j].root = msgs[i].root
    <3>1. i \in DOMAIN msgs
      OBVIOUS
    <3>2. call(i) \in CallsFor(msgs, verdict) /\ 1 \in 1 .. Len(call(i).msgs) /\ call(i).msgs[1].root = msgs[i].root
      BY <2>1, <2>2, <2>4, <3>1
    <3> QED
      BY <3>2
  <2> QED
    BY <1>3, <2>1, <2>2, <2>3, <2>4
<1> QED
  BY <1>2, <1>3

\* A verdict leaves every message processed or still to be routed (the handler,
\* and the engine's calls of HandleError).
LEMMA ProcessKeeps ==
  ASSUME RInv, NEW c \in Consumers, Process(c)
  PROVE  RInv'
<1>1. PICK verdict \in [whole : Failures, items : [DOMAIN batch[c] -> Failures]] :
         /\ calls' = [calls EXCEPT ![c] = CallsFor(batch[c], verdict)]
         /\ processed' = processed \cup
               {batch[c][i].root : i \in {i \in DOMAIN batch[c] :
                   ~Failed(verdict.whole) /\ ~Failed(verdict.items[i])}}
         /\ Goto(c, IF CallsFor(batch[c], verdict) = {} THEN "store" ELSE "route")
  BY Zenon DEF Process
<1>2. pc[c] = "process" /\ UNCHANGED <<log, committed, stored, batch, writes, now>>
  BY DEF Process
<1>3. batch[c] \in Seq(Messages)
  BY DEF RInv, Typed
<1> DEFINE made == CallsFor(batch[c], verdict)
           label == IF made = {} THEN "store" ELSE "route"
<1>4. /\ made \in SUBSET Calls
      /\ \A x, y \in made : x.at = y.at => x = y
      /\ \A i \in 1 .. Len(batch[c]) :
            \/ ~Failed(verdict.whole) /\ ~Failed(verdict.items[i])
            \/ \E call \in made : \E j \in 1 .. Len(call.msgs) : call.msgs[j].root = batch[c][i].root
  BY <1>3, CallsCover, Zenon
<1>5. label \in {"route", "store"} /\ (label = "store" => made = {}) /\ Goto(c, label)
  BY <1>1, Zenon
<1> HIDE DEF made, label
<1>6. DOMAIN batch[c] = 1 .. Len(batch[c])
  BY ONLY <1>3, Elements, Zenon
<1>7. \A i \in 1 .. Len(batch[c]) :
         \/ batch[c][i].root \in processed'
         \/ \E call \in made : \E j \in 1 .. Len(call.msgs) : call.msgs[j].root = batch[c][i].root
  BY <1>1, <1>4, <1>6, Zenon
<1>8. processed \subseteq processed' /\ calls' = [calls EXCEPT ![c] = made]
  BY <1>1 DEF made
<1> QED
  BY <1>2, <1>4, <1>5, <1>7, <1>8, VerdictKeeps, Zenon

\* The consumer stops with an error: its batch is dropped, nothing is stored, and
\* what it has sent is not acknowledged yet (StopWithError).
LEMMA StopKeeps ==
  ASSUME RInv, NEW c \in Consumers, StopWithError(c), UNCHANGED <<log, committed, now, processed>>,
         NEW left \in Seq(Writes), writes' = [writes EXCEPT ![c] = left],
         \A i \in 1 .. Len(left) : left[i].status # "acked"
  PROVE  RInv'
<1>1. /\ pc' \in [Consumers -> Labels] /\ pc'[c] = "stopping"
      /\ \A d \in Consumers : d # c => pc'[d] = pc[d]
  BY Goes, Zenon DEF RInv, Labels, StopWithError
<1>2. /\ batch' \in [Consumers -> Seq(Messages)] /\ batch'[c] = <<>>
      /\ \A d \in Consumers : d # c => batch'[d] = batch[d]
  <2>1. <<>> \in Seq(Messages)
    OBVIOUS
  <2> QED
    BY <2>1, Zenon DEF RInv, Typed, StopWithError
<1>3. /\ calls' \in [Consumers -> SUBSET Calls] /\ calls'[c] = {}
      /\ \A d \in Consumers : d # c => calls'[d] = calls[d]
  BY Zenon DEF RInv, Typed, StopWithError
<1>4. /\ writes' \in [Consumers -> Seq(Writes)] /\ writes'[c] = left
      /\ \A d \in Consumers : d # c => writes'[d] = writes[d]
  BY Zenon DEF RInv, Typed
<1>5. UNCHANGED stored
  BY Zenon DEF StopWithError
<1>6. Typed'
  BY <1>1, <1>2, <1>3, <1>4, <1>5, Quiet, Zenon DEF RInv, Typed
<1>7. Placed(c)'
  <2>1. committed[c] <= stored[c] /\ stored[c] + Len(batch[c]) <= Len(log[c])
    BY Zenon DEF RInv, Placed
  <2>2. stored[c] \in Nat /\ Len(log[c]) \in Nat /\ Len(batch[c]) \in Nat
    <3>1. /\ log \in [Topics -> Seq(Contents)] /\ stored \in [Consumers -> Nat]
          /\ batch \in [Consumers -> Seq(Messages)] /\ c \in Consumers
      BY Types, Zenon
    <3> QED
      BY ONLY <3>1, Consumer, Lengths
  <2>3. Len(batch'[c]) = 0 /\ 1 .. Len(batch'[c]) = {}
    BY ONLY <1>2
  <2>4. stored[c] + Len(batch'[c]) <= Len(log[c])
    BY ONLY <2>1, <2>2, <2>3
  <2>5. committed' = committed /\ log' = log
    OBVIOUS
  <2> QED
    BY ONLY <1>1, <1>2, <1>5, <2>1, <2>3, <2>4, <2>5 DEF Placed
<1>8. Calling(c)' /\ Acked(c)' /\ Routed(c)'
  BY <1>1, <1>3, <1>4, Zenon DEF Calling, Acked, Routed
<1> QED
  BY <1>1, <1>2, <1>3, <1>4, <1>5, <1>6, <1>7, <1>8, Quiet, OneMoves, Zenon

\* The writes a call makes are records of their topics and name its messages.
LEMMA SentTyped ==
  ASSUME NEW call \in Calls, NEW n \in 0 .. Len(call.msgs), now \in Nat
  PROVE  /\ Sent(call, n) \in Seq(Writes) /\ Len(Sent(call, n)) = n
         /\ \A i \in 1 .. n : /\ Sent(call, n)[i].rec.root = call.msgs[i].root
                              /\ Sent(call, n)[i].status = "pending"
<1>1. call.msgs \in Seq(Messages) /\ call.f \in Reasons /\ n \in Nat /\ Len(call.msgs) \in Nat
  BY DEF Calls
<1>2. ASSUME NEW i \in 1 .. n
      PROVE  /\ WriteOf(call.msgs[i], call.f) \in Writes
             /\ WriteOf(call.msgs[i], call.f).rec.root = call.msgs[i].root
             /\ WriteOf(call.msgs[i], call.f).status = "pending"
  <2>1. call.msgs[i] \in Messages
    BY <1>1
  <2> QED
    BY <1>1, <2>1, WriteSound
<1>3. Sent(call, n) = [i \in 1 .. n |-> WriteOf(call.msgs[i], call.f)]
  BY DEF Sent
<1>4. Sent(call, n) \in [1 .. n -> Writes]
  BY <1>2, <1>3
<1> QED
  BY <1>1, <1>2, <1>3, <1>4, Enumerated

\* A call sends a write of each of its messages, or stops the consumer with the
\* batch unstored (HandleError).
LEMMA HandleErrorKeeps ==
  ASSUME RInv, NEW c \in Consumers, HandleError(c)
  PROVE  RInv'
<1>1. pc[c] = "route" /\ UNCHANGED <<log, committed, now, processed>>
  BY DEF HandleError
<1>2. PICK call \in Current(c) :
         \/ /\ writes' = [writes EXCEPT ![c] = Sent(call, Len(call.msgs))]
            /\ Goto(c, "await")
            /\ UNCHANGED <<stored, batch, calls>>
         \/ /\ \E n \in 0 .. Len(call.msgs) - 1 : writes' = [writes EXCEPT ![c] = Sent(call, n)]
            /\ StopWithError(c)
  BY DEF HandleError
<1>3. call \in Calls /\ Len(call.msgs) \in Nat /\ now \in Nat
  <2>1. call \in calls[c] /\ calls[c] \in SUBSET Calls /\ now \in Nat
    BY DEF Current, RInv, Typed
  <2> QED
    BY <2>1 DEF Calls
<1>4. ASSUME NEW n \in 0 .. Len(call.msgs) - 1, writes' = [writes EXCEPT ![c] = Sent(call, n)],
             StopWithError(c)
      PROVE  RInv'
  <2>1. n \in 0 .. Len(call.msgs)
    BY <1>3
  <2>2. Sent(call, n) \in Seq(Writes) /\ \A i \in 1 .. Len(Sent(call, n)) : Sent(call, n)[i].status # "acked"
    BY <1>3, <2>1, SentTyped, Zenon
  <2> QED
    BY <1>1, <1>4, <2>2, StopKeeps, Zenon
<1>5. CASE /\ writes' = [writes EXCEPT ![c] = Sent(call, Len(call.msgs))]
           /\ Goto(c, "await")
           /\ UNCHANGED <<stored, batch, calls>>
  <2>0. Len(call.msgs) \in 0 .. Len(call.msgs)
    BY <1>3
  <2>1. /\ Sent(call, Len(call.msgs)) \in Seq(Writes) /\ Len(Sent(call, Len(call.msgs))) = Len(call.msgs)
        /\ \A i \in 1 .. Len(call.msgs) : /\ Sent(call, Len(call.msgs))[i].rec.root = call.msgs[i].root
                                          /\ Sent(call, Len(call.msgs))[i].status = "pending"
    BY <1>3, <2>0, SentTyped, Zenon
  <2>2. /\ writes' \in [Consumers -> Seq(Writes)] /\ writes'[c] = Sent(call, Len(call.msgs))
        /\ \A d \in Consumers : d # c => writes'[d] = writes[d]
    BY <1>5, <2>1, Zenon DEF RInv, Typed
  <2>3. /\ pc' \in [Consumers -> Labels] /\ pc'[c] = "await"
        /\ \A d \in Consumers : d # c => pc'[d] = pc[d]
    BY <1>5, Goes DEF RInv, Labels
  <2>4. Typed'
    BY <1>1, <1>5, <2>2, <2>3, Quiet DEF RInv, Typed
  <2>5. Placed(c) /\ Calling(c) /\ Routed(c)
    BY DEF RInv
  <2>6. Placed(c)'
    BY <1>1, <1>5, <2>3, <2>5, Zenon DEF Placed
  <2>7. Calling(c)'
    BY <1>5, <2>1, <2>2, <2>5, Zenon DEF Calling, Current
  <2>8. Acked(c)'
    BY <2>1, <2>2, Zenon DEF Acked
  <2>9. Routed(c)'
    BY <1>1, <1>5, <2>3, <2>5, Zenon DEF Routed, ToCall, Past, Safe
  <2> QED
    BY <1>1, <1>5, <2>2, <2>3, <2>4, <2>6, <2>7, <2>8, <2>9, Quiet, OneMoves, Zenon
<1> QED
  BY <1>2, <1>4, <1>5

\* The call being made is over: it was the only one at its place.
LEMMA OneCurrent ==
  ASSUME RInv, NEW c \in Consumers, NEW x \in Current(c), NEW y \in Current(c)
  PROVE  x = y
<1>1. /\ x \in calls[c] /\ y \in calls[c] /\ x.at <= y.at /\ y.at <= x.at
      /\ x.at \in Nat /\ y.at \in Nat
  <2>1. calls[c] \subseteq Calls
    BY Types
  <2> QED
    BY <2>1 DEF Current, Calls
<1>2. x.at = y.at
  BY ONLY <1>1
<1>3. \A k, l \in calls[c] : k.at = l.at => k = l
  BY Zenon DEF RInv, Calling
<1> QED
  BY ONLY <1>1, <1>2, <1>3

\* A call is over when its writes are acknowledged, which makes its messages safe;
\* one that is not stops the consumer (awaitWrites).
LEMMA AwaitKeeps ==
  ASSUME RInv, NEW c \in Consumers, awaitWrites(c)
  PROVE  RInv'
<1>1. /\ pc[c] = "await" /\ UNCHANGED <<log, committed, now, processed>>
      /\ writes' = [writes EXCEPT ![c] = <<>>]
  BY DEF awaitWrites
<1>2. CASE StopWithError(c)
  <2>1. <<>> \in Seq(Writes) /\ \A i \in 1 .. Len(<<>>) : <<>>[i].status # "acked"
    OBVIOUS
  <2> QED
    BY <1>1, <1>2, <2>1, StopKeeps, Zenon
<1>3. CASE /\ Confirmed(c)
           /\ calls' = [calls EXCEPT ![c] = calls[c] \ Current(c)]
           /\ Goto(c, IF LastCall(c) THEN "store" ELSE "route")
           /\ UNCHANGED <<stored, batch>>
  <2> DEFINE label == IF LastCall(c) THEN "store" ELSE "route"
  <2>1. label \in {"store", "route"} /\ Goto(c, label) /\ (label = "store" => calls[c] \ Current(c) = {})
    BY <1>3 DEF LastCall
  <2> HIDE DEF label
  <2>2. /\ pc' \in [Consumers -> Labels] /\ pc'[c] = label
        /\ \A d \in Consumers : d # c => pc'[d] = pc[d]
    BY <2>1, Goes, Zenon DEF RInv, Labels
  <2>3. /\ writes' \in [Consumers -> Seq(Writes)] /\ writes'[c] = <<>>
        /\ \A d \in Consumers : d # c => writes'[d] = writes[d]
    <3>1. <<>> \in Seq(Writes)
      OBVIOUS
    <3> QED
      BY <1>1, <3>1 DEF RInv, Typed
  <2>4. /\ calls' \in [Consumers -> SUBSET Calls] /\ calls'[c] = calls[c] \ Current(c)
        /\ \A d \in Consumers : d # c => calls'[d] = calls[d]
    BY <1>3, SMTT(20), Zenon DEF RInv, Typed
  <2>5. Typed'
    BY <1>1, <1>3, <2>2, <2>3, <2>4, Quiet, Zenon DEF RInv, Typed
  <2>6. Placed(c) /\ Calling(c) /\ Routed(c) /\ Acked(c)
    BY DEF RInv
  <2>7. Placed(c)'
    BY <1>1, <1>3, <2>1, <2>2, <2>3, <2>6, Zenon DEF Placed
  <2>8. Calling(c)' /\ Acked(c)'
    <3>1. \A x, y \in calls'[c] : x.at = y.at => x = y
      BY ONLY <2>4, <2>6, Zenon DEF Calling
    <3>2. pc'[c] # "await"
      BY ONLY <2>1, <2>2
    <3>3. 1 .. Len(writes'[c]) = {}
      BY ONLY <2>3, SMTT(20), Zenon
    <3> QED
      BY ONLY <3>1, <3>2, <3>3, Zenon DEF Calling, Acked
  <2>9. ASSUME NEW root, ToCall(c, root)
        PROVE  \/ Safe(root, Past(c))
               \/ \E k \in calls[c] \ Current(c) : \E i \in 1 .. Len(k.msgs) : k.msgs[i].root = root
    <3>1. PICK k \in calls[c] : \E i \in 1 .. Len(k.msgs) : k.msgs[i].root = root
      BY <2>9 DEF ToCall
    <3>2. CASE k \in Current(c)
      <4>1. PICK i \in 1 .. Len(k.msgs) : k.msgs[i].root = root
        BY <3>1, SMTT(20), Zenon
      <4>2. Len(writes[c]) = Len(k.msgs) /\ \A j \in 1 .. Len(k.msgs) : writes[c][j].rec.root = k.msgs[j].root
        BY <1>1, <2>6, <3>2, OneCurrent DEF Calling
      <4>3. DOMAIN writes[c] = 1 .. Len(writes[c])
        BY DEF RInv, Typed
      <4>4. writes[c][i].status = "acked" /\ writes[c][i].rec.root = root
        BY <1>3, <4>1, <4>2, <4>3, Zenon DEF Confirmed
      <4> QED
        BY <2>6, <4>1, <4>2, <4>4, Zenon DEF Acked
    <3> QED
      BY <3>1, <3>2, Zenon
  <2>10. Routed(c)'
    <3>1. Past(c)' = Past(c)
      BY <1>3 DEF Past
    <3>2. \A i \in 1 .. Len(batch[c]) : Safe(batch[c][i].root, Past(c)) \/ ToCall(c, batch[c][i].root)
      BY <1>1, <2>6, Zenon DEF Routed
    <3>3. \A i \in 1 .. Len(batch[c]) :
             \/ Safe(batch[c][i].root, Past(c))
             \/ label # "store" /\ \E k \in calls'[c] : \E j \in 1 .. Len(k.msgs) : k.msgs[j].root = batch[c][i].root
      <4> SUFFICES ASSUME NEW i \in 1 .. Len(batch[c]), ~Safe(batch[c][i].root, Past(c))
                   PROVE  label # "store" /\ \E k \in calls'[c] :
                             \E j \in 1 .. Len(k.msgs) : k.msgs[j].root = batch[c][i].root
        BY Zenon
      <4>1. ToCall(c, batch[c][i].root)
        BY <3>2, Zenon
      <4>2. \E k \in calls[c] \ Current(c) : \E j \in 1 .. Len(k.msgs) : k.msgs[j].root = batch[c][i].root
        BY <2>9, <4>1, Zenon
      <4> QED
        BY ONLY <2>1, <2>4, <4>2, Zenon
    <3> QED
      BY <1>1, <1>3, <2>2, <3>1, <3>3, Zenon DEF Routed, ToCall, Safe
  <2> QED
    BY <1>1, <1>3, <2>2, <2>3, <2>4, <2>5, <2>7, <2>8, <2>10, Quiet, OneMoves, Zenon
<1> QED
  BY <1>2, <1>3, Zenon DEF awaitWrites

\* The log after a record is written to the topic it is for.
LEMMA LogGrows ==
  ASSUME Typed, NEW w \in Writes, log' = [log EXCEPT ![w.topic] = Append(@, w.rec)],
         UNCHANGED processed
  PROVE  /\ Grows
         /\ log' \in [Topics -> Seq(Contents)]
         /\ log'["source"] = [i \in 1 .. Len(Source) |-> SourceRecord(i - 1)]
         /\ log'["retry"] \in Seq(RetryRecords) /\ log'["dlq"] \in Seq(DeadRecords)
         /\ \A n \in Nat : n <= Len(log["retry"]) => SafeIn(log', processed', w.rec.root, n)
<1>1. /\ log \in [Topics -> Seq(Contents)]
      /\ log["source"] = [i \in 1 .. Len(Source) |-> SourceRecord(i - 1)]
      /\ log["retry"] \in Seq(RetryRecords) /\ log["dlq"] \in Seq(DeadRecords)
  BY DEF Typed
<1>2. /\ w.topic \in {"retry", "dlq"} /\ w.rec \in Contents
      /\ w.topic = "retry" => w.rec \in RetryRecords
      /\ w.topic = "dlq" => w.rec \in DeadRecords
  BY DEF Writes, RetryRecords, DeadRecords
<1>3. {"source", "retry", "dlq"} = Topics
  BY DEF Topics, Consumers
<1>4. /\ log'[w.topic] = Append(log[w.topic], w.rec)
      /\ \A t \in Topics : t # w.topic => log'[t] = log[t]
      /\ log' = [t \in Topics |-> log'[t]]
  BY <1>1, <1>2, <1>3, Zenon
<1>5. log[w.topic] \in Seq(Contents)
  BY <1>1, <1>2, <1>3
<1>6. /\ log'[w.topic] \in Seq(Contents)
      /\ Len(log'[w.topic]) = Len(log[w.topic]) + 1 /\ Len(log[w.topic]) \in Nat
      /\ \A i \in 1 .. Len(log[w.topic]) : log'[w.topic][i] = log[w.topic][i]
      /\ log'[w.topic][Len(log[w.topic]) + 1] = w.rec
  BY <1>2, <1>4, <1>5
<1>7. log' \in [Topics -> Seq(Contents)]
  BY <1>1, <1>4, <1>6
<1>8. Grows
  <2>1. \A t \in Topics : Len(log[t]) \in Nat
    BY <1>1
  <2> QED
    BY <1>4, <1>6, <2>1 DEF Grows
<1>9. log'["source"] = log["source"]
  BY <1>2, <1>3, <1>4
<1>10. log'["retry"] \in Seq(RetryRecords)
  BY <1>1, <1>2, <1>3, <1>4
<1>11. log'["dlq"] \in Seq(DeadRecords)
  BY <1>1, <1>2, <1>3, <1>4
<1>12. ASSUME NEW n \in Nat, n <= Len(log["retry"])
       PROVE  SafeIn(log', processed', w.rec.root, n)
  <2>1. CASE w.topic = "dlq"
    <3>1. Len(log["dlq"]) + 1 \in 1 .. Len(log'["dlq"])
      BY <1>6, <2>1
    <3> QED
      BY <1>6, <2>1, <3>1 DEF SafeIn
  <2>2. CASE w.topic = "retry"
    <3>1. Len(log["retry"]) + 1 \in n + 1 .. Len(log'["retry"])
      BY <1>6, <1>12, <2>2
    <3> QED
      BY <1>6, <2>2, <3>1 DEF SafeIn
  <2> QED
    BY <1>2, <2>1, <2>2
<1> QED
  BY <1>1, <1>7, <1>8, <1>9, <1>10, <1>11, <1>12, Zenon

\* The broker answers: what it acknowledged it has written (BrokerAnswers).
LEMMA BrokerKeeps ==
  ASSUME RInv, NEW c \in Consumers, BrokerAnswers(c)
  PROVE  RInv'
<1>1. /\ UNCHANGED <<committed, stored, pc, batch, calls, now, processed>>
      /\ \E i \in DOMAIN writes[c], status \in {"acked", "failed"} :
            /\ writes[c][i].status = "pending"
            /\ writes' = [writes EXCEPT ![c][i].status = status]
            /\ \/ log' = [log EXCEPT ![writes[c][i].topic] = Append(@, writes[c][i].rec)]
               \/ log' = log /\ status = "failed"
  BY Zenon DEF BrokerAnswers
<1>2. PICK i \in DOMAIN writes[c], status \in {"acked", "failed"} :
            /\ writes[c][i].status = "pending"
            /\ writes' = [writes EXCEPT ![c][i].status = status]
            /\ \/ log' = [log EXCEPT ![writes[c][i].topic] = Append(@, writes[c][i].rec)]
               \/ log' = log /\ status = "failed"
  BY <1>1, Zenon
<1>3. /\ writes \in [Consumers -> Seq(Writes)] /\ writes[c] \in Seq(Writes)
      /\ DOMAIN writes[c] = 1 .. Len(writes[c]) /\ writes[c][i] \in Writes /\ Typed
      /\ Len(writes[c]) \in Nat
  BY DEF RInv, Typed
<1> DEFINE w == writes[c][i]
           answered == [w EXCEPT !.status = status]
<1>4. answered \in Writes /\ answered.rec = w.rec /\ answered.status = status
  BY <1>3, Zenon DEF Writes
<1>5. /\ writes' = [writes EXCEPT ![c] = [writes[c] EXCEPT ![i] = answered]]
  BY <1>2, <1>3
<1> HIDE DEF answered
<1>6. /\ writes'[c] = [writes[c] EXCEPT ![i] = answered]
      /\ \A d \in Consumers : d # c => writes'[d] = writes[d]
  BY <1>3, <1>5
<1>7. /\ writes'[c] \in Seq(Writes) /\ Len(writes'[c]) = Len(writes[c])
      /\ writes'[c][i] = answered /\ \A j \in 1 .. Len(writes[c]) : j # i => writes'[c][j] = writes[c][j]
  <2>1. writes'[c] \in [1 .. Len(writes[c]) -> Writes]
    BY <1>3, <1>4, <1>6
  <2>2. writes'[c] \in Seq(Writes) /\ Len(writes'[c]) = Len(writes[c])
    BY <1>3, <2>1, Enumerated, Zenon
  <2> QED
    BY <1>3, <1>6, <2>2
<1>8. writes' \in [Consumers -> Seq(Writes)]
  BY <1>3, <1>5, <1>6, <1>7
<1>9. /\ Grows /\ log' \in [Topics -> Seq(Contents)]
      /\ log'["source"] = [k \in 1 .. Len(Source) |-> SourceRecord(k - 1)]
      /\ log'["retry"] \in Seq(RetryRecords) /\ log'["dlq"] \in Seq(DeadRecords)
      /\ status = "acked" =>
            \A n \in Nat : n <= Len(log["retry"]) => SafeIn(log', processed', w.rec.root, n)
  <2>1. CASE log' = log /\ status = "failed"
    BY <1>1, <2>1, Quiet
  <2>2. CASE log' = [log EXCEPT ![w.topic] = Append(@, w.rec)]
    BY <1>1, <1>3, <2>2, LogGrows, Zenon
  <2> QED
    BY <1>2, <2>1, <2>2, Zenon
<1>10. Typed'
  BY <1>1, <1>8, <1>9, Zenon DEF RInv, Typed
<1>11. /\ Placed(c) /\ Calling(c) /\ Acked(c) /\ Routed(c) /\ c \in Topics
       /\ log \in [Topics -> Seq(Contents)] /\ stored \in [Consumers -> Nat]
       /\ batch \in [Consumers -> Seq(Messages)]
  BY Consumer DEF RInv, Typed
<1>12. Past(c)' = Past(c) /\ Past(c) \in Nat /\ Past(c) <= Len(log["retry"])
  <2>1. {"retry"} \subseteq Consumers /\ Len(log["retry"]) \in Nat
    BY <1>11, SMTT(20), Zenon DEF Consumers, Topics
  <2>3. stored["retry"] + Len(batch["retry"]) <= Len(log["retry"])
    BY <2>1 DEF RInv, Placed
  <2>4. stored["retry"] \in Nat /\ Len(batch["retry"]) \in Nat
    BY ONLY <1>11, <2>1, Lengths
  <2>2. stored["retry"] \in Nat /\ Len(batch["retry"]) \in Nat
        /\ stored["retry"] + Len(batch["retry"]) <= Len(log["retry"])
    BY ONLY <2>3, <2>4, SMTT(20), Zenon
  <2> QED
    BY <1>1, <2>1, <2>2 DEF Past
<1>13. ASSUME NEW root, Safe(root, Past(c))
       PROVE  SafeIn(log', processed', root, Past(c))
  <2>1. Past(c) <= Past(c)
    BY <1>12, SMTT(20), Zenon
  <2> QED
    BY <1>9, <1>11, <1>12, <1>13, <2>1, SafeStays
<1>14. Placed(c)'
  <2>0. c \in Consumers
    OBVIOUS
  <2>1. Len(log[c]) \in Nat /\ Len(log'[c]) \in Nat /\ stored[c] \in Nat /\ Len(batch[c]) \in Nat
    BY ONLY <1>9, <1>11, <2>0, Lengths
  <2>01. stored[c] + Len(batch[c]) <= Len(log[c]) /\ Len(log[c]) <= Len(log'[c])
    BY ONLY <1>9, <1>11, Zenon DEF Placed, Grows
  <2>2. stored[c] + Len(batch[c]) <= Len(log'[c])
    BY ONLY <2>01, <2>1
  <2>3. ASSUME NEW k \in 1 .. Len(batch[c])
        PROVE  batch[c][k].root = log'[c][stored[c] + k].root
    <3>1. stored[c] + k \in 1 .. Len(log[c])
      BY ONLY <2>01, <2>1, k \in 1 .. Len(batch[c]), InsideLog
    <3>2. log'[c][stored[c] + k] = log[c][stored[c] + k]
      BY <1>9, <1>11, <3>1, SMTT(20), Zenon DEF Grows
    <3> QED
      BY <1>11, <3>2, Zenon DEF Placed
  <2>4. pc[c] \in {"await", "stopping", "close"}
    BY <1>2, <1>3, <1>11 DEF Placed
  <2> QED
    BY <1>1, <1>11, <2>2, <2>3, <2>4, Zenon DEF Placed
<1>15. Calling(c)'
  <2>1. \A j \in 1 .. Len(writes[c]) : writes'[c][j].rec = writes[c][j].rec
    BY <1>4, <1>7
  <2>2. Current(c)' = Current(c)
    BY <1>1 DEF Current
  <2>3. ASSUME NEW call \in Current(c), Len(writes[c]) = Len(call.msgs),
               \A j \in 1 .. Len(call.msgs) : writes[c][j].rec.root = call.msgs[j].root
        PROVE  Len(writes'[c]) = Len(call.msgs) /\ \A j \in 1 .. Len(call.msgs) : writes'[c][j].rec.root = call.msgs[j].root
    BY <1>7, <2>1, <2>3
  <2> QED
    BY <1>1, <1>11, <2>2, <2>3, Zenon DEF Calling
<1>16. Acked(c)'
  <2> SUFFICES ASSUME NEW j \in 1 .. Len(writes[c]), writes'[c][j].status = "acked"
               PROVE  SafeIn(log', processed', writes'[c][j].rec.root, Past(c))
    BY <1>7, <1>12, Zenon DEF Acked, Safe
  <2>1. CASE j = i
    BY <1>4, <1>7, <1>9, <1>12, <2>1, Zenon
  <2>2. CASE j # i
    BY <1>7, <1>11, <1>13, <2>2, Zenon DEF Acked
  <2> QED
    BY <2>1, <2>2, Zenon
<1>17. Routed(c)'
  <2> SUFFICES ASSUME pc[c] \in {"route", "await", "store"}, NEW k \in 1 .. Len(batch[c])
               PROVE  \/ SafeIn(log', processed', batch[c][k].root, Past(c))
                      \/ pc[c] # "store" /\ ToCall(c, batch[c][k].root)
    BY <1>1, <1>12 DEF Routed, ToCall, Safe
  <2> QED
    BY <1>11, <1>13, Zenon DEF Routed
<1> QED
  BY <1>1, <1>6, <1>9, <1>10, <1>14, <1>15, <1>16, <1>17, OneMoves, Zenon

\* A consumer with nothing in its hands.
LEMMA RestingKeeps ==
  ASSUME Typed', NEW c \in Consumers, pc'[c] \in {"poll", "down"}, batch'[c] = <<>>, writes'[c] = <<>>,
         \A x, y \in calls'[c] : x.at = y.at => x = y,
         committed'[c] <= stored'[c], stored'[c] <= Len(log'[c])
  PROVE  Placed(c)' /\ Calling(c)' /\ Acked(c)' /\ Routed(c)'
<1>1. Len(batch'[c]) = 0 /\ Len(writes'[c]) = 0 /\ stored'[c] \in Nat /\ Len(log'[c]) \in Nat
  BY Consumer DEF Typed
<1>2. Placed(c)'
  BY <1>1 DEF Placed
<1>3. Calling(c)'
  BY DEF Calling
<1>4. Acked(c)'
  <2>1. 1 .. Len(writes'[c]) = {}
    BY ONLY <1>1, SMTT(20), Zenon
  <2> QED
    BY ONLY <2>1 DEF Acked
<1>5. Routed(c)'
  BY DEF Routed
<1> QED
  BY <1>2, <1>3, <1>4, <1>5, Zenon

\* What a process held in memory is gone, and what it had stored was safe (Crash).
LEMMA CrashKeeps ==
  ASSUME RInv, NEW c \in Consumers, Crash(c)
  PROVE  RInv'
<1>1. /\ pc'     = [d \in Consumers |-> IF d \in Neighbours(c) THEN "down" ELSE pc[d]]
      /\ batch'  = [d \in Consumers |-> IF d \in Neighbours(c) THEN <<>> ELSE batch[d]]
      /\ calls'  = [d \in Consumers |-> IF d \in Neighbours(c) THEN {} ELSE calls[d]]
      /\ writes' = [d \in Consumers |-> IF d \in Neighbours(c) THEN <<>> ELSE writes[d]]
      /\ UNCHANGED <<log, committed, stored, now, processed>>
  BY Zenon DEF Crash
<1>2. /\ pc \in [Consumers -> Labels] /\ batch \in [Consumers -> Seq(Messages)]
      /\ calls \in [Consumers -> SUBSET Calls] /\ writes \in [Consumers -> Seq(Writes)]
      /\ log \in [Topics -> Seq(Contents)] /\ stored \in [Consumers -> Nat]
  BY DEF RInv, Typed
<1>3. <<>> \in Seq(Messages) /\ <<>> \in Seq(Writes) /\ "down" \in Labels
  BY DEF Labels
<1>4. /\ pc' \in [Consumers -> Labels] /\ batch' \in [Consumers -> Seq(Messages)]
      /\ calls' \in [Consumers -> SUBSET Calls] /\ writes' \in [Consumers -> Seq(Writes)]
  BY <1>1, <1>2, <1>3, SMTT(20), Zenon
<1>5. Typed'
  BY <1>1, <1>4, Quiet DEF RInv, Typed
<1>6. Grows /\ log' \in [Topics -> Seq(Contents)]
  BY <1>1, Quiet, Zenon
<1>7. ASSUME NEW d \in Consumers
      PROVE  Placed(d)' /\ Calling(d)' /\ Acked(d)' /\ Routed(d)'
  <2>1. committed[d] <= stored[d] /\ stored[d] + Len(batch[d]) <= Len(log[d])
    BY Zenon DEF RInv, Placed
  <2>2. stored[d] \in Nat /\ Len(batch[d]) \in Nat /\ Len(log[d]) \in Nat
    BY <1>2, Consumer
  <2>3. CASE d \in Neighbours(c)
    <3>0. log' = log /\ stored' = stored /\ committed' = committed
      BY ONLY <1>1, Zenon
    <3>1. stored'[d] <= Len(log'[d]) /\ committed'[d] <= stored'[d]
      <4>1. stored[d] <= Len(log[d]) /\ committed[d] <= stored[d]
        BY ONLY <2>1, <2>2, SumBelow, Zenon
      <4> QED
        BY ONLY <3>0, <4>1, SMTT(20), Zenon
    <3>2. pc'[d] = "down" /\ batch'[d] = <<>> /\ calls'[d] = {} /\ writes'[d] = <<>>
      BY <1>1, <2>3, Zenon
    <3> QED
      BY <1>5, <3>1, <3>2, RestingKeeps, Zenon
  <2>4. CASE d \notin Neighbours(c)
    <3>1. /\ UNCHANGED <<stored, pc[d], batch[d], calls[d], writes[d]>>
          /\ committed'[d] <= stored[d]
      BY <1>1, <2>1, <2>4
    <3> QED
      BY <1>6, <3>1, LeftAlone, Zenon
  <2> QED
    BY <2>3, <2>4
<1> QED
  BY <1>1, <1>5, <1>6, <1>7, StoredKept, Zenon DEF RInv

\* A restart goes back to what was committed: less is stored, so what is safe
\* stays safe (Restart).
LEMMA RestartKeeps ==
  ASSUME RInv, NEW c \in Consumers, Restart(c)
  PROVE  RInv'
<1>1. /\ \A d \in Neighbours(c) : pc[d] = "down"
      /\ pc'     = [d \in Consumers |-> IF d \in Neighbours(c) THEN "poll" ELSE pc[d]]
      /\ stored' = [d \in Consumers |-> IF d \in Neighbours(c) THEN committed[d] ELSE stored[d]]
      /\ UNCHANGED <<log, committed, batch, calls, writes, now, processed>>
  BY DEF Restart
<1>2. /\ pc \in [Consumers -> Labels] /\ batch \in [Consumers -> Seq(Messages)]
      /\ committed \in [Consumers -> Nat] /\ stored \in [Consumers -> Nat]
      /\ log \in [Topics -> Seq(Contents)] /\ {"source", "retry"} \subseteq Consumers
  BY DEF RInv, Typed, Consumers
<1>3. pc' \in [Consumers -> Labels] /\ stored' \in [Consumers -> Nat]
  BY <1>1, <1>2, SMTT(20), Zenon DEF Labels
<1>4. Typed'
  BY <1>1, <1>3, Quiet DEF RInv, Typed
<1>5. Grows /\ log' \in [Topics -> Seq(Contents)]
  BY <1>1, Quiet, Zenon
<1>6. ASSUME NEW d \in Consumers
      PROVE  /\ committed[d] <= stored'[d] /\ stored'[d] <= stored[d] /\ stored[d] <= Len(log[d])
             /\ stored'[d] \in Nat /\ stored[d] \in Nat /\ Len(log[d]) \in Nat
  <2>1. committed[d] <= stored[d] /\ stored[d] + Len(batch[d]) <= Len(log[d])
    BY Zenon DEF RInv, Placed
  <2>2. committed[d] \in Nat /\ stored[d] \in Nat /\ Len(batch[d]) \in Nat /\ Len(log[d]) \in Nat
    BY ONLY <1>2, Consumer, d \in Consumers
  <2>3. stored'[d] = committed[d] \/ stored'[d] = stored[d]
    BY <1>1, Zenon
  <2> QED
    BY ONLY <2>1, <2>2, <2>3
<1>7. ASSUME NEW root, NEW n \in Nat, NEW k \in Nat, k <= n, Safe(root, n)
      PROVE  SafeIn(log', processed', root, k)
  BY <1>2, <1>5, <1>7, SafeStays
<1>8. StoredSafe'
  <2>1. \A o \in 0 .. stored'["source"] - 1 : o \in 0 .. stored["source"] - 1
    BY <1>2, <1>6
  <2>2. \A i \in 1 .. stored'["retry"] : i \in 1 .. stored["retry"]
    BY <1>2, <1>6
  <2>3. stored'["retry"] \in Nat /\ stored["retry"] \in Nat /\ stored'["retry"] <= stored["retry"]
    BY <1>2, <1>6
  <2>4. StoredSafe
    BY DEF RInv
  <2>5. \A o \in 0 .. stored'["source"] - 1 : SafeIn(log', processed', o, stored'["retry"])
    BY <1>7, <2>1, <2>3, <2>4, SMTT(20), Zenon DEF StoredSafe
  <2>6. \A i \in 1 .. stored'["retry"] : SafeIn(log', processed', log'["retry"][i].root, stored'["retry"])
    BY <1>1, <1>7, <2>2, <2>3, <2>4 DEF StoredSafe
  <2> QED
    BY <2>5, <2>6, Zenon DEF StoredSafe, Safe
<1>9. ASSUME NEW d \in Consumers
      PROVE  Placed(d)' /\ Calling(d)' /\ Acked(d)' /\ Routed(d)'
  <2>0. Placed(d) /\ Calling(d) /\ Acked(d) /\ Routed(d)
    BY DEF RInv
  <2>1. CASE d \in Neighbours(c)
    <3>1. pc[d] = "down" /\ pc'[d] = "poll"
      BY <1>1, <2>1
    <3>2. batch[d] = <<>> /\ writes[d] = <<>>
      BY <2>0, <3>1, Zenon DEF Placed
    <3>3. stored'[d] <= Len(log[d]) /\ committed[d] <= stored'[d]
      BY <1>6
    <3> QED
      BY <1>1, <1>4, <2>0, <3>1, <3>2, <3>3, RestingKeeps, Zenon DEF Calling
  <2>2. CASE d \notin Neighbours(c)
    <3>1. pc'[d] = pc[d] /\ stored'[d] = stored[d]
      BY <1>1, <2>2
    <3>2. Past(d) \in Nat /\ Past(d)' \in Nat /\ Past(d)' <= Past(d)
      <4>1. CASE d = "retry"
        <5>1. Past(d) = stored["retry"] + Len(batch["retry"]) /\ Past(d)' = Past(d)
          BY <1>1, <3>1, <4>1 DEF Past
        <5> QED
          BY <1>2, <5>1
      <4>2. CASE d # "retry"
        <5>1. Past(d) = stored["retry"] /\ Past(d)' = stored'["retry"]
          BY <4>2 DEF Past
        <5> QED
          BY <1>2, <1>6, <5>1
      <4> QED
        BY <4>1, <4>2
    <3>3. Placed(d)' /\ Calling(d)'
      BY <1>1, <2>0, <3>1, Zenon DEF Placed, Calling, Current
    <3>4. ASSUME NEW root, Safe(root, Past(d))
          PROVE  SafeIn(log', processed', root, Past(d)')
      BY <1>7, <3>2, <3>4
    <3>5. Acked(d)'
      BY <1>1, <2>0, <3>4, Zenon DEF Acked, Safe
    <3>6. Routed(d)'
      <4> SUFFICES ASSUME pc[d] \in {"route", "await", "store"}, NEW k \in 1 .. Len(batch[d])
                   PROVE  \/ SafeIn(log', processed', batch[d][k].root, Past(d)')
                          \/ pc[d] # "store" /\ ToCall(d, batch[d][k].root)
        BY <1>1, <3>1, Zenon DEF Routed, ToCall, Safe
      <4> QED
        BY <2>0, <3>4, Zenon DEF Routed
    <3> QED
      BY <3>3, <3>5, <3>6
  <2> QED
    BY <2>1, <2>2
<1> QED
  BY <1>4, <1>8, <1>9, SMTT(20), Zenon DEF RInv

\* A batch is stored: its records are safe behind it, and what was safe in the
\* batch is safe because they are (Store).
LEMMA StoreKeeps ==
  ASSUME RInv, NEW c \in Consumers, Store(c)
  PROVE  RInv'
<1>1. /\ pc[c] = "store" /\ Goto(c, "poll")
      /\ stored' = [stored EXCEPT ![c] = stored[c] + Len(batch[c])]
      /\ batch' = [batch EXCEPT ![c] = <<>>]
      /\ committed' = committed \/ committed' = [committed EXCEPT ![c] = stored'[c]]
      /\ UNCHANGED <<log, calls, writes, now, processed>>
  BY DEF Store
<1>2. /\ pc \in [Consumers -> Labels] /\ batch \in [Consumers -> Seq(Messages)]
      /\ committed \in [Consumers -> Nat] /\ stored \in [Consumers -> Nat]
      /\ log \in [Topics -> Seq(Contents)] /\ {"source", "retry"} \subseteq Consumers
      /\ Typed
  BY DEF RInv, Typed, Consumers
<1>3. /\ \A d \in Consumers : stored[d] \in Nat /\ Len(batch[d]) \in Nat /\ Len(log[d]) \in Nat
      /\ stored' \in [Consumers -> Nat] /\ stored'[c] = stored[c] + Len(batch[c])
      /\ \A d \in Consumers : d # c => stored'[d] = stored[d]
  <2>1. ASSUME NEW d \in Consumers
        PROVE  stored[d] \in Nat /\ Len(batch[d]) \in Nat /\ Len(log[d]) \in Nat
    <3>1. batch[d] \in Seq(Messages) /\ log[d] \in Seq(Contents)
      BY <1>2, Consumer
    <3> QED
      BY <1>2, <3>1
  <2>2. stored[c] + Len(batch[c]) \in Nat
    BY <2>1
  <2>3. stored' = [stored EXCEPT ![c] = stored[c] + Len(batch[c])] /\ stored \in [Consumers -> Nat]
    BY <1>1, <1>2
  <2>4. /\ stored' \in [Consumers -> Nat] /\ stored'[c] = stored[c] + Len(batch[c])
        /\ \A d \in Consumers : d # c => stored'[d] = stored[d]
    BY <2>2, <2>3
  <2> QED
    BY <2>1, <2>4
<1>0. "retry" \in Consumers /\ "source" \in Consumers /\ stored["retry"] \in Nat /\ stored["source"] \in Nat
      /\ Len(batch["retry"]) \in Nat /\ Len(log["retry"]) \in Nat /\ Len(log["source"]) \in Nat
      /\ Len(batch["source"]) \in Nat
  BY <1>2, <1>3
<1>4. /\ batch' \in [Consumers -> Seq(Messages)] /\ batch'[c] = <<>>
      /\ \A d \in Consumers : d # c => batch'[d] = batch[d]
  <2>1. <<>> \in Seq(Messages)
    OBVIOUS
  <2> QED
    BY <1>1, <1>2, <2>1
<1>5. /\ committed' \in [Consumers -> Nat]
      /\ committed'[c] \in {committed[c], stored'[c]}
      /\ \A d \in Consumers : d # c => committed'[d] = committed[d]
  BY <1>1, <1>2, <1>3, Zenon
<1>6. /\ pc' \in [Consumers -> Labels] /\ pc'[c] = "poll"
      /\ \A d \in Consumers : d # c => pc'[d] = pc[d]
  BY <1>1, <1>2, Goes, SMTT(20), Zenon DEF Labels
<1>7. Typed'
  BY <1>1, <1>3, <1>4, <1>5, <1>6, Quiet, Zenon DEF RInv, Typed
<1>8. \A d \in Consumers : Placed(d) /\ Calling(d) /\ Acked(d) /\ Routed(d)
  BY DEF RInv
<1>9. \A i \in 1 .. Len(batch[c]) :
         /\ Safe(log[c][stored[c] + i].root, Past(c))
         /\ stored[c] + i \in 1 .. Len(log[c])
  <2> SUFFICES ASSUME NEW i \in 1 .. Len(batch[c])
               PROVE  /\ Safe(log[c][stored[c] + i].root, Past(c))
                      /\ stored[c] + i \in 1 .. Len(log[c])
    OBVIOUS
  <2>1. /\ stored[c] + Len(batch[c]) <= Len(log[c])
        /\ batch[c][i].root = log[c][stored[c] + i].root
    BY <1>8, Zenon DEF Placed
  <2>2. Safe(batch[c][i].root, Past(c))
    BY <1>1, <1>8 DEF Routed
  <2>3. stored[c] \in Nat /\ Len(batch[c]) \in Nat /\ Len(log[c]) \in Nat
    BY <1>3
  <2>4. stored[c] + i \in 1 .. Len(log[c])
    BY ONLY <2>1, <2>3, i \in 1 .. Len(batch[c])
  <2> QED
    BY ONLY <2>1, <2>2, <2>4, Zenon
<1>10. Past(c) = stored'["retry"] /\ stored'["retry"] \in Nat
  <2>1. CASE c = "retry"
    BY <1>2, <1>3, <2>1 DEF Past
  <2>2. CASE c # "retry"
    BY <1>2, <1>3, <2>2 DEF Past
  <2> QED
    BY <2>1, <2>2
<1>11. ASSUME NEW root, Safe(root, stored["retry"])
       PROVE  Safe(root, stored'["retry"])
  <2>1. CASE c # "retry"
    BY <1>2, <1>3, <1>11, <2>1
  <2>2. ASSUME c = "retry", NEW i \in stored["retry"] + 1 .. Len(log["retry"]), log["retry"][i].root = root
        PROVE  Safe(root, stored'["retry"])
    <3>1. stored'["retry"] = stored["retry"] + Len(batch["retry"])
      BY <1>3, <2>2, SMTT(20), Zenon
    <3>2. CASE i <= stored'["retry"]
      <4>1. PICK k \in 1 .. Len(batch["retry"]) : i = stored["retry"] + k
        <5>1. i - stored["retry"] \in 1 .. Len(batch["retry"]) /\ i = stored["retry"] + (i - stored["retry"])
          BY <1>0, <3>1, <3>2
        <5> QED
          BY <5>1
      <4> QED
        BY <1>9, <1>10, <2>2, <4>1
    <3>3. CASE i > stored'["retry"]
      <4>1. i \in stored'["retry"] + 1 .. Len(log["retry"])
        BY <1>2, <1>3, <1>10, <3>3
      <4> QED
        BY <2>2, <4>1 DEF Safe, SafeIn
    <3> QED
      BY <1>10, <1>2, <1>3, <3>2, <3>3, SMTT(20), Zenon
  <2> QED
    BY <1>11, <2>1, <2>2, Zenon DEF Safe, SafeIn
<1>12. StoredSafe'
  <2>1. StoredSafe
    BY DEF RInv
  <2>2. ASSUME NEW o \in 0 .. stored'["source"] - 1
        PROVE  Safe(o, stored'["retry"])
    <3>1. CASE o < stored["source"]
      <4>1. o \in 0 .. stored["source"] - 1
        BY <1>2, <1>3, <3>1, SMTT(20), Zenon
      <4> QED
        BY <1>11, <2>1, <4>1 DEF StoredSafe
    <3>2. CASE o >= stored["source"]
      <4>0. c = "source"
        <5>1. stored'["source"] # stored["source"]
          BY <1>0, <3>2
        <5> QED
          BY <1>0, <1>3, <5>1
      <4>1. c = "source" /\ stored'["source"] = stored["source"] + Len(batch["source"])
        BY <1>3, <4>0
      <4>2. o + 1 - stored["source"] \in 1 .. Len(batch["source"])
            /\ stored["source"] + (o + 1 - stored["source"]) = o + 1
        BY ONLY <1>0, <3>2, <4>1, o \in 0 .. stored'["source"] - 1
      <4>3. Safe(log["source"][o + 1].root, Past(c)) /\ o + 1 \in 1 .. Len(log["source"])
        BY <1>9, <4>1, <4>2
      <4>4. log["source"][o + 1].root = o
        <5>1. log["source"] = [i \in 1 .. Len(Source) |-> SourceRecord(i - 1)] /\ Len(Source) \in Nat
          BY <1>2, ConstantTypes DEF Typed
        <5>2. o + 1 \in 1 .. Len(Source) /\ (o + 1) - 1 = o
          BY <1>2, <1>3, <4>3, <5>1, SMTT(20), Zenon
        <5>3. log["source"][o + 1] = SourceRecord(o)
          BY <5>1, <5>2, Zenon
        <5> QED
          BY ONLY <5>3, SourceRoot
      <4> QED
        BY <1>10, <4>3, <4>4, Zenon
    <3> QED
      BY <1>2, <1>3, <3>1, <3>2, SMTT(20), Zenon
  <2>3. ASSUME NEW i \in 1 .. stored'["retry"]
        PROVE  Safe(log["retry"][i].root, stored'["retry"])
    <3>1. CASE i <= stored["retry"]
      <4>1. i \in 1 .. stored["retry"]
        BY <1>2, <1>3, <1>10, <3>1
      <4> QED
        BY <1>11, <2>1, <4>1, Zenon DEF StoredSafe
    <3>2. CASE i > stored["retry"]
      <4>1. c = "retry"
        <5>1. stored'["retry"] # stored["retry"]
          BY <1>0, <1>10, <3>2
        <5> QED
          BY <1>0, <1>3, <5>1
      <4>3. stored'["retry"] = stored["retry"] + Len(batch["retry"])
        BY <1>3, <4>1
      <4>2. i - stored["retry"] \in 1 .. Len(batch["retry"]) /\ stored["retry"] + (i - stored["retry"]) = i
        BY <1>0, <3>2, <4>3
      <4> QED
        BY <1>9, <1>10, <4>1, <4>2
    <3> QED
      BY <1>2, <1>3, <1>10, <3>1, <3>2
  <2> QED
    BY <1>1, <2>2, <2>3, Zenon DEF StoredSafe, Safe
<1>13. Placed(c)' /\ Calling(c)' /\ Acked(c)' /\ Routed(c)'
  <2>0. committed[c] <= stored[c] /\ stored[c] + Len(batch[c]) <= Len(log[c]) /\ committed[c] \in Nat
    BY <1>2, <1>8, Zenon DEF Placed
  <2>01. stored[c] \in Nat /\ Len(batch[c]) \in Nat /\ stored'[c] = stored[c] + Len(batch[c])
    BY <1>3
  <2>1. committed'[c] <= stored'[c] /\ stored'[c] <= Len(log[c])
    BY ONLY <1>5, <2>0, <2>01, SMTT(20), Zenon
  <2>2. writes[c] = <<>>
    BY <1>1, <1>8, SMTT(20), Zenon DEF Placed
  <2> QED
    BY <1>1, <1>4, <1>6, <1>7, <1>8, <2>1, <2>2, RestingKeeps, Zenon DEF Calling
<1>14. ASSUME NEW d \in Consumers, d # c
       PROVE  Placed(d)' /\ Calling(d)' /\ Acked(d)' /\ Routed(d)'
  <2>1. UNCHANGED <<log, processed, stored[d], pc[d], batch[d], calls[d], writes[d], committed[d]>>
    BY <1>1, <1>3, <1>4, <1>5, <1>6, <1>14, Zenon
  <2>2. Placed(d)' /\ Calling(d)'
    <3>1. Placed(d) /\ Calling(d)
      BY <1>8
    <3>2. Placed(d)'
      BY ONLY <2>1, <3>1, Zenon DEF Placed
    <3>3. Current(d)' = Current(d)
      BY ONLY <2>1, Zenon DEF Current
    <3>4. Calling(d)'
      BY ONLY <2>1, <3>1, <3>3, Zenon DEF Calling
    <3> QED
      BY ONLY <3>2, <3>4
  <2>3. ASSUME NEW root, Safe(root, Past(d))
        PROVE  Safe(root, Past(d)')
    <3>1. CASE d = "retry"
      BY <2>1, <2>3, <3>1, Zenon DEF Past
    <3>2. CASE d # "retry"
      BY <1>11, <2>3, <3>2 DEF Past
    <3> QED
      BY <3>1, <3>2
  <2>4. Acked(d)'
    BY <1>8, <2>1, <2>3, Zenon DEF Acked, Safe
  <2>5. Routed(d)'
    <3> SUFFICES ASSUME pc[d] \in {"route", "await", "store"}, NEW k \in 1 .. Len(batch[d])
                 PROVE  \/ Safe(batch[d][k].root, Past(d)')
                        \/ pc[d] # "store" /\ ToCall(d, batch[d][k].root)
      <4>1. \A root : ToCall(d, root)' <=> ToCall(d, root)
        BY ONLY <2>1 DEF ToCall
      <4>2. \A root, n : SafeIn(log', processed', root, n) <=> Safe(root, n)
        BY <2>1, SafeUnchanged, Zenon
      <4>3. \A root : Safe(root, Past(d))' <=> Safe(root, Past(d)')
        BY ONLY <4>2 DEF Safe
      <4> QED
        BY <2>1, <4>1, <4>3, Zenon DEF Routed
    <3> QED
      BY <1>8, <2>3, Zenon DEF Routed
  <2> QED
    BY <2>2, <2>4, <2>5
<1> QED
  BY <1>7, <1>12, <1>13, <1>14 DEF RInv

\* Nothing the invariant speaks of changes.
LEMMA StillKeeps ==
  ASSUME RInv, UNCHANGED <<log, committed, stored, pc, batch, calls, writes, processed>>, now' \in Nat
  PROVE  RInv'
<1>1. Typed' /\ StoredSafe'
  BY DEF RInv, Typed, StoredSafe, Safe
<1>2. ASSUME NEW c \in Consumers
      PROVE  Placed(c)' /\ Calling(c)' /\ Acked(c)' /\ Routed(c)'
  <2>1. Placed(c) /\ Calling(c) /\ Acked(c) /\ Routed(c)
    BY DEF RInv
  <2>2. Placed(c)'
    BY <2>1, Zenon DEF Placed
  <2>3. Calling(c)'
    BY <2>1, Zenon DEF Calling, Current
  <2>4. Acked(c)'
    BY <2>1, Zenon DEF Acked, Past, Safe
  <2>5. Routed(c)'
    BY <2>1, Zenon DEF Routed, ToCall, Past, Safe
  <2> QED
    BY <2>2, <2>3, <2>4, <2>5
<1> QED
  BY <1>1, <1>2, SMTT(20), Zenon DEF RInv

\* Every step of the pipeline keeps the invariant.
LEMMA NextKeeps ==
  ASSUME RInv, [Next]_vars
  PROVE  RInv'
<1>0. now \in Nat
  BY DEF RInv, Typed
<1>1. CASE UNCHANGED vars
  <2>1. UNCHANGED <<log, committed, stored, pc, batch, calls, writes, processed>> /\ now' = now
    BY ONLY <1>1 DEF vars, perConsumer
  <2> QED
    BY <1>0, <2>1, StillKeeps
<1>2. CASE Tick
  <2>1. UNCHANGED <<log, committed, stored, pc, batch, calls, writes, processed>> /\ now' \in Nat
    BY ONLY <1>0, <1>2 DEF Tick, perConsumer
  <2> QED
    BY <2>1, StillKeeps, SMTT(20), Zenon
<1>3. ASSUME NEW c \in Consumers, Step(c)
      PROVE  RInv'
  BY <1>3, PollKeeps, PlainKeeps, InterruptedKeeps, ProcessKeeps, HandleErrorKeeps, AwaitKeeps,
     StoreKeeps, SMTT(20), Zenon DEF Step
<1>4. ASSUME NEW c \in Consumers, Cancel(c) \/ PollNothing(c)
      PROVE  RInv'
  BY <1>0, <1>4, StillKeeps DEF Cancel, PollNothing, vars, perConsumer
<1>5. ASSUME NEW c \in Consumers, BrokerAnswers(c) \/ Crash(c) \/ Restart(c)
      PROVE  RInv'
  BY <1>5, BrokerKeeps, CrashKeeps, RestartKeeps
<1> QED
  BY <1>1, <1>2, <1>3, <1>4, <1>5 DEF Next

\* The invariant holds of the source topic alone, nothing polled.
LEMMA InitHolds ==
  ASSUME Init
  PROVE  RInv
<1>1. log = [t \in Topics |-> IF t = "source" THEN [i \in 1 .. Len(Source) |-> SourceRecord(i - 1)] ELSE <<>>]
  <2>1. \A i \in DOMAIN Source : (i - 1) + 1 = i
    BY ConstantTypes, SMTT(20), Zenon
  <2>2. [i \in DOMAIN Source |-> [key |-> Source[i].key, payload |-> Source[i].payload,
                                  headers |-> Source[i].headers, root |-> i - 1, trail |-> <<>>]]
           = [i \in 1 .. Len(Source) |-> SourceRecord(i - 1)]
    BY <2>1, ConstantTypes DEF SourceRecord
  <2> QED
    BY <2>2, Zenon DEF Init
<1>2. log["source"] = [i \in 1 .. Len(Source) |-> SourceRecord(i - 1)] /\ log["retry"] = <<>> /\ log["dlq"] = <<>>
  BY <1>1 DEF Topics, Consumers
<1>3. [i \in 1 .. Len(Source) |-> SourceRecord(i - 1)] \in Seq(Contents)
  <2>1. ASSUME NEW i \in 1 .. Len(Source)
        PROVE  SourceRecord(i - 1) \in Contents
    <3>1. i - 1 \in Roots /\ (i - 1) + 1 = i /\ i \in DOMAIN Source
      BY ConstantTypes DEF Roots
    <3>2. Source[i].headers \in Headers /\ <<>> \in Seq(Entries)
      BY <3>1, SourceHeaders
    <3> QED
      BY <3>1, <3>2, Zenon DEF SourceRecord, Contents
  <2>2. [i \in 1 .. Len(Source) |-> SourceRecord(i - 1)] \in [1 .. Len(Source) -> Contents]
    BY <2>1
  <2> QED
    BY <2>2, ConstantTypes, Enumerated
<1>4. log \in [Topics -> Seq(Contents)] /\ log["retry"] \in Seq(RetryRecords) /\ log["dlq"] \in Seq(DeadRecords)
  <2>1. <<>> \in Seq(Contents) /\ <<>> \in Seq(RetryRecords) /\ <<>> \in Seq(DeadRecords)
    BY SMTT(20), Zenon
  <2> QED
    BY <1>1, <1>2, <1>3, <2>1, Zenon
<1>5. \A c \in Consumers : /\ committed[c] = 0 /\ stored[c] = 0 /\ pc[c] = "poll" /\ batch[c] = <<>>
                           /\ calls[c] = {} /\ writes[c] = <<>>
  BY SMTT(20), Zenon DEF Init
<1>6. Typed
  <2>1. <<>> \in Seq(Messages) /\ <<>> \in Seq(Writes)
    OBVIOUS
  <2> QED
    BY <1>2, <1>4, <2>1 DEF Init, Typed, Labels
<1>7. StoredSafe
  <2>1. stored["source"] = 0 /\ stored["retry"] = 0
    BY <1>5, Zenon DEF Consumers
  <2>2. 0 .. 0 - 1 = {} /\ 1 .. 0 = {}
    OBVIOUS
  <2>3. /\ \A o \in 0 .. stored["source"] - 1 : Safe(o, stored["retry"])
        /\ \A i \in 1 .. stored["retry"] : Safe(log["retry"][i].root, stored["retry"])
    BY ONLY <2>1, <2>2, Zenon
  <2> QED
    BY ONLY <2>3, Zenon DEF StoredSafe
<1>8. ASSUME NEW c \in Consumers
      PROVE  Placed(c) /\ Calling(c) /\ Acked(c) /\ Routed(c)
  <2>1. Len(log[c]) \in Nat
    BY <1>4, Consumer
  <2>2. /\ committed[c] = 0 /\ stored[c] = 0 /\ pc[c] = "poll" /\ batch[c] = <<>> /\ calls[c] = {}
        /\ writes[c] = <<>>
    BY <1>5
  <2>3. Len(batch[c]) = 0 /\ 1 .. Len(batch[c]) = {} /\ 1 .. Len(writes[c]) = {}
    BY ONLY <2>2
  <2>4. Placed(c)
    BY ONLY <2>1, <2>2, <2>3, SMTT(20), Zenon DEF Placed
  <2>5. Calling(c) /\ Routed(c)
    BY ONLY <2>2, SMTT(20), Zenon DEF Calling, Routed
  <2>6. Acked(c)
    BY ONLY <2>3 DEF Acked
  <2> QED
    BY <2>4, <2>5, <2>6
<1> QED
  BY <1>6, <1>7, <1>8 DEF RInv

\* The inductive invariant: every record in the retry topic and the DLQ says of
\* itself what its failures make true, and of the records polled past the stored
\* offsets each is safe, or still to be routed by the consumer that holds it.
THEOREM PipelineInvariance == Spec => []RInv
<1>1. Init => RInv
  BY InitHolds
<1>2. RInv /\ [Next]_vars => RInv'
  BY NextKeeps
<1> QED
  BY <1>1, <1>2, PTL DEF Spec

=============================================================================
