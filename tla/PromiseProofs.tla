---------------------------- MODULE PromiseProofs ----------------------------
(***************************************************************************)
(* What the retry pipeline promises, from its invariant: no source record  *)
(* is lost, records keep what they are, the source consumer implements     *)
(* AtLeastOnce, the back-off keeps its bounds.  Then the playground on top *)
(* of it: one bad record does not drag its batch along.                    *)
(***************************************************************************)
EXTENDS Playground, PipelineProofs, WellFoundedInduction

-----------------------------------------------------------------------------
(***************************************************************************)
(* The back-off.  What a recursive definition computes is shown from the   *)
(* smallest number it could go wrong for.                                  *)
(***************************************************************************)

\* A set of numbers has a smallest one.
LEMMA Smallest ==
  ASSUME NEW S \in SUBSET Nat, S # {}
  PROVE  \E i \in S : \A j \in S : i <= j
<1> DEFINE Less == OpToRel(<, Nat)
<1>1. PICK i \in S : \A j \in S : ~(<<j, i>> \in Less)
  <2>1. IsWellFoundedOn(Less, Nat)
    BY NatLessThanWellFounded, Zenon
  <2> HIDE DEF Less
  <2> QED
    BY <2>1, WFMin, Zenon
<1>2. \A j \in Nat, k \in Nat : j < k => <<j, k>> \in Less
  BY DEF OpToRel
<1> HIDE DEF Less
<1>3. ASSUME NEW j \in S
      PROVE  i <= j
  <2>1. i \in Nat /\ j \in Nat
    OBVIOUS
  <2>2. ~(j < i)
    BY <1>1, <1>2, <2>1, Zenon
  <2> QED
    BY ONLY <2>1, <2>2
<1> QED
  BY <1>3

\* The powers of a up to the n-th.
Prefixes(a, n) == {g \in [0 .. n -> Nat] : g[0] = 1 /\ \A i \in 1 .. n : g[i] = a * g[i - 1]}

\* There are such, for any n.
LEMMA PrefixExists ==
  ASSUME NEW a \in Nat
  PROVE  \A n \in Nat : Prefixes(a, n) # {}
<1> DEFINE S == {n \in Nat : Prefixes(a, n) = {}}
<1> SUFFICES ASSUME S # {}
             PROVE  FALSE
  OBVIOUS
<1>1. PICK n \in S : \A k \in S : n <= k
  BY Smallest, Zenon
<1>2. CASE n = 0
  <2>1. [i \in 0 .. n |-> 1] \in Prefixes(a, n)
    BY <1>2 DEF Prefixes
  <2> QED
    BY <2>1
<1>3. CASE n # 0
  <2>1. n \in Nat /\ n - 1 \in Nat /\ ~(n <= n - 1)
    BY <1>3
  <2>2. Prefixes(a, n - 1) # {}
    BY <1>1, <2>1
  <2>3. PICK g \in Prefixes(a, n - 1) : TRUE
    BY <2>2
  <2>4. /\ g \in [0 .. n - 1 -> Nat] /\ g[0] = 1
        /\ \A i \in 1 .. n - 1 : g[i] = a * g[i - 1]
    BY DEF Prefixes
  <2> DEFINE h == [i \in 0 .. n |-> IF i = n THEN a * g[n - 1] ELSE g[i]]
  <2>5. h \in [0 .. n -> Nat]
    <3>1. a * g[n - 1] \in Nat
      BY <2>1, <2>4
    <3> QED
      BY <2>1, <2>4, <3>1
  <2>6. h[0] = 1
    BY <2>1, <2>4
  <2>7. ASSUME NEW i \in 1 .. n
        PROVE  h[i] = a * h[i - 1]
    <3>1. h[i - 1] = g[i - 1]
      BY <2>1
    <3>2. CASE i = n
      BY <2>1, <3>1, <3>2
    <3>3. CASE i # n
      <4>1. i \in 1 .. n - 1 /\ i \in 0 .. n
        BY <2>1, <3>3
      <4> QED
        BY <2>4, <3>1, <3>3, <4>1
    <3> QED
      BY <3>2, <3>3
  <2> HIDE DEF h
  <2>8. h \in Prefixes(a, n)
    BY <2>5, <2>6, <2>7 DEF Prefixes
  <2> QED
    BY <2>8
<1> QED
  BY <1>2, <1>3

\* A longer one continues a shorter one.
LEMMA PrefixesAgree ==
  ASSUME NEW a \in Nat, NEW n \in Nat, NEW g \in Prefixes(a, n), NEW h \in Prefixes(a, n + 1)
  PROVE  g[n] = h[n]
<1> DEFINE S == {i \in 0 .. n : g[i] # h[i]}
<1>0. /\ g[0] = 1 /\ \A i \in 1 .. n : g[i] = a * g[i - 1]
      /\ h[0] = 1 /\ \A i \in 1 .. n + 1 : h[i] = a * h[i - 1]
  BY DEF Prefixes
<1>1. ASSUME S # {}
      PROVE  FALSE
  <2>0. S \in SUBSET Nat
    OBVIOUS
  <2>1. PICK i \in S : \A k \in S : i <= k
    BY <1>1, <2>0, Smallest, Zenon
  <2>2. i # 0 /\ i \in 0 .. n
    BY <1>0
  <2>3. i - 1 \in 0 .. n /\ ~(i <= i - 1) /\ i \in 1 .. n /\ i \in 1 .. n + 1
    BY <2>2
  <2>4. g[i - 1] = h[i - 1]
    BY <2>1, <2>3
  <2> QED
    BY <1>0, <2>3, <2>4
<1> QED
  BY <1>1

\* The powers of a number are what the recursion says (PowersOf).
LEMMA Powers ==
  ASSUME NEW a \in Nat
  PROVE  /\ PowersOf(a)[0] = 1
         /\ \A n \in Nat : PowersOf(a)[n + 1] = a * PowersOf(a)[n]
<1> DEFINE pick(n) == CHOOSE g \in Prefixes(a, n) : TRUE
           f == [n \in Nat |-> pick(n)[n]]
<1>1. \A n \in Nat : pick(n) \in Prefixes(a, n)
  BY PrefixExists
<1> HIDE DEF pick
<1>2. f[0] = 1
  BY <1>1 DEF Prefixes
<1>3. ASSUME NEW n \in Nat
      PROVE  f[n + 1] = a * f[n]
  <2>1. pick(n)[n] = pick(n + 1)[n]
    BY <1>1, PrefixesAgree
  <2>2. pick(n + 1)[n + 1] = a * pick(n + 1)[n]
    <3>1. pick(n + 1) \in Prefixes(a, n + 1) /\ n + 1 \in 1 .. n + 1 /\ (n + 1) - 1 = n
      BY <1>1
    <3> QED
      BY <3>1 DEF Prefixes
  <2> QED
    BY <2>1, <2>2
<1>4. f = [n \in Nat |-> IF n = 0 THEN 1 ELSE a * f[n - 1]]
  <2>1. ASSUME NEW n \in Nat, n # 0
        PROVE  f[n] = a * f[n - 1]
    <3>1. n - 1 \in Nat /\ (n - 1) + 1 = n
      BY <2>1
    <3> HIDE DEF f
    <3> QED
      BY <1>3, <3>1
  <2>2. \A n \in Nat : f[n] = IF n = 0 THEN 1 ELSE a * f[n - 1]
    BY <1>2, <2>1
  <2>3. f = [n \in Nat |-> f[n]]
    OBVIOUS
  <2> HIDE DEF f
  <2> QED
    BY <2>2, <2>3
<1> HIDE DEF f
<1> DEFINE p == PowersOf(a)
<1>5. p = [n \in Nat |-> IF n = 0 THEN 1 ELSE a * p[n - 1]]
  BY <1>4 DEF PowersOf
<1> HIDE DEF p
<1>6. p[0] = 1
  BY <1>5
<1>7. ASSUME NEW n \in Nat
      PROVE  p[n + 1] = a * p[n]
  <2>1. n + 1 \in Nat /\ n + 1 # 0 /\ (n + 1) - 1 = n
    OBVIOUS
  <2> QED
    BY <1>5, <2>1
<1> QED
  BY <1>6, <1>7 DEF p

\* A power of a positive number is positive.
LEMMA PowerPositive ==
  ASSUME NEW a \in Nat \ {0}
  PROVE  \A n \in Nat : PowersOf(a)[n] \in Nat \ {0}
<1> DEFINE p == PowersOf(a)
           S == {n \in Nat : p[n] \notin Nat \ {0}}
<1>1. p[0] = 1 /\ \A n \in Nat : p[n + 1] = a * p[n]
  BY Powers
<1> HIDE DEF p
<1>2. ASSUME S # {}
      PROVE  FALSE
  <2>1. PICK n \in S : \A k \in S : n <= k
    BY <1>2, Smallest, Zenon
  <2>2. n \in Nat /\ n # 0
    BY <1>1
  <2>3. n - 1 \in Nat /\ (n - 1) + 1 = n /\ ~(n <= n - 1)
    BY <2>2
  <2>4. p[n - 1] \in Nat \ {0} /\ p[n] = a * p[n - 1]
    BY <1>1, <2>1, <2>3
  <2>5. p[n] \in Nat \ {0}
    BY ONLY <2>4, a \in Nat \ {0}
  <2> QED
    BY <2>5
<1> QED
  BY <1>2 DEF p

\* A power grows with its base.
LEMMA PowersOrdered ==
  ASSUME NEW a \in Nat \ {0}, NEW b \in Nat \ {0}, b <= a
  PROVE  \A n \in Nat : PowersOf(b)[n] <= PowersOf(a)[n]
<1> DEFINE p == PowersOf(a)
           q == PowersOf(b)
           S == {n \in Nat : ~(q[n] <= p[n])}
<1>1. /\ p[0] = 1 /\ \A n \in Nat : p[n + 1] = a * p[n] /\ p[n] \in Nat \ {0}
      /\ q[0] = 1 /\ \A n \in Nat : q[n + 1] = b * q[n] /\ q[n] \in Nat \ {0}
  BY Powers, PowerPositive
<1> HIDE DEF p, q
<1>2. ASSUME S # {}
      PROVE  FALSE
  <2>1. PICK n \in S : \A k \in S : n <= k
    BY <1>2, Smallest, Zenon
  <2>2. n \in Nat /\ n # 0
    BY <1>1
  <2>3. n - 1 \in Nat /\ (n - 1) + 1 = n /\ ~(n <= n - 1)
    BY <2>2
  <2>4. /\ q[n - 1] <= p[n - 1] /\ p[n] = a * p[n - 1] /\ q[n] = b * q[n - 1]
        /\ p[n - 1] \in Nat /\ q[n - 1] \in Nat
    BY <1>1, <2>1, <2>3, Zenon
  <2>5. b * q[n - 1] <= a * p[n - 1]
    <3>1. \A x, y, z \in Nat : x <= y => x * z <= y * z /\ z * x <= z * y
      OBVIOUS
    <3>2. b * q[n - 1] <= a * q[n - 1] /\ a * q[n - 1] <= a * p[n - 1]
      BY <2>4, <3>1
    <3>3. b * q[n - 1] \in Nat /\ a * q[n - 1] \in Nat /\ a * p[n - 1] \in Nat
      BY <2>4
    <3> QED
      BY ONLY <3>2, <3>3
  <2> QED
    BY <2>4, <2>5
<1> QED
  BY <1>2 DEF p, q

\* Whole division, by the product it stays below.
LEMMA Division ==
  ASSUME NEW x \in Nat, NEW y \in Nat \ {0}
  PROVE  /\ x \div y \in Nat
         /\ (x \div y) * y <= x
         /\ \A z \in Nat : (z * y <= x => z <= x \div y) /\ (x < z * y => x \div y < z)
  OBVIOUS

\* The exponential back-off of an attempt: no shorter than the first delay unless
\* it is capped, at most MaxDelay, and no longer than that of the next attempt
\* (computeBackoff).
LEMMA BackoffGrows ==
  ASSUME CustomBackoff = <<>>, NEW attempt \in Nat \ {0}
  PROVE  /\ computeBackoff(attempt) \in 1 .. MaxDelay
         /\ computeBackoff(attempt) = MaxDelay \/ computeBackoff(attempt) >= InitialDelay
         /\ computeBackoff(attempt) <= computeBackoff(attempt + 1)
<1> DEFINE a == Multiplier[1]
           b == Multiplier[2]
           num(n) == InitialDelay * PowersOf(a)[n]
           den(n) == PowersOf(b)[n]
           delay(n) == IF num(n) >= MaxDelay * den(n) THEN MaxDelay ELSE num(n) \div den(n)
<1>1. /\ a \in Nat \ {0} /\ b \in Nat \ {0} /\ b <= a
      /\ InitialDelay \in Nat \ {0} /\ MaxDelay \in Nat \ {0} /\ MaxDuration \in Nat /\ MaxDelay <= MaxDuration
  BY RetryHeadersAssumption
<1>2. ASSUME NEW n \in Nat
      PROVE  /\ num(n) \in Nat \ {0} /\ den(n) \in Nat \ {0} /\ InitialDelay * den(n) <= num(n)
             /\ num(n + 1) = a * num(n) /\ den(n + 1) = b * den(n)
  <2>1. /\ PowersOf(a)[n] \in Nat \ {0} /\ den(n) \in Nat \ {0} /\ den(n) <= PowersOf(a)[n]
        /\ PowersOf(a)[n + 1] = a * PowersOf(a)[n] /\ den(n + 1) = b * den(n)
    BY <1>1, Powers, PowerPositive, PowersOrdered, Zenon
  <2> DEFINE p == PowersOf(a)[n]
             d == den(n)
  <2>2. num(n) = InitialDelay * p /\ num(n + 1) = InitialDelay * (a * p)
    BY <2>1
  <2> HIDE DEF p, d, a
  <2>3. InitialDelay * p \in Nat \ {0} /\ InitialDelay * (a * p) = a * (InitialDelay * p)
    BY ONLY <1>1, <2>1 DEF p
  <2>4. p \in Nat /\ d \in Nat \ {0} /\ d <= p
    BY <2>1 DEF p, d
  <2>5. InitialDelay * d <= InitialDelay * p
    BY ONLY <1>1, <2>4
  <2> QED
    BY <2>1, <2>2, <2>3, <2>5 DEF d
<1>3. ASSUME NEW n \in Nat
      PROVE  computeBackoff(n + 1) = delay(n)
  <2>1. (n + 1) - 1 = n /\ n >= 0
    BY SMTT(20), Zenon
  <2>2. computeBackoff(n + 1) = IF num(n) >= MaxDelay * den(n) THEN MaxDelay ELSE ToDuration(num(n) \div den(n))
    BY <2>1 DEF computeBackoff, Pow
  <2>3. num(n) < MaxDelay * den(n) => num(n) \div den(n) <= MaxDuration
    <3>1. num(n) < MaxDelay * den(n) => num(n) \div den(n) < MaxDelay /\ num(n) \div den(n) \in Nat
      BY <1>1, <1>2, Division, Zenon
    <3> QED
      BY <1>1, <3>1, SMTT(20), Zenon
  <2>4. num(n) \in Nat /\ den(n) \in Nat
    BY <1>2, Zenon
  <2> HIDE DEF num, den
  <2>5. MaxDelay * den(n) \in Nat
    BY ONLY <1>1, <2>4
  <2> QED
    BY <2>2, <2>3, <2>4, <2>5 DEF ToDuration
<1> HIDE DEF num, den, a, b
<1>4. ASSUME NEW n \in Nat
      PROVE  /\ delay(n) \in 1 .. MaxDelay
             /\ delay(n) = MaxDelay \/ delay(n) >= InitialDelay
  <2>1. CASE num(n) >= MaxDelay * den(n)
    BY <1>1, <2>1
  <2>2. CASE ~(num(n) >= MaxDelay * den(n))
    <3>0. num(n) \in Nat /\ den(n) \in Nat \ {0} /\ InitialDelay * den(n) <= num(n)
      BY <1>2
    <3>1. num(n) < MaxDelay * den(n)
      BY ONLY <1>1, <2>2, <3>0
    <3>2. InitialDelay <= num(n) \div den(n) /\ num(n) \div den(n) < MaxDelay /\ num(n) \div den(n) \in Nat
      BY <1>1, <3>0, <3>1, Division
    <3> QED
      BY <1>1, <2>2, <3>2
  <2> QED
    BY <2>1, <2>2
<1>5. ASSUME NEW n \in Nat
      PROVE  delay(n) <= delay(n + 1)
  <2> DEFINE x == num(n)
             y == den(n)
  <2>0. x \in Nat /\ y \in Nat \ {0} /\ num(n + 1) = a * x /\ den(n + 1) = b * y
        /\ a * x \in Nat /\ b * y \in Nat \ {0}
    BY <1>1, <1>2
  <2> HIDE DEF x, y
  <2>1. CASE num(n + 1) >= MaxDelay * den(n + 1)
    <3>1. delay(n) \in 1 .. MaxDelay /\ delay(n + 1) = MaxDelay
      BY <1>4, <2>1
    <3> HIDE DEF delay
    <3> QED
      BY <1>1, <3>1
  <2>2. CASE ~(num(n + 1) >= MaxDelay * den(n + 1))
    <3>1. ASSUME NEW z \in Nat, z * y <= x
          PROVE  z * (b * y) <= a * x
      <4>1. b * (z * y) <= b * x /\ b * x <= a * x
        BY ONLY <1>1, <2>0, <3>1
      <4>2. z * (b * y) = b * (z * y)
        BY ONLY <1>1, <2>0, z \in Nat
      <4>3. b * (z * y) \in Nat /\ b * x \in Nat /\ a * x \in Nat
        BY ONLY <1>1, <2>0, z \in Nat
      <4> QED
        BY ONLY <4>1, <4>2, <4>3
    <3>2. ~(x >= MaxDelay * y)
      <4>1. MaxDelay * y \in Nat /\ MaxDelay * (b * y) \in Nat
        BY ONLY <1>1, <2>0
      <4>2. x >= MaxDelay * y => a * x >= MaxDelay * (b * y)
        BY <1>1, <2>0, <3>1, <4>1, SMTT(20), Zenon
      <4> QED
        BY <2>0, <2>2, <4>2
    <3>3. delay(n) = x \div y /\ delay(n + 1) = (a * x) \div (b * y)
      BY <2>0, <2>2, <3>2 DEF x, y
    <3>4. x \div y \in Nat /\ (x \div y) * y <= x
      BY <2>0, Division
    <3>5. (x \div y) * (b * y) <= a * x
      BY <3>1, <3>4
    <3>6. x \div y <= (a * x) \div (b * y)
      BY <2>0, <3>4, <3>5, Division
    <3> HIDE DEF delay
    <3> QED
      BY <3>3, <3>6
  <2> QED
    BY <2>1, <2>2
<1> HIDE DEF delay
<1>6. attempt - 1 \in Nat /\ (attempt - 1) + 1 = attempt /\ attempt \in Nat
  OBVIOUS
<1> QED
  BY <1>3, <1>4, <1>5, <1>6, Zenon

-----------------------------------------------------------------------------
(***************************************************************************)
(* What the pipeline promises.                                             *)
(***************************************************************************)

\* The records of the two topics the strategy writes to.
LEMMA RecordsSound ==
  ASSUME RInv
  PROVE  /\ \A rec \in Records("retry") : rec \in RetryRecords
         /\ \A rec \in Records("dlq") : rec \in DeadRecords
         /\ \A t \in {"retry", "dlq"} : \A rec \in Records(t) : rec \in Contents /\ Written(rec)
<1>1. log["retry"] \in Seq(RetryRecords) /\ log["dlq"] \in Seq(DeadRecords)
  BY DEF RInv, Typed
<1>2. \A rec \in Records("retry") : rec \in RetryRecords
  BY <1>1, Elements DEF Records
<1>3. \A rec \in Records("dlq") : rec \in DeadRecords
  BY <1>1, Elements DEF Records
<1> QED
  BY <1>2, <1>3 DEF RetryRecords, DeadRecords

\* The readers see of a record's source what the source record's headers say.
LEMMA SourceRead ==
  ASSUME NEW rec
  PROVE  /\ GetRetryAttempt(SourceOf(rec)) = GetRetryAttempt(Source[rec.root + 1])
         /\ GetRetryStep(SourceOf(rec)) = GetRetryStep(Source[rec.root + 1])
         /\ \A key : Names(SourceOf(rec), key) = Names(Source[rec.root + 1], key)
  BY Zenon DEF SourceOf, GetRetryAttempt, GetRetryStep, HasForm, Names

\* A source record the group has committed was processed, is in the DLQ or is
\* still ahead of the retry consumer: HandleError confirms its writes before the
\* batch's offsets are stored, whatever crashes, is refused or is written twice.
THEOREM CommittedNeverVanishes == Spec => []NothingVanishes
<1>1. RInv => NothingVanishes
  <2> SUFFICES ASSUME RInv, NEW root \in 0 .. committed["source"] - 1
               PROVE  \/ root \in processed
                      \/ \E rec \in Records("dlq") : rec.root = root
                      \/ \E i \in committed["retry"] + 1 .. Len(log["retry"]) : log["retry"][i].root = root
    BY DEF NothingVanishes
  <2>1. /\ "source" \in Consumers /\ "retry" \in Consumers
        /\ committed["source"] \in Nat /\ committed["retry"] \in Nat
        /\ stored["source"] \in Nat /\ stored["retry"] \in Nat
        /\ log["retry"] \in Seq(RetryRecords) /\ log["dlq"] \in Seq(DeadRecords)
    BY SMTT(20), Zenon DEF RInv, Typed, Consumers
  <2>2. committed["source"] <= stored["source"] /\ committed["retry"] <= stored["retry"]
    BY <2>1 DEF RInv, Placed
  <2>3. root \in 0 .. stored["source"] - 1
    BY <2>1, <2>2
  <2>4. Safe(root, stored["retry"])
    BY <2>3, Zenon DEF RInv, StoredSafe
  <2>5. Len(log["retry"]) \in Nat /\ DOMAIN log["dlq"] = 1 .. Len(log["dlq"])
    BY ONLY <2>1, Elements
  <2>6. ASSUME NEW i \in 1 .. Len(log["dlq"]), log["dlq"][i].root = root
        PROVE  \E rec \in Records("dlq") : rec.root = root
    BY <2>5, <2>6 DEF Records
  <2>7. ASSUME NEW i \in stored["retry"] + 1 .. Len(log["retry"]), log["retry"][i].root = root
        PROVE  \E k \in committed["retry"] + 1 .. Len(log["retry"]) : log["retry"][k].root = root
    <3>1. i \in committed["retry"] + 1 .. Len(log["retry"])
      BY <2>1, <2>2, <2>5
    <3> QED
      BY <2>7, <3>1
  <2> QED
    BY <2>4, <2>6, <2>7, Zenon DEF Safe, SafeIn
<1> QED
  BY <1>1, PipelineInvariance, PTL

\* Only records of the source topic are processed.
ProcessedExist == processed \subseteq Roots

\* What a step does to the records dealt with and to the commits: it adds to the
\* ones, or moves one consumer's commit to the offset it has stored.
LEMMA StepEffect ==
  ASSUME RInv, [Next]_vars
  PROVE  \/ /\ UNCHANGED committed
            /\ Grows /\ processed' \subseteq processed \cup Roots
         \/ /\ UNCHANGED <<log, processed>>
            /\ \E c \in Consumers : /\ committed' = [committed EXCEPT ![c] = stored'[c]]
                                    /\ stored[c] <= stored'[c]
<1>1. /\ log \in [Topics -> Seq(Contents)] /\ stored \in [Consumers -> Nat]
      /\ batch \in [Consumers -> Seq(Messages)] /\ Typed
  BY DEF RInv, Typed
<1>2. CASE UNCHANGED <<log, committed, processed>>
  <2>1. Grows
    BY <1>1, <1>2, Lengths DEF Grows
  <2> QED
    BY <1>2, <2>1
<1>3. ASSUME NEW c \in Consumers, Process(c)
      PROVE  UNCHANGED committed /\ Grows /\ processed' \subseteq processed \cup Roots
  <2>1. UNCHANGED <<log, committed>> /\ processed \subseteq processed'
    BY <1>3, Zenon DEF Process
  <2>2. \A i \in DOMAIN batch[c] : batch[c][i].root \in Roots
    BY <1>1, Elements, MessageSound
  <2>3. processed' \subseteq processed \cup Roots
    BY <1>3, <2>2, Zenon DEF Process
  <2>4. Grows
    BY <1>1, <2>1, Lengths DEF Grows
  <2> QED
    BY <2>1, <2>3, <2>4
<1>4. ASSUME NEW c \in Consumers, BrokerAnswers(c)
      PROVE  UNCHANGED committed /\ Grows /\ processed' \subseteq processed \cup Roots
  <2>1. /\ UNCHANGED <<committed, processed>>
        /\ \E i \in DOMAIN writes[c] :
              \/ log' = [log EXCEPT ![writes[c][i].topic] = Append(@, writes[c][i].rec)]
              \/ log' = log
    BY <1>4, Zenon DEF BrokerAnswers
  <2>2. ASSUME log' = log
        PROVE  Grows
    BY <1>1, <2>1, <2>2, Lengths DEF Grows
  <2>3. ASSUME NEW i \in DOMAIN writes[c],
               log' = [log EXCEPT ![writes[c][i].topic] = Append(@, writes[c][i].rec)]
        PROVE  Grows
    <3>1. writes[c] \in Seq(Writes)
      BY <1>1 DEF Typed
    <3>2. writes[c][i] \in Writes
      BY <3>1, Elements
    <3> QED
      BY <1>1, <2>1, <2>3, <3>2, LogGrows, Zenon
  <2> QED
    BY <2>1, <2>2, <2>3, Zenon
<1>5. ASSUME NEW c \in Consumers, Store(c)
      PROVE  \/ UNCHANGED <<log, committed, processed>>
             \/ /\ UNCHANGED <<log, processed>>
                /\ committed' = [committed EXCEPT ![c] = stored'[c]] /\ stored[c] <= stored'[c]
  <2>1. stored[c] \in Nat /\ Len(batch[c]) \in Nat /\ stored'[c] = stored[c] + Len(batch[c])
    BY <1>1, <1>5, Elements DEF Store
  <2>2. stored[c] <= stored'[c]
    BY ONLY <2>1
  <2> QED
    BY <1>5, <2>2, Zenon DEF Store
<1>6. ASSUME NEW c \in Consumers, FinalCommit(c)
      PROVE  \/ UNCHANGED <<log, committed, processed>>
             \/ /\ UNCHANGED <<log, processed>>
                /\ committed' = [committed EXCEPT ![c] = stored'[c]] /\ stored[c] <= stored'[c]
  <2>1. stored[c] \in Nat /\ stored' = stored
    BY <1>1, <1>6 DEF FinalCommit
  <2>2. stored[c] <= stored'[c]
    BY <2>1
  <2> QED
    BY <1>6, <2>1, <2>2, Zenon DEF FinalCommit
<1>7. ASSUME NEW c \in Consumers,
             \/ Poll(c) \/ WaitUntilRetryTime(c) \/ Interrupted(c) \/ HandleError(c) \/ awaitWrites(c)
             \/ CtxDone(c) \/ CloseStrategy(c) \/ Cancel(c) \/ Crash(c) \/ Restart(c) \/ PollNothing(c)
      PROVE  UNCHANGED <<log, committed, processed>>
  BY <1>7, Zenon DEF Poll, WaitUntilRetryTime, Interrupted, HandleError, awaitWrites, CtxDone,
     CloseStrategy, Cancel, Crash, Restart, PollNothing, vars, perConsumer
<1>8. ASSUME Tick \/ UNCHANGED vars
      PROVE  UNCHANGED <<log, committed, processed>>
  BY <1>8, Zenon DEF Tick, vars, perConsumer
<1> QED
  BY <1>2, <1>3, <1>4, <1>5, <1>6, <1>7, <1>8, Zenon DEF Next, Step

\* What was written to a topic stays in it.
LEMMA RecordsStay ==
  ASSUME RInv, RInv', Grows, NEW t \in Topics
  PROVE  Records(t) \subseteq Records(t)'
<1>1. log[t] \in Seq(Contents) /\ log'[t] \in Seq(Contents)
  BY DEF RInv, Typed
<1>2. /\ DOMAIN log[t] = 1 .. Len(log[t]) /\ DOMAIN log'[t] = 1 .. Len(log'[t])
      /\ Len(log[t]) \in Nat /\ Len(log'[t]) \in Nat
  BY ONLY <1>1, Elements
<1>3. Len(log[t]) <= Len(log'[t]) /\ \A i \in 1 .. Len(log[t]) : log'[t][i] = log[t][i]
  BY DEF Grows
<1> QED
  BY <1>2, <1>3 DEF Records

\* The records dealt with are records of the source topic, and all those below
\* its stored offset are.
StoredDealtWith ==
    /\ DealtWith \subseteq Roots
    /\ \A o \in 0 .. stored["source"] - 1 : o \in DealtWith

LEMMA DealtWithHolds ==
  ASSUME RInv, ProcessedExist
  PROVE  StoredDealtWith
<1>1. \A t \in {"retry", "dlq"} : \A rec \in Records(t) : rec.root \in Roots
  BY RecordsSound DEF Contents
<1>2. DealtWith \subseteq Roots
  BY <1>1 DEF DealtWith, ProcessedExist
<1>3. ASSUME NEW o \in 0 .. stored["source"] - 1
      PROVE  o \in DealtWith
  <2>1. Safe(o, stored["retry"])
    BY Zenon DEF RInv, StoredSafe
  <2>2. log["retry"] \in Seq(RetryRecords) /\ log["dlq"] \in Seq(DeadRecords) /\ stored["retry"] \in Nat
    BY DEF RInv, Typed, Consumers
  <2>3. /\ DOMAIN log["dlq"] = 1 .. Len(log["dlq"])
        /\ DOMAIN log["retry"] = 1 .. Len(log["retry"]) /\ Len(log["retry"]) \in Nat
    BY ONLY <2>2, Elements
  <2>4. \A i \in stored["retry"] + 1 .. Len(log["retry"]) : i \in DOMAIN log["retry"]
    BY ONLY <2>2, <2>3
  <2> QED
    BY <2>1, <2>3, <2>4, Zenon DEF Safe, SafeIn, DealtWith, Records
<1> QED
  BY <1>2, <1>3 DEF StoredDealtWith

\* A step adds records dealt with, or commits past such records only.
LEMMA StepOfGroup ==
  ASSUME RInv, RInv', StoredDealtWith', [Next]_vars
  PROVE  SourceGroup!Resolve \/ SourceGroup!Commit
<1>1. CASE UNCHANGED committed /\ Grows
  <2>1. Records("retry") \subseteq Records("retry")' /\ Records("dlq") \subseteq Records("dlq")'
    BY <1>1, RecordsStay DEF Topics, Consumers
  <2>2. processed \subseteq processed'
    BY <1>1 DEF Grows
  <2>3. DealtWith \subseteq DealtWith'
    BY <2>1, <2>2, Zenon DEF DealtWith
  <2>4. DealtWith' \subseteq 0 .. Len(Source) - 1
    BY SMTT(20), Zenon DEF StoredDealtWith, Roots
  <2> QED
    BY <1>1, <2>3, <2>4 DEF SourceGroup!Resolve, SourceGroup!Message
<1>2. ASSUME UNCHANGED <<log, processed>>, NEW c \in Consumers,
             committed' = [committed EXCEPT ![c] = stored'[c]], stored[c] <= stored'[c]
      PROVE  SourceGroup!Commit
  <2>1. /\ "source" \in Consumers /\ committed \in [Consumers -> Nat]
        /\ stored["source"] \in Nat /\ stored'["source"] \in Nat /\ committed["source"] \in Nat
        /\ committed'["source"] \in Nat /\ batch'["source"] \in Seq(Messages)
        /\ log'["source"] = [i \in 1 .. Len(Source) |-> SourceRecord(i - 1)]
    BY DEF RInv, Typed, Consumers
  <2>2. /\ committed["source"] <= stored["source"] /\ committed'["source"] <= stored'["source"]
        /\ stored'["source"] + Len(batch'["source"]) <= Len(log'["source"])
    BY <2>1, Zenon DEF RInv, Placed
  <2>3. committed["source"] <= committed'["source"]
    <3>1. CASE c = "source"
      <4>1. committed'["source"] = stored'["source"] /\ stored["source"] <= stored'["source"]
        BY <1>2, <2>1, <3>1, Zenon
      <4> QED
        BY ONLY <2>1, <2>2, <4>1
    <3>2. CASE c # "source"
      BY <1>2, <2>1, <3>2
    <3> QED
      BY <3>1, <3>2
  <2>4. committed'["source"] \in 0 .. Len(Source)
    <3>1. Len(log'["source"]) = Len(Source) /\ Len(Source) \in Nat /\ Len(batch'["source"]) \in Nat
      BY <2>1, ConstantTypes, Elements
    <3> QED
      BY ONLY <2>1, <2>2, <3>1
  <2>5. DealtWith' = DealtWith
    BY <1>2 DEF DealtWith, Records
  <2>6. \A o \in 0 .. stored'["source"] - 1 : o \in DealtWith
    BY <2>5 DEF StoredDealtWith
  <2>7. \A o \in 0 .. Len(Source) - 1 : o < committed'["source"] => o \in DealtWith
    BY <2>1, <2>2, <2>6
  <2>8. SourceGroup!PrefixResolved("source", committed'["source"])
    BY <2>7 DEF SourceGroup!PrefixResolved, SourceGroup!Message
  <2> QED
    BY <2>3, <2>4, <2>5, <2>8 DEF SourceGroup!Commit
<1> QED
  BY <1>1, <1>2, StepEffect, Zenon

\* A consumer with a retry strategy implements AtLeastOnce on its source topic:
\* its commits go forward, and past a record only once that is processed, or in
\* the retry topic or the DLQ, whatever crashes, restarts and fails to commit
\* (HandleError before storeOffsets, CommitStored, Restart from the commit).
THEOREM SourceAlwaysAtLeastOnce == Spec => SourceIsAtLeastOnce
<1>1. Init => SourceGroup!Init /\ ProcessedExist
  <2> SUFFICES ASSUME Init
               PROVE  SourceGroup!Init /\ ProcessedExist
    OBVIOUS
  <2>1. processed = {} /\ committed["source"] = 0 /\ log["retry"] = <<>> /\ log["dlq"] = <<>>
    BY DEF Init, Topics, Consumers
  <2>2. Records("retry") = {} /\ Records("dlq") = {}
    BY <2>1 DEF Records
  <2> QED
    BY <2>1, <2>2 DEF SourceGroup!Init, DealtWith, ProcessedExist
<1>2. RInv /\ ProcessedExist /\ [Next]_vars => ProcessedExist'
  BY StepEffect DEF ProcessedExist
<1>3. RInv /\ ProcessedExist => StoredDealtWith
  BY DealtWithHolds
<1>4. RInv /\ RInv' /\ StoredDealtWith' /\ [Next]_vars => SourceGroup!Resolve \/ SourceGroup!Commit
  BY StepOfGroup
<1> QED
  BY <1>1, <1>2, <1>3, <1>4, PipelineInvariance, PTL DEF Spec, SourceIsAtLeastOnce, SourceGroup!Spec

\* A retry or DLQ record has the key, payload and application headers of the
\* source record it descends from (send, buildFailureHeaders).
THEOREM ContentAlwaysSurvives == Spec => []ContentSurvives
<1>1. RInv => ContentSurvives
  BY RecordsSound, Zenon DEF ContentSurvives, Written, Sound, SameContent
<1> QED
  BY <1>1, PipelineInvariance, PTL

\* A retry or DLQ record names the record first consumed from the source topic,
\* however many hops it has made (resolveOriginalHeader).
THEOREM OriginAlwaysKept == Spec => []OriginNamesTheSource
<1>1. ASSUME RInv
      PROVE  OriginNamesTheSource
  <2>1. ASSUME NEW t \in {"retry", "dlq"}, NEW rec \in Records(t)
        PROVE  OriginKept(rec)
    BY <1>1, <2>1, RecordsSound, SMTT(20), Zenon DEF Written
  <2>2. ASSUME NEW rec, NEW key, NEW value
        PROVE  OriginOf(rec, key, value)
                  = (IF Names(SourceOf(rec), key) THEN SourceOf(rec).headers[key] ELSE value)
    BY SourceRead, Zenon DEF OriginOf, SourceOf
  <2> QED
    BY ONLY <2>1, <2>2, Zenon DEF OriginNamesTheSource, OriginKept
<1> QED
  BY <1>1, PipelineInvariance, PTL

\* A retry or DLQ record carries the last step any of its failures reported and
\* the code of its last failure (resolveStep, resolveErrorCode).
THEOREM ResumePointAlwaysKept == Spec => []ResumePointKept
<1>1. ASSUME RInv, NEW t \in {"retry", "dlq"}, NEW rec \in Records(t)
      PROVE  LET reported == {i \in DOMAIN rec.trail : rec.trail[i].step # 0}
             IN  GetRetryStep(rec) =
                    IF reported = {} THEN GetRetryStep(SourceOf(rec))
                    ELSE rec.trail[CHOOSE i \in reported : \A j \in reported : j <= i].step
  <2> DEFINE reported == {i \in DOMAIN rec.trail : rec.trail[i].step # 0}
  <2>1. StepKept(rec) /\ rec.trail \in Seq(Entries)
    BY <1>1, RecordsSound, SMTT(20), Zenon DEF Written, Sound, Contents
  <2>2. CASE reported = {}
    <3>1. \A i \in DOMAIN rec.trail : rec.trail[i].step = 0
      BY <2>2
    <3>2. GetRetryStep(rec) = GetRetryStep(Source[rec.root + 1])
      BY <2>1, <3>1 DEF StepKept
    <3> QED
      BY <2>2, <3>2, SourceRead
  <2>3. CASE reported # {}
    <3>1. PICK i \in DOMAIN rec.trail : /\ rec.trail[i].step # 0
                                        /\ \A j \in DOMAIN rec.trail : rec.trail[j].step # 0 => j <= i
                                        /\ GetRetryStep(rec) = rec.trail[i].step
      BY <2>1, <2>3 DEF StepKept
    <3>2. reported \subseteq Int
      BY <2>1
    <3>3. i \in reported /\ \A j \in reported : j <= i
      BY <3>1
    <3>4. \A k \in reported : (\A j \in reported : j <= k) => k = i
      BY <3>2, <3>3
    <3>5. (CHOOSE k \in reported : \A j \in reported : j <= k) = i
      <4> HIDE DEF reported
      <4> QED
        BY <3>3, <3>4
    <3> QED
      BY <2>3, <3>1, <3>5, Zenon
  <2> QED
    BY <2>2, <2>3, SMTT(20), Zenon
<1>2. RInv => ResumePointKept
  BY <1>1, RecordsSound, Zenon DEF ResumePointKept, Written, CodeTold
<1> QED
  BY <1>2, PipelineInvariance, PTL

\* A record is in the retry topic while it has attempts left and no failure was
\* permanent, and in the DLQ because of its last failure (HandleError).
THEOREM SpentIsDeadLettered == Spec => []DeadLetteredWhenSpent
<1>1. ASSUME RInv, NEW t \in {"retry", "dlq"}, NEW rec \in Records(t)
      PROVE  /\ Len(rec.trail) \in Nat
             /\ GetRetryAttempt(SourceOf(rec)) \in Int
             /\ GetRetryAttempt(rec) = GetRetryAttempt(SourceOf(rec)) + Len(rec.trail)
             /\ \A n \in 1 .. Len(rec.trail) :
                   Spent(rec, n) <=>
                      \/ GetRetryAttempt(SourceOf(rec)) + Len(rec.trail) - Len(rec.trail) + n >= MaxAttempts
                      \/ Permanent(rec.trail[n])
             /\ \A n \in 1 .. Len(rec.trail) - 1 : ~Spent(rec, n)
             /\ Len(rec.trail) \in 1 .. Len(rec.trail)
  <2>1. rec \in Contents /\ Written(rec)
    BY <1>1, RecordsSound, SMTT(20), Zenon
  <2>11. rec.trail # <<>> /\ rec.trail \in Seq(Entries)
    BY ONLY <2>1 DEF Contents, Written
  <2>2. Len(rec.trail) \in Nat /\ rec.trail # <<>> /\ rec.trail \in Seq(Entries)
    BY ONLY <2>11
  <2>3. GetRetryAttempt(Source[rec.root + 1]) \in Int
    <3>1. rec.root \in Roots
      BY <2>1 DEF Contents
    <3> QED
      BY <3>1, SourceHeaders, HeadersRead, SMTT(20), Zenon
  <2>4. GetRetryAttempt(SourceOf(rec)) = GetRetryAttempt(Source[rec.root + 1])
    BY SourceRead
  <2>5. GetRetryAttempt(rec) = GetRetryAttempt(Source[rec.root + 1]) + Len(rec.trail)
    BY <2>1 DEF Written, Sound, Attempted
  <2>6. ASSUME NEW n \in 1 .. Len(rec.trail)
        PROVE  GetRetryAttempt(SourceOf(rec)) + Len(rec.trail) - Len(rec.trail) + n
                  = GetRetryAttempt(Source[rec.root + 1]) + n
    BY <2>2, <2>3, <2>4, SMTT(20), Zenon
  <2>7. \A n \in 1 .. Len(rec.trail) :
           Spent(rec, n) <=>
              \/ GetRetryAttempt(SourceOf(rec)) + Len(rec.trail) - Len(rec.trail) + n >= MaxAttempts
              \/ Permanent(rec.trail[n])
    BY <2>6 DEF Spent
  <2>8. Len(rec.trail) \in 1 .. Len(rec.trail)
    BY <2>2
  <2>9. \A n \in 1 .. Len(rec.trail) - 1 : ~Spent(rec, n)
    BY <2>1 DEF Written
  <2> QED
    BY <2>2, <2>3, <2>4, <2>5, <2>7, <2>8, <2>9
<1>2. ASSUME RInv
      PROVE  /\ \A rec \in Records("retry") : ~Spent(rec, Len(rec.trail))
             /\ \A rec \in Records("dlq") : Spent(rec, Len(rec.trail))
  BY <1>2, RecordsSound DEF RetryRecords, DeadRecords
<1>3. \A k \in Nat : \A n \in 1 .. k - 1 : n \in 1 .. k
  BY SMTT(20), Zenon
<1>4. ASSUME RInv
      PROVE  DeadLetteredWhenSpent
  <2> DEFINE attempts(rec) == GetRetryAttempt(SourceOf(rec)) + Len(rec.trail)
             hopeless(rec, n) == attempts(rec) - Len(rec.trail) + n >= MaxAttempts \/ Permanent(rec.trail[n])
  <2>1. ASSUME NEW t \in {"retry", "dlq"}, NEW rec \in Records(t)
        PROVE  /\ GetRetryAttempt(rec) = attempts(rec)
               /\ \A n \in 1 .. Len(rec.trail) - 1 : ~hopeless(rec, n)
    <3>1. /\ Len(rec.trail) \in Nat /\ GetRetryAttempt(rec) = attempts(rec)
          /\ \A n \in 1 .. Len(rec.trail) : Spent(rec, n) <=> hopeless(rec, n)
          /\ \A n \in 1 .. Len(rec.trail) - 1 : ~Spent(rec, n)
      BY <1>1, <1>4, <2>1
    <3> HIDE DEF attempts, hopeless
    <3>2. \A n \in 1 .. Len(rec.trail) - 1 : n \in 1 .. Len(rec.trail)
      BY ONLY <1>3, <3>1
    <3> QED
      BY ONLY <3>1, <3>2, SMTT(20), Zenon
  <2>2. ASSUME NEW t \in {"retry", "dlq"}, NEW rec \in Records(t)
        PROVE  Spent(rec, Len(rec.trail)) <=> hopeless(rec, Len(rec.trail))
    <3>1. /\ Len(rec.trail) \in 1 .. Len(rec.trail)
          /\ \A n \in 1 .. Len(rec.trail) : Spent(rec, n) <=> hopeless(rec, n)
      BY <1>1, <1>4, <2>2
    <3> HIDE DEF hopeless
    <3> QED
      BY ONLY <3>1
  <2>3. /\ \A rec \in Records("retry") : ~hopeless(rec, Len(rec.trail))
        /\ \A rec \in Records("dlq") : hopeless(rec, Len(rec.trail))
    <3> HIDE DEF hopeless
    <3> QED
      BY <1>2, <1>4, <2>2
  <2> QED
    BY <2>1, <2>3 DEF DeadLetteredWhenSpent
<1> QED
  BY <1>4, PipelineInvariance, PTL

\* A time that was written is read back (GetRetryTime).
LEMMA TimeRead ==
  ASSUME NEW m, NEW seconds, HeaderRetryTime \in DOMAIN m.headers,
         m.headers[HeaderRetryTime] = <<"time", seconds>>
  PROVE  GetRetryTime(m) = seconds * TicksPerSecond
<1>1. m.headers[HeaderRetryTime][1] = "time" /\ m.headers[HeaderRetryTime][2] = seconds
  OBVIOUS
<1> QED
  BY <1>1 DEF GetRetryTime, HasForm

\* A time cut to whole seconds is less than a second early (FormatTime).
LEMMA WholeSeconds ==
  ASSUME NEW t \in Int
  PROVE  t < (t \div TicksPerSecond) * TicksPerSecond + TicksPerSecond
  BY ConstantTypes

\* A handler that waits with WaitUntilRetryTime processes no record a second or
\* more before the time the strategy computed for it.
THEOREM NeverProcessedEarly == Spec => NotProcessedEarly
<1> DEFINE OnTime == \A c \in Consumers : pc[c] = "wait" /\ pc'[c] = "process" =>
                        \A i \in DOMAIN batch[c] : batch[c][i].trail # <<>> =>
                            now + TicksPerSecond > LastOf(batch[c][i].trail).due
<1>1. ASSUME RInv, [Next]_vars, NEW c \in Consumers, pc[c] = "wait", pc'[c] = "process",
             NEW i \in DOMAIN batch[c]
      PROVE  Due(batch[c][i])
  <2>0. pc \in [Consumers -> Labels]
    BY <1>1 DEF RInv, Typed
  <2>1. pc' # pc
    BY <1>1, Zenon
  <2>2. ASSUME NEW d \in Consumers, NEW label, Goto(d, label)
        PROVE  d = c /\ label = "process"
    BY <1>1, <2>0, <2>2 DEF Goto
  <2>3. PICK d \in Consumers : Step(d) \/ Crash(d) \/ Restart(d)
    BY <1>1, <2>1, Zenon DEF Next, BrokerAnswers, Cancel, PollNothing, Tick, vars, perConsumer
  <2>4. ~Crash(d) /\ ~Restart(d)
    BY <1>1 DEF Crash, Restart
  <2>5. ~Poll(d) /\ ~Interrupted(d) /\ ~Store(d) /\ ~CtxDone(d) /\ ~FinalCommit(d) /\ ~CloseStrategy(d)
    <3>1. \A label \in {"wait", "route", "poll", "stopping", "close", "down"} : ~Goto(d, label)
      BY <2>2
    <3>2. ~Poll(d) /\ ~Interrupted(d)
      BY <3>1, Zenon DEF Poll, Interrupted
    <3>3. ~Store(d) /\ ~CtxDone(d)
      BY <3>1 DEF Store, CtxDone
    <3>4. ~FinalCommit(d) /\ ~CloseStrategy(d)
      BY <3>1, Zenon DEF FinalCommit, CloseStrategy
    <3> QED
      BY <3>2, <3>3, <3>4
  <2>6. ~Process(d) /\ ~HandleError(d) /\ ~awaitWrites(d)
    BY <1>1, <2>2, Zenon DEF Process, HandleError, awaitWrites, StopWithError
  <2>7. WaitUntilRetryTime(d)
    BY <2>3, <2>4, <2>5, <2>6, SMTT(20), Zenon DEF Step
  <2>8. d = c
    BY <2>2, <2>7 DEF WaitUntilRetryTime
  <2> QED
    BY <1>1, <2>7, <2>8 DEF WaitUntilRetryTime
<1>2. ASSUME RInv, NEW c \in Consumers, NEW i \in DOMAIN batch[c], batch[c][i].trail # <<>>,
             Due(batch[c][i])
      PROVE  now + TicksPerSecond > LastOf(batch[c][i].trail).due
  <2>1. batch[c] \in Seq(Messages) /\ now \in Nat
    BY <1>2, Zenon DEF RInv, Typed
  <2>2. batch[c][i] \in Messages
    BY <2>1
  <2>3. batch[c][i] \in RetryMessages
    BY <1>2, <2>2, SourceSound, SMTT(20), Zenon DEF Messages
  <2>4. PICK rec \in RetryRecords : batch[c][i].headers = rec.headers /\ batch[c][i].trail = rec.trail
    <3>1. PICK o \in Nat, rec \in RetryRecords : batch[c][i] = Message("retry", o, rec)
      BY ONLY <2>3 DEF RetryMessages
    <3>2. batch[c][i].headers = rec.headers /\ batch[c][i].trail = rec.trail
      BY ONLY <3>1, MessageFields
    <3> QED
      BY <3>2
  <2>5. DueTold(rec) /\ rec.trail \in Seq(Entries) /\ rec.trail # <<>>
    BY <2>4, Zenon DEF RetryRecords, Contents, Written
  <2>6. LastOf(rec.trail).due \in Int
    <3>1. LastOf(rec.trail) \in Entries
      BY ONLY <2>5, LastEntry, SMTT(20), Zenon
    <3> QED
      BY <3>1 DEF Entries
  <2>7. GetRetryTime(batch[c][i]) = (LastOf(rec.trail).due \div TicksPerSecond) * TicksPerSecond
    <3>1. /\ HeaderRetryTime \in DOMAIN batch[c][i].headers
          /\ batch[c][i].headers[HeaderRetryTime] = <<"time", LastOf(rec.trail).due \div TicksPerSecond>>
      BY ONLY <2>4, <2>5 DEF DueTold, FormatTime
    <3> QED
      BY ONLY <3>1, TimeRead, SMTT(20), Zenon
  <2>8. GetRetryTime(batch[c][i]) <= now
    BY <1>2 DEF Due
  <2>9. (LastOf(rec.trail).due \div TicksPerSecond) * TicksPerSecond \in Int
    BY <2>6, ConstantTypes
  <2>10. LastOf(rec.trail).due < GetRetryTime(batch[c][i]) + TicksPerSecond
    BY <2>6, <2>7, WholeSeconds
  <2>11. \A due, at, t, second \in Int : due < at + second /\ at <= t => t + second > due
    OBVIOUS
  <2>12. now + TicksPerSecond > LastOf(rec.trail).due
    <3>1. GetRetryTime(batch[c][i]) \in Int /\ TicksPerSecond \in Int /\ now \in Int
      BY <2>1, <2>7, <2>9, ConstantTypes, SMTT(20), Zenon
    <3> QED
      BY <2>6, <2>8, <2>10, <2>11, <3>1
  <2> QED
    BY <2>4, <2>12
<1>3. RInv /\ [Next]_vars => [OnTime]_vars
  BY <1>1, <1>2
<1> QED
  BY <1>3, PipelineInvariance, PTL DEF Spec, NotProcessedEarly

\* Every back-off is the cap, or lies between the first delay and the cap, and
\* never shrinks from one attempt of a record to the next, for any initial delay,
\* cap and multiplier: the exponential is capped before it is converted to a
\* duration (computeBackoff).  A custom back-off is the application's, and a
\* source record that claims fewer than no attempts starts below the first delay.
THEOREM BackoffAlwaysWithinBounds ==
  ASSUME CustomBackoff = <<>>, \A i \in DOMAIN Source : GetRetryAttempt(Source[i]) >= 0
  PROVE  Spec => []BackoffWithinBounds
<1>1. RInv => BackoffWithinBounds
  <2> SUFFICES ASSUME RInv, NEW rec \in Records("retry"), NEW n \in DOMAIN rec.trail
               PROVE  /\ rec.trail[n].delay = MaxDelay \/ rec.trail[n].delay \in InitialDelay .. MaxDelay
                      /\ n > 1 => rec.trail[n].delay >= rec.trail[n - 1].delay
    BY DEF BackoffWithinBounds
  <2> DEFINE base == GetRetryAttempt(Source[rec.root + 1])
  <2>1. rec.root \in Roots /\ rec.trail \in Seq(Entries) /\ Delayed(rec)
    BY RecordsSound, Zenon DEF RetryRecords, Contents
  <2>2. base \in Nat
    <3>1. rec.root + 1 \in DOMAIN Source /\ base \in Int
      BY <2>1, ConstantTypes, SourceHeaders, HeadersRead
    <3> QED
      BY <3>1
  <2>3. \A k \in DOMAIN rec.trail : rec.trail[k].delay = computeBackoff(base + k)
    BY <2>1, Zenon DEF Delayed
  <2> HIDE DEF base
  <2>4. DOMAIN rec.trail = 1 .. Len(rec.trail) /\ Len(rec.trail) \in Nat
    BY <2>1, Elements
  <2>5. base + n \in Nat \ {0} /\ n \in 1 .. Len(rec.trail)
    BY <2>2, <2>4
  <2>6. /\ computeBackoff(base + n) \in 1 .. MaxDelay
        /\ computeBackoff(base + n) = MaxDelay \/ computeBackoff(base + n) >= InitialDelay
    BY <2>5, BackoffGrows, Zenon
  <2>7. ASSUME n > 1
        PROVE  rec.trail[n].delay >= rec.trail[n - 1].delay
    <3>1. base + (n - 1) \in Nat \ {0} /\ (base + (n - 1)) + 1 = base + n /\ n - 1 \in DOMAIN rec.trail
      BY ONLY <2>2, <2>4, <2>5, <2>7
    <3>2. computeBackoff(base + (n - 1)) <= computeBackoff(base + n)
      BY <3>1, BackoffGrows
    <3>3. computeBackoff(base + (n - 1)) \in 1 .. MaxDelay
      BY <3>1, BackoffGrows, Zenon
    <3>4. rec.trail[n].delay = computeBackoff(base + n) /\ rec.trail[n - 1].delay = computeBackoff(base + (n - 1))
      BY <2>3, <3>1, Zenon
    <3>5. MaxDelay \in Nat
      BY RetryHeadersAssumption
    <3> QED
      BY ONLY <2>6, <3>2, <3>3, <3>4, <3>5
  <2>8. rec.trail[n].delay = computeBackoff(base + n) /\ MaxDelay \in Nat /\ InitialDelay \in Nat
    BY <2>3, RetryHeadersAssumption
  <2>9. rec.trail[n].delay = MaxDelay \/ rec.trail[n].delay \in InitialDelay .. MaxDelay
    BY ONLY <2>6, <2>8
  <2> QED
    BY <2>7, <2>9, SMTT(20), Zenon
<1> QED
  BY <1>1, PipelineInvariance, PTL

-----------------------------------------------------------------------------
(***************************************************************************)
(* The playground.  Every failure in the history of a record is one that a *)
(* script accounts for, and so is every record that counts as processed.   *)
(***************************************************************************)

\* The handler gives no verdict but the playground's.
ScriptHandler == \A msgs \in Seq(Messages) : Verdicts(msgs) \subseteq ScriptVerdicts(msgs)

\* A message has what a record has.
Carries(m, rec) ==
    m.root = rec.root /\ m.trail = rec.trail /\ m.payload = rec.payload /\ m.headers = rec.headers

\* Messages that one poll returned.
Polled(logs, c, msgs) ==
    /\ Len(msgs) <= BatchSize
    /\ \E from \in Nat : \A i \in DOMAIN msgs : from + i \in DOMAIN logs[c] /\ Carries(msgs[i], logs[c][from + i])

\* A script accounts for the next failure of a message.
FailureAccounted(logs, m, f) == AccountedFor(Beside(logs, m.root, m.trail), m.root, m.trail, f)

\* Nothing of a log is lost or changed.
OnlyLonger(logs, longer) ==
    \A t \in Topics : \A i \in DOMAIN logs[t] : i \in DOMAIN longer[t] /\ longer[t][i] = logs[t][i]

-----------------------------------------------------------------------------
(***************************************************************************)
(* What a handler may rely on in a script.                                 *)
(***************************************************************************)

\* A message has the script of its source record, and is on the attempt after
\* the ones in its history.
LEMMA OwnScript ==
  ASSUME NEW m \in Messages
  PROVE  /\ m.payload = Source[m.root + 1].payload
         /\ GetRetryAttempt(m) = GetRetryAttempt(Source[m.root + 1]) + Len(m.trail)
<1>1. m.root \in Roots /\ m.trail \in Seq(Entries) /\ Sound(m)
  BY MessageSound
<1> QED
  BY <1>1 DEF Sound, SameContent, Attempted

\* The handler does not tell a message from the record it was polled from.
LEMMA SameOutcome ==
  ASSUME NEW m, NEW rec, Carries(m, rec)
  PROVE  resolve(m) = resolve(rec) /\ (OutOfRange(m) <=> OutOfRange(rec))
<1>1. GetRetryAttempt(m) = GetRetryAttempt(rec) /\ m.payload = rec.payload
  BY DEF Carries, GetRetryAttempt, HasForm
<1> QED
  BY <1>1 DEF resolve, OutOfRange

\* The failure reported for one message is of no kind that concerns its batch,
\* and there is none for ok alone.
LEMMA CarriedOut ==
  ASSUME NEW o
  PROVE  /\ carryOut(o).err \notin {"panic", "batchko"}
         /\ carryOut(o) = NoFailure => o.kind = "ok"
<1>1. carryOut(o).err \notin {"panic", "batchko"}
  BY DEF carryOut, withReason, NoFailure
<1>2. ASSUME o.kind # "ok"
      PROVE  carryOut(o).err # ""
  <2>1. ASSUME NEW err, NEW step, NEW code
        PROVE  withReason(err, step, code).err # ""
    <3>1. CASE err = ""
      BY <3>1, Zenon DEF withReason
    <3>2. CASE err # ""
      BY <3>2, Zenon DEF withReason
    <3> QED
      BY <3>1, <3>2, Zenon
  <2>2. \E err, step, code : carryOut(o) = withReason(err, step, code)
    BY <1>2, Zenon DEF carryOut
  <2> QED
    BY <2>1, <2>2, Zenon
<1>3. NoFailure.err = ""
  BY DEF NoFailure
<1> QED
  BY <1>1, <1>2, <1>3, Zenon

\* The messages of one poll come from records beside one another.
LEMMA PolledTogether ==
  ASSUME NEW c \in Consumers, NEW logs \in [Topics -> Seq(Contents)], NEW msgs \in Seq(Messages),
         Polled(logs, c, msgs), NEW i \in DOMAIN msgs, NEW k \in DOMAIN msgs
  PROVE  \E rec \in Beside(logs, msgs[k].root, msgs[k].trail) :
            Carries(msgs[i], rec) /\ \E j \in DOMAIN logs[c] : rec = logs[c][j]
<1>1. PICK from \in Nat :
         \A j \in DOMAIN msgs : from + j \in DOMAIN logs[c] /\ Carries(msgs[j], logs[c][from + j])
  BY DEF Polled
<1>2. DOMAIN msgs = 1 .. Len(msgs) /\ Len(msgs) \in Nat /\ Len(msgs) <= BatchSize /\ BatchSize \in Nat
  BY Elements, ConstantTypes DEF Polled
<1> DEFINE a == from + i
           b == from + k
<1>3. /\ a \in DOMAIN logs[c] /\ b \in DOMAIN logs[c] /\ b - a < BatchSize /\ a - b < BatchSize
      /\ Carries(msgs[i], logs[c][a]) /\ Carries(msgs[k], logs[c][b])
  BY <1>1, <1>2
<1> HIDE DEF a, b
<1>4. logs[c][b].root = msgs[k].root /\ logs[c][b].trail = msgs[k].trail
  BY <1>3 DEF Carries
<1>5. logs[c][a] \in Beside(logs, msgs[k].root, msgs[k].trail)
  BY <1>3, <1>4 DEF Beside
<1> QED
  BY <1>3, <1>5

\* More records leave what is accounted for accounted for.
LEMMA StillAccounted ==
  ASSUME NEW logs, NEW longer, OnlyLonger(logs, longer), NEW root, NEW trail, NEW f,
         AccountedFor(Beside(logs, root, trail), root, trail, f)
  PROVE  AccountedFor(Beside(longer, root, trail), root, trail, f)
<1>1. Beside(logs, root, trail) \subseteq Beside(longer, root, trail)
  <2> SUFFICES ASSUME NEW c \in Consumers, NEW j \in DOMAIN logs[c], NEW i \in DOMAIN logs[c],
                      i - j < BatchSize /\ j - i < BatchSize,
                      logs[c][i].root = root /\ logs[c][i].trail = trail
               PROVE  logs[c][j] \in Beside(longer, root, trail)
    BY DEF Beside
  <2>1. c \in Topics
    BY Consumer
  <2>2. /\ i \in DOMAIN longer[c] /\ longer[c][i] = logs[c][i]
        /\ j \in DOMAIN longer[c] /\ longer[c][j] = logs[c][j]
    BY <2>1 DEF OnlyLonger
  <2> QED
    BY <2>2, SMTT(20), Zenon DEF Beside
<1> HIDE DEF Beside
<1> DEFINE few == Beside(logs, root, trail)
           many == Beside(longer, root, trail)
<1>2. few \subseteq many /\ AccountedFor(few, root, trail, f)
  BY <1>1
<1> HIDE DEF few, many
<1>3. AccountedFor(many, root, trail, f)
  BY ONLY <1>2, Zenon DEF AccountedFor
<1> QED
  BY <1>3, SMTT(20), Zenon DEF many

-----------------------------------------------------------------------------
(***************************************************************************)
(* The verdict of the handler.                                             *)
(***************************************************************************)

\* A batch that a message fails as a whole: its script has the token for its
\* attempt, or that is below 0 (handleBatch).
LEMMA WholeAccounted ==
  ASSUME NEW c \in Consumers, NEW logs \in [Topics -> Seq(Contents)], NEW msgs \in Seq(Messages),
         Polled(logs, c, msgs), Failed(handleBatch(msgs).whole), NEW k \in DOMAIN msgs
  PROVE  AccountedFor(Beside(logs, msgs[k].root, msgs[k].trail), msgs[k].root, msgs[k].trail,
                      handleBatch(msgs).whole)
<1> DEFINE deciding == {i \in DOMAIN msgs : Decides(resolve(msgs[i]))}
           first == CHOOSE i \in deciding : \A j \in deciding : i <= j
           whole == handleBatch(msgs).whole
           root == msgs[k].root
           trail == msgs[k].trail
           beside == Beside(logs, root, trail)
<1>0. \A i \in DOMAIN msgs : i \in Nat
  BY Elements
<1>1. ASSUME NEW i \in DOMAIN msgs, OutOfRange(msgs[i])
      PROVE  AccountedFor(beside, root, trail, whole)
  <2>1. whole = Panicked
    BY <1>1, Zenon DEF handleBatch
  <2>2. PICK rec \in beside : Carries(msgs[i], rec)
    BY PolledTogether
  <2>3. OutOfRange(rec)
    BY <1>1, <2>2, SameOutcome
  <2> HIDE DEF whole, beside, root, trail
  <2> QED
    BY <2>1, <2>2, <2>3, Zenon DEF AccountedFor, Panicked
<1>2. CASE deciding # {} /\ \A i \in DOMAIN msgs : ~OutOfRange(msgs[i])
  <2> DEFINE o == resolve(msgs[first])
  <2>1. whole = BatchFailure(o)
    BY <1>2 DEF handleBatch
  <2>2. first \in DOMAIN msgs /\ Decides(o)
    <3>1. \E i \in deciding : \A j \in deciding : i <= j
      BY <1>0, <1>2, Smallest, Zenon
    <3>2. first \in deciding
      BY <3>1
    <3> QED
      BY <3>2
  <2> HIDE DEF first
  <2>3. PICK rec \in beside : Carries(msgs[first], rec)
    BY <2>2, PolledTogether
  <2>4. resolve(rec) = o
    BY <2>3, SameOutcome
  <2> HIDE DEF o, whole, beside, root, trail
  <2>5. ASSUME o.kind = "panic"
        PROVE  AccountedFor(beside, root, trail, whole)
    <3>1. whole = Panicked /\ resolve(rec).kind = "panic"
      BY <2>1, <2>4, <2>5 DEF BatchFailure
    <3> QED
      BY <2>3, <3>1, Zenon DEF AccountedFor, Panicked
  <2>6. ASSUME o.kind = "batchko"
        PROVE  AccountedFor(beside, root, trail, whole)
    <3>1. whole.err = "batchko"
      BY <2>1, <2>6, SMTT(20), Zenon DEF BatchFailure
    <3>2. resolve(rec).kind = "batchko" /\ whole = BatchFailure(resolve(rec))
      BY <2>1, <2>4, <2>6, SMTT(20), Zenon
    <3> QED
      BY ONLY <2>3, <3>1, <3>2 DEF AccountedFor
  <2> QED
    BY <2>2, <2>5, <2>6, SMTT(20), Zenon DEF Decides, whole, beside, root, trail
<1>3. CASE deciding = {} /\ \A i \in DOMAIN msgs : ~OutOfRange(msgs[i])
  BY <1>3, Zenon DEF handleBatch, Failed
<1> QED
  BY <1>1, <1>2, <1>3

\* What is reported for one message of a batch is its own outcome (carryOut).
LEMMA OwnOutcome ==
  ASSUME NEW msgs, ~Failed(handleBatch(msgs).whole), NEW i \in DOMAIN msgs
  PROVE  handleBatch(msgs).items[i] = carryOut(resolve(msgs[i]))
<1> DEFINE deciding == {j \in DOMAIN msgs : Decides(resolve(msgs[j]))}
<1>1. CASE (\E j \in DOMAIN msgs : OutOfRange(msgs[j])) \/ deciding # {}
  <2>1. \A o : Panicked # NoFailure /\ BatchFailure(o) # NoFailure
    BY Zenon DEF Panicked, NoFailure, BatchFailure
  <2> QED
    BY <1>1, <2>1 DEF handleBatch, Failed
<1>2. CASE deciding = {} /\ \A j \in DOMAIN msgs : ~OutOfRange(msgs[j])
  BY <1>2 DEF handleBatch
<1> QED
  BY <1>1, <1>2

\* The failure of one message of a batch is its own script's.
LEMMA ItemAccounted ==
  ASSUME NEW msgs \in Seq(Messages), ~Failed(handleBatch(msgs).whole),
         NEW i \in DOMAIN msgs, handleBatch(msgs).items[i] \in Failures,
         NEW logs \in [Topics -> Seq(Contents)]
  PROVE  FailureAccounted(logs, msgs[i], handleBatch(msgs).items[i])
<1> DEFINE m == msgs[i]
           src == Source[m.root + 1]
           f == handleBatch(msgs).items[i]
<1>1. f = carryOut(resolve(m))
  BY OwnOutcome
<1>2. m \in Messages
  BY Elements
<1>3. f = [err |-> f.err, step |-> f.step, code |-> f.code]
  BY DEF Failures
<1> HIDE DEF m, f
<1>4. resolve(m) = Outcome(src.payload, GetRetryAttempt(src) + Len(m.trail))
  BY <1>2, OwnScript DEF resolve
<1>5. f.err \notin {"panic", "batchko"}
  BY <1>1, CarriedOut, SMTT(20), Zenon
<1> QED
  BY <1>1, <1>3, <1>4, <1>5, Zenon DEF FailureAccounted, AccountedFor, m, f

-----------------------------------------------------------------------------
(***************************************************************************)
(* The invariant: every failure in a record's history is accounted for,    *)
(* and so is the failure of a call still to be made, for each message of   *)
(* it, as the next one in its history; a batch was polled from the log;    *)
(* and what counts as processed was said to be ok.                         *)
(***************************************************************************)

Before(trail, n) == SubSeq(trail, 1, n - 1)

TrailAccounted(logs, x) ==
    \A n \in DOMAIN x.trail :
        AccountedFor(Beside(logs, x.root, Before(x.trail, n)), x.root, Before(x.trail, n), x.trail[n])

CallAccounted(logs, call) ==
    \A i \in DOMAIN call.msgs :
        TrailAccounted(logs, call.msgs[i]) /\ FailureAccounted(logs, call.msgs[i], call.f)

LogsAccounted == \A t \in Topics : \A i \in DOMAIN log[t] : TrailAccounted(log, log[t][i])

HandsAccounted(logs, c) ==
    /\ Polled(logs, c, batch[c])
    /\ \A i \in DOMAIN batch[c] : TrailAccounted(logs, batch[c][i])
    /\ \A call \in calls[c] : CallAccounted(logs, call)
    /\ \A i \in DOMAIN writes[c] : TrailAccounted(logs, writes[c][i].rec)

SaidOk(logs, root) ==
    \E t \in Consumers : \E i \in DOMAIN logs[t] : logs[t][i].root = root /\ resolve(logs[t][i]).kind = "ok"

AInv ==
    /\ LogsAccounted
    /\ \A c \in Consumers : HandsAccounted(log, c)
    /\ \A root \in processed : SaidOk(log, root)

\* A history that grows keeps what it began with.
LEMMA History ==
  ASSUME NEW S, NEW s \in Seq(S), NEW e
  PROVE  /\ \A n \in DOMAIN s : Before(Append(s, e), n) = Before(s, n) /\ Append(s, e)[n] = s[n]
         /\ Before(Append(s, e), Len(s) + 1) = s /\ Append(s, e)[Len(s) + 1] = e
         /\ DOMAIN Append(s, e) = DOMAIN s \cup {Len(s) + 1}
  BY DEF Before

\* What is accounted for stays so in longer logs.
LEMMA TrailStill ==
  ASSUME NEW logs, NEW longer, OnlyLonger(logs, longer), NEW x, TrailAccounted(logs, x)
  PROVE  TrailAccounted(longer, x)
  BY StillAccounted, Zenon DEF TrailAccounted

LEMMA CallStill ==
  ASSUME NEW logs, NEW longer, OnlyLonger(logs, longer), NEW call, CallAccounted(logs, call)
  PROVE  CallAccounted(longer, call)
  BY TrailStill, StillAccounted, Zenon DEF CallAccounted, FailureAccounted

LEMMA HandsStill ==
  ASSUME NEW logs, NEW longer, OnlyLonger(logs, longer), NEW c \in Consumers, HandsAccounted(logs, c)
  PROVE  HandsAccounted(longer, c)
<1>1. Polled(longer, c, batch[c])
  <2>1. c \in Topics
    BY Consumer
  <2> QED
    BY <2>1, Zenon DEF HandsAccounted, Polled, OnlyLonger
<1>2. \A i \in DOMAIN batch[c] : TrailAccounted(longer, batch[c][i])
  BY TrailStill, Zenon DEF HandsAccounted
<1>3. \A call \in calls[c] : CallAccounted(longer, call)
  BY CallStill, Zenon DEF HandsAccounted
<1>4. \A i \in DOMAIN writes[c] : TrailAccounted(longer, writes[c][i].rec)
  BY TrailStill, Zenon DEF HandsAccounted
<1> QED
  BY <1>1, <1>2, <1>3, <1>4 DEF HandsAccounted

LEMMA OkStill ==
  ASSUME NEW logs, NEW longer, OnlyLonger(logs, longer), NEW root, SaidOk(logs, root)
  PROVE  SaidOk(longer, root)
<1>0. PICK t \in Consumers :
         \E i \in DOMAIN logs[t] : logs[t][i].root = root /\ resolve(logs[t][i]).kind = "ok"
  BY Zenon DEF SaidOk
<1>1. PICK i \in DOMAIN logs[t] : logs[t][i].root = root /\ resolve(logs[t][i]).kind = "ok"
  BY <1>0, Zenon
<1>2. i \in DOMAIN longer[t] /\ longer[t][i] = logs[t][i]
  BY Consumer, Zenon DEF OnlyLonger
<1> QED
  BY <1>1, <1>2, Zenon DEF SaidOk

LEMMA SameLogs ==
  ASSUME NEW logs
  PROVE  OnlyLonger(logs, logs)
  BY DEF OnlyLonger

\* What the history keeps of a failure is accounted for as the failure is (Failure).
LEMMA EntryAccounted ==
  ASSUME NEW beside, NEW root, NEW trail, NEW f, NEW delay, AccountedFor(beside, root, trail, f)
  PROVE  AccountedFor(beside, root, trail, Failure(f, delay))
<1>1. Failure(f, delay).err = f.err /\ Failure(f, delay).step = f.step /\ Failure(f, delay).code = f.code
  BY SMTT(20), Zenon DEF Failure
<1> QED
  BY <1>1, Zenon DEF AccountedFor

\* A record written for a message has one more failure in its history (WriteOf).
LEMMA WriteAccounted ==
  ASSUME NEW logs, NEW m \in Messages, NEW f, TrailAccounted(logs, m), FailureAccounted(logs, m, f)
  PROVE  TrailAccounted(logs, WriteOf(m, f).rec)
<1>1. m.trail \in Seq(Entries)
  BY MessageSound, SMTT(20), Zenon
<1>2. PICK delay : /\ WriteOf(m, f).rec.root = m.root
                   /\ WriteOf(m, f).rec.trail = Append(m.trail, Failure(f, delay))
  <2>1. CASE GoesToDLQ(GetRetryAttempt(m) + 1, f)
    <3>1. /\ WriteOf(m, f).rec.root = m.root
          /\ WriteOf(m, f).rec.trail = Append(m.trail, Failure(f, 0))
      BY <2>1, Zenon DEF WriteOf, send
    <3> QED
      BY <3>1
  <2>2. CASE ~GoesToDLQ(GetRetryAttempt(m) + 1, f)
    <3>1. /\ WriteOf(m, f).rec.root = m.root
          /\ WriteOf(m, f).rec.trail =
                Append(m.trail, Failure(f, computeBackoff(GetRetryAttempt(m) + 1)))
      BY <2>2, Zenon DEF WriteOf, send
    <3> QED
      BY <3>1
  <2> QED
    BY <2>1, <2>2
<1> DEFINE e == Failure(f, delay)
           rec == WriteOf(m, f).rec
<1>3. AccountedFor(Beside(logs, m.root, m.trail), m.root, m.trail, e)
  BY EntryAccounted DEF FailureAccounted
<1>4. rec.root = m.root /\ rec.trail = Append(m.trail, e)
  BY <1>2, SMTT(20), Zenon
<1> HIDE DEF e, rec
<1>5. ASSUME NEW n \in DOMAIN rec.trail
      PROVE  AccountedFor(Beside(logs, rec.root, Before(rec.trail, n)), rec.root, Before(rec.trail, n),
                          rec.trail[n])
  <2>1. CASE n \in DOMAIN m.trail
    <3>1. rec.trail[n] = m.trail[n] /\ Before(rec.trail, n) = Before(m.trail, n)
      BY <1>1, <1>4, <2>1, History
    <3> QED
      BY <1>4, <2>1, <3>1, Zenon DEF TrailAccounted
  <2>2. CASE n = Len(m.trail) + 1
    <3>1. rec.trail[n] = e /\ Before(rec.trail, n) = m.trail
      BY <1>1, <1>4, <2>2, History
    <3> QED
      BY <1>3, <1>4, <3>1, Zenon
  <2>3. n \in DOMAIN m.trail \/ n = Len(m.trail) + 1
    BY <1>1, <1>4, History
  <2> QED
    BY <2>1, <2>2, <2>3
<1> QED
  BY <1>5 DEF TrailAccounted, rec

\* A consumer that takes up no message, call or write of its own.
LEMMA HandsKept ==
  ASSUME NEW c \in Consumers, HandsAccounted(log, c), UNCHANGED log,
         batch'[c] = batch[c] \/ batch'[c] = <<>>,
         calls'[c] \subseteq calls[c],
         writes'[c] = writes[c] \/ writes'[c] = <<>>
  PROVE  HandsAccounted(log, c)'
<1>1. DOMAIN <<>> = {} /\ Len(<<>>) = 0 /\ 0 \in Nat /\ 0 <= BatchSize
  BY ConstantTypes
<1>2. \A i \in DOMAIN batch'[c] : TrailAccounted(log, batch'[c][i])
  BY <1>1, Zenon DEF HandsAccounted
<1>3. \A i \in DOMAIN writes'[c] : TrailAccounted(log, writes'[c][i].rec)
  BY <1>1, Zenon DEF HandsAccounted
<1>4. Polled(log, c, batch'[c])
  <2>1. Polled(log, c, <<>>)
    BY <1>1, Zenon DEF Polled
  <2> QED
    BY <2>1, Zenon DEF HandsAccounted
<1> QED
  BY <1>2, <1>3, <1>4, Zenon DEF HandsAccounted

\* The messages of a batch are records of the log, beside one another (Poll).
LEMMA PollAccounted ==
  ASSUME RInv, AInv, NEW c \in Consumers, Poll(c)
  PROVE  HandsAccounted(log, c)'
<1>1. PICK n \in 1 .. BatchSize :
         /\ stored[c] + n <= Len(log[c])
         /\ batch' = [batch EXCEPT ![c] = [i \in 1 .. n |-> MessageAt(c, stored[c] + i - 1)]]
  BY Zenon DEF Poll
<1>2. UNCHANGED <<calls, writes, log>>
  BY DEF Poll
<1>3. /\ stored[c] \in Nat /\ Len(log[c]) \in Nat /\ DOMAIN log[c] = 1 .. Len(log[c])
      /\ c \in DOMAIN batch /\ c \in Topics /\ BatchSize \in Nat
  <2>1. log \in [Topics -> Seq(Contents)] /\ stored \in [Consumers -> Nat] /\ c \in DOMAIN batch
    BY Types, Zenon
  <2>2. c \in Topics
    BY Consumer
  <2> QED
    BY <2>1, <2>2, Lengths, ConstantTypes
<1>4. batch'[c] = [i \in 1 .. n |-> MessageAt(c, stored[c] + i - 1)]
  BY <1>1, <1>3, Zenon
<1>5. ASSUME NEW i \in 1 .. n
      PROVE  /\ stored[c] + i \in DOMAIN log[c]
             /\ Carries(MessageAt(c, stored[c] + i - 1), log[c][stored[c] + i])
             /\ TrailAccounted(log, MessageAt(c, stored[c] + i - 1))
  <2>1. stored[c] + i \in DOMAIN log[c] /\ (stored[c] + i - 1) + 1 = stored[c] + i
    BY <1>1, <1>3, SMTT(20), Zenon
  <2>2. TrailAccounted(log, log[c][stored[c] + i])
    BY <1>3, <2>1, Zenon DEF AInv, LogsAccounted
  <2>3. Carries(MessageAt(c, stored[c] + i - 1), log[c][stored[c] + i])
    BY ONLY <2>1, Zenon DEF MessageAt, Carries
  <2> QED
    BY <2>1, <2>2, <2>3, Zenon DEF TrailAccounted, Carries
<1>6. \A i \in DOMAIN batch'[c] : TrailAccounted(log, batch'[c][i])
  BY <1>4, <1>5, Zenon
<1>7. Polled(log, c, batch'[c])
  <2>1. Len(batch'[c]) = n /\ DOMAIN batch'[c] = 1 .. n /\ n <= BatchSize
    BY <1>3, <1>4
  <2>2. \A i \in DOMAIN batch'[c] :
           stored[c] + i \in DOMAIN log[c] /\ Carries(batch'[c][i], log[c][stored[c] + i])
    BY <1>4, <1>5, <2>1, Zenon
  <2> QED
    BY <1>3, <2>1, <2>2, Zenon DEF Polled
<1> QED
  BY <1>2, <1>6, <1>7, Zenon DEF AInv, HandsAccounted

\* An interrupted wait needs no script to account for it (Interrupted).
LEMMA InterruptedAccounted ==
  ASSUME RInv, AInv, NEW c \in Consumers, Interrupted(c)
  PROVE  HandsAccounted(log, c)'
<1> DEFINE f == [err |-> "cancelled", step |-> 0, code |-> ""]
<1>1. calls'[c] = WholeCall(batch[c], f) /\ UNCHANGED <<batch, writes, log>>
  BY Types, Zenon DEF Interrupted
<1>2. \A m : FailureAccounted(log, m, f)
  BY DEF FailureAccounted, AccountedFor
<1> HIDE DEF f
<1>3. HandsAccounted(log, c)
  BY DEF AInv
<1>4. ASSUME NEW call \in calls'[c]
      PROVE  CallAccounted(log, call)
  <2>1. call.msgs = batch[c] /\ call.f = f
    BY <1>1 DEF WholeCall
  <2> QED
    BY <1>2, <1>3, <2>1, Zenon DEF CallAccounted, HandsAccounted
<1> QED
  BY <1>1, <1>3, <1>4, Zenon DEF HandsAccounted

\* The calls for a verdict on a batch whose histories are accounted for (CallsFor).
LEMMA CallsAccounted ==
  ASSUME NEW c \in Consumers, NEW logs \in [Topics -> Seq(Contents)], NEW msgs \in Seq(Messages),
         Polled(logs, c, msgs), \A i \in DOMAIN msgs : TrailAccounted(logs, msgs[i]),
         NEW verdict, verdict = handleBatch(msgs),
         verdict \in [whole : Failures, items : [DOMAIN msgs -> Failures]],
         NEW call \in CallsFor(msgs, verdict)
  PROVE  CallAccounted(logs, call)
<1>1. CASE Failed(verdict.whole)
  <2>1. call.msgs = msgs /\ call.f = verdict.whole
    BY <1>1 DEF CallsFor, WholeCall
  <2>2. \A i \in DOMAIN msgs : FailureAccounted(logs, msgs[i], verdict.whole)
    BY <1>1, WholeAccounted DEF FailureAccounted
  <2> QED
    BY ONLY <2>1, <2>2, \A i \in DOMAIN msgs : TrailAccounted(logs, msgs[i]), Zenon DEF CallAccounted
<1>2. CASE ~Failed(verdict.whole)
  <2>1. PICK k \in DOMAIN msgs : call = [at |-> k, msgs |-> <<msgs[k]>>, f |-> verdict.items[k]]
    BY <1>2 DEF CallsFor
  <2>2. verdict.items[k] \in Failures
    OBVIOUS
  <2>3. FailureAccounted(logs, msgs[k], verdict.items[k])
    <3>1. ~Failed(handleBatch(msgs).whole) /\ handleBatch(msgs).items[k] \in Failures
      BY <1>2, <2>2, Zenon
    <3>2. FailureAccounted(logs, msgs[k], handleBatch(msgs).items[k])
      BY <3>1, ItemAccounted
    <3> QED
      BY <3>2, Zenon
  <2>4. call.msgs = <<msgs[k]>> /\ call.f = verdict.items[k]
    BY <2>1
  <2>5. DOMAIN <<msgs[k]>> = {1} /\ <<msgs[k]>>[1] = msgs[k]
    OBVIOUS
  <2>6. TrailAccounted(logs, msgs[k])
    OBVIOUS
  <2> QED
    BY ONLY <2>3, <2>4, <2>5, <2>6, Zenon DEF CallAccounted
<1> QED
  BY <1>1, <1>2

\* The handler's verdict, and what it counts as processed (Process).
LEMMA ProcessAccounted ==
  ASSUME ScriptHandler, RInv, AInv, NEW c \in Consumers, Process(c)
  PROVE  HandsAccounted(log, c)' /\ \A root \in processed' : SaidOk(log, root)
<1>1. PICK verdict \in Verdicts(batch[c]) :
         /\ verdict \in [whole : Failures, items : [DOMAIN batch[c] -> Failures]]
         /\ calls' = [calls EXCEPT ![c] = CallsFor(batch[c], verdict)]
         /\ processed' = processed \cup
               {batch[c][i].root : i \in {i \in DOMAIN batch[c] :
                   ~Failed(verdict.whole) /\ ~Failed(verdict.items[i])}}
  BY Zenon DEF Process
<1>2. UNCHANGED <<batch, writes, log>>
  BY DEF Process
<1>3. batch[c] \in Seq(Messages) /\ c \in DOMAIN calls /\ log \in [Topics -> Seq(Contents)]
  BY Types, Zenon
<1>4. verdict = handleBatch(batch[c])
  BY <1>1, <1>3 DEF ScriptHandler, ScriptVerdicts
<1>5. HandsAccounted(log, c)
  BY DEF AInv
<1>6. \A call \in CallsFor(batch[c], verdict) : CallAccounted(log, call)
  BY <1>1, <1>3, <1>4, <1>5, CallsAccounted, Zenon DEF HandsAccounted
<1>7. calls'[c] = CallsFor(batch[c], verdict)
  BY <1>1, <1>3, Zenon
<1>8. ASSUME NEW i \in DOMAIN batch[c], ~Failed(verdict.whole), ~Failed(verdict.items[i])
      PROVE  SaidOk(log, batch[c][i].root)
  <2>1. carryOut(resolve(batch[c][i])) = NoFailure
    BY <1>4, <1>8, OwnOutcome DEF Failed
  <2>2. resolve(batch[c][i]).kind = "ok"
    BY <2>1, CarriedOut, Zenon
  <2>3. PICK j \in DOMAIN log[c] : Carries(batch[c][i], log[c][j])
    BY <1>3, <1>5, PolledTogether DEF HandsAccounted
  <2>4. log[c][j].root = batch[c][i].root /\ resolve(log[c][j]).kind = "ok"
    BY <2>2, <2>3, SameOutcome, Zenon DEF Carries
  <2> QED
    BY <2>4, Zenon DEF SaidOk
<1>9. ASSUME NEW root \in processed'
      PROVE  SaidOk(log, root)
  <2>1. root \in processed \/ \E i \in DOMAIN batch[c] : /\ ~Failed(verdict.whole) /\ ~Failed(verdict.items[i])
                                                        /\ root = batch[c][i].root
    BY <1>1, <1>9, Zenon
  <2> QED
    BY <1>8, <2>1, Zenon DEF AInv
<1> QED
  BY <1>2, <1>5, <1>6, <1>7, <1>9, Zenon DEF HandsAccounted

\* What a call writes (HandleError).
LEMMA HandleErrorAccounted ==
  ASSUME RInv, AInv, NEW c \in Consumers, HandleError(c)
  PROVE  HandsAccounted(log, c)'
<1>0. UNCHANGED log
  BY Zenon DEF HandleError
<1>1. PICK call \in Current(c) :
         \/ /\ writes' = [writes EXCEPT ![c] = Sent(call, Len(call.msgs))]
            /\ UNCHANGED <<batch, calls>>
         \/ /\ \E n \in 0 .. Len(call.msgs) - 1 : writes' = [writes EXCEPT ![c] = Sent(call, n)]
            /\ StopWithError(c)
  BY Zenon DEF HandleError
<1>2. /\ call \in calls[c] /\ call \in Calls /\ c \in DOMAIN writes
      /\ c \in DOMAIN batch /\ c \in DOMAIN calls
  BY Types, Zenon DEF Current
<1>3. /\ call.msgs \in Seq(Messages) /\ Len(call.msgs) \in Nat /\ DOMAIN call.msgs = 1 .. Len(call.msgs)
      /\ \A i \in DOMAIN call.msgs : call.msgs[i] \in Messages
  BY <1>2, Elements DEF Calls
<1>4. CallAccounted(log, call) /\ HandsAccounted(log, c)
  BY <1>2, Zenon DEF AInv, HandsAccounted
<1>5. PICK n \in 0 .. Len(call.msgs) : writes' = [writes EXCEPT ![c] = Sent(call, n)]
  BY <1>1, <1>3
<1>6. writes'[c] = [i \in 1 .. n |-> WriteOf(call.msgs[i], call.f)]
  BY <1>2, <1>5, Zenon DEF Sent
<1>7. ASSUME NEW i \in 1 .. n
      PROVE  TrailAccounted(log, WriteOf(call.msgs[i], call.f).rec)
  <2>1. i \in DOMAIN call.msgs
    BY <1>3
  <2> QED
    BY <1>3, <1>4, <2>1, WriteAccounted, Zenon DEF CallAccounted
<1>8. \A i \in DOMAIN writes'[c] : TrailAccounted(log, writes'[c][i].rec)
  BY <1>6, <1>7, Zenon
<1>9. (batch'[c] = batch[c] \/ batch'[c] = <<>>) /\ calls'[c] \subseteq calls[c]
  BY <1>1, <1>2, Zenon DEF StopWithError
<1>10. (\A i \in DOMAIN batch'[c] : TrailAccounted(log, batch'[c][i])) /\ Polled(log, c, batch'[c])
  <2>1. DOMAIN <<>> = {} /\ Len(<<>>) = 0 /\ 0 \in Nat /\ 0 <= BatchSize
    BY ConstantTypes
  <2>2. Polled(log, c, <<>>)
    BY <2>1, Zenon DEF Polled
  <2> QED
    BY <1>4, <1>9, <2>1, <2>2, Zenon DEF HandsAccounted
<1> QED
  BY <1>0, <1>4, <1>8, <1>9, <1>10, Zenon DEF HandsAccounted

\* An answer of the broker: a record it writes has the history it was sent with
\* (BrokerAnswers).
LEMMA BrokerAccounted ==
  ASSUME RInv, AInv, NEW c \in Consumers, BrokerAnswers(c)
  PROVE  OnlyLonger(log, log') /\ LogsAccounted' /\ HandsAccounted(log, c)'
<1>1. PICK i \in DOMAIN writes[c], status \in {"acked", "failed"} :
         /\ \/ log' = [log EXCEPT ![writes[c][i].topic] = Append(@, writes[c][i].rec)]
            \/ UNCHANGED log
         /\ writes' = [writes EXCEPT ![c][i].status = status]
  BY Zenon DEF BrokerAnswers
<1>2. UNCHANGED <<batch, calls>>
  BY Zenon DEF BrokerAnswers
<1>3. /\ log \in [Topics -> Seq(Contents)] /\ writes \in [Consumers -> Seq(Writes)]
      /\ HandsAccounted(log, c) /\ LogsAccounted
  BY Types DEF AInv
<1>4. ASSUME NEW t \in Topics
      PROVE  /\ \A k \in DOMAIN log[t] : k \in DOMAIN log'[t] /\ log'[t][k] = log[t][k]
             /\ \A k \in DOMAIN log'[t] : \/ k \in DOMAIN log[t] /\ log'[t][k] = log[t][k]
                                         \/ log'[t][k] = writes[c][i].rec
  <2>1. log[t] \in Seq(Contents)
    BY <1>3
  <2>2. log'[t] = log[t] \/ log'[t] = Append(log[t], writes[c][i].rec)
    BY <1>1, <1>3, Zenon
  <2> QED
    BY ONLY <2>1, <2>2
<1>5. OnlyLonger(log, log')
  BY <1>4, Zenon DEF OnlyLonger
<1>6. HandsAccounted(log', c)
  BY <1>3, <1>5, HandsStill
<1>7. ASSUME NEW k \in DOMAIN writes'[c]
      PROVE  TrailAccounted(log', writes'[c][k].rec)
  <2>1. /\ k \in DOMAIN writes[c]
        /\ writes'[c][k] = IF k = i THEN [writes[c][i] EXCEPT !.status = status] ELSE writes[c][k]
    BY <1>1, <1>3
  <2>2. writes'[c][k].rec = writes[c][k].rec
    <3>1. writes[c][i] \in Writes
      BY <1>3, Lengths
    <3>2. [writes[c][i] EXCEPT !.status = status].rec = writes[c][i].rec
      BY <3>1 DEF Writes
    <3> QED
      BY <2>1, <3>2, Zenon
  <2> QED
    BY <1>6, <2>1, <2>2, Zenon DEF HandsAccounted
<1>8. ASSUME NEW t \in Topics, NEW k \in DOMAIN log'[t]
      PROVE  TrailAccounted(log', log'[t][k])
  <2>1. CASE k \in DOMAIN log[t] /\ log'[t][k] = log[t][k]
    <3>1. TrailAccounted(log, log[t][k])
      BY <1>3, <2>1, Zenon DEF LogsAccounted
    <3> QED
      BY <1>5, <2>1, <3>1, TrailStill
  <2>2. CASE log'[t][k] = writes[c][i].rec
    BY <1>6, <2>2, Zenon DEF HandsAccounted
  <2> QED
    BY <1>4, <2>1, <2>2, Zenon
<1>9. LogsAccounted'
  BY <1>8, Zenon DEF LogsAccounted
<1>10. HandsAccounted(log, c)'
  BY <1>2, <1>6, <1>7, Zenon DEF HandsAccounted
<1> QED
  BY <1>5, <1>9, <1>10

\* A step of one consumer that leaves the other consumer alone.
LEMMA OthersAccounted ==
  ASSUME AInv, NEW c \in Consumers, OnlyLonger(log, log'), HandsAccounted(log, c)', LogsAccounted',
         \A root \in processed' : SaidOk(log, root),
         \A d \in Consumers : d # c => UNCHANGED <<batch[d], calls[d], writes[d]>>
  PROVE  AInv'
<1>1. ASSUME NEW d \in Consumers, d # c
      PROVE  HandsAccounted(log, d)'
  <2>1. batch'[d] = batch[d] /\ calls'[d] = calls[d] /\ writes'[d] = writes[d]
    BY <1>1
  <2>2. HandsAccounted(log', d)
    BY HandsStill DEF AInv
  <2> QED
    BY ONLY <2>1, <2>2, Zenon DEF HandsAccounted
<1>2. \A root \in processed' : SaidOk(log', root)
  BY OkStill, Zenon
<1> QED
  BY <1>1, <1>2 DEF AInv

\* A step that only takes messages, calls and writes away.
LEMMA DropAccounted ==
  ASSUME AInv, UNCHANGED <<log, processed>>,
         \A d \in Consumers : /\ batch'[d] = batch[d] \/ batch'[d] = <<>>
                              /\ calls'[d] \subseteq calls[d]
                              /\ writes'[d] = writes[d] \/ writes'[d] = <<>>
  PROVE  AInv'
<1>0. log' = log /\ processed' = processed
  OBVIOUS
<1>1. LogsAccounted'
  BY <1>0, Zenon DEF AInv, LogsAccounted
<1>2. \A d \in Consumers : HandsAccounted(log, d)'
  BY <1>0, HandsKept DEF AInv
<1>3. \A root \in processed' : SaidOk(log', root)
  BY <1>0, Zenon DEF AInv
<1> QED
  BY <1>1, <1>2, <1>3 DEF AInv

\* Every step keeps the invariant.
LEMMA NextAccounted ==
  ASSUME ScriptHandler, RInv, AInv, [Next]_vars
  PROVE  AInv'
<1>1. /\ batch \in [Consumers -> Seq(Messages)] /\ calls \in [Consumers -> SUBSET Calls]
      /\ writes \in [Consumers -> Seq(Writes)]
  BY Types
<1>2. ASSUME NEW c \in Consumers, Poll(c) \/ Interrupted(c) \/ Process(c) \/ HandleError(c)
      PROVE  AInv'
  <2>1. HandsAccounted(log, c)'
    BY <1>2, PollAccounted, InterruptedAccounted, ProcessAccounted, HandleErrorAccounted
  <2>2. LogsAccounted' /\ OnlyLonger(log, log')
    <3>1. log' = log
      BY <1>2, Zenon DEF Poll, Interrupted, Process, HandleError
    <3> QED
      BY <3>1, SameLogs, Zenon DEF AInv, LogsAccounted
  <2>3. ASSUME NEW d \in Consumers, d # c
        PROVE  UNCHANGED <<batch[d], calls[d], writes[d]>>
    <3>1. CASE Poll(c)
      BY <1>1, <2>3, <3>1, Zenon DEF Poll
    <3>2. CASE Interrupted(c)
      BY <1>1, <2>3, <3>2, Zenon DEF Interrupted
    <3>3. CASE Process(c)
      BY <1>1, <2>3, <3>3, Zenon DEF Process
    <3>4. CASE HandleError(c)
      BY <1>1, <2>3, <3>4, Zenon DEF HandleError, StopWithError
    <3> QED
      BY <1>2, <3>1, <3>2, <3>3, <3>4
  <2>4. \A root \in processed' : SaidOk(log, root)
    <3>1. CASE Process(c)
      BY <3>1, ProcessAccounted
    <3>2. CASE Poll(c) \/ Interrupted(c) \/ HandleError(c)
      <4>1. processed' = processed
        BY <3>2, Zenon DEF Poll, Interrupted, HandleError
      <4> QED
        BY <4>1 DEF AInv
    <3> QED
      BY <1>2, <3>1, <3>2
  <2> QED
    BY <2>1, <2>2, <2>3, <2>4, OthersAccounted
<1>3. ASSUME NEW c \in Consumers, BrokerAnswers(c)
      PROVE  AInv'
  <2>1. HandsAccounted(log, c)' /\ LogsAccounted' /\ OnlyLonger(log, log')
    BY <1>3, BrokerAccounted
  <2>2. ASSUME NEW d \in Consumers, d # c
        PROVE  UNCHANGED <<batch[d], calls[d], writes[d]>>
    BY <1>1, <1>3, <2>2, Zenon DEF BrokerAnswers
  <2>3. \A root \in processed' : SaidOk(log, root)
    <3>1. processed' = processed
      BY <1>3, Zenon DEF BrokerAnswers
    <3> QED
      BY <3>1 DEF AInv
  <2> QED
    BY <2>1, <2>2, <2>3, OthersAccounted, Zenon
<1>4. ASSUME NEW c \in Consumers, awaitWrites(c) \/ Store(c) \/ CloseStrategy(c) \/ Crash(c)
      PROVE  AInv'
  <2>1. UNCHANGED <<log, processed>>
    BY <1>4, Zenon DEF awaitWrites, Store, CloseStrategy, Crash
  <2>2. ASSUME NEW d \in Consumers
        PROVE  /\ batch'[d] = batch[d] \/ batch'[d] = <<>>
               /\ calls'[d] \subseteq calls[d]
               /\ writes'[d] = writes[d] \/ writes'[d] = <<>>
    <3>1. CASE awaitWrites(c)
      BY <1>1, <3>1, Zenon DEF awaitWrites, StopWithError
    <3>2. CASE Store(c)
      BY <1>1, <3>2, Zenon DEF Store
    <3>3. CASE CloseStrategy(c)
      BY <1>1, <3>3, Zenon DEF CloseStrategy
    <3>4. CASE Crash(c)
      BY <1>1, <3>4, Zenon DEF Crash
    <3> QED
      BY <1>4, <3>1, <3>2, <3>3, <3>4, Zenon
  <2> QED
    BY <2>1, <2>2, DropAccounted
<1>5. CASE UNCHANGED <<log, batch, calls, writes, processed>>
  <2>1. /\ UNCHANGED <<log, processed>>
        /\ \A d \in Consumers : /\ batch'[d] = batch[d] \/ batch'[d] = <<>>
                                /\ calls'[d] \subseteq calls[d]
                                /\ writes'[d] = writes[d] \/ writes'[d] = <<>>
    BY <1>5, Zenon
  <2> QED
    BY <2>1, DropAccounted
<1>6. ASSUME NEW c \in Consumers,
             \/ WaitUntilRetryTime(c) \/ CtxDone(c) \/ FinalCommit(c) \/ Cancel(c) \/ Restart(c)
             \/ PollNothing(c)
      PROVE  AInv'
  <2>1. UNCHANGED <<log, batch, calls, writes, processed>>
    BY <1>6, Zenon DEF WaitUntilRetryTime, CtxDone, FinalCommit, Cancel, Restart, PollNothing, vars, perConsumer
  <2> QED
    BY <1>5, <2>1
<1>7. CASE Tick \/ UNCHANGED vars
  <2>1. UNCHANGED <<log, batch, calls, writes, processed>>
    BY <1>7, Zenon DEF Tick, vars, perConsumer
  <2> QED
    BY <1>5, <2>1
<1> QED
  BY <1>2, <1>3, <1>4, <1>6, <1>7 DEF Next, Step

\* One bad record does not drag its batch along, whatever the scripts, the
\* attempts the source records arrive with, the batches and the faults: each
\* failure in the history of a retry or DLQ record is what the record's own
\* script gives for that attempt, or what the batchko or the panic of a record
\* that can be polled with it gives the batch, or an interrupted wait; and what
\* counts as processed has a record at an attempt its script says ok for
\* (handleBatch, resolve, carryOut).
THEOREM FailuresAreAccountedFor ==
  ASSUME ScriptHandler
  PROVE  Spec => []OwnVerdict
<1>1. Init => AInv
  <2> SUFFICES ASSUME Init
               PROVE  AInv
    OBVIOUS
  <2>1. DOMAIN <<>> = {} /\ Len(<<>>) = 0 /\ 0 \in Nat /\ 0 <= BatchSize
    BY ConstantTypes
  <2>2. ASSUME NEW c \in Consumers
        PROVE  HandsAccounted(log, c)
    <3>1. batch[c] = <<>> /\ calls[c] = {} /\ writes[c] = <<>>
      BY Zenon DEF Init
    <3>2. Polled(log, c, <<>>)
      BY <2>1, Zenon DEF Polled
    <3> QED
      BY <2>1, <3>1, <3>2, Zenon DEF HandsAccounted
  <2>3. ASSUME NEW t \in Topics, NEW i \in DOMAIN log[t]
        PROVE  TrailAccounted(log, log[t][i])
    <3>1. log[t][i].trail = <<>>
      BY DEF Init
    <3> QED
      BY <2>1, <3>1, Zenon DEF TrailAccounted
  <2>4. processed = {}
    BY DEF Init
  <2> QED
    BY <2>2, <2>3, <2>4 DEF AInv, LogsAccounted
<1>2. RInv /\ AInv /\ [Next]_vars => AInv'
  BY NextAccounted
<1>3. AInv => OwnVerdict
  <2> SUFFICES ASSUME AInv
               PROVE  OwnVerdict
    OBVIOUS
  <2>1. "retry" \in Topics /\ "dlq" \in Topics
    BY DEF Topics, Consumers
  <2>2. ASSUME NEW t \in {"retry", "dlq"}, NEW rec \in Records(t), NEW n \in DOMAIN rec.trail
        PROVE  AccountedFor(Beside(log, rec.root, SubSeq(rec.trail, 1, n - 1)), rec.root,
                            SubSeq(rec.trail, 1, n - 1), rec.trail[n])
    <3>1. t \in Topics
      BY <2>1, SMTT(20), Zenon
    <3>2. PICK i \in DOMAIN log[t] : rec = log[t][i]
      BY DEF Records
    <3>3. TrailAccounted(log, rec)
      BY <3>1, <3>2, Zenon DEF AInv, LogsAccounted
    <3> QED
      BY <3>3, Zenon DEF TrailAccounted, Before
  <2>3. ASSUME NEW root \in processed
        PROVE  \E t \in Consumers : \E rec \in Records(t) : rec.root = root /\ resolve(rec).kind = "ok"
    <3>1. SaidOk(log, root)
      BY DEF AInv
    <3>2. PICK t \in Consumers : \E i \in DOMAIN log[t] : log[t][i].root = root /\ resolve(log[t][i]).kind = "ok"
      BY <3>1, Zenon DEF SaidOk
    <3>3. PICK i \in DOMAIN log[t] : log[t][i].root = root /\ resolve(log[t][i]).kind = "ok"
      BY <3>2, Zenon
    <3>4. log[t][i] \in Records(t)
      BY Zenon DEF Records
    <3> QED
      BY <3>3, <3>4, Zenon
  <2> QED
    BY <2>2, <2>3, Zenon DEF OwnVerdict
<1> QED
  BY <1>1, <1>2, <1>3, PipelineInvariance, PTL DEF Spec

=============================================================================
