------------------------ MODULE CircuitBreakerProofs ------------------------
(***************************************************************************)
(* Proofs about CircuitBreaker, for any number of callers, any             *)
(* configuration and any number of results.                                *)
(***************************************************************************)
EXTENDS CircuitBreaker, FiniteSetTheorems, SequenceTheorems, TLAPS

\* The breaker is configured with natural numbers, and the bounds are natural too.
LEMMA Numbers ==
  /\ FailureThreshold \in Nat \ {0} /\ ResetTimeout \in Nat \ {0}
  /\ HalfOpenMaxCalls \in Nat \ {0}
  /\ MinRequests \in Nat /\ WindowSize \in Nat /\ RateNum \in Nat /\ RateDen \in Nat \ {0}
  /\ MaxTime \in Nat /\ MaxResults \in Nat
BY ConfigAssumption, BoundsAssumption

-----------------------------------------------------------------------------
(***************************************************************************)
(* Runs of failures, and samples that leave the window.                    *)
(***************************************************************************)

\* What Append does to a log, item by item.
LEMMA LogGrows ==
  ASSUME NEW T, NEW l \in Seq(T), NEW r \in T
  PROVE  /\ Append(l, r) \in Seq(T)
         /\ Len(Append(l, r)) = Len(l) + 1
         /\ DOMAIN Append(l, r) = 1..(Len(l) + 1)
         /\ DOMAIN l = 1..Len(l)
         /\ Len(l) \in Nat
         /\ \A i \in 1..Len(l) : Append(l, r)[i] = l[i]
         /\ Append(l, r)[Len(l) + 1] = r
         /\ Last(Append(l, r)) = r
<1>1. Append(l, r) \in Seq(T) /\ Len(Append(l, r)) = Len(l) + 1 /\ Len(l) \in Nat
  BY AppendProperties, LenProperties
<1>2. Append(l, r)[Len(l) + 1] = r /\ \A i \in 1..Len(l) : Append(l, r)[i] = l[i]
  BY AppendProperties
<1>3. DOMAIN Append(l, r) = 1..(Len(l) + 1) /\ DOMAIN l = 1..Len(l)
  BY <1>1, LenProperties
<1>. QED
  BY <1>1, <1>2, <1>3 DEF Last

\* A success ends the run of failures, and a failure makes it one longer.
LEMMA TrailingAppend ==
  ASSUME NEW l \in Seq(Results), NEW r \in Results
  PROVE  /\ Trailing(l) \in Nat
         /\ Trailing(Append(l, r)) = IF r.ok THEN 0 ELSE Trailing(l) + 1
<1>. DEFINE n == Len(l)
            a == Append(l, r)
            Run(s) == {i \in DOMAIN s : \A j \in i..Len(s) : ~s[j].ok}
<1>1. n \in Nat /\ DOMAIN l = 1..n /\ DOMAIN a = 1..(n + 1) /\ Len(a) = n + 1
      /\ a[n + 1] = r /\ \A i \in 1..n : a[i] = l[i]
  BY LogGrows
<1>2. Trailing(l) = Cardinality(Run(l)) /\ Trailing(a) = Cardinality(Run(a))
  BY DEF Trailing
<1>3. IsFiniteSet(Run(l)) /\ n + 1 \notin Run(l)
  <2>1. Run(l) \subseteq 1..n /\ IsFiniteSet(1..n)
    BY <1>1, FS_Interval
  <2>. QED
    BY <2>1, <1>1, FS_Subset
<1>4. Trailing(l) \in Nat
  BY <1>2, <1>3, FS_CardinalityType
<1>5. CASE r.ok
  <2>1. ASSUME NEW i \in Run(a) PROVE FALSE
    <3>1. i \in 1..(n + 1) /\ n + 1 \in i..Len(a)
      BY <1>1
    <3>. QED
      BY <3>1, <1>1, <1>5
  <2>2. Run(a) = {}
    BY <2>1
  <2>. QED
    BY <1>2, <1>4, <1>5, <2>2, FS_EmptySet
<1>6. CASE ~r.ok
  <2>1. ASSUME NEW i \in Run(a), i # n + 1 PROVE i \in Run(l)
    <3>1. i \in 1..n /\ \A j \in i..n : j \in i..Len(a) /\ j \in 1..n
      BY <1>1, <2>1
    <3>. QED
      BY <3>1, <1>1
  <2>2. ASSUME NEW i \in Run(l) PROVE i \in Run(a)
    <3>1. i \in 1..(n + 1) /\ \A j \in i..(n + 1) : j = n + 1 \/ (j \in i..n /\ j \in 1..n)
      BY <1>1
    <3>. QED
      BY <3>1, <1>1, <1>6
  <2>3. n + 1 \in Run(a)
    <3>1. n + 1 \in DOMAIN a /\ \A j \in (n + 1)..Len(a) : j = n + 1
      BY <1>1
    <3>. QED
      BY <3>1, <1>1, <1>6
  <2>4. Run(a) = Run(l) \union {n + 1}
    BY <2>1, <2>2, <2>3
  <2>5. Cardinality(Run(l) \union {n + 1}) = Cardinality(Run(l)) + 1
    BY <1>3, FS_AddElement
  <2>. QED
    BY <1>2, <1>4, <1>6, <2>4, <2>5
<1>. QED
  BY <1>5, <1>6

\* A set of natural numbers has a least element.
LEMMA LeastOf ==
  ASSUME NEW S \in SUBSET Nat, S # {}
  PROVE  LET m == CHOOSE i \in S : \A j \in S : i <= j IN m \in S /\ \A j \in S : m <= j
<1>1. PICK m \in S : \A j \in S : <<j, m>> \notin OpToRel(<, Nat)
  BY NatLessThanWellFounded, WFMin
<1>2. ASSUME NEW j \in S PROVE ~(j < m)
  <2>1. <<j, m>> \notin OpToRel(<, Nat) /\ j \in Nat /\ m \in Nat
    BY <1>1
  <2>. QED
    BY <2>1, Zenon DEF OpToRel
<1>3. \A j \in S : m <= j
  BY <1>2
<1>. QED
  BY <1>3

\* Pruning drops what lies before the window, from the oldest on, and nothing else.
LEMMA PrunedKeeps ==
  ASSUME NEW s \in Seq(Samples), s # << >>, NEW t \in Nat, s[Len(s)].at = t
  PROVE  \E m \in 1..Len(s) :
           /\ Pruned(s, t) = SubSeq(s, m, Len(s))
           /\ s[m].at >= t - WindowSize
           /\ \A i \in 1..(m - 1) : s[i].at < t - WindowSize
<1>. DEFINE n == Len(s)
            kept == {i \in DOMAIN s : s[i].at >= t - WindowSize}
            m == CHOOSE i \in kept : \A j \in kept : i <= j
<1>1. n \in Nat /\ n >= 1 /\ DOMAIN s = 1..n /\ \A i \in 1..n : s[i] \in Samples
  BY LenProperties, EmptySeq, ElementOfSeq
<1>2. n \in kept
  BY <1>1, Numbers DEF Samples
<1>3. m \in kept /\ \A j \in kept : m <= j
  <2>1. kept \in SUBSET Nat /\ kept # {}
    BY <1>1, <1>2
  <2>. HIDE DEF kept
  <2>. QED
    BY <2>1, LeastOf
<1>4. Pruned(s, t) = SubSeq(s, m, n)
  BY <1>2 DEF Pruned
<1>5. ASSUME NEW i \in 1..(m - 1) PROVE s[i].at < t - WindowSize
  <2>. HIDE DEF m
  <2>1. i \in 1..n /\ i \notin kept
    BY <1>1, <1>3
  <2>2. s[i].at \in Int
    BY <2>1, <1>1, Numbers DEF Samples
  <2>. QED
    BY <1>1, <2>1, <2>2, Numbers
<1>. HIDE DEF m
<1>. QED
  BY <1>1, <1>3, <1>4, <1>5

-----------------------------------------------------------------------------
(***************************************************************************)
(* The inductive invariant.                                                *)
(***************************************************************************)

\* A probe that was counted is still under way or has moved the breaker on.
ProbeInv == state = "HALF_OPEN" /\ halfOpenInflight > 0 => probing # {}

\* An OPEN breaker was opened by the last result that opened it, at its time.
Trips(l) == {i \in DOMAIN l : l[i].opens}

TripInv ==
  state = "OPEN" =>
    \E i \in Trips(log) : log[i].at = openedAt /\ \A j \in Trips(log) : j <= i

\* The samples are what is left of the log after its first k results, and each of
\* those had left the window when a later one was recorded.
Window(k) ==
  /\ k \in 0..Len(log) /\ Len(samples) = Len(log) - k
  /\ \A i \in 1..Len(samples) : samples[i].at = log[k + i].at /\ samples[i].ok = log[k + i].ok
  /\ \A i \in 1..k : \E j \in i..Len(log) : log[i].at < log[j].at - WindowSize

WindowInv == WindowSize > 0 => \E k \in 0..Len(log) : Window(k)

BreakerInv == TypeOK /\ CountsTheRun /\ ProbeInv /\ TripInv /\ WindowInv

\* The last trip of a log is the one after which there is none.
LEMMA LastTripIs ==
  ASSUME NEW l \in Seq(Results), NEW i \in Trips(l), \A j \in Trips(l) : j <= i
  PROVE  LastTrip(l) = l[i].at
<1>1. Trips(l) \subseteq Nat
  BY LenProperties DEF Trips
<1>2. \A m \in Trips(l) : (\A j \in Trips(l) : m >= j) => m = i
  BY <1>1
<1>3. Max(Trips(l)) = i
  <2>1. \A j \in Trips(l) : i >= j
    BY <1>1
  <2>. QED
    BY <1>2, <2>1 DEF Max
<1>. QED
  BY <1>3 DEF LastTrip, Trips

\* A step that records nothing.
Quiet ==
  /\ UNCHANGED <<log, samples, failureCount, openedAt>>
  /\ state' = state \/ (state = "OPEN" /\ state' = "HALF_OPEN")

\* A step that records a result of caller c.
Result(c, ok) ==
  /\ log' = Append(log, [at |-> now[c], ok |-> ok, opens |-> state # "OPEN" /\ state' = "OPEN"])
  /\ AppendSample(now[c], ok)

\* The breaker opens when it was not OPEN and a failure comes in, and counts a
\* failure while it stays CLOSED.
Opens(c) == state # "OPEN" /\ state' = "OPEN" /\ openedAt' = now[c]

\* What a step can be: quiet, a success or a failure.
LEMMA StepKinds ==
  ASSUME TypeOK, [Next]_vars
  PROVE  \/ Quiet
         \/ \E c \in Callers : RecordSuccess(c)
         \/ \E c \in Callers : RecordFailure(c)
<1>1. ASSUME NEW c \in Callers, Ask(c) PROVE Quiet
  BY <1>1 DEF Ask, Quiet, breaker
<1>2. ASSUME NEW c \in Callers, Allow(c) PROVE Quiet
  BY <1>2 DEF Allow, Quiet, StateAt, ResetDue
<1>3. ASSUME NEW c \in Callers, BankAnswers(c) PROVE Quiet
  BY <1>3 DEF BankAnswers, Quiet, breaker
<1>4. CASE State
  BY <1>4 DEF State, ResetDue, Quiet
<1>5. CASE Tick
  BY <1>5 DEF Tick, Quiet, breaker
<1>6. CASE UNCHANGED vars
  BY <1>6 DEF vars, Quiet, breaker
<1>. QED
  BY <1>1, <1>2, <1>3, <1>4, <1>5, <1>6 DEF Next, Caller

\* A success closes a breaker that probes and resets the count of a closed one.
LEMMA SuccessStep ==
  ASSUME TypeOK, NEW c \in Callers, RecordSuccess(c)
  PROVE  /\ Result(c, TRUE)
         /\ pc' = [pc EXCEPT ![c] = "idle"] /\ probing' = probing \ {c}
         /\ UNCHANGED <<clock, now>>
         /\ state = "OPEN" => UNCHANGED <<state, failureCount, openedAt, halfOpenInflight>>
         /\ state # "OPEN" => state' = "CLOSED" /\ failureCount' = 0
         /\ state = "HALF_OPEN" => openedAt' = 0 /\ halfOpenInflight' = 0
         /\ state = "CLOSED" => UNCHANGED <<openedAt, halfOpenInflight>>
<1>. USE DEF RecordSuccess, Recorded, Logged, Result, ResetCount
<1>1. CASE state = "OPEN"
  BY <1>1
<1>2. CASE state = "HALF_OPEN"
  BY <1>2
<1>3. CASE state = "CLOSED"
  BY <1>3
<1>. QED
  BY <1>1, <1>2, <1>3 DEF TypeOK

\* A failure opens the breaker again, or counts, and opens it when that is enough.
LEMMA FailureStep ==
  ASSUME TypeOK, NEW c \in Callers, RecordFailure(c)
  PROVE  /\ Result(c, FALSE)
         /\ pc' = [pc EXCEPT ![c] = "idle"] /\ probing' = probing \ {c}
         /\ UNCHANGED <<clock, now>>
         /\ state = "OPEN" => UNCHANGED <<state, failureCount, openedAt, halfOpenInflight>>
         /\ state = "HALF_OPEN" => Opens(c) /\ halfOpenInflight' = 0 /\ UNCHANGED failureCount
         /\ state = "CLOSED" =>
              /\ failureCount' = failureCount + 1
              /\ \/ Opens(c) /\ halfOpenInflight' = 0
                    /\ (failureCount' >= FailureThreshold \/ RateReached(samples'))
                 \/ /\ failureCount' < FailureThreshold
                    /\ UNCHANGED <<state, openedAt, halfOpenInflight>>
<1>. USE DEF RecordFailure, Recorded, Logged, Result, ToOpen, OpenedAt, Opens
<1>1. CASE state = "OPEN"
  BY <1>1
<1>2. CASE state = "HALF_OPEN"
  BY <1>2
<1>3. CASE state = "CLOSED"
  <2>1. failureCount' = failureCount + 1
    BY <1>3
  <2>2. CASE failureCount' >= FailureThreshold \/ RateReached(samples')
    BY <1>3, <2>1, <2>2
  <2>3. CASE ~(failureCount' >= FailureThreshold \/ RateReached(samples'))
    <3>1. failureCount' < FailureThreshold
      BY <2>1, <2>3, Numbers DEF TypeOK
    <3>. QED
      BY <1>3, <2>1, <2>3, <3>1
  <2>. QED
    BY <2>2, <2>3
<1>. QED
  BY <1>1, <1>2, <1>3 DEF TypeOK

-----------------------------------------------------------------------------
(***************************************************************************)
(* Every step keeps every part of the invariant.                           *)
(***************************************************************************)

\* What a result does to the log.
LEMMA ResultGrowsLog ==
  ASSUME TypeOK, NEW c \in Callers, NEW ok \in BOOLEAN, Result(c, ok)
  PROVE  /\ log' \in Seq(Results) /\ Len(log) \in Nat /\ Len(log') = Len(log) + 1
         /\ DOMAIN log = 1..Len(log) /\ DOMAIN log' = 1..(Len(log) + 1)
         /\ \A i \in 1..Len(log) : log'[i] = log[i]
         /\ Last(log') = log'[Len(log) + 1]
         /\ log'[Len(log) + 1].at = now[c] /\ log'[Len(log) + 1].ok = ok
         /\ log'[Len(log) + 1].opens = (state # "OPEN" /\ state' = "OPEN")
         /\ Trailing(log) \in Nat
         /\ Trailing(log') = IF ok THEN 0 ELSE Trailing(log) + 1
<1>. DEFINE r == [at |-> now[c], ok |-> ok, opens |-> state # "OPEN" /\ state' = "OPEN"]
<1>1. r \in Results /\ log \in Seq(Results) /\ log' = Append(log, r)
  BY DEF TypeOK, Results, Result
<1>2. r.at = now[c] /\ r.ok = ok /\ r.opens = (state # "OPEN" /\ state' = "OPEN")
  OBVIOUS
<1>. HIDE DEF r
<1>3. Trailing(log) \in Nat /\ Trailing(log') = IF r.ok THEN 0 ELSE Trailing(log) + 1
  BY <1>1, TrailingAppend
<1>. QED
  BY <1>1, <1>2, <1>3, LogGrows

\* What it does to the samples: a new one at the end, and those from the oldest
\* on that have left the window are gone.
LEMMA ResultMovesWindow ==
  ASSUME TypeOK, NEW c \in Callers, NEW ok \in BOOLEAN, Result(c, ok)
  PROVE  /\ samples' \in Seq(Samples)
         /\ WindowSize > 0 =>
              LET n == Len(samples)
                  a == Append(samples, [at |-> now[c], ok |-> ok])
              IN  \E m \in 1..(n + 1) :
                    /\ Len(samples') = n + 2 - m
                    /\ \A i \in 1..(n + 2 - m) : samples'[i] = a[m + i - 1]
                    /\ a[m].at >= now[c] - WindowSize
                    /\ \A i \in 1..(m - 1) : a[i].at < now[c] - WindowSize
<1>. DEFINE r == [at |-> now[c], ok |-> ok]
            a == Append(samples, r)
            n == Len(samples)
<1>1. r \in Samples /\ samples \in Seq(Samples) /\ now[c] \in Nat
  BY Numbers DEF TypeOK, Samples
<1>2. r.at = now[c]
  OBVIOUS
<1>3. CASE WindowSize = 0
  BY <1>1, <1>3, Numbers DEF Result, AppendSample
<1>4. CASE WindowSize > 0
  <2>1. samples' = Pruned(a, now[c])
    BY <1>4, Numbers DEF Result, AppendSample
  <2>. HIDE DEF r
  <2>2. a \in Seq(Samples) /\ Len(a) = n + 1 /\ n \in Nat /\ a[n + 1] = r /\ a # << >>
    BY <1>1, LogGrows, EmptySeq
  <2>. HIDE DEF a, n
  <2>3. PICK m \in 1..(n + 1) :
           /\ samples' = SubSeq(a, m, n + 1)
           /\ a[m].at >= now[c] - WindowSize
           /\ \A i \in 1..(m - 1) : a[i].at < now[c] - WindowSize
    <3>1. a[Len(a)].at = now[c]
      BY <1>2, <2>2
    <3>. QED
      BY <1>1, <2>1, <2>2, <3>1, PrunedKeeps
  <2>4. /\ samples' \in Seq(Samples)
        /\ Len(samples') = n + 2 - m
        /\ \A i \in 1..(n + 2 - m) : samples'[i] = a[m + i - 1]
    <3>1. m \in 1..Len(a) /\ n + 1 \in m..Len(a)
      BY <2>2, <2>3
    <3>2. SubSeq(a, m, n + 1) \in Seq(Samples)
      BY <2>2, <3>1, SubSeqProperties
    <3>3. Len(SubSeq(a, m, n + 1)) = n + 1 - m + 1
      BY <2>2, <3>1, SubSeqProperties
    <3>4. \A i \in 1..(n + 1 - m + 1) : SubSeq(a, m, n + 1)[i] = a[m + i - 1]
      BY <2>2, <3>1, SubSeqProperties
    <3>. QED
      BY <2>2, <2>3, <3>2, <3>3, <3>4
  <2>. QED
    BY <1>4, <2>3, <2>4 DEF a, n, r
<1>5. WindowSize = 0 \/ WindowSize > 0
  BY Numbers
<1>. QED
  BY <1>3, <1>4, <1>5

\* Every step keeps the types, the limits of the two counters among them.
LEMMA TypeStep == ASSUME BreakerInv, [Next]_vars PROVE TypeOK'
<1>. USE Numbers DEF TypeOK
<1>0. TypeOK /\ CountsTheRun
  BY DEF BreakerInv
<1>1. ASSUME NEW c \in Callers, Ask(c) PROVE TypeOK'
  BY <1>0, <1>1 DEF Ask, breaker
<1>2. ASSUME NEW c \in Callers, Allow(c) PROVE TypeOK'
  <2>1. state' \in {"CLOSED", "OPEN", "HALF_OPEN"}
    BY <1>0, <1>2 DEF Allow, StateAt
  <2>2. pc' \in [Callers -> {"idle", "asking", "calling", "failing", "succeeding"}]
    BY <1>0, <1>2 DEF Allow
  <2>3. InflightAt(now[c]) \in 0..HalfOpenMaxCalls
    BY <1>0 DEF InflightAt
  <2>4. halfOpenInflight' \in 0..HalfOpenMaxCalls /\ probing' \subseteq Callers
    <3>1. CASE Admitted(c) /\ state' = "HALF_OPEN"
      <4>1. InflightAt(now[c]) < HalfOpenMaxCalls
        BY <1>2, <3>1 DEF Allow, Admitted
      <4>2. halfOpenInflight' = InflightAt(now[c]) + 1 /\ probing' = probing \union {c}
        BY <1>2, <3>1 DEF Allow
      <4>. QED
        BY <1>0, <2>3, <4>1, <4>2
    <3>2. CASE ~(Admitted(c) /\ state' = "HALF_OPEN")
      BY <1>0, <1>2, <2>3, <3>2 DEF Allow
    <3>. QED
      BY <3>1, <3>2
  <2>. QED
    BY <1>0, <1>2, <2>1, <2>2, <2>4 DEF Allow
<1>3. CASE State
  BY <1>0, <1>3 DEF State
<1>4. ASSUME NEW c \in Callers, BankAnswers(c) PROVE TypeOK'
  BY <1>0, <1>4 DEF BankAnswers, Outcomes, breaker
<1>5. ASSUME NEW c \in Callers, RecordSuccess(c) PROVE TypeOK'
  <2>1. /\ state' \in {"CLOSED", "OPEN", "HALF_OPEN"}
        /\ failureCount' \in 0..FailureThreshold
        /\ openedAt' \in 0..MaxTime
        /\ halfOpenInflight' \in 0..HalfOpenMaxCalls
    <3>1. CASE state = "OPEN"
      BY <1>0, <1>5, <3>1, SuccessStep
    <3>2. CASE state = "HALF_OPEN"
      <4>1. state' = "CLOSED" /\ failureCount' = 0 /\ openedAt' = 0 /\ halfOpenInflight' = 0
        BY <1>0, <1>5, <3>2, SuccessStep
      <4>. QED
        BY <4>1
    <3>3. CASE state = "CLOSED"
      <4>1. state' = "CLOSED" /\ failureCount' = 0 /\ UNCHANGED <<openedAt, halfOpenInflight>>
        BY <1>0, <1>5, <3>3, SuccessStep
      <4>. QED
        BY <1>0, <4>1
    <3>. QED
      BY <1>0, <3>1, <3>2, <3>3
  <2>2. Result(c, TRUE) /\ pc' = [pc EXCEPT ![c] = "idle"] /\ probing' = probing \ {c}
        /\ UNCHANGED <<clock, now>>
    BY <1>0, <1>5, SuccessStep
  <2>3. samples' \in Seq(Samples) /\ log' \in Seq(Results)
    BY <1>0, <2>2, ResultMovesWindow, ResultGrowsLog
  <2>. QED
    BY <1>0, <2>1, <2>2, <2>3
<1>6. ASSUME NEW c \in Callers, RecordFailure(c) PROVE TypeOK'
  <2>1. /\ state' \in {"CLOSED", "OPEN", "HALF_OPEN"}
        /\ failureCount' \in 0..FailureThreshold
        /\ openedAt' \in 0..MaxTime
        /\ halfOpenInflight' \in 0..HalfOpenMaxCalls
    <3>1. CASE state = "CLOSED"
      <4>1. failureCount < FailureThreshold
        BY <1>0, <3>1 DEF CountsTheRun
      <4>2. failureCount' = failureCount + 1
        BY <1>0, <1>6, <3>1, FailureStep
      <4>3. \/ Opens(c) /\ halfOpenInflight' = 0
            \/ UNCHANGED <<state, openedAt, halfOpenInflight>>
        BY <1>0, <1>6, <3>1, FailureStep
      <4>. QED
        BY <1>0, <4>1, <4>2, <4>3 DEF Opens
    <3>2. CASE state = "OPEN"
      <4>1. UNCHANGED <<state, failureCount, openedAt, halfOpenInflight>>
        BY <1>0, <1>6, <3>2, FailureStep
      <4>. QED
        BY <1>0, <4>1
    <3>3. CASE state = "HALF_OPEN"
      <4>1. Opens(c) /\ halfOpenInflight' = 0 /\ UNCHANGED failureCount
        BY <1>0, <1>6, <3>3, FailureStep
      <4>. QED
        BY <1>0, <4>1 DEF Opens
    <3>. QED
      BY <1>0, <3>1, <3>2, <3>3
  <2>2. Result(c, FALSE) /\ pc' = [pc EXCEPT ![c] = "idle"] /\ probing' = probing \ {c}
        /\ UNCHANGED <<clock, now>>
    BY <1>0, <1>6, FailureStep
  <2>3. samples' \in Seq(Samples) /\ log' \in Seq(Results)
    BY <1>0, <2>2, ResultMovesWindow, ResultGrowsLog
  <2>. QED
    BY <1>0, <2>1, <2>2, <2>3
<1>7. CASE Tick
  BY <1>0, <1>7 DEF Tick, breaker
<1>8. CASE UNCHANGED vars
  BY <1>0, <1>8 DEF vars, breaker
<1>. QED
  BY <1>1, <1>2, <1>3, <1>4, <1>5, <1>6, <1>7, <1>8 DEF Next, Caller

\* Every step keeps the count equal to the run of failures, and below the threshold.
LEMMA CountStep == ASSUME BreakerInv, [Next]_vars PROVE CountsTheRun'
<1>0. TypeOK /\ CountsTheRun
  BY DEF BreakerInv
<1>1. CASE Quiet
  BY <1>0, <1>1 DEF Quiet, CountsTheRun, Trailing
<1>2. ASSUME NEW c \in Callers, RecordSuccess(c) PROVE CountsTheRun'
  <2>1. Trailing(log') = 0
    BY <1>0, <1>2, SuccessStep, ResultGrowsLog
  <2>2. state' = "CLOSED" => failureCount' = 0
    BY <1>0, <1>2, SuccessStep
  <2>. QED
    BY <2>1, <2>2, Numbers DEF CountsTheRun, Trailing
<1>3. ASSUME NEW c \in Callers, RecordFailure(c) PROVE CountsTheRun'
  <2>1. SUFFICES ASSUME state' = "CLOSED"
                 PROVE  failureCount' = Trailing(log') /\ failureCount' < FailureThreshold
    BY DEF CountsTheRun, Trailing
  <2>2. state = "CLOSED" /\ failureCount' = failureCount + 1 /\ failureCount' < FailureThreshold
    BY <1>0, <1>3, <2>1, FailureStep DEF Opens, TypeOK
  <2>3. Trailing(log') = Trailing(log) + 1
    BY <1>0, <1>3, FailureStep, ResultGrowsLog
  <2>. QED
    BY <1>0, <2>2, <2>3 DEF CountsTheRun
<1>. QED
  BY <1>0, <1>1, <1>2, <1>3, StepKinds

\* Every step keeps a probe under way for every one that is counted.
LEMMA ProbeStep == ASSUME BreakerInv, [Next]_vars PROVE ProbeInv'
<1>0. TypeOK /\ ProbeInv
  BY DEF BreakerInv
<1>. USE DEF ProbeInv
<1>1. ASSUME NEW c \in Callers, Ask(c) PROVE ProbeInv'
  BY <1>0, <1>1 DEF Ask, breaker
<1>2. ASSUME NEW c \in Callers, Allow(c) PROVE ProbeInv'
  <2>1. CASE Admitted(c) /\ state' = "HALF_OPEN"
    BY <1>2, <2>1 DEF Allow
  <2>2. CASE ~Admitted(c) /\ state' = "HALF_OPEN"
    <3>1. InflightAt(now[c]) >= HalfOpenMaxCalls
      BY <1>0, <1>2, <2>2, Numbers DEF Allow, Admitted, InflightAt, TypeOK
    <3>2. ~ResetDue(now[c])
      BY <3>1, Numbers DEF InflightAt
    <3>. QED
      BY <1>0, <1>2, <2>2, <3>2 DEF Allow, StateAt, InflightAt
  <2>. QED
    BY <2>1, <2>2
<1>3. CASE State
  BY <1>3 DEF State
<1>4. ASSUME NEW c \in Callers, BankAnswers(c) PROVE ProbeInv'
  <2>1. pc'[c] # "idle"
    BY <1>0, <1>4 DEF BankAnswers, Outcomes, TypeOK
  <2>. QED
    BY <1>0, <1>4, <2>1 DEF BankAnswers, breaker
<1>5. ASSUME NEW c \in Callers, RecordSuccess(c) PROVE ProbeInv'
  BY <1>0, <1>5, SuccessStep
<1>6. ASSUME NEW c \in Callers, RecordFailure(c) PROVE ProbeInv'
  BY <1>0, <1>6, FailureStep DEF Opens, TypeOK
<1>7. CASE Tick
  BY <1>0, <1>7 DEF Tick, breaker
<1>8. CASE UNCHANGED vars
  BY <1>0, <1>8 DEF vars, breaker
<1>. QED
  BY <1>1, <1>2, <1>3, <1>4, <1>5, <1>6, <1>7, <1>8 DEF Next, Caller

\* Every step keeps the last trip of the log at the time the breaker remembers.
LEMMA TripStep == ASSUME BreakerInv, [Next]_vars PROVE TripInv'
<1>0. TypeOK /\ TripInv
  BY DEF BreakerInv
<1>1. CASE Quiet
  BY <1>0, <1>1 DEF Quiet, TripInv, Trips
<1>2. ASSUME NEW c \in Callers, NEW ok \in BOOLEAN, Result(c, ok),
             state = "OPEN" => UNCHANGED openedAt,
             state # "OPEN" /\ state' = "OPEN" => openedAt' = now[c]
      PROVE  TripInv'
  <2>. DEFINE n == Len(log)
  <2>1. SUFFICES ASSUME state' = "OPEN"
                 PROVE  \E i \in Trips(log') : /\ log'[i].at = openedAt'
                                               /\ \A j \in Trips(log') : j <= i
    BY DEF TripInv, Trips
  <2>2. /\ n \in Nat /\ DOMAIN log = 1..n /\ DOMAIN log' = 1..(n + 1)
        /\ \A i \in 1..n : log'[i] = log[i]
        /\ log'[n + 1].at = now[c] /\ log'[n + 1].opens = (state # "OPEN")
    BY <1>0, <1>2, <2>1, ResultGrowsLog
  <2>. HIDE DEF n
  <2>3. CASE state = "OPEN"
    <3>1. PICK i \in Trips(log) : log[i].at = openedAt /\ \A j \in Trips(log) : j <= i
      BY <1>0, <2>3 DEF TripInv
    <3>2. Trips(log') = Trips(log)
      <4>1. \A j \in 1..(n + 1) : j \in 1..n \/ j = n + 1
        BY <2>2
      <4>2. \A j \in 1..n : j \in 1..(n + 1)
        BY <2>2
      <4>. QED
        BY <2>2, <2>3, <4>1, <4>2 DEF Trips
    <3>3. log'[i] = log[i]
      BY <2>2 DEF Trips
    <3>. QED
      BY <1>2, <2>3, <3>1, <3>2, <3>3
  <2>4. CASE state # "OPEN"
    <3>1. n + 1 \in Trips(log')
      <4>1. log'[n + 1].opens
        BY <2>2, <2>4, Zenon
      <4>2. n + 1 \in DOMAIN log'
        BY <2>2
      <4>. QED
        BY <4>1, <4>2 DEF Trips
    <3>2. \A j \in Trips(log') : j <= n + 1
      BY <2>2 DEF Trips
    <3>. QED
      BY <1>2, <2>1, <2>2, <2>4, <3>1, <3>2
  <2>. QED
    BY <2>3, <2>4
<1>3. ASSUME NEW c \in Callers, RecordSuccess(c) PROVE TripInv'
  BY <1>0, <1>2, <1>3, SuccessStep
<1>4. ASSUME NEW c \in Callers, RecordFailure(c) PROVE TripInv'
  <2>1. Result(c, FALSE) /\ (state = "OPEN" => UNCHANGED openedAt)
    BY <1>0, <1>4, FailureStep
  <2>2. state # "OPEN" /\ state' = "OPEN" => openedAt' = now[c]
    BY <1>0, <1>4, FailureStep DEF Opens, TypeOK
  <2>. QED
    BY <1>2, <2>1, <2>2
<1>. QED
  BY <1>0, <1>1, <1>3, <1>4, StepKinds

\* A result moves the window on: the log's results after some k are the samples, and
\* the first of them is not older than WindowSize.
LEMMA ResultKeepsWindow ==
  ASSUME TypeOK, WindowInv, WindowSize > 0, NEW c \in Callers, NEW ok \in BOOLEAN, Result(c, ok)
  PROVE  \E k \in 0..Len(log') :
           Window(k)' /\ k < Len(log') /\ log'[k + 1].at >= now[c] - WindowSize
<1>. DEFINE n == Len(log)
            s == Len(samples)
            r == [at |-> now[c], ok |-> ok]
            a == Append(samples, r)
<1>1. PICK k \in 0..n : Window(k)
  BY DEF WindowInv
<1>2. /\ n \in Nat /\ Len(log') = n + 1
      /\ \A i \in 1..n : log'[i] = log[i]
      /\ log'[n + 1].at = now[c] /\ log'[n + 1].ok = ok
      /\ log \in Seq(Results) /\ now[c] \in Nat
  BY ResultGrowsLog, Numbers DEF TypeOK
<1>3. PICK m \in 1..(s + 1) :
        /\ Len(samples') = s + 2 - m
        /\ \A i \in 1..(s + 2 - m) : samples'[i] = a[m + i - 1]
        /\ a[m].at >= now[c] - WindowSize
        /\ \A i \in 1..(m - 1) : a[i].at < now[c] - WindowSize
  BY ResultMovesWindow
<1>4. /\ s = n - k
      /\ \A i \in 1..s : samples[i].at = log[k + i].at /\ samples[i].ok = log[k + i].ok
      /\ \A i \in 1..k : \E j \in i..n : log[i].at < log[j].at - WindowSize
  BY <1>1 DEF Window
<1>5. s \in Nat /\ \A i \in 1..s : a[i] = samples[i]
  <2>1. samples \in Seq(Samples) /\ r \in Samples
    BY DEF TypeOK, Samples
  <2>. QED
    BY <2>1, LogGrows
<1>6. a[s + 1].at = now[c] /\ a[s + 1].ok = ok
  <2>1. samples \in Seq(Samples) /\ r \in Samples
    BY DEF TypeOK, Samples
  <2>2. a[s + 1] = r
    BY <2>1, LogGrows
  <2>. QED
    BY <2>2
<1>. HIDE DEF n, s, a
<1>7. \A i \in 1..(s + 1) : a[i].at = log'[k + i].at /\ a[i].ok = log'[k + i].ok
  <2>1. ASSUME NEW i \in 1..s
        PROVE  a[i].at = log'[k + i].at /\ a[i].ok = log'[k + i].ok
    <3>1. k + i \in 1..n
      BY <1>2, <1>4
    <3>. QED
      BY <1>2, <1>4, <1>5, <3>1
  <2>2. k + (s + 1) = n + 1
    BY <1>2, <1>4
  <2>3. \A i \in 1..(s + 1) : i \in 1..s \/ i = s + 1
    BY <1>5
  <2>. QED
    BY <1>2, <1>6, <2>1, <2>2, <2>3
<1>. DEFINE q == k + m - 1
<1>8. q \in 0..n /\ Len(samples') = n + 1 - q /\ q + 1 = k + m
  BY <1>2, <1>3, <1>4
<1>9. ASSUME NEW i \in 1..(n + 1 - q)
      PROVE  samples'[i].at = log'[q + i].at /\ samples'[i].ok = log'[q + i].ok
  <2>1. i \in 1..(s + 2 - m) /\ m + i - 1 \in 1..(s + 1) /\ k + (m + i - 1) = q + i
    BY <1>2, <1>3, <1>4, <1>5
  <2>. QED
    BY <1>3, <1>7, <2>1
<1>10. ASSUME NEW i \in 1..q
       PROVE  \E j \in i..(n + 1) : log'[i].at < log'[j].at - WindowSize
  <2>1. CASE i \in 1..k
    <3>1. PICK j \in i..n : log[i].at < log[j].at - WindowSize
      BY <1>4, <2>1
    <3>2. i \in 1..n /\ j \in 1..n /\ j \in i..(n + 1)
      BY <1>2, <2>1
    <3>. QED
      BY <1>2, <3>1, <3>2
  <2>2. CASE i \notin 1..k
    <3>1. i - k \in 1..(m - 1) /\ i - k \in 1..(s + 1) /\ k + (i - k) = i /\ n + 1 \in i..(n + 1)
      BY <1>2, <1>3, <1>4, <1>5, <2>2
    <3>2. log'[i].at < now[c] - WindowSize
      BY <1>3, <1>7, <3>1
    <3>. QED
      BY <1>2, <3>1, <3>2
  <2>. QED
    BY <2>1, <2>2
<1>11. log'[q + 1].at >= now[c] - WindowSize
  BY <1>3, <1>7, <1>8
<1>. HIDE DEF q
<1>12. Window(q)'
  BY <1>2, <1>8, <1>9, <1>10 DEF Window
<1>. QED
  BY <1>2, <1>8, <1>11, <1>12

\* Every step keeps the samples at the end of the log.
LEMMA WindowStep == ASSUME BreakerInv, [Next]_vars PROVE WindowInv'
<1>0. TypeOK /\ WindowInv
  BY DEF BreakerInv
<1>1. CASE Quiet
  BY <1>0, <1>1 DEF Quiet, WindowInv, Window
<1>2. ASSUME NEW c \in Callers, NEW ok \in BOOLEAN, Result(c, ok) PROVE WindowInv'
  <2>1. WindowSize > 0 => \E k \in 0..Len(log') : Window(k)'
    BY <1>0, <1>2, ResultKeepsWindow
  <2>. QED
    BY <2>1 DEF WindowInv
<1>3. ASSUME NEW c \in Callers, RecordSuccess(c) PROVE WindowInv'
  BY <1>0, <1>2, <1>3, SuccessStep
<1>4. ASSUME NEW c \in Callers, RecordFailure(c) PROVE WindowInv'
  BY <1>0, <1>2, <1>4, FailureStep
<1>. QED
  BY <1>0, <1>1, <1>3, <1>4, StepKinds

-----------------------------------------------------------------------------
(***************************************************************************)
(* The theorems.                                                           *)
(***************************************************************************)

\* A new breaker is CLOSED and has recorded nothing.
LEMMA BreakerInit == Init => BreakerInv
<1>. SUFFICES ASSUME Init PROVE BreakerInv
  OBVIOUS
<1>1. samples \in Seq(Samples) /\ log \in Seq(Results) /\ Len(log) = 0 /\ Len(samples) = 0
  BY EmptySeq DEF Init
<1>2. TypeOK
  BY <1>1, Numbers DEF Init, TypeOK
<1>3. CountsTheRun
  <2>1. {i \in DOMAIN log : \A j \in i..Len(log) : ~log[j].ok} = {}
    BY DEF Init
  <2>. QED
    BY <2>1, FS_EmptySet, Numbers DEF Init, CountsTheRun, Trailing
<1>4. ProbeInv /\ TripInv
  BY DEF Init, ProbeInv, TripInv
<1>5. Window(0)
  BY <1>1 DEF Window
<1>. QED
  BY <1>1, <1>2, <1>3, <1>4, <1>5 DEF BreakerInv, WindowInv

\* The invariant of the breaker, which the properties below follow from.
THEOREM BreakerHolds == Spec => []BreakerInv
<1>1. BreakerInv /\ [Next]_vars => BreakerInv'
  BY TypeStep, CountStep, ProbeStep, TripStep, WindowStep DEF BreakerInv
<1>. QED
  BY BreakerInit, <1>1, PTL DEF Spec

\* Every variable keeps its type, and the failure count and the number of probes
\* never pass their limits.
THEOREM BreakerTypes == Spec => []TypeOK
BY BreakerHolds, PTL DEF BreakerInv

\* While CLOSED the breaker's count is the number of failures since the last success,
\* however often it was opened in between, and is below the threshold.
THEOREM RunsAreCounted == Spec => []CountsTheRun
BY BreakerHolds, PTL DEF BreakerInv

\* A breaker that admits nobody while it is HALF_OPEN has a probe under way.
THEOREM BreakerMovesOn == Spec => []NeverStuck
<1>1. BreakerInv => NeverStuck
  BY Numbers DEF BreakerInv, ProbeInv, NeverStuck, TypeOK
<1>. QED
  BY BreakerHolds, <1>1, PTL

\* No call goes out within ResetTimeout of the failure that opened the breaker.
THEOREM BreakerStaysShut == Spec => ShutForResetTimeout
<1>1. ASSUME BreakerInv, [Next]_vars, NEW c \in Callers,
             state = "OPEN", pc[c] = "asking", pc'[c] = "calling"
      PROVE  now[c] - LastTrip(log) >= ResetTimeout
  <2>1. TypeOK /\ TripInv
    BY <1>1 DEF BreakerInv
  <2>2. Allow(c)
    <3>. USE <1>1, <2>1 DEF TypeOK
    <3>1. ASSUME NEW d \in Callers, Ask(d) PROVE FALSE
      BY <3>1 DEF Ask
    <3>2. ASSUME NEW d \in Callers, BankAnswers(d) PROVE FALSE
      BY <3>2 DEF BankAnswers
    <3>3. ASSUME NEW d \in Callers, RecordSuccess(d) \/ RecordFailure(d) PROVE FALSE
      BY <3>3, SuccessStep, FailureStep
    <3>4. ASSUME NEW d \in Callers, Allow(d), d # c PROVE FALSE
      BY <3>4 DEF Allow
    <3>5. ~State /\ ~Tick /\ ~(UNCHANGED vars)
      BY DEF State, Tick, vars
    <3>. QED
      BY <3>1, <3>2, <3>3, <3>4, <3>5 DEF Next, Caller
  <2>3. ResetDue(now[c])
    <3>1. Admitted(c)
      BY <1>1, <2>1, <2>2 DEF Allow, TypeOK
    <3>. QED
      BY <1>1, <3>1 DEF Admitted, StateAt
  <2>4. LastTrip(log) = openedAt
    <3>1. PICK i \in Trips(log) : log[i].at = openedAt /\ \A j \in Trips(log) : j <= i
      BY <1>1, <2>1 DEF TripInv
    <3>. QED
      BY <2>1, <3>1, LastTripIs DEF TypeOK
  <2>. QED
    BY <2>3, <2>4 DEF ResetDue
<1>2. BreakerInv /\ [Next]_vars =>
        \A c \in Callers :
          state = "OPEN" /\ pc[c] = "asking" /\ pc'[c] = "calling"
            => now[c] - LastTrip(log) >= ResetTimeout
  BY <1>1
<1>. QED
  BY BreakerHolds, <1>2, PTL DEF Spec, ShutForResetTimeout

\* Of a log whose last results are the samples s and whose earlier ones are older than
\* the window, the recent results are as many as the samples, and their failures too.
LEMMA RecentAreSamples ==
  ASSUME NEW l \in Seq(Results), NEW s \in Seq(Samples), NEW k \in Nat,
         k < Len(l), Len(s) = Len(l) - k,
         \A i \in 1..Len(s) : s[i].ok = l[k + i].ok,
         Recent(l) = (k + 1)..Len(l)
  PROVE  /\ Cardinality(Recent(l)) = Len(s)
         /\ Cardinality({i \in Recent(l) : ~l[i].ok}) = Failures(s)
<1>. DEFINE n == Len(l)
            F == {i \in DOMAIN s : ~s[i].ok}
            G == {i \in Recent(l) : ~l[i].ok}
<1>1. n \in Nat /\ Len(s) = n - k /\ DOMAIN s = 1..(n - k)
  BY LenProperties
<1>2. Cardinality(Recent(l)) = Len(s)
  <2>1. Cardinality((k + 1)..n) = n - (k + 1) + 1
    BY <1>1, FS_Interval
  <2>. QED
    BY <1>1, <2>1
<1>3. F \subseteq 1..(n - k) /\ IsFiniteSet(F)
  <2>1. F \subseteq 1..(n - k)
    BY <1>1
  <2>2. IsFiniteSet(1..(n - k))
    BY <1>1, FS_Interval
  <2>. QED
    BY <2>1, <2>2, FS_Subset
<1>4. \A i \in Recent(l) : i - k \in 1..(n - k) /\ k + (i - k) = i
  BY <1>1
<1>5. \A i \in F : k + i \in G /\ (k + i) - k = i
  <2>1. \A i \in 1..(n - k) : k + i \in Recent(l) /\ (k + i) - k = i
    BY <1>1
  <2>. QED
    BY <1>1, <1>3, <2>1
<1>6. \A i \in G : i - k \in F /\ k + (i - k) = i
  BY <1>1, <1>4
<1>. DEFINE b == [i \in F |-> k + i]
<1>7. b \in Bijection(F, G)
  <2>. HIDE DEF F, G
  <2>1. b \in [F -> G]
    BY <1>5
  <2>2. \A i, j \in F : b[i] = b[j] => i = j
    <3>1. \A i \in F : b[i] = k + i
      OBVIOUS
    <3>. HIDE DEF b
    <3>. QED
      BY <1>5, <3>1
  <2>3. \A g \in G : \E i \in F : b[i] = g
    BY <1>6
  <2>. HIDE DEF b
  <2>. QED
    BY <2>1, <2>2, <2>3 DEF Bijection, Injection, IsInjective, Surjection
<1>8. Cardinality(G) = Cardinality(F)
  <2>. HIDE DEF F, G, b
  <2>. QED
    BY <1>3, <1>7, FS_Bijection DEF ExistsBijection
<1>. QED
  BY <1>2, <1>8 DEF Failures

\* The breaker opens for a reason that the complete log confirms: enough failures in
\* a row, or the failure rate among everything recorded in the last WindowSize.
THEOREM TripsAreJustified == Spec => OpensForAReason
<1>. DEFINE Reason ==
       \/ Trailing(log') >= FailureThreshold
       \/ RateOf(Cardinality({i \in Recent(log') : ~log'[i].ok}), Cardinality(Recent(log')))
<1>1. ASSUME BreakerInv, [Next]_vars, state = "CLOSED", state' = "OPEN", Chronological(log')
      PROVE  Reason
  <2>1. TypeOK /\ CountsTheRun /\ WindowInv
    BY <1>1 DEF BreakerInv
  <2>2. PICK c \in Callers : RecordFailure(c)
    <3>1. ~Quiet
      BY <1>1 DEF Quiet
    <3>2. \A c \in Callers : ~RecordSuccess(c)
      BY <1>1, <2>1, SuccessStep
    <3>. QED
      BY <1>1, <2>1, <3>1, <3>2, StepKinds
  <2>3. /\ Result(c, FALSE) /\ failureCount' = failureCount + 1
        /\ failureCount' >= FailureThreshold \/ RateReached(samples')
    <3>1. ~(failureCount' < FailureThreshold /\ UNCHANGED <<state, openedAt, halfOpenInflight>>)
      BY <1>1
    <3>. QED
      BY <1>1, <2>1, <2>2, <3>1, FailureStep
  <2>. DEFINE n == Len(log)
  <2>4. /\ log' \in Seq(Results) /\ n \in Nat /\ Len(log') = n + 1 /\ DOMAIN log' = 1..(n + 1)
        /\ Last(log').at = now[c] /\ log'[n + 1].at = now[c] /\ now[c] \in Nat
        /\ Trailing(log') = Trailing(log) + 1
    <3>1. now[c] \in Nat
      BY <2>1, Numbers DEF TypeOK
    <3>. QED
      BY <2>1, <2>3, <3>1, ResultGrowsLog
  <2>5. CASE failureCount' >= FailureThreshold
    BY <1>1, <2>1, <2>3, <2>4, <2>5 DEF CountsTheRun
  <2>6. CASE RateReached(samples')
    <3>1. WindowSize > 0 /\ RateOf(Failures(samples'), Len(samples'))
      BY <2>6 DEF RateReached, RateOf
    <3>2. PICK k \in 0..Len(log') :
             Window(k)' /\ k < Len(log') /\ log'[k + 1].at >= now[c] - WindowSize
      BY <2>1, <2>3, <3>1, ResultKeepsWindow
    <3>. HIDE DEF n
    <3>3. /\ Len(samples') = n + 1 - k
          /\ \A i \in 1..Len(samples') : samples'[i].ok = log'[k + i].ok
          /\ \A i \in 1..k : \E j \in i..(n + 1) : log'[i].at < log'[j].at - WindowSize
      BY <2>4, <3>2 DEF Window
    <3>4. \A i \in 1..(n + 1) : log'[i].at \in Int
      <4>1. \A i \in 1..(n + 1) : log'[i] \in Results
        BY <2>4, ElementOfSeq
      <4>. QED
        BY <4>1, Numbers DEF Results
    <3>5. ASSUME NEW i \in 1..(n + 1), NEW j \in i..(n + 1)
          PROVE  log'[i].at <= log'[j].at
      <4>1. j \in 1..(n + 1) /\ (i < j \/ i = j)
        BY <2>4
      <4>. QED
        BY <1>1, <2>4, <3>4, <4>1 DEF Chronological
    <3>6. ASSUME NEW i \in 1..(n + 1)
          PROVE  log'[i].at >= now[c] - WindowSize <=> i \in (k + 1)..(n + 1)
      <4>1. log'[i].at <= now[c]
        <5>1. n + 1 \in i..(n + 1)
          BY <2>4
        <5>. QED
          BY <2>4, <3>5, <5>1
      <4>2. CASE i \in 1..k
        <5>1. PICK j \in i..(n + 1) : log'[i].at < log'[j].at - WindowSize
          BY <3>3, <4>2
        <5>2. j \in 1..(n + 1) /\ n + 1 \in j..(n + 1) /\ n + 1 \in 1..(n + 1)
          BY <2>4
        <5>3. log'[j].at <= now[c]
          BY <2>4, <3>5, <5>2
        <5>. QED
          BY <2>4, <3>2, <3>4, <4>2, <5>1, <5>2, <5>3, Numbers
      <4>3. CASE i \notin 1..k
        <5>1. k + 1 \in 1..(n + 1) /\ i \in (k + 1)..(n + 1)
          BY <2>4, <3>2, <4>3
        <5>2. log'[k + 1].at <= log'[i].at
          BY <3>5, <5>1
        <5>. QED
          BY <2>4, <3>2, <3>4, <5>1, <5>2, Numbers
      <4>. QED
        BY <4>2, <4>3
    <3>7. Recent(log') = (k + 1)..Len(log')
      <4>1. \A i \in (k + 1)..(n + 1) : i \in 1..(n + 1)
        BY <2>4, <3>2
      <4>. QED
        BY <2>4, <3>6, <4>1 DEF Recent
    <3>8. samples' \in Seq(Samples)
      BY <2>1, <2>3, ResultMovesWindow
    <3>9. /\ Cardinality(Recent(log')) = Len(samples')
          /\ Cardinality({i \in Recent(log') : ~log'[i].ok}) = Failures(samples')
      <4>1. k \in Nat /\ k < Len(log') /\ Len(samples') = Len(log') - k
        BY <2>4, <3>2, <3>3
      <4>. QED
        BY <2>4, <3>3, <3>7, <3>8, <4>1, RecentAreSamples
    <3>. QED
      BY <3>1, <3>9
  <2>. QED
    BY <2>3, <2>5, <2>6
<1>2. BreakerInv /\ [Next]_vars =>
        (state = "CLOSED" /\ state' = "OPEN" /\ Chronological(log') => Reason)
  BY <1>1
<1>. QED
  BY BreakerHolds, <1>2, PTL DEF Spec, OpensForAReason
=============================================================================
