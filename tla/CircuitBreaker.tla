--------------------------- MODULE CircuitBreaker ---------------------------
(***************************************************************************)
(* The circuit breaker in front of the bank's transfer call, and the way   *)
(* the send handler uses it: Allow, the call, then RecordSuccess or        *)
(* RecordFailure.  Every method is atomic under the breaker's mutex, but   *)
(* its argument `now' is read before the mutex is taken, and between Allow *)
(* and the record lies a call of several seconds.                          *)
(***************************************************************************)
EXTENDS Integers, Sequences, FiniteSets, SequencesExt

CONSTANTS
  Callers,            \* handlers that share the breaker
  FailureThreshold,   \* consecutive failures that open it
  ResetTimeout,       \* time it stays OPEN
  RateNum, RateDen,   \* FailureRate as a fraction
  MinRequests,        \* samples below which the rate does not count
  WindowSize,         \* length of the rolling window
  HalfOpenMaxCalls,   \* probes admitted at a time while HALF_OPEN
  MaxTime,            \* bound: the clock stops here
  MaxResults          \* bound: results recorded

\* What NewCircuitBreaker makes of its configuration.
ASSUME ConfigAssumption ==
  /\ {FailureThreshold, ResetTimeout, HalfOpenMaxCalls} \subseteq Nat \ {0}
  /\ {MinRequests, WindowSize, RateNum} \subseteq Nat
  /\ RateDen \in Nat \ {0} /\ RateNum <= RateDen
ASSUME BoundsAssumption == MaxTime \in Nat /\ MaxResults \in Nat

VARIABLES
  state, failureCount, openedAt, halfOpenInflight, samples,
  clock,    \* time.Now
  pc,       \* what each caller does
  now,      \* the time each caller has read
  probing,  \* callers with a call that was admitted while HALF_OPEN
  log       \* every result ever recorded, and whether it opened the breaker
            \* (history only)

breaker == <<state, failureCount, openedAt, halfOpenInflight, samples>>
vars == <<breaker, clock, pc, now, probing, log>>

Init ==
  /\ state = "CLOSED" /\ failureCount = 0 /\ openedAt = 0
  /\ halfOpenInflight = 0 /\ samples = << >>
  /\ clock = 0
  /\ pc = [c \in Callers |-> "idle"]
  /\ now = [c \in Callers |-> 0]
  /\ probing = {}
  /\ log = << >>

-----------------------------------------------------------------------------
\* OPEN turns into HALF_OPEN when somebody looks and the timeout is over.
\* (Mutant: at once.)
AnyTime(t) == state = "OPEN"
ResetDue(t) == state = "OPEN" /\ t - openedAt >= ResetTimeout

StateAt(t) == IF ResetDue(t) THEN "HALF_OPEN" ELSE state
InflightAt(t) == IF ResetDue(t) THEN 0 ELSE halfOpenInflight

\* The handler reads the clock and asks.
Ask(c) ==
  /\ pc[c] = "idle"
  /\ now' = [now EXCEPT ![c] = clock]
  /\ pc' = [pc EXCEPT ![c] = "asking"]
  /\ UNCHANGED <<breaker, clock, probing, log>>

Admitted(c) ==
  \/ StateAt(now[c]) = "CLOSED"
  \/ StateAt(now[c]) = "HALF_OPEN" /\ InflightAt(now[c]) < HalfOpenMaxCalls

Allow(c) ==
  /\ pc[c] = "asking"
  /\ state' = StateAt(now[c])
  /\ IF Admitted(c)
     THEN pc' = [pc EXCEPT ![c] = "calling"]
     ELSE pc' = [pc EXCEPT ![c] = "idle"]
  /\ IF Admitted(c) /\ state' = "HALF_OPEN"
     THEN /\ halfOpenInflight' = InflightAt(now[c]) + 1
          /\ probing' = probing \union {c}
     ELSE /\ halfOpenInflight' = InflightAt(now[c])
          /\ UNCHANGED probing
  /\ UNCHANGED <<failureCount, openedAt, samples, clock, now, log>>

\* Anyone may ask for the state, which is a transition like in Allow.
State ==
  /\ ResetDue(clock)
  /\ state' = "HALF_OPEN" /\ halfOpenInflight' = 0
  /\ UNCHANGED <<failureCount, openedAt, samples, clock, pc, now, probing, log>>

\* A retryable error is a failure; any other answer of the bank, a 4xx too, is
\* a success.  (Mutant: a 4xx is not recorded at all.)
Silent4xx == {"failing", "succeeding", "idle"}
Outcomes == {"failing", "succeeding"}

BankAnswers(c) ==
  /\ pc[c] = "calling"
  /\ \E o \in Outcomes : pc' = [pc EXCEPT ![c] = o]
  /\ now' = [now EXCEPT ![c] = clock]
  /\ probing' = IF pc'[c] = "idle" THEN probing \ {c} ELSE probing
  /\ UNCHANGED <<breaker, clock, log>>

-----------------------------------------------------------------------------
\* Samples that have left the window, from the oldest on.
\* (Mutant: none is dropped.)
Unpruned(s, t) == s
Pruned(s, t) ==
  LET kept == {i \in DOMAIN s : s[i].at >= t - WindowSize}
  IN  IF kept = {} THEN << >> ELSE SubSeq(s, CHOOSE i \in kept : \A j \in kept : i <= j, Len(s))

AppendSample(t, ok) ==
  samples' = IF WindowSize = 0 THEN samples ELSE Pruned(Append(samples, [at |-> t, ok |-> ok]), t)

Failures(s) == Cardinality({i \in DOMAIN s : ~s[i].ok})

\* Reaching the rate is enough.
RateOf(failed, total) ==
  /\ RateNum > 0 /\ WindowSize > 0
  /\ total >= MinRequests /\ total > 0
  /\ failed * RateDen >= RateNum * total

RateReached(s) == RateOf(Failures(s), Len(s))

\* (Mutant: the timeout is not started anew.)
ReopenedAt(t) == IF state = "HALF_OPEN" THEN openedAt ELSE t
OpenedAt(t) == t

ToOpen(t) ==
  /\ state' = "OPEN"
  /\ openedAt' = OpenedAt(t)
  /\ halfOpenInflight' = 0

Recorded(c, ok) ==
  /\ Len(log) < MaxResults
  /\ AppendSample(now[c], ok)
  /\ pc' = [pc EXCEPT ![c] = "idle"]
  /\ probing' = probing \ {c}
  /\ UNCHANGED <<clock, now>>

Logged(c, ok) ==
  log' = Append(log, [at |-> now[c], ok |-> ok, opens |-> state # "OPEN" /\ state' = "OPEN"])

\* (Mutant: a success does not reset the count.)
Kept == failureCount
ResetCount == 0

RecordSuccess(c) ==
  /\ pc[c] = "succeeding"
  /\ Recorded(c, TRUE)
  /\ CASE state = "HALF_OPEN" ->
            /\ state' = "CLOSED" /\ failureCount' = ResetCount
            /\ openedAt' = 0 /\ halfOpenInflight' = 0
       [] state = "CLOSED" ->
            failureCount' = ResetCount /\ UNCHANGED <<state, openedAt, halfOpenInflight>>
       [] state = "OPEN" ->
            UNCHANGED <<state, failureCount, openedAt, halfOpenInflight>>
  /\ Logged(c, TRUE)

RecordFailure(c) ==
  /\ pc[c] = "failing"
  /\ Recorded(c, FALSE)
  /\ CASE state = "HALF_OPEN" -> ToOpen(now[c]) /\ UNCHANGED failureCount
       [] state = "OPEN" -> UNCHANGED <<state, failureCount, openedAt, halfOpenInflight>>
       [] state = "CLOSED" ->
            /\ failureCount' = failureCount + 1
            /\ IF failureCount' >= FailureThreshold \/ RateReached(samples')
               THEN ToOpen(now[c])
               ELSE UNCHANGED <<state, openedAt, halfOpenInflight>>
  /\ Logged(c, FALSE)

Tick == clock < MaxTime /\ clock' = clock + 1 /\ UNCHANGED <<breaker, pc, now, probing, log>>

Caller(c) == Ask(c) \/ Allow(c) \/ BankAnswers(c) \/ RecordSuccess(c) \/ RecordFailure(c)

Next == (\E c \in Callers : Caller(c)) \/ State \/ Tick

Spec == Init /\ [][Next]_vars

-----------------------------------------------------------------------------
Samples == [at : 0..MaxTime, ok : BOOLEAN]
Results == [at : 0..MaxTime, ok : BOOLEAN, opens : BOOLEAN]

\* Every variable keeps its type; the failure count and the number of probes stay
\* within their limits.  (circuit_breaker.go)
TypeOK ==
  /\ state \in {"CLOSED", "OPEN", "HALF_OPEN"}
  /\ failureCount \in 0..FailureThreshold
  /\ openedAt \in 0..MaxTime
  /\ halfOpenInflight \in 0..HalfOpenMaxCalls
  /\ samples \in Seq(Samples)
  /\ clock \in 0..MaxTime
  /\ pc \in [Callers -> {"idle", "asking", "calling", "failing", "succeeding"}]
  /\ now \in [Callers -> 0..MaxTime]
  /\ probing \subseteq Callers
  /\ log \in Seq(Results)

\* The number of failures at the end of a log.
Trailing(l) == Cardinality({i \in DOMAIN l : \A j \in i..Len(l) : ~l[j].ok})

\* While CLOSED the breaker's count is the number of failures since the last
\* success among everything recorded, whenever it was opened in between, and
\* is below the threshold: the breaker never lets a run of failures go by.
\* (circuit_breaker.go RecordSuccess, RecordFailure, toClosedLocked)
CountsTheRun ==
  state = "CLOSED" => failureCount = Trailing(log) /\ failureCount < FailureThreshold

\* The breaker opens for a reason that the complete log confirms: enough
\* consecutive failures, or the failure rate among everything recorded in the
\* last WindowSize.  Results recorded out of the order of their times, which
\* callers that race for the mutex can produce, are left out: a late old result
\* may stay in the window.  (circuit_breaker.go failureRateExceededLocked with
\* the samples that pruneSamplesLocked has left)
Chronological(l) == \A i, j \in DOMAIN l : i < j => l[i].at <= l[j].at
Recent(l) == {i \in DOMAIN l : l[i].at >= Last(l).at - WindowSize}

OpensForAReason ==
  [][state = "CLOSED" /\ state' = "OPEN" /\ Chronological(log') =>
       \/ Trailing(log') >= FailureThreshold
       \/ RateOf(Cardinality({i \in Recent(log') : ~log'[i].ok}), Cardinality(Recent(log')))]_vars

\* No call goes out within ResetTimeout of the failure that opened the breaker,
\* be it the first time or after a failed probe, and whatever late results have
\* come in since.  (circuit_breaker.go maybeTransitionToHalfOpenLocked,
\* toOpenLocked)
LastTrip(l) == l[Max({i \in DOMAIN l : l[i].opens})].at

ShutForResetTimeout ==
  [][\A c \in Callers :
       state = "OPEN" /\ pc[c] = "asking" /\ pc'[c] = "calling"
         => now[c] - LastTrip(log) >= ResetTimeout]_vars

\* The breaker does not lock itself up: while it is HALF_OPEN and admits
\* nobody, a probe is under way whose result will move it on.
\* (halfOpenInflight, which no result decrements)
NeverStuck ==
  state = "HALF_OPEN" /\ halfOpenInflight >= HalfOpenMaxCalls => probing # {}
=============================================================================
