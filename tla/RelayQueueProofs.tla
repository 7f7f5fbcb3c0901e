-------------------------- MODULE RelayQueueProofs --------------------------
(***************************************************************************)
(* Proofs about RelayQueue, for any rows, any number of workers, any batch *)
(* size and any limits.                                                    *)
(***************************************************************************)
EXTENDS RelayQueue, FiniteSetTheorems, SequenceTheorems, TLAPS

-----------------------------------------------------------------------------
(***************************************************************************)
(* The delays.                                                             *)
(***************************************************************************)

\* The greater of two numbers.
LEMMA MaxOfTwo ==
  ASSUME NEW a \in Int, NEW b \in Int
  PROVE  Max({a, b}) \in {a, b} /\ Max({a, b}) >= a /\ Max({a, b}) >= b
<1>1. \E m \in {a, b} : \A y \in {a, b} : m >= y
  OBVIOUS
<1>. QED
  BY <1>1 DEF Max

\* What the shift of backoffDuration yields.  The provers know a power of two only
\* for a given exponent, so there is a step for each that the clamps leave.
LEMMA ShiftIsNatural == ASSUME NEW n \in 0..30 PROVE 2 ^ n \in Nat
<1>1. CASE n = 0 BY <1>1
<1>2. CASE n = 1 BY <1>2
<1>3. CASE n = 2 BY <1>3
<1>4. CASE n = 3 BY <1>4
<1>5. CASE n = 4 BY <1>5
<1>6. CASE n = 5 BY <1>6
<1>7. CASE n = 6 BY <1>7
<1>8. CASE n = 7 BY <1>8
<1>9. CASE n = 8 BY <1>9
<1>10. CASE n = 9 BY <1>10
<1>11. CASE n = 10 BY <1>11
<1>12. CASE n = 11 BY <1>12
<1>13. CASE n = 12 BY <1>13
<1>14. CASE n = 13 BY <1>14
<1>15. CASE n = 14 BY <1>15
<1>16. CASE n = 15 BY <1>16
<1>17. CASE n = 16 BY <1>17
<1>18. CASE n = 17 BY <1>18
<1>19. CASE n = 18 BY <1>19
<1>20. CASE n = 19 BY <1>20
<1>21. CASE n = 20 BY <1>21
<1>22. CASE n = 21 BY <1>22
<1>23. CASE n = 22 BY <1>23
<1>24. CASE n = 23 BY <1>24
<1>25. CASE n = 24 BY <1>25
<1>26. CASE n = 25 BY <1>26
<1>27. CASE n = 26 BY <1>27
<1>28. CASE n = 27 BY <1>28
<1>29. CASE n = 28 BY <1>29
<1>30. CASE n = 29 BY <1>30
<1>31. CASE n = 30 BY <1>31
<1>. QED
  BY <1>1, <1>2, <1>3, <1>4, <1>5, <1>6, <1>7, <1>8, <1>9, <1>10, <1>11, <1>12, <1>13,
     <1>14, <1>15, <1>16, <1>17, <1>18, <1>19, <1>20, <1>21, <1>22, <1>23, <1>24,
     <1>25, <1>26, <1>27, <1>28, <1>29, <1>30, <1>31

\* The delay after a failure is at most the cap, and no delay is negative.
LEMMA DelaysAreCapped ==
  ASSUME NEW n \in Nat
  PROVE  {backoffDuration(n), SkipDelay, 0} \subseteq 0..Max({MaxBackoff, SkipDelay})
<1>1. Clamped(n) \in 0..30
  BY DEF Clamped
<1>2. 2 ^ Clamped(n) \in Nat
  BY <1>1, ShiftIsNatural
<1>3. backoffDuration(n) \in 0..MaxBackoff
  BY <1>2, DelayAssumption DEF backoffDuration
<1>4. /\ Max({MaxBackoff, SkipDelay}) \in Int
      /\ MaxBackoff <= Max({MaxBackoff, SkipDelay}) /\ SkipDelay <= Max({MaxBackoff, SkipDelay})
  BY DelayAssumption, MaxOfTwo
<1>. HIDE DEF backoffDuration
<1>. QED
  BY <1>3, <1>4, DelayAssumption

-----------------------------------------------------------------------------
(***************************************************************************)
(* Queues: sequences without duplicates.                                   *)
(***************************************************************************)

\* What RemoveAt leaves.
LEMMA RemoveAtTakesOne ==
  ASSUME NEW T, NEW q \in Seq(T), IsInjective(q), NEW p \in DOMAIN q
  PROVE  /\ RemoveAt(q, p) \in Seq(T)
         /\ IsInjective(RemoveAt(q, p))
         /\ ToSet(RemoveAt(q, p)) = ToSet(q) \ {q[p]}
<1>. DEFINE n == Len(q)
            l == SubSeq(q, 1, p - 1)
            u == SubSeq(q, p + 1, n)
            c == l \o u
<1>1. n \in Nat /\ DOMAIN q = 1..n /\ p \in 1..n /\ \A i \in 1..n : q[i] \in T
  BY LenProperties, ElementOfSeq
<1>2. l \in Seq(T) /\ Len(l) = p - 1 /\ \A i \in 1..(p - 1) : l[i] = q[i]
  <2>1. 1 \in Int /\ p - 1 \in Int /\ \A i \in 1..(p - 1) : q[i] \in T
    BY <1>1
  <2>2. /\ l \in Seq(T) /\ Len(l) = IF 1 <= p - 1 THEN p - 1 - 1 + 1 ELSE 0
        /\ \A i \in 1..(p - 1 - 1 + 1) : l[i] = q[1 + i - 1]
    BY <2>1, SubSeqProperties
  <2>. HIDE DEF l
  <2>. QED
    BY <1>1, <2>2
<1>3. u \in Seq(T) /\ Len(u) = n - p /\ \A i \in 1..(n - p) : u[i] = q[p + i]
  <2>1. p + 1 \in Int /\ n \in Int /\ \A i \in (p + 1)..n : q[i] \in T
    BY <1>1
  <2>2. /\ u \in Seq(T) /\ Len(u) = IF p + 1 <= n THEN n - (p + 1) + 1 ELSE 0
        /\ \A i \in 1..(n - (p + 1) + 1) : u[i] = q[p + 1 + i - 1]
    BY <2>1, SubSeqProperties
  <2>. HIDE DEF u
  <2>3. \A i \in 1..(n - p) : i \in 1..(n - (p + 1) + 1) /\ p + 1 + i - 1 = p + i
    BY <1>1
  <2>. QED
    BY <1>1, <2>2, <2>3
<1>4. RemoveAt(q, p) = c
  BY DEF RemoveAt
<1>. HIDE DEF l, u
<1>5. c \in Seq(T) /\ Len(c) = n - 1
      /\ \A i \in 1..(n - 1) : c[i] = IF i < p THEN q[i] ELSE q[i + 1]
  <2>1. /\ c \in Seq(T) /\ Len(c) = Len(l) + Len(u)
        /\ \A i \in 1..(Len(l) + Len(u)) : c[i] = IF i <= Len(l) THEN l[i] ELSE u[i - Len(l)]
    BY <1>2, <1>3, ConcatProperties
  <2>. HIDE DEF c
  <2>2. Len(l) = p - 1 /\ Len(u) = n - p /\ Len(l) + Len(u) = n - 1
    BY <1>1, <1>2, <1>3
  <2>3. ASSUME NEW i \in 1..(n - 1), i < p PROVE c[i] = q[i]
    <3>1. i \in 1..(p - 1) /\ i <= Len(l) /\ i \in 1..(Len(l) + Len(u))
      BY <1>1, <2>2, <2>3
    <3>. QED
      BY <1>2, <2>1, <3>1
  <2>4. ASSUME NEW i \in 1..(n - 1), ~(i < p) PROVE c[i] = q[i + 1]
    <3>1. /\ ~(i <= Len(l)) /\ i \in 1..(Len(l) + Len(u))
          /\ i - Len(l) \in 1..(n - p) /\ p + (i - Len(l)) = i + 1
      BY <1>1, <2>2, <2>4
    <3>. QED
      BY <1>3, <2>1, <3>1
  <2>. QED
    BY <2>1, <2>2, <2>3, <2>4
<1>. HIDE DEF c
<1>6. DOMAIN c = 1..(n - 1)
  BY <1>5, LenProperties
<1>7. IsInjective(c)
  <2>1. ASSUME NEW i \in 1..(n - 1), NEW j \in 1..(n - 1), c[i] = c[j] PROVE i = j
    <3>1. \A k \in 1..(n - 1) : k \in 1..n /\ k + 1 \in 1..n
      BY <1>1
    <3>2. \A x, y \in 1..n : q[x] = q[y] => x = y
      BY <1>1 DEF IsInjective
    <3>3. CASE i < p /\ j < p
      BY <1>5, <2>1, <3>1, <3>2, <3>3
    <3>4. CASE ~(i < p) /\ ~(j < p)
      <4>1. i + 1 = j + 1
        BY <1>5, <2>1, <3>1, <3>2, <3>4
      <4>. QED
        BY <4>1
    <3>5. CASE i < p /\ ~(j < p)
      <4>1. i = j + 1
        BY <1>5, <2>1, <3>1, <3>2, <3>5
      <4>. QED
        BY <1>1, <3>5, <4>1
    <3>6. CASE ~(i < p) /\ j < p
      <4>1. i + 1 = j
        BY <1>5, <2>1, <3>1, <3>2, <3>6
      <4>. QED
        BY <1>1, <3>6, <4>1
    <3>. QED
      BY <3>3, <3>4, <3>5, <3>6
  <2>. QED
    BY <1>6, <2>1 DEF IsInjective
<1>8. ToSet(c) = ToSet(q) \ {q[p]}
  <2>1. ASSUME NEW i \in 1..(n - 1) PROVE \E j \in 1..n : j # p /\ c[i] = q[j]
    <3>1. CASE i < p
      BY <1>1, <1>5, <3>1
    <3>2. CASE i >= p
      <4>1. i + 1 \in 1..n /\ i + 1 # p
        BY <1>1, <3>2
      <4>. QED
        BY <1>5, <3>2, <4>1
    <3>. QED
      BY <1>1, <3>1, <3>2
  <2>2. ASSUME NEW j \in 1..n, j # p PROVE \E i \in 1..(n - 1) : c[i] = q[j]
    <3>1. CASE j < p
      <4>1. j \in 1..(n - 1)
        BY <1>1, <3>1
      <4>. QED
        BY <1>5, <3>1, <4>1
    <3>2. CASE j > p
      <4>1. j - 1 \in 1..(n - 1) /\ ~(j - 1 < p) /\ (j - 1) + 1 = j
        BY <1>1, <3>2
      <4>. QED
        BY <1>5, <4>1
    <3>. QED
      BY <1>1, <2>2, <3>1, <3>2
  <2>3. ToSet(c) = {c[i] : i \in 1..(n - 1)} /\ ToSet(q) = {q[j] : j \in 1..n}
    BY <1>1, <1>6 DEF ToSet
  <2>4. \A j \in 1..n : q[j] = q[p] => j = p
    BY <1>1 DEF IsInjective
  <2>5. ToSet(c) \subseteq ToSet(q) \ {q[p]}
    <3>1. \A j \in 1..n : j # p => q[j] \in ToSet(q) \ {q[p]}
      BY <2>3, <2>4
    <3>. QED
      BY <2>1, <2>3, <3>1
  <2>6. ToSet(q) \ {q[p]} \subseteq ToSet(c)
    BY <2>2, <2>3
  <2>. QED
    BY <2>5, <2>6
<1>. QED
  BY <1>4, <1>5, <1>7, <1>8

\* What InsertAt adds.
LEMMA InsertAtAddsOne ==
  ASSUME NEW T, NEW q \in Seq(T), IsInjective(q), NEW r \in T, r \notin ToSet(q),
         NEW k \in 0..Len(q)
  PROVE  /\ InsertAt(q, k + 1, r) \in Seq(T)
         /\ IsInjective(InsertAt(q, k + 1, r))
         /\ ToSet(InsertAt(q, k + 1, r)) = ToSet(q) \union {r}
<1>. DEFINE n == Len(q)
            l == SubSeq(q, 1, k)
            u == SubSeq(q, k + 1, n)
            m == l \o <<r>>
            c == m \o u
<1>1. n \in Nat /\ DOMAIN q = 1..n /\ k \in 0..n /\ \A i \in 1..n : q[i] \in T
  BY LenProperties, ElementOfSeq
<1>2. l \in Seq(T) /\ Len(l) = k /\ \A i \in 1..k : l[i] = q[i]
  <2>1. 1 \in Int /\ k \in Int /\ \A i \in 1..k : q[i] \in T
    BY <1>1
  <2>2. /\ l \in Seq(T) /\ Len(l) = IF 1 <= k THEN k - 1 + 1 ELSE 0
        /\ \A i \in 1..(k - 1 + 1) : l[i] = q[1 + i - 1]
    BY <2>1, SubSeqProperties
  <2>. HIDE DEF l
  <2>. QED
    BY <1>1, <2>2
<1>3. u \in Seq(T) /\ Len(u) = n - k /\ \A i \in 1..(n - k) : u[i] = q[k + i]
  <2>1. k + 1 \in Int /\ n \in Int /\ \A i \in (k + 1)..n : q[i] \in T
    BY <1>1
  <2>2. /\ u \in Seq(T) /\ Len(u) = IF k + 1 <= n THEN n - (k + 1) + 1 ELSE 0
        /\ \A i \in 1..(n - (k + 1) + 1) : u[i] = q[k + 1 + i - 1]
    BY <2>1, SubSeqProperties
  <2>. HIDE DEF u, n
  <2>3. n - (k + 1) + 1 = n - k /\ (~(k + 1 <= n) => n - k = 0)
    BY <1>1
  <2>4. \A i \in 1..(n - k) : k + 1 + i - 1 = k + i
    BY <1>1
  <2>. QED
    BY <2>2, <2>3, <2>4
<1>4. InsertAt(q, k + 1, r) = c
  <2>1. ASSUME NEW i, i - 1 = k
        PROVE  InsertAt(q, i, r) = SubSeq(q, 1, k) \o <<r>> \o SubSeq(q, i, n)
    BY <2>1 DEF InsertAt
  <2>2. PICK i : i = k + 1
    OBVIOUS
  <2>3. i - 1 = k
    BY <1>1, <2>2
  <2>4. InsertAt(q, i, r) = SubSeq(q, 1, k) \o <<r>> \o SubSeq(q, i, n)
    BY <2>1, <2>3
  <2>. QED
    BY <2>2, <2>4
<1>. HIDE DEF l, u
<1>5. m \in Seq(T) /\ Len(m) = k + 1 /\ m[k + 1] = r /\ \A i \in 1..k : m[i] = q[i]
  <2>1. <<r>> \in Seq(T) /\ Len(<<r>>) = 1 /\ <<r>>[1] = r
    OBVIOUS
  <2>2. /\ m \in Seq(T) /\ Len(m) = k + 1
        /\ \A i \in 1..(k + 1) : m[i] = IF i <= k THEN l[i] ELSE <<r>>[i - k]
    BY <1>2, <2>1, ConcatProperties
  <2>. HIDE DEF m
  <2>3. k + 1 \in 1..(k + 1) /\ ~(k + 1 <= k) /\ (k + 1) - k = 1
        /\ \A i \in 1..k : i \in 1..(k + 1) /\ i <= k
    BY <1>1
  <2>4. m[k + 1] = r
    BY <2>1, <2>2, <2>3
  <2>. QED
    BY <1>2, <2>2, <2>3, <2>4
<1>. HIDE DEF m
<1>6. /\ c \in Seq(T) /\ Len(c) = n + 1 /\ c[k + 1] = r
      /\ \A i \in 1..k : c[i] = q[i]
      /\ \A i \in (k + 2)..(n + 1) : c[i] = q[i - 1]
  <2>1. /\ c \in Seq(T) /\ Len(c) = (k + 1) + (n - k)
        /\ \A i \in 1..((k + 1) + (n - k)) : c[i] = IF i <= k + 1 THEN m[i] ELSE u[i - (k + 1)]
    BY <1>3, <1>5, ConcatProperties
  <2>. HIDE DEF c
  <2>2. ASSUME NEW i \in (k + 2)..(n + 1) PROVE c[i] = q[i - 1]
    <3>1. /\ i \in 1..((k + 1) + (n - k)) /\ ~(i <= k + 1)
          /\ i - (k + 1) \in 1..(n - k) /\ k + (i - (k + 1)) = i - 1
      BY <1>1
    <3>. QED
      BY <1>3, <2>1, <3>1
  <2>3. ASSUME NEW i \in 1..(k + 1) PROVE c[i] = m[i]
    <3>1. i \in 1..((k + 1) + (n - k)) /\ i <= k + 1
      BY <1>1
    <3>. QED
      BY <2>1, <3>1
  <2>4. k + 1 \in 1..(k + 1) /\ (k + 1) + (n - k) = n + 1 /\ \A i \in 1..k : i \in 1..(k + 1)
    BY <1>1
  <2>. QED
    BY <1>5, <2>1, <2>2, <2>3, <2>4
<1>. HIDE DEF c
<1>7. DOMAIN c = 1..(n + 1) /\ \A i \in 1..n : q[i] # r
  BY <1>1, <1>6, LenProperties DEF ToSet
<1>8. \A i \in 1..(n + 1) :
        \/ i \in 1..k /\ i \in 1..n
        \/ i = k + 1
        \/ i \in (k + 2)..(n + 1) /\ i - 1 \in 1..n
  BY <1>1
<1>9. IsInjective(c)
  <2>1. ASSUME NEW i \in 1..(n + 1), NEW j \in 1..(n + 1), c[i] = c[j] PROVE i = j
    <3>1. \A x, y \in 1..n : q[x] = q[y] => x = y
      BY <1>1 DEF IsInjective
    <3>2. CASE i = k + 1 \/ j = k + 1
      BY <1>6, <1>7, <1>8, <2>1, <3>2
    <3>3. CASE i # k + 1 /\ j # k + 1
      BY <1>1, <1>6, <1>8, <2>1, <3>1, <3>3
    <3>. QED
      BY <3>2, <3>3
  <2>. QED
    BY <1>7, <2>1 DEF IsInjective
<1>10. ToSet(c) = ToSet(q) \union {r}
  <2>1. ASSUME NEW i \in 1..(n + 1) PROVE c[i] = r \/ \E j \in 1..n : c[i] = q[j]
    BY <1>6, <1>8
  <2>2. ASSUME NEW j \in 1..n PROVE \E i \in 1..(n + 1) : c[i] = q[j]
    <3>1. CASE j \in 1..k
      <4>1. j \in 1..(n + 1)
        BY <1>1
      <4>. QED
        BY <1>6, <3>1, <4>1
    <3>2. CASE j \notin 1..k
      <4>1. j + 1 \in (k + 2)..(n + 1) /\ (j + 1) - 1 = j /\ j + 1 \in 1..(n + 1)
        BY <1>1, <3>2
      <4>. QED
        BY <1>6, <4>1
    <3>. QED
      BY <3>1, <3>2
  <2>3. k + 1 \in 1..(n + 1)
    BY <1>1
  <2>4. ToSet(c) = {c[i] : i \in 1..(n + 1)} /\ ToSet(q) = {q[j] : j \in 1..n}
    BY <1>1, <1>7 DEF ToSet
  <2>. QED
    BY <1>6, <2>1, <2>2, <2>3, <2>4
<1>. QED
  BY <1>4, <1>6, <1>9, <1>10

-----------------------------------------------------------------------------
(***************************************************************************)
(* The inductive invariant.                                                *)
(***************************************************************************)

\* The queue holds the PENDING rows, each once.
QueueInv ==
  IsInjective(queue) /\ ToSet(queue) = {r \in Rows : status[r] = "PENDING"}

\* No two workers have locked the same row, and what a worker still has to dispatch it
\* has locked, and nobody has settled it.
BatchInv ==
  \A w \in Workers :
    /\ batch[w] \subseteq locked[w]
    /\ \A r \in batch[w] : status[r] = "PENDING"
    /\ \A v \in Workers \ {w} : locked[v] \cap locked[w] = {}

RelayInv == TypeOK /\ QueueInv /\ BatchInv /\ AttemptsAreSpentOnFailures

\* The types and parts of the invariant that the fate of a row touches.
RowsInv ==
  /\ queue \in Seq(Rows)
  /\ wait \in [Rows -> -1..Max({MaxBackoff, SkipDelay})]
  /\ status \in [Rows -> {"none", "PENDING", "SENT", "FAILED"}]
  /\ attempt \in [Rows -> 0..MaxAttempt]
  /\ failures \in [Rows -> 0..MaxAttempt]
  /\ QueueInv /\ AttemptsAreSpentOnFailures

\* Taking a row out of the queue.
LEMMA WithoutTakesOne ==
  ASSUME RowsInv, NEW r \in Rows, status[r] = "PENDING"
  PROVE  /\ Without(r) \in Seq(Rows) /\ IsInjective(Without(r))
         /\ ToSet(Without(r)) = ToSet(queue) \ {r}
<1>1. queue \in Seq(Rows) /\ IsInjective(queue) /\ r \in ToSet(queue)
  BY DEF RowsInv, QueueInv
<1>2. \E i \in DOMAIN queue : queue[i] = r
  BY <1>1 DEF ToSet
<1>3. Position(r) \in DOMAIN queue /\ queue[Position(r)] = r
  BY <1>2 DEF Position
<1>. QED
  BY <1>1, <1>3, RemoveAtTakesOne DEF Without

\* Putting a row into the queue, whatever its place.
LEMMA EnqueueAddsOne ==
  ASSUME RowsInv, NEW q \in Seq(Rows), IsInjective(q), NEW r \in Rows, r \notin ToSet(q),
         NEW d \in 0..Max({MaxBackoff, SkipDelay}), Enqueue(q, r, d)
  PROVE  /\ queue' \in Seq(Rows) /\ IsInjective(queue')
         /\ ToSet(queue') = ToSet(q) \union {r}
         /\ wait' \in [Rows -> -1..Max({MaxBackoff, SkipDelay})]
<1>1. PICK k \in 0..Len(q) :
        queue' = InsertAt(q, k + 1, r) /\ wait' = [wait EXCEPT ![r] = d]
  BY DEF Enqueue
<1>2. /\ queue' \in Seq(Rows) /\ IsInjective(queue')
      /\ ToSet(queue') = ToSet(q) \union {r}
  BY <1>1, InsertAtAddsOne
<1>3. wait' \in [Rows -> -1..Max({MaxBackoff, SkipDelay})]
  <2>1. d \in -1..Max({MaxBackoff, SkipDelay})
    BY DelaysAreCapped, MaxOfTwo, DelayAssumption
  <2>. QED
    BY <1>1, <2>1 DEF RowsInv
<1>. QED
  BY <1>2, <1>3

\* A row that leaves is out of the queue and has its last status.
LEMMA LeaveSettles ==
  ASSUME RowsInv, NEW r \in Rows, status[r] = "PENDING", NEW t \in {"SENT", "FAILED"},
         Leave(r, t)
  PROVE  /\ queue' \in Seq(Rows) /\ QueueInv'
         /\ wait' \in [Rows -> -1..Max({MaxBackoff, SkipDelay})]
         /\ status' \in [Rows -> {"none", "PENDING", "SENT", "FAILED"}]
         /\ status'[r] = t /\ \A s \in Rows \ {r} : status'[s] = status[s]
<1>1. status' = [status EXCEPT ![r] = t] /\ queue' = Without(r) /\ wait' = wait
  BY DEF Leave
<1>2. /\ queue' \in Seq(Rows) /\ IsInjective(queue')
      /\ ToSet(queue') = ToSet(queue) \ {r}
  BY <1>1, WithoutTakesOne
<1>3. /\ status' \in [Rows -> {"none", "PENDING", "SENT", "FAILED"}]
      /\ status'[r] = t /\ \A s \in Rows \ {r} : status'[s] = status[s]
  BY <1>1 DEF RowsInv
<1>4. ToSet(queue') = {s \in Rows : status'[s] = "PENDING"}
  BY <1>2, <1>3 DEF RowsInv, QueueInv
<1>. QED
  BY <1>1, <1>2, <1>3, <1>4 DEF RowsInv, QueueInv

\* A row that is put back after d has kept its status and is in the queue once.
LEMMA RequeueKeeps ==
  ASSUME RowsInv, NEW r \in Rows, status[r] = "PENDING",
         NEW d \in 0..Max({MaxBackoff, SkipDelay}), Enqueue(Without(r), r, d),
         status' = status
  PROVE  /\ queue' \in Seq(Rows) /\ QueueInv'
         /\ wait' \in [Rows -> -1..Max({MaxBackoff, SkipDelay})]
<1>1. /\ Without(r) \in Seq(Rows) /\ IsInjective(Without(r))
      /\ ToSet(Without(r)) = ToSet(queue) \ {r}
  BY WithoutTakesOne
<1>2. /\ queue' \in Seq(Rows) /\ IsInjective(queue')
      /\ ToSet(queue') = ToSet(Without(r)) \union {r}
      /\ wait' \in [Rows -> -1..Max({MaxBackoff, SkipDelay})]
  BY <1>1, EnqueueAddsOne
<1>3. ToSet(queue') = {s \in Rows : status'[s] = "PENDING"}
  BY <1>1, <1>2 DEF RowsInv, QueueInv
<1>. QED
  BY <1>2, <1>3 DEF QueueInv

\* A row that is still PENDING has spent its attempts on failures, and has some left.
LEMMA PendingHasAttempts ==
  ASSUME RowsInv, NEW r \in Rows, status[r] = "PENDING"
  PROVE  /\ attempt[r] = failures[r]
         /\ failures[r] \in 0..MaxAttempt /\ failures[r] # MaxAttempt
<1>1. failures[r] \in 0..MaxAttempt
  BY DEF RowsInv
<1>2. status[r] = "FAILED" <=> failures[r] = MaxAttempt
  BY DEF RowsInv, AttemptsAreSpentOnFailures
<1>3. attempt[r] = failures[r] + (IF status[r] = "SENT" THEN 1 ELSE 0)
  BY DEF RowsInv, AttemptsAreSpentOnFailures
<1>. QED
  BY <1>1, <1>2, <1>3, LimitsAssumption

\* A success spends an attempt of its own.
LEMMA SuccessSpends ==
  ASSUME RowsInv, NEW r \in Rows, status[r] = "PENDING", Succeeds(r)
  PROVE  RowsInv' /\ \A s \in Rows \ {r} : status'[s] = status[s]
<1>1. /\ attempt' = [attempt EXCEPT ![r] = @ + 1] /\ failures' = failures
      /\ Leave(r, "SENT")
  BY DEF Succeeds
<1>2. /\ queue' \in Seq(Rows) /\ QueueInv'
      /\ wait' \in [Rows -> -1..Max({MaxBackoff, SkipDelay})]
      /\ status' \in [Rows -> {"none", "PENDING", "SENT", "FAILED"}]
      /\ status'[r] = "SENT" /\ \A s \in Rows \ {r} : status'[s] = status[s]
  BY <1>1, LeaveSettles
<1>3. attempt[r] = failures[r] /\ failures[r] # MaxAttempt
  BY PendingHasAttempts
<1>4. /\ attempt' \in [Rows -> 0..MaxAttempt]
      /\ attempt'[r] = failures[r] + 1 /\ \A s \in Rows \ {r} : attempt'[s] = attempt[s]
  <2>1. attempt[r] \in 0..MaxAttempt /\ attempt[r] + 1 \in 0..MaxAttempt
    BY <1>3, LimitsAssumption DEF RowsInv
  <2>. QED
    BY <1>1, <1>3, <2>1 DEF RowsInv
<1>5. AttemptsAreSpentOnFailures'
  <2>1. SUFFICES ASSUME NEW s \in Rows
                 PROVE  /\ status'[s] = "FAILED" <=> failures'[s] = MaxAttempt
                        /\ attempt'[s] = failures'[s] + (IF status'[s] = "SENT" THEN 1 ELSE 0)
    BY DEF AttemptsAreSpentOnFailures
  <2>2. CASE s = r
    BY <1>1, <1>2, <1>3, <1>4, <2>2
  <2>3. CASE s # r
    BY <1>1, <1>2, <1>4, <2>3 DEF RowsInv, AttemptsAreSpentOnFailures
  <2>. QED
    BY <2>2, <2>3
<1>. QED
  BY <1>1, <1>2, <1>4, <1>5 DEF RowsInv

\* A skip spends none.
LEMMA SkipIsFree ==
  ASSUME RowsInv, NEW r \in Rows, status[r] = "PENDING", Skips(r)
  PROVE  RowsInv' /\ \A s \in Rows \ {r} : status'[s] = status[s]
<1>1. /\ UNCHANGED <<attempt, status, failures>>
      /\ Enqueue(Without(r), r, SkipDelay)
  BY DEF Skips, FreeSkip
<1>2. SkipDelay \in 0..Max({MaxBackoff, SkipDelay})
  BY DelaysAreCapped
<1>3. /\ queue' \in Seq(Rows) /\ QueueInv'
      /\ wait' \in [Rows -> -1..Max({MaxBackoff, SkipDelay})]
  BY <1>1, <1>2, RequeueKeeps
<1>. QED
  BY <1>1, <1>3 DEF RowsInv, AttemptsAreSpentOnFailures

\* A failure spends one, and the last one gives the row up.
LEMMA FailureSpends ==
  ASSUME RowsInv, NEW r \in Rows, status[r] = "PENDING", Fails(r)
  PROVE  RowsInv' /\ \A s \in Rows \ {r} : status'[s] = status[s]
<1>1. attempt[r] = failures[r] /\ failures[r] \in 0..MaxAttempt /\ failures[r] # MaxAttempt
  BY PendingHasAttempts
<1>2. /\ attempt' = [attempt EXCEPT ![r] = @ + 1]
      /\ failures' = [failures EXCEPT ![r] = @ + 1]
  BY DEF Fails
<1>3. failures[r] + 1 \in 0..MaxAttempt
  BY <1>1, LimitsAssumption
<1>4. /\ attempt' \in [Rows -> 0..MaxAttempt] /\ failures' \in [Rows -> 0..MaxAttempt]
      /\ attempt'[r] = failures[r] + 1 /\ failures'[r] = failures[r] + 1
      /\ \A s \in Rows \ {r} : attempt'[s] = attempt[s] /\ failures'[s] = failures[s]
  BY <1>1, <1>2, <1>3 DEF RowsInv
<1>5. ASSUME NEW t \in {"PENDING", "FAILED"}, status'[r] = t,
             \A s \in Rows \ {r} : status'[s] = status[s],
             t = "FAILED" <=> failures[r] + 1 = MaxAttempt
      PROVE  AttemptsAreSpentOnFailures'
  <2>1. SUFFICES ASSUME NEW s \in Rows
                 PROVE  /\ status'[s] = "FAILED" <=> failures'[s] = MaxAttempt
                        /\ attempt'[s] = failures'[s] + (IF status'[s] = "SENT" THEN 1 ELSE 0)
    BY DEF AttemptsAreSpentOnFailures
  <2>2. CASE s = r
    BY <1>1, <1>4, <1>5, <2>2
  <2>3. CASE s # r
    BY <1>4, <1>5, <2>3 DEF RowsInv, AttemptsAreSpentOnFailures
  <2>. QED
    BY <2>2, <2>3
<1>6. CASE attempt'[r] >= MaxAttempt
  <2>1. Leave(r, "FAILED")
    BY <1>6 DEF Fails
  <2>2. /\ queue' \in Seq(Rows) /\ QueueInv'
        /\ wait' \in [Rows -> -1..Max({MaxBackoff, SkipDelay})]
        /\ status' \in [Rows -> {"none", "PENDING", "SENT", "FAILED"}]
        /\ status'[r] = "FAILED" /\ \A s \in Rows \ {r} : status'[s] = status[s]
    BY <2>1, LeaveSettles
  <2>3. failures[r] + 1 = MaxAttempt
    BY <1>3, <1>4, <1>6, LimitsAssumption
  <2>4. AttemptsAreSpentOnFailures'
    BY <1>5, <2>2, <2>3
  <2>. QED
    BY <1>4, <2>2, <2>4 DEF RowsInv
<1>7. CASE ~(attempt'[r] >= MaxAttempt)
  <2>1. Enqueue(Without(r), r, backoffDuration(attempt'[r])) /\ status' = status
    BY <1>7 DEF Fails
  <2>2. PICK d : d = backoffDuration(attempt'[r])
    OBVIOUS
  <2>3. d \in 0..Max({MaxBackoff, SkipDelay})
    <3>1. attempt'[r] \in Nat
      BY <1>1, <1>4
    <3>. QED
      BY <2>2, <3>1, DelaysAreCapped
  <2>4. /\ queue' \in Seq(Rows) /\ QueueInv'
        /\ wait' \in [Rows -> -1..Max({MaxBackoff, SkipDelay})]
    BY <2>1, <2>2, <2>3, RequeueKeeps
  <2>5. failures[r] + 1 # MaxAttempt
    BY <1>1, <1>4, <1>7, LimitsAssumption
  <2>6. AttemptsAreSpentOnFailures'
    BY <1>5, <2>1, <2>5
  <2>. QED
    BY <1>4, <2>1, <2>4, <2>6 DEF RowsInv
<1>. QED
  BY <1>6, <1>7

-----------------------------------------------------------------------------
(***************************************************************************)
(* Every step keeps the invariant.                                         *)
(***************************************************************************)

\* The invariant is about the rows and about the workers.
LEMMA TwoParts ==
  RelayInv <=> /\ RowsInv /\ BatchInv
               /\ locked \in [Workers -> SUBSET Rows] /\ batch \in [Workers -> SUBSET Rows]
BY DEF RelayInv, RowsInv, TypeOK

\* A published row goes to its place in the queue.
LEMMA PublishStep ==
  ASSUME RelayInv, NEW r \in Rows, Publish(r)
  PROVE  RelayInv'
<1>1. RowsInv /\ BatchInv
      /\ locked \in [Workers -> SUBSET Rows] /\ batch \in [Workers -> SUBSET Rows]
  BY TwoParts
<1>2. /\ status[r] = "none" /\ status' = [status EXCEPT ![r] = "PENDING"]
      /\ Enqueue(queue, r, 0)
      /\ UNCHANGED <<attempt, failures, locked, batch>>
  BY DEF Publish
<1>3. queue \in Seq(Rows) /\ IsInjective(queue) /\ r \notin ToSet(queue)
      /\ 0 \in 0..Max({MaxBackoff, SkipDelay})
  BY <1>1, <1>2, DelaysAreCapped DEF RowsInv, QueueInv
<1>4. /\ queue' \in Seq(Rows) /\ IsInjective(queue')
      /\ ToSet(queue') = ToSet(queue) \union {r}
      /\ wait' \in [Rows -> -1..Max({MaxBackoff, SkipDelay})]
  BY <1>1, <1>2, <1>3, EnqueueAddsOne
<1>5. /\ status' \in [Rows -> {"none", "PENDING", "SENT", "FAILED"}]
      /\ status'[r] = "PENDING" /\ \A s \in Rows \ {r} : status'[s] = status[s]
  BY <1>1, <1>2 DEF RowsInv
<1>6. ToSet(queue') = {s \in Rows : status'[s] = "PENDING"}
  BY <1>1, <1>4, <1>5 DEF RowsInv, QueueInv
<1>7. AttemptsAreSpentOnFailures'
  <2>1. \A s \in Rows : /\ status'[s] = "FAILED" <=> status[s] = "FAILED"
                        /\ status'[s] = "SENT" <=> status[s] = "SENT"
    BY <1>2, <1>5
  <2>. QED
    BY <1>1, <1>2, <2>1 DEF RowsInv, AttemptsAreSpentOnFailures
<1>8. RowsInv'
  BY <1>1, <1>2, <1>4, <1>5, <1>6, <1>7 DEF RowsInv, QueueInv
<1>9. BatchInv'
  <2>1. \A w \in Workers : r \notin batch[w]
    BY <1>1, <1>2 DEF BatchInv
  <2>. QED
    BY <1>1, <1>2, <1>5, <2>1 DEF BatchInv
<1>. QED
  <2>1. locked' \in [Workers -> SUBSET Rows] /\ batch' \in [Workers -> SUBSET Rows]
    BY <1>1, <1>2
  <2>. QED
    BY <1>8, <1>9, <2>1 DEF RelayInv, RowsInv, TypeOK

\* A batch consists of rows that nobody else has locked.
LEMMA PollStep ==
  ASSUME RelayInv, NEW w \in Workers, Poll(w)
  PROVE  RelayInv'
<1>1. RowsInv /\ BatchInv
      /\ locked \in [Workers -> SUBSET Rows] /\ batch \in [Workers -> SUBSET Rows]
  BY TwoParts
<1>2. PICK rows \in SUBSET DueRows :
        /\ batch' = [batch EXCEPT ![w] = rows]
        /\ locked' = [locked EXCEPT ![w] = rows]
        /\ UNCHANGED <<queue, wait, status, attempt, failures>>
  BY DEF Poll
<1>3. /\ rows \subseteq Rows /\ \A r \in rows : status[r] = "PENDING"
      /\ \A v \in Workers : locked[v] \cap rows = {}
  BY <1>1 DEF RowsInv, QueueInv, DueRows, Due
<1>4. RowsInv'
  BY <1>1, <1>2 DEF RowsInv, QueueInv, AttemptsAreSpentOnFailures
<1>5. locked' \in [Workers -> SUBSET Rows] /\ batch' \in [Workers -> SUBSET Rows]
  BY <1>1, <1>2, <1>3
<1>6. BatchInv'
  <2>1. /\ batch'[w] = rows /\ locked'[w] = rows
        /\ \A v \in Workers \ {w} : batch'[v] = batch[v] /\ locked'[v] = locked[v]
    BY <1>1, <1>2
  <2>2. SUFFICES ASSUME NEW v \in Workers
                 PROVE  /\ batch'[v] \subseteq locked'[v]
                        /\ \A r \in batch'[v] : status'[r] = "PENDING"
                        /\ \A x \in Workers \ {v} : locked'[x] \cap locked'[v] = {}
    BY DEF BatchInv
  <2>3. CASE v = w
    BY <1>2, <1>3, <2>1, <2>3
  <2>4. CASE v # w
    BY <1>1, <1>2, <1>3, <2>1, <2>4 DEF BatchInv
  <2>. QED
    BY <2>3, <2>4
<1>. QED
  BY <1>4, <1>5, <1>6 DEF RelayInv, RowsInv, TypeOK

\* A dispatched row is settled or put back, and no other worker has it.
LEMMA DispatchStep ==
  ASSUME RelayInv, NEW w \in Workers, Dispatch(w)
  PROVE  RelayInv'
<1>1. RowsInv /\ BatchInv
      /\ locked \in [Workers -> SUBSET Rows] /\ batch \in [Workers -> SUBSET Rows]
  BY TwoParts
<1>2. PICK r \in batch[w] :
        /\ \/ UNCHANGED <<queue, wait, status, attempt, failures>>
           \/ Succeeds(r) \/ Skips(r) \/ Fails(r)
        /\ batch' = [batch EXCEPT ![w] = @ \ {r}]
        /\ UNCHANGED locked
  BY DEF Dispatch
<1>3. r \in Rows /\ status[r] = "PENDING"
  BY <1>1 DEF BatchInv
<1>4. RowsInv' /\ \A s \in Rows \ {r} : status'[s] = status[s]
  <2>1. CASE UNCHANGED <<queue, wait, status, attempt, failures>>
    BY <1>1, <2>1 DEF RowsInv, QueueInv, AttemptsAreSpentOnFailures
  <2>. QED
    BY <1>1, <1>2, <1>3, <2>1, SuccessSpends, SkipIsFree, FailureSpends
<1>5. locked' \in [Workers -> SUBSET Rows] /\ batch' \in [Workers -> SUBSET Rows]
  BY <1>1, <1>2
<1>6. BatchInv'
  <2>1. \A v \in Workers : batch'[v] \subseteq batch[v] /\ r \notin batch'[v]
    <3>1. \A v \in Workers \ {w} : r \notin batch[v]
      BY <1>1, <1>2 DEF BatchInv
    <3>. QED
      BY <1>1, <1>2, <3>1
  <2>. QED
    BY <1>1, <1>2, <1>4, <2>1 DEF BatchInv
<1>. QED
  BY <1>4, <1>5, <1>6 DEF RelayInv, RowsInv, TypeOK

\* The invariant of the queue.
THEOREM RelayHolds == Spec => []RelayInv
<1>1. Init => RelayInv
  <2>. SUFFICES ASSUME Init PROVE RelayInv
    OBVIOUS
  <2>1. queue \in Seq(Rows) /\ IsInjective(queue) /\ ToSet(queue) = {}
    BY DEF Init, IsInjective, ToSet
  <2>2. 0 \in -1..Max({MaxBackoff, SkipDelay}) /\ 0 \in 0..MaxAttempt /\ MaxAttempt # 0
    BY DelayAssumption, LimitsAssumption, MaxOfTwo
  <2>3. TypeOK
    BY <2>1, <2>2 DEF Init, TypeOK
  <2>4. QueueInv
    BY <2>1 DEF Init, QueueInv
  <2>5. BatchInv /\ AttemptsAreSpentOnFailures
    BY <2>2 DEF Init, BatchInv, AttemptsAreSpentOnFailures
  <2>. QED
    BY <2>3, <2>4, <2>5 DEF RelayInv
<1>2. RelayInv /\ [Next]_vars => RelayInv'
  <2>. SUFFICES ASSUME RelayInv, [Next]_vars PROVE RelayInv'
    OBVIOUS
  <2>1. ASSUME NEW r \in Rows, Publish(r) PROVE RelayInv'
    BY <2>1, PublishStep
  <2>2. ASSUME NEW w \in Workers, Poll(w) PROVE RelayInv'
    BY <2>2, PollStep
  <2>3. ASSUME NEW w \in Workers, Dispatch(w) PROVE RelayInv'
    BY <2>3, DispatchStep
  <2>4. ASSUME NEW w \in Workers, Commit(w) PROVE RelayInv'
    <3>1. RowsInv'
      BY <2>4, TwoParts DEF Commit, RowsInv, QueueInv, AttemptsAreSpentOnFailures
    <3>2. locked' \in [Workers -> SUBSET Rows] /\ batch' \in [Workers -> SUBSET Rows]
      BY <2>4, TwoParts DEF Commit
    <3>3. BatchInv'
      BY <2>4, TwoParts DEF Commit, BatchInv
    <3>. QED
      BY <3>1, <3>2, <3>3 DEF RelayInv, RowsInv, TypeOK
  <2>5. CASE Tick
    <3>1. RowsInv /\ BatchInv
          /\ locked \in [Workers -> SUBSET Rows] /\ batch \in [Workers -> SUBSET Rows]
      BY TwoParts
    <3>2. wait' \in [Rows -> -1..Max({MaxBackoff, SkipDelay})]
      <4>1. Max({MaxBackoff, SkipDelay}) \in Int
        BY DelayAssumption, MaxOfTwo
      <4>2. ASSUME NEW r \in Rows
            PROVE  /\ wait[r] \in -1..Max({MaxBackoff, SkipDelay})
                   /\ wait[r] >= 0 => wait[r] - 1 \in -1..Max({MaxBackoff, SkipDelay})
        <5>1. wait[r] \in -1..Max({MaxBackoff, SkipDelay})
          BY <3>1 DEF RowsInv
        <5>. QED
          BY <4>1, <5>1
      <4>. QED
        BY <2>5, <4>2 DEF Tick
    <3>3. UNCHANGED <<queue, status, attempt, failures, locked, batch>>
      BY <2>5 DEF Tick
    <3>. QED
      BY <3>1, <3>2, <3>3
         DEF RelayInv, RowsInv, TypeOK, QueueInv, BatchInv, AttemptsAreSpentOnFailures
  <2>6. CASE UNCHANGED vars
    BY <2>6 DEF vars, RelayInv, TypeOK, QueueInv, BatchInv, AttemptsAreSpentOnFailures
  <2>. QED
    BY <2>1, <2>2, <2>3, <2>4, <2>5, <2>6 DEF Next, Worker
<1>3. Spec => Init /\ [][Next]_vars
  BY PTL DEF Spec
<1>. QED
  BY <1>1, <1>2, <1>3, PTL

\* Every variable keeps its type: no row is tried more than MaxAttempt times, and none
\* waits longer than the caps allow.
THEOREM QueueTypes == Spec => []TypeOK
BY RelayHolds, PTL DEF RelayInv

\* Attempts are spent on failures and on the final success only: a row is FAILED after
\* MaxAttempt real failures and not before, whatever the order the workers dispatch in.
THEOREM OnlyFailuresCost == Spec => []AttemptsAreSpentOnFailures
BY RelayHolds, PTL DEF RelayInv
=============================================================================
