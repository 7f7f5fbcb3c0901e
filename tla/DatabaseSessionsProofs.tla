----------------------- MODULE DatabaseSessionsProofs -----------------------
(***************************************************************************)
(* Proofs about DatabaseSessions, for any number of requests, relays,      *)
(* tickers and reconcilers in any number of processes, any pools that      *)
(* NestingAssumption allows, any rows, and lists of rows in any order.     *)
(***************************************************************************)
EXTENDS DatabaseSessions, FiniteSetTheorems, SequenceTheorems, TLAPS

-----------------------------------------------------------------------------
(***************************************************************************)
(* What a step does to the connections of the task that takes it, and what *)
(* it expects of them.  For each connection the locks are named that it    *)
(* may have: none, or those of the tables that this kind of work writes.   *)
(***************************************************************************)
Kind(t) ==
  IF t \in Relays THEN "relay"
  ELSE IF t \in Reconcilers THEN "reconciler"
  ELSE IF t \in Clients THEN "client" ELSE "ticker"

Nests(kind) == kind \in {"relay", "reconciler"}

RowLocks(rows) == rows \X {"exclusive", "shared"}
RangeLocks(tables) == tables \X {"range"}

LocksOf(kind) ==
  CASE kind = "relay"      -> Transfers \X {"exclusive"}
    [] kind = "reconciler" ->
         RowLocks(Deposits \cup {"invoice"}) \cup RangeLocks({"incoming_transactions"})
    [] kind = "client"     ->
         RowLocks(Transfers \cup Accounts) \cup RangeLocks({"transfers", "accounts"})
    [] OTHER               -> {}

\* No connection, or the relay's or the reconciler's outer one without locks.
Clear(kind, conns) == conns = << >> \/ (Nests(kind) /\ conns = <<{}>>)

\* Where a batch or a tick stands between two rows or accounts.
Base(kind) == IF kind = "relay" THEN <<{}>> ELSE << >>

\* The connections of a task whose transaction has these locks.
Locking(kind, locks) == IF kind = "relay" THEN <<{}, locks>> ELSE <<locks>>

Unlocked(kind) == Locking(kind, {})
Locked(kind) == Locking(kind, LocksOf(kind))

\* The connections that a kind of work may have, with the locks each may have.
WellShaped(kind, conns) ==
  \/ conns = << >>
  \/ \E P \in {{}, LocksOf(kind)} : conns = <<P>> /\ (kind = "relay" => P = {})
  \/ Nests(kind) /\ \E P \in {{}, LocksOf(kind)} : conns = <<{}, P>>

\* A task has these connections, and of the locks that they may have, some.
Fits(conns, shape) ==
  \/ conns = << >> /\ shape = << >>
  \/ \E P : \E X \in SUBSET P : conns = <<X>> /\ shape = <<P>>
  \/ \E P : \E X \in SUBSET P : conns = <<{}, X>> /\ shape = <<{}, P>>

Modes == {"exclusive", "shared", "range"}

LockSteps == UNION {{Lock(x), Share(x)} : x \in Transfers \cup Accounts \cup Deposits \cup {"invoice"}}
TableSteps == UNION {{RangeLock(x), Into(x), Rows(x)} : x \in Tables}
Steps == {Open, Close, Bank, Return} \cup LockSteps \cup TableSteps

Opens(step, kind, a, b)   == step = Open /\ Clear(kind, a) /\ b = Append(a, {})
Closes(step, a, b)        == step = Close /\ a # << >> /\ b = SubSeq(a, 1, Len(a) - 1)
Calls(step, kind, a, b)   == step = Bank /\ Clear(kind, a) /\ b = a
Returns(step, kind, a, b) == step = Return /\ Nests(kind) /\ a = Base(kind) /\ b = a

\* The statements that a kind of work runs in its transactions.
Allowed(step, kind) ==
  \/ step.do \in Modes /\ <<step.what, step.do>> \in LocksOf(kind)
  \/ step.do = "insert" /\ (step.what = "outbox" \/ <<step.what, "range">> \in LocksOf(kind))
  \/ step.do = "rows" /\ kind = "client" /\ step.what = "accounts"
  \/ step.do = "rows" /\ kind = "reconciler" /\ step.what = "incoming_transactions"

\* The relay's transactions lock one row, and that first.
Writes(step, kind, a, b) ==
  /\ Allowed(step, kind)
  /\ b = Locked(kind)
  /\ a = Unlocked(kind) \/ (a = Locked(kind) /\ (kind = "relay" => step.do = "insert"))

Moves(step, kind, a, b) ==
  \/ Opens(step, kind, a, b)
  \/ Closes(step, a, b)
  \/ Calls(step, kind, a, b)
  \/ Returns(step, kind, a, b)
  \/ Writes(step, kind, a, b)

\* The script leads from the connections a to the connections b: there is a way
\* that starts at a, ends at b, and moves with every step.
Way(script, kind, D, a, b) ==
  /\ D[1] = a /\ D[Len(script) + 1] = b
  /\ \A n \in 1 .. Len(script) : Moves(script[n], kind, D[n], D[n + 1])

Leads(script, kind, a, b) ==
  script \in Seq(Steps) /\ \E D : Way(script, kind, D, a, b)

\* No handler returns before its end.
Plain(script) == \A n \in 1 .. Len(script) : script[n] # Return

-----------------------------------------------------------------------------
(***************************************************************************)
(* The locks of the kinds of work.                                         *)
(***************************************************************************)

\* They are locks of rows and ranges, and nobody locks the range of the outbox.
LEMMA LocksAreLocks ==
  ASSUME NEW kind
  PROVE  LocksOf(kind) \subseteq Locks /\ \A mode : <<"outbox", mode>> \notin LocksOf(kind)
<1>1. LocksOf(kind) \subseteq Locks
  BY DEF LocksOf, RowLocks, RangeLocks, Locks, Tables
<1>2. "outbox" \notin Transfers \cup Accounts \cup Deposits
  BY RowsAssumption DEF Tables
<1>3. \A mode : <<"outbox", mode>> \notin LocksOf(kind)
  BY <1>2 DEF LocksOf, RowLocks, RangeLocks
<1>. QED
  BY <1>1, <1>3

\* Requests and the relay write other tables than the reconciler.
LEMMA LocksAreApart ==
  ASSUME NEW x, NEW m, NEW n, <<x, n>> \in LocksOf("reconciler")
  PROVE  <<x, m>> \notin LocksOf("client") /\ <<x, m>> \notin LocksOf("relay")
<1>1. x \in Deposits \cup {"invoice", "incoming_transactions"}
  BY DEF LocksOf, RowLocks, RangeLocks
<1>2. x \notin Transfers \cup Accounts \cup {"transfers", "accounts"}
  BY <1>1, RowsAssumption DEF Tables
<1>. QED
  BY <1>2 DEF LocksOf, RowLocks, RangeLocks

-----------------------------------------------------------------------------
(***************************************************************************)
(* Scripts put together from shorter ones.                                 *)
(***************************************************************************)

\* One script after the other.
LEMMA LeadsOn ==
  ASSUME NEW kind, NEW s1, NEW s2, NEW a, NEW b, NEW c,
         Leads(s1, kind, a, b), Leads(s2, kind, b, c)
  PROVE  Leads(s1 \o s2, kind, a, c)
<1>1. PICK D1 : Way(s1, kind, D1, a, b)
  BY DEF Leads
<1>2. PICK D2 : Way(s2, kind, D2, b, c)
  BY DEF Leads
<1>3. s1 \in Seq(Steps) /\ s2 \in Seq(Steps) /\ Len(s1) \in Nat /\ Len(s2) \in Nat
  BY DEF Leads
<1>. DEFINE D == [n \in 1 .. Len(s1) + Len(s2) + 1 |->
                    IF n <= Len(s1) THEN D1[n] ELSE D2[n - Len(s1)]]
<1>4. /\ s1 \o s2 \in Seq(Steps) /\ Len(s1 \o s2) = Len(s1) + Len(s2)
      /\ \A n \in 1 .. Len(s1) : (s1 \o s2)[n] = s1[n]
      /\ \A n \in Len(s1) + 1 .. Len(s1) + Len(s2) : (s1 \o s2)[n] = s2[n - Len(s1)]
  BY <1>3
<1>5. D[1] = a /\ D[Len(s1) + Len(s2) + 1] = c
  BY <1>1, <1>2, <1>3 DEF Way
<1>6. ASSUME NEW n \in 1 .. Len(s1) + Len(s2)
      PROVE  Moves((s1 \o s2)[n], kind, D[n], D[n + 1])
  <2>1. CASE n < Len(s1)
    BY <2>1, <1>1, <1>3, <1>4 DEF Way
  <2>2. CASE n = Len(s1)
    <3>1. D[n] = D1[n] /\ D[n + 1] = D2[1] /\ D2[1] = D1[Len(s1) + 1]
      BY <2>2, <1>1, <1>2, <1>3 DEF Way
    <3>. HIDE DEF D
    <3>. QED
      BY <2>2, <3>1, <1>1, <1>3, <1>4 DEF Way
  <2>3. CASE n > Len(s1)
    <3>1. n - Len(s1) \in 1 .. Len(s2)
      BY <2>3, <1>3
    <3>2. D[n] = D2[n - Len(s1)] /\ D[n + 1] = D2[(n - Len(s1)) + 1]
      <4>1. (n + 1) - Len(s1) = (n - Len(s1)) + 1
        BY <1>3
      <4>. QED
        BY <2>3, <1>3, <4>1
    <3>. HIDE DEF D
    <3>3. (s1 \o s2)[n] = s2[n - Len(s1)]
      BY <2>3, <1>3, <1>4
    <3>. QED
      BY <3>1, <3>2, <3>3, <1>2 DEF Way
  <2>. QED
    BY <2>1, <2>2, <2>3, <1>3
<1>. HIDE DEF D
<1>7. Way(s1 \o s2, kind, D, a, c)
  BY <1>4, <1>5, <1>6 DEF Way
<1>. QED
  BY <1>4, <1>7 DEF Leads

\* A step that moves is a script of its own, and so is no step at all.
LEMMA LeadsAtOnce ==
  ASSUME NEW kind, NEW step \in Steps, NEW a, NEW b, Moves(step, kind, a, b)
  PROVE  Leads(<<step>>, kind, a, b)
<1>. DEFINE D == [n \in 1 .. 2 |-> IF n = 1 THEN a ELSE b]
<1>1. D[1] = a /\ D[2] = b
  OBVIOUS
<1>. HIDE DEF D
<1>2. Way(<<step>>, kind, D, a, b)
  BY <1>1 DEF Way
<1>. QED
  BY <1>2 DEF Leads

\* What is left of a script after its first step.
LEMMA LeadsAfterHead ==
  ASSUME NEW kind, NEW s, NEW a, NEW b, Leads(s, kind, a, b), s # << >>
  PROVE  \E c : /\ Moves(Head(s), kind, a, c) /\ Leads(Tail(s), kind, c, b)
                /\ Head(s) \in Steps
<1>1. PICK D : Way(s, kind, D, a, b)
  BY DEF Leads
<1>2. s \in Seq(Steps) /\ Len(s) \in Nat /\ Len(s) >= 1
  BY DEF Leads
<1>. DEFINE E == [n \in 1 .. Len(s) |-> D[n + 1]]
<1>3. /\ Tail(s) \in Seq(Steps) /\ Len(Tail(s)) = Len(s) - 1 /\ Head(s) = s[1]
      /\ \A n \in 1 .. Len(s) - 1 : Tail(s)[n] = s[n + 1]
  BY <1>2
<1>4. E[1] = D[2] /\ E[Len(s)] = b
  BY <1>1, <1>2 DEF Way
<1>5. ASSUME NEW n \in 1 .. Len(s) - 1
      PROVE  Moves(Tail(s)[n], kind, E[n], E[n + 1])
  <2>1. E[n] = D[n + 1] /\ E[n + 1] = D[(n + 1) + 1] /\ n + 1 \in 1 .. Len(s)
    BY <1>2
  <2>. HIDE DEF E
  <2>. QED
    BY <2>1, <1>1, <1>3 DEF Way
<1>. HIDE DEF E
<1>6. Way(Tail(s), kind, E, D[2], b)
  BY <1>2, <1>3, <1>4, <1>5 DEF Way
<1>7. Moves(s[1], kind, a, D[2])
  BY <1>1, <1>2 DEF Way
<1>. QED
  BY <1>2, <1>3, <1>6, <1>7 DEF Leads

-----------------------------------------------------------------------------
(***************************************************************************)
(* The scripts of the program.                                             *)
(***************************************************************************)

\* A script that comes back to the connections it began with.
Round(script, kind, a) == Leads(script, kind, a, a) /\ Plain(script)

\* The steps of a script are of different sorts.
LEMMA StepsDiffer ==
  /\ {Open, Close, Bank, Return} \subseteq Steps
  /\ Return \notin {Open, Close, Bank}
  /\ \A step \in LockSteps \cup TableSteps :
       step \in Steps /\ step # Return /\ step.do \in {"exclusive", "shared", "range", "insert", "rows"}
BY DEF Steps, LockSteps, TableSteps, Open, Close, Bank, Return, Lock, Share, RangeLock, Into, Rows

\* Two steps are one after the other.
LEMMA OneAfterOther ==
  ASSUME NEW x \in Steps, NEW y \in Steps
  PROVE  <<x>> \o <<y>> = <<x, y>>
<1>1. /\ <<x>> \o <<y>> \in Seq(Steps) /\ <<x, y>> \in Seq(Steps)
      /\ Len(<<x>> \o <<y>>) = 2 /\ Len(<<x, y>>) = 2
  OBVIOUS
<1>2. (<<x>> \o <<y>>)[1] = x /\ (<<x>> \o <<y>>)[2] = y
  OBVIOUS
<1>3. \A n \in 1 .. 2 : (<<x>> \o <<y>>)[n] = <<x, y>>[n]
  BY <1>2
<1>. QED
  BY <1>1, <1>3, SeqEqual

\* No step leads from any connections to the same, and to no others.
LEMMA NothingLeadsNowhere ==
  ASSUME NEW kind, NEW a
  PROVE  /\ Leads(<< >>, kind, a, a)
         /\ \A b : Leads(<< >>, kind, a, b) => a = b
<1>. DEFINE D == [n \in 1 .. 1 |-> a]
<1>1. D[1] = a
  OBVIOUS
<1>. HIDE DEF D
<1>2. Way(<< >>, kind, D, a, a)
  BY <1>1 DEF Way
<1>3. << >> \in Seq(Steps)
  OBVIOUS
<1>. QED
  BY <1>2, <1>3 DEF Leads, Way

\* Two scripts without a return make one.
LEMMA PlainAfterPlain ==
  ASSUME NEW s1 \in Seq(Steps), NEW s2 \in Seq(Steps), Plain(s1), Plain(s2)
  PROVE  Plain(s1 \o s2)
<1>1. ASSUME NEW n \in 1 .. Len(s1 \o s2)
      PROVE  (s1 \o s2)[n] # Return
  <2>1. CASE n <= Len(s1)
    BY <2>1 DEF Plain
  <2>2. CASE n > Len(s1)
    <3>1. (s1 \o s2)[n] = s2[n - Len(s1)] /\ n - Len(s1) \in 1 .. Len(s2)
      BY <2>2
    <3>. QED
      BY <3>1 DEF Plain
  <2>. QED
    BY <2>1, <2>2
<1>. QED
  BY <1>1 DEF Plain

\* Two scripts that come back make one that does.
LEMMA RoundAfterRound ==
  ASSUME NEW kind, NEW a, NEW s1, NEW s2, Round(s1, kind, a), Round(s2, kind, a)
  PROVE  Round(s1 \o s2, kind, a)
<1>1. s1 \in Seq(Steps) /\ s2 \in Seq(Steps)
  BY DEF Round, Leads
<1>. QED
  BY <1>1, LeadsOn, PlainAfterPlain DEF Round

\* What is left of two connections without the inner one.
LEMMA InnermostIsLast == \A X, Y : SubSeq(<<X, Y>>, 1, 1) = <<X>>
<1>. SUFFICES ASSUME NEW X, NEW Y PROVE SubSeq(<<X, Y>>, 1, 1) = <<X>>
  OBVIOUS
<1>1. /\ SubSeq(<<X, Y>>, 1, 1) \in Seq({X, Y}) /\ <<X>> \in Seq({X, Y})
      /\ Len(SubSeq(<<X, Y>>, 1, 1)) = 1 /\ Len(<<X>>) = 1
      /\ SubSeq(<<X, Y>>, 1, 1)[1] = X
  OBVIOUS
<1>2. \A n \in 1 .. 1 : SubSeq(<<X, Y>>, 1, 1)[n] = <<X>>[n]
  BY <1>1
<1>. QED
  BY <1>1, <1>2, SeqEqual

\* One connection and another inside it.
LEMMA InnermostIsAppended == \A X, Y : Append(<<X>>, Y) = <<X, Y>>
<1>. SUFFICES ASSUME NEW X, NEW Y PROVE Append(<<X>>, Y) = <<X, Y>>
  OBVIOUS
<1>1. /\ Append(<<X>>, Y) \in Seq({X, Y}) /\ <<X, Y>> \in Seq({X, Y})
      /\ Len(Append(<<X>>, Y)) = 2 /\ Len(<<X, Y>>) = 2
      /\ Append(<<X>>, Y)[1] = X /\ Append(<<X>>, Y)[2] = Y
  OBVIOUS
<1>2. \A n \in 1 .. 2 : Append(<<X>>, Y)[n] = <<X, Y>>[n]
  BY <1>1
<1>. QED
  BY <1>1, <1>2, SeqEqual

\* The end of a connection brings back what was open before.
LEMMA CloseEndsInnermost ==
  ASSUME NEW kind, NEW a, Clear(kind, a), NEW X
  PROVE  Leads(<<Close>>, kind, Append(a, X), a)
<1>1. Append(a, X) # << >> /\ a = SubSeq(Append(a, X), 1, Len(Append(a, X)) - 1)
  <2>1. CASE a = << >>
    <3>1. Append(a, X) = <<X>> /\ SubSeq(<<X>>, 1, 0) = << >>
      BY <2>1
    <3>. QED
      BY <2>1, <3>1
  <2>2. CASE a = <<{}>>
    <3>1. Append(a, X) = <<{}, X>> /\ Len(<<{}, X>>) - 1 = 1
      BY <2>2, InnermostIsAppended
    <3>2. SubSeq(<<{}, X>>, 1, 1) = <<{}>>
      BY InnermostIsLast
    <3>. QED
      BY <2>2, <3>1, <3>2
  <2>. QED
    BY <2>1, <2>2 DEF Clear
<1>2. Moves(Close, kind, Append(a, X), a)
  BY <1>1 DEF Moves, Closes
<1>. QED
  BY <1>2, StepsDiffer, LeadsAtOnce

\* A transaction.
LEMMA DoIsRound ==
  ASSUME NEW kind, NEW a, Clear(kind, a), NEW body, NEW X,
         Leads(body, kind, Append(a, {}), Append(a, X)), Plain(body)
  PROVE  Round(Do(body), kind, a)
<1>1. Leads(<<Open>>, kind, a, Append(a, {}))
  <2>1. Moves(Open, kind, a, Append(a, {}))
    BY DEF Moves, Opens
  <2>. QED
    BY <2>1, StepsDiffer, LeadsAtOnce
<1>2. Leads(<<Close>>, kind, Append(a, X), a)
  BY CloseEndsInnermost
<1>3. Leads(<<Open>> \o body, kind, a, Append(a, X))
  BY <1>1, LeadsOn
<1>4. Leads((<<Open>> \o body) \o <<Close>>, kind, a, a)
  BY <1>2, <1>3, LeadsOn
<1>5. /\ <<Open>> \in Seq(Steps) /\ <<Close>> \in Seq(Steps) /\ body \in Seq(Steps)
      /\ <<Open>> \o body \in Seq(Steps)
  BY StepsDiffer, <1>3 DEF Leads
<1>6. Plain(<<Open>>) /\ Plain(<<Close>>)
  BY StepsDiffer DEF Plain
<1>7. Plain((<<Open>> \o body) \o <<Close>>)
  BY <1>5, <1>6, PlainAfterPlain
<1>. QED
  BY <1>4, <1>7 DEF Do, Round

\* A statement through the pool, and the call of the bank outside a transaction.
LEMMA QueryIsRound ==
  ASSUME NEW kind, NEW a, Clear(kind, a)
  PROVE  Round(Query, kind, a) /\ Round(<<Bank>>, kind, a)
<1>1. Leads(<<Open>>, kind, a, Append(a, {}))
  <2>1. Moves(Open, kind, a, Append(a, {}))
    BY DEF Moves, Opens
  <2>. QED
    BY <2>1, StepsDiffer, LeadsAtOnce
<1>2. Leads(<<Open>> \o <<Close>>, kind, a, a)
  BY <1>1, CloseEndsInnermost, LeadsOn
<1>3. <<Open>> \o <<Close>> = Query
  BY StepsDiffer, OneAfterOther DEF Query
<1>4. Plain(Query) /\ Plain(<<Bank>>)
  BY StepsDiffer DEF Plain, Query
<1>5. Leads(<<Bank>>, kind, a, a)
  <2>1. Moves(Bank, kind, a, a)
    BY DEF Moves, Calls
  <2>. QED
    BY <2>1, StepsDiffer, LeadsAtOnce
<1>. QED
  BY <1>2, <1>3, <1>4, <1>5 DEF Round

\* A transaction begins without locks at the base of its batch or tick.
LEMMA LockingAtBase ==
  ASSUME NEW kind
  PROVE  /\ Nests(kind) => Clear(kind, Base(kind))
         /\ Clear(kind, << >>)
         /\ Append(Base(kind), {}) = Unlocked(kind)
         /\ Append(Base(kind), LocksOf(kind)) = Locked(kind)
<1>1. \A X : Append(<< >>, X) = <<X>> /\ Append(<<{}>>, X) = <<{}, X>>
  BY InnermostIsAppended
<1>. QED
  BY <1>1 DEF Clear, Base, Locking, Unlocked, Locked

\* A statement that the kind of work runs in its transactions.
LEMMA StatementLeads ==
  ASSUME NEW kind, NEW step \in LockSteps \cup TableSteps, Allowed(step, kind)
  PROVE  /\ step \in Steps /\ <<step>> \in Seq(Steps) /\ Plain(<<step>>)
         /\ Leads(<<step>>, kind, Unlocked(kind), Locked(kind))
         /\ kind # "relay" \/ step.do = "insert" =>
              Leads(<<step>>, kind, Locked(kind), Locked(kind))
<1>1. step \in Steps /\ step # Return
  BY StepsDiffer
<1>2. Moves(step, kind, Unlocked(kind), Locked(kind))
  BY DEF Moves, Writes
<1>3. kind # "relay" \/ step.do = "insert" => Moves(step, kind, Locked(kind), Locked(kind))
  BY DEF Moves, Writes
<1>. QED
  BY <1>1, <1>2, <1>3, LeadsAtOnce DEF Plain

\* A transaction's script, without the end: from no locks, or where the transaction is
\* not the relay's also from some, to those of its kind.
Body(script, kind) ==
  /\ script \in Seq(Steps) /\ Plain(script)
  /\ Leads(script, kind, Unlocked(kind), Locked(kind))
  /\ kind # "relay" => Leads(script, kind, Locked(kind), Locked(kind))

\* One statement, and statements after others.
LEMMA StatementIsBody ==
  ASSUME NEW kind, NEW step \in LockSteps \cup TableSteps, Allowed(step, kind)
  PROVE  Body(<<step>>, kind)
BY StatementLeads DEF Body

LEMMA BodyAfterBody ==
  ASSUME NEW kind, kind # "relay", NEW s1, NEW s2, Body(s1, kind), Body(s2, kind)
  PROVE  Body(s1 \o s2, kind)
<1>1. s1 \in Seq(Steps) /\ s2 \in Seq(Steps) /\ s1 \o s2 \in Seq(Steps)
  BY DEF Body
<1>2. /\ Leads(s1 \o s2, kind, Unlocked(kind), Locked(kind))
      /\ Leads(s1 \o s2, kind, Locked(kind), Locked(kind))
  BY LeadsOn DEF Body
<1>3. Plain(s1 \o s2)
  BY <1>1, PlainAfterPlain DEF Body
<1>. QED
  BY <1>1, <1>2, <1>3 DEF Body

\* Two statements.
LEMMA TwoStatements ==
  ASSUME NEW kind, kind # "relay",
         NEW x \in LockSteps \cup TableSteps, NEW y \in LockSteps \cup TableSteps,
         Allowed(x, kind), Allowed(y, kind)
  PROVE  Body(<<x, y>>, kind)
<1>1. Body(<<x>>, kind) /\ Body(<<y>>, kind) /\ x \in Steps /\ y \in Steps
  BY StatementIsBody, StatementLeads
<1>2. Body(<<x>> \o <<y>>, kind)
  BY <1>1, BodyAfterBody
<1>3. <<x>> \o <<y>> = <<x, y>>
  BY <1>1, OneAfterOther
<1>. QED
  BY <1>2, <1>3

\* A transaction with such a script.
LEMMA BodyIsRound ==
  ASSUME NEW kind, Clear(kind, Base(kind)), NEW s, Body(s, kind)
  PROVE  Round(Do(s), kind, Base(kind))
<1>1. Leads(s, kind, Append(Base(kind), {}), Append(Base(kind), LocksOf(kind))) /\ Plain(s)
  BY LockingAtBase DEF Body
<1>. HIDE DEF Base, Clear, LocksOf
<1>. QED
  BY <1>1, DoIsRound

\* The inserts of a row whose locks are of this kind of work.
LEMMA InsertsAreBodies ==
  ASSUME NEW kind, kind # "relay", NEW table \in Tables,
         NEW x \in Transfers \cup Accounts \cup Deposits, NEW found \in {Lock(x), Share(x)},
         <<table, "range">> \in LocksOf(kind),
         <<x, "exclusive">> \in LocksOf(kind), <<x, "shared">> \in LocksOf(kind)
  PROVE  /\ Body(New(table, x), kind) /\ Body(Stored(table, found), kind)
         /\ Body(FreeAgain(table, x, found), kind)
<1>1. /\ Into(table) \in TableSteps /\ RangeLock(table) \in TableSteps
      /\ Lock(x) \in LockSteps /\ found \in LockSteps
  BY DEF TableSteps, LockSteps
<1>2. /\ Allowed(Into(table), kind) /\ Allowed(RangeLock(table), kind)
      /\ Allowed(Lock(x), kind) /\ Allowed(found, kind)
  BY DEF Allowed, Modes, Into, RangeLock, Lock, Share
<1>3. Body(New(table, x), kind)
  BY <1>1, <1>2, TwoStatements DEF New
<1>4. Body(Stored(table, found), kind)
  BY <1>1, <1>2, TwoStatements DEF Stored
<1>. QED
  BY <1>3, <1>4, BodyAfterBody DEF FreeAgain

\* What is run for a row of a list.
LEMMA StatementsAreBodies ==
  /\ \A s \in Statements("accounts") : Body(s, "client")
  /\ \A s \in Statements("incoming_transactions") : Body(s, "reconciler")
<1>1. ASSUME NEW s \in Statements("accounts") PROVE Body(s, "client")
  <2>1. PICK x \in Accounts : s \in Inserts("accounts", x, Lock(x))
    BY <1>1 DEF Statements
  <2>2. /\ <<"accounts", "range">> \in LocksOf("client") /\ "accounts" \in Tables
        /\ <<x, "exclusive">> \in LocksOf("client") /\ <<x, "shared">> \in LocksOf("client")
    BY DEF LocksOf, RowLocks, RangeLocks, Tables
  <2>. QED
    BY <2>1, <2>2, InsertsAreBodies DEF Inserts
<1>2. ASSUME NEW s \in Statements("incoming_transactions") PROVE Body(s, "reconciler")
  <2>1. PICK x \in Deposits : s \in Inserts("incoming_transactions", x, Share(x))
    BY <1>2 DEF Statements
  <2>2. /\ <<"incoming_transactions", "range">> \in LocksOf("reconciler")
        /\ "incoming_transactions" \in Tables
        /\ <<x, "exclusive">> \in LocksOf("reconciler") /\ <<x, "shared">> \in LocksOf("reconciler")
    BY DEF LocksOf, RowLocks, RangeLocks, Tables
  <2>. QED
    BY <2>1, <2>2, InsertsAreBodies DEF Inserts
<1>. QED
  BY <1>1, <1>2

\* Every kind of work may insert into the outbox.
LEMMA OutboxIsOpen ==
  ASSUME NEW kind
  PROVE  Into("outbox") \in TableSteps /\ Allowed(Into("outbox"), kind)
BY DEF TableSteps, Tables, Allowed, Into

\* Requests for a transfer whose key is stored, or is not.
LEMMA TransferRequests ==
  ASSUME NEW x \in Transfers, NEW s \in {DuplicateRequest(x)} \cup NewRequests(x)
  PROVE  Round(s, "client", << >>)
<1>1. Clear("client", << >>) /\ Base("client") = << >>
  BY DEF Clear, Base
<1>2. Round(Query, "client", << >>)
  BY <1>1, QueryIsRound
<1>3. /\ <<"transfers", "range">> \in LocksOf("client") /\ "transfers" \in Tables
      /\ <<x, "exclusive">> \in LocksOf("client") /\ <<x, "shared">> \in LocksOf("client")
  BY DEF LocksOf, RowLocks, RangeLocks, Tables
<1>4. /\ Body(New("transfers", x), "client") /\ Body(Stored("transfers", Share(x)), "client")
      /\ Body(FreeAgain("transfers", x, Share(x)), "client")
  BY <1>3, InsertsAreBodies
<1>5. CASE s = DuplicateRequest(x)
  <2>1. Round(Do(Stored("transfers", Share(x))), "client", << >>)
    BY <1>1, <1>4, BodyIsRound
  <2>2. Round(Query \o Do(Stored("transfers", Share(x))), "client", << >>)
    BY <1>2, <2>1, RoundAfterRound
  <2>. QED
    BY <1>2, <1>5, <2>2, RoundAfterRound DEF DuplicateRequest
<1>6. CASE s \in NewRequests(x)
  <2>1. PICK insert \in {New("transfers", x), FreeAgain("transfers", x, Share(x))} :
          s = Query \o Do(insert \o <<Into("outbox")>>)
    BY <1>6 DEF NewRequests
  <2>2. Body(<<Into("outbox")>>, "client")
    BY OutboxIsOpen, StatementIsBody
  <2>3. Body(insert \o <<Into("outbox")>>, "client")
    BY <1>4, <2>1, <2>2, BodyAfterBody
  <2>4. Round(Do(insert \o <<Into("outbox")>>), "client", << >>)
    BY <1>1, <2>3, BodyIsRound
  <2>. QED
    BY <1>2, <2>1, <2>4, RoundAfterRound
<1>. QED
  BY <1>5, <1>6

\* POST /accounts/sync.
LEMMA SyncComesBack == Round(SyncAccounts, "client", << >>)
<1>1. Clear("client", << >>) /\ Base("client") = << >>
  BY DEF Clear, Base
<1>2. Rows("accounts") \in TableSteps /\ Allowed(Rows("accounts"), "client")
  BY DEF TableSteps, Tables, Allowed, Rows
<1>3. Round(Do(<<Rows("accounts")>>), "client", << >>)
  BY <1>1, <1>2, StatementIsBody, BodyIsRound
<1>4. Round(<<Bank>>, "client", << >>)
  BY <1>1, QueryIsRound
<1>. QED
  BY <1>3, <1>4, RoundAfterRound DEF SyncAccounts

\* The scrape of the database, by a request and by the ticker.
LEMMA CollectComesBack ==
  ASSUME NEW kind
  PROVE  Round(CollectFromDB, kind, << >>)
<1>1. Clear(kind, << >>)
  BY DEF Clear
<1>2. Round(Query, kind, << >>)
  BY <1>1, QueryIsRound
<1>. QED
  BY <1>2, RoundAfterRound DEF CollectFromDB

\* Every script of a client.
LEMMA ClientsComeBack ==
  ASSUME NEW s \in ClientScripts
  PROVE  Round(s, "client", << >>)
<1>1. Clear("client", << >>)
  BY DEF Clear
<1>2. Round(Query, "client", << >>) /\ Round(<<Bank>>, "client", << >>)
  BY <1>1, QueryIsRound
<1>3. CASE s \in {SyncAccounts, CollectFromDB}
  BY <1>3, SyncComesBack, CollectComesBack
<1>4. CASE s = IssueVirtualAccount
  <2>1. Leads(<< >>, "client", Append(<< >>, {}), Append(<< >>, {}))
    BY NothingLeadsNowhere
  <2>2. Plain(<< >>)
    BY DEF Plain
  <2>3. Round(Do(<< >>), "client", << >>)
    BY <1>1, <2>1, <2>2, DoIsRound
  <2>. QED
    BY <1>2, <1>4, <2>3, RoundAfterRound DEF IssueVirtualAccount
<1>5. CASE s \in {GetTransfer, ListAccounts, ListVirtualAccounts, Healthz, GetBalance}
  BY <1>2, <1>5 DEF GetTransfer, ListAccounts, ListVirtualAccounts, Healthz, GetBalance
<1>6. CASE \E x \in Transfers : s \in {DuplicateRequest(x)} \cup NewRequests(x)
  BY <1>6, TransferRequests
<1>. QED
  BY <1>3, <1>4, <1>5, <1>6 DEF ClientScripts

\* Every handler of the relay, inside the transaction of the batch: a handler's own
\* transaction locks its transfer and then only inserts.
LEMMA HandlersComeBack ==
  ASSUME NEW h \in Handlers
  PROVE  Round(h, "relay", <<{}>>)
<1>1. Clear("relay", <<{}>>) /\ Base("relay") = <<{}>>
  BY DEF Clear, Base, Nests
<1>2. Round(Query, "relay", <<{}>>) /\ Round(<<Bank>>, "relay", <<{}>>)
  BY <1>1, QueryIsRound
<1>3. CASE h = Notify
  BY <1>2, <1>3 DEF Notify
<1>4. CASE \E x \in Transfers : h \in {Send(x), Check(x)}
  <2>1. PICK x \in Transfers : h \in {Send(x), Check(x)}
    BY <1>4
  <2>. DEFINE in == Into("outbox")
  <2>2. Lock(x) \in LockSteps /\ Allowed(Lock(x), "relay")
    BY DEF LockSteps, Allowed, Modes, LocksOf, Lock
  <2>3. in \in TableSteps /\ Allowed(in, "relay") /\ in.do = "insert"
    BY OutboxIsOpen DEF Into
  <2>. HIDE DEF in
  <2>4. Body(<<Lock(x), in>>, "relay")
    <3>1. /\ Leads(<<Lock(x)>>, "relay", Unlocked("relay"), Locked("relay"))
          /\ <<Lock(x)>> \in Seq(Steps) /\ Plain(<<Lock(x)>>) /\ Lock(x) \in Steps
      BY <2>2, StatementLeads
    <3>2. /\ Leads(<<in>>, "relay", Locked("relay"), Locked("relay"))
          /\ <<in>> \in Seq(Steps) /\ Plain(<<in>>) /\ in \in Steps
      BY <2>3, StatementLeads
    <3>3. Leads(<<Lock(x)>> \o <<in>>, "relay", Unlocked("relay"), Locked("relay"))
      BY <3>1, <3>2, LeadsOn
    <3>4. Plain(<<Lock(x)>> \o <<in>>)
      BY <3>1, <3>2, PlainAfterPlain
    <3>5. <<Lock(x), in>> \in Seq(Steps)
      BY <3>1, <3>2
    <3>6. <<Lock(x)>> \o <<in>> = <<Lock(x), in>>
      BY <3>1, <3>2, OneAfterOther
    <3>. QED
      BY <3>3, <3>4, <3>5, <3>6 DEF Body
  <2>5. Round(Do(<<Lock(x), in>>), "relay", <<{}>>)
    BY <1>1, <2>4, BodyIsRound
  <2>6. Round(Query \o <<Bank>>, "relay", <<{}>>) /\ Round(<<Bank>> \o Query, "relay", <<{}>>)
    BY <1>2, RoundAfterRound
  <2>7. Round(Send(x), "relay", <<{}>>) /\ Round(Check(x), "relay", <<{}>>)
    BY <2>5, <2>6, RoundAfterRound DEF Send, Check, in
  <2>. QED
    BY <2>1, <2>7
<1>. QED
  BY <1>3, <1>4 DEF Handlers

\* The reconciler's work on an account: the invoice is read inside its transaction,
\* then come the deposits, then the invoice and the outbox.
LEMMA ReconcileComesBack == Round(Reconcile, "reconciler", << >>)
<1>. DEFINE rows == Rows("incoming_transactions")
            inv == Lock("invoice")
            in == Into("outbox")
            body == Query \o <<rows, inv, in>>
<1>1. /\ Clear("reconciler", << >>) /\ Base("reconciler") = << >>
      /\ Clear("reconciler", <<{}>>) /\ Unlocked("reconciler") = <<{}>>
  BY DEF Clear, Base, Nests, Unlocked, Locking
<1>2. /\ rows \in TableSteps /\ inv \in LockSteps /\ in \in TableSteps
      /\ Allowed(rows, "reconciler") /\ Allowed(inv, "reconciler") /\ Allowed(in, "reconciler")
  <2>1. <<"invoice", "exclusive">> \in LocksOf("reconciler")
    BY DEF LocksOf, RowLocks
  <2>2. Allowed(inv, "reconciler")
    BY <2>1 DEF Allowed, Modes, Lock
  <2>. QED
    BY <2>2, OutboxIsOpen DEF TableSteps, LockSteps, Tables, Allowed, Rows
<1>. HIDE DEF rows, inv, in
<1>3. rows \in Steps /\ inv \in Steps /\ in \in Steps
  BY <1>2, StatementLeads
<1>4. Body(<<rows, inv, in>>, "reconciler")
  <2>1. Body(<<rows, inv>> \o <<in>>, "reconciler")
    BY <1>2, TwoStatements, StatementIsBody, BodyAfterBody
  <2>2. <<rows, inv>> \o <<in>> = <<rows, inv, in>>
    <3>1. /\ <<rows, inv>> \o <<in>> \in Seq(Steps) /\ <<rows, inv, in>> \in Seq(Steps)
          /\ Len(<<rows, inv>> \o <<in>>) = 3 /\ Len(<<rows, inv, in>>) = 3
      BY <1>3
    <3>2. \A n \in 1 .. 3 : (<<rows, inv>> \o <<in>>)[n] = <<rows, inv, in>>[n]
      BY <1>3
    <3>. QED
      BY <3>1, <3>2, SeqEqual
  <2>. QED
    BY <2>1, <2>2
<1>5. Round(Query, "reconciler", <<{}>>) /\ Round(<<Bank>>, "reconciler", << >>)
  BY <1>1, QueryIsRound
<1>6. /\ Leads(body, "reconciler", Append(<< >>, {}), Append(<< >>, LocksOf("reconciler")))
      /\ Plain(body)
  <2>1. Leads(body, "reconciler", Unlocked("reconciler"), Locked("reconciler"))
    BY <1>1, <1>4, <1>5, LeadsOn DEF Body, Round
  <2>2. Query \in Seq(Steps) /\ Plain(Query)
    BY <1>5 DEF Round, Leads
  <2>3. Plain(body)
    BY <1>4, <2>2, PlainAfterPlain DEF Body
  <2>. QED
    BY <1>1, <2>1, <2>3, LockingAtBase
<1>. HIDE DEF body
<1>7. Round(Do(body), "reconciler", << >>)
  BY <1>1, <1>6, DoIsRound
<1>8. Round(<<Bank>> \o Do(body), "reconciler", << >>)
  BY <1>5, <1>7, RoundAfterRound
<1>. QED
  BY <1>8 DEF Reconcile, body, rows, inv, in

-----------------------------------------------------------------------------
(***************************************************************************)
(* The invariant: what is left of a task's script leads from the           *)
(* connections it has to none, its early return leads there too, its       *)
(* connections have no other locks than those of its kind of work, and the *)
(* pools are not overdrawn.                                                *)
(***************************************************************************)

\* A return is the last step, or the relay's last but the end of its batch.
ReturnsLast(script, kind) ==
  \A n \in 1 .. Len(script) :
    script[n] = Return =>
      /\ Nests(kind)
      /\ IF kind = "relay" THEN n + 1 = Len(script) /\ script[n + 1] = Close
         ELSE n = Len(script)

KeepsToScript(kind, script, conns) ==
  /\ ReturnsLast(script, kind)
  /\ \E shape :
       Leads(script, kind, shape, << >>) /\ WellShaped(kind, shape) /\ Fits(conns, shape)

PoolsSuffice == \A p \in Processes : Cardinality(InUse(p)) <= MaxOpenConns[p]

SessionsInv ==
  /\ rest = [t \in Tasks |-> rest[t]] /\ held = [t \in Tasks |-> held[t]]
  /\ \A t \in Tasks : KeepsToScript(Kind(t), rest[t], held[t])
  /\ PoolsSuffice

\* What a step may do to the task that takes it.
Changes(t, script, conns) ==
  /\ rest' = [rest EXCEPT ![t] = script]
  /\ held' = [held EXCEPT ![t] = conns]
  /\ KeepsToScript(Kind(t), script, conns)
  /\ \/ Len(conns) <= Len(held[t])
     \/ /\ conns = Append(held[t], {})
        /\ \/ Cardinality(InUse(ProcessOf[t])) < MaxOpenConns[ProcessOf[t]]
           \/ \A u \in TasksOf(ProcessOf[t]) : held[u] = << >>

\* A script that returns nowhere may stand before one that returns last.
LEMMA PlainBeforeReturn ==
  ASSUME NEW kind, NEW h \in Seq(Steps), NEW s \in Seq(Steps),
         Plain(h), ReturnsLast(s, kind)
  PROVE  ReturnsLast(h \o s, kind)
<1>1. /\ Len(h \o s) = Len(h) + Len(s) /\ Len(h) \in Nat /\ Len(s) \in Nat
      /\ \A n \in 1 .. Len(h) : (h \o s)[n] = h[n]
      /\ \A n \in Len(h) + 1 .. Len(h) + Len(s) : (h \o s)[n] = s[n - Len(h)]
  OBVIOUS
<1>2. ASSUME NEW n \in 1 .. Len(h \o s), (h \o s)[n] = Return
      PROVE  /\ Nests(kind)
             /\ IF kind = "relay" THEN n + 1 = Len(h \o s) /\ (h \o s)[n + 1] = Close
                ELSE n = Len(h \o s)
  <2>1. n > Len(h)
    BY <1>1, <1>2 DEF Plain
  <2>. DEFINE m == n - Len(h)
  <2>2. m \in 1 .. Len(s) /\ s[m] = Return
    BY <1>1, <1>2, <2>1
  <2>3. /\ Nests(kind)
        /\ IF kind = "relay" THEN m + 1 = Len(s) /\ s[m + 1] = Close ELSE m = Len(s)
    <3>. HIDE DEF m
    <3>. QED
      BY <2>2 DEF ReturnsLast
  <2>4. CASE kind = "relay"
    <3>1. n + 1 = Len(h) + Len(s) /\ (n + 1) - Len(h) = m + 1
      BY <2>3, <2>4, <1>1
    <3>2. (h \o s)[n + 1] = s[m + 1]
      <4>1. n + 1 \in Len(h) + 1 .. Len(h) + Len(s)
        BY <3>1, <2>1, <1>1
      <4>. HIDE DEF m
      <4>. QED
        BY <3>1, <4>1, <1>1
    <3>. HIDE DEF m
    <3>. QED
      BY <2>3, <2>4, <3>1, <3>2, <1>1
  <2>5. CASE kind # "relay"
    BY <2>3, <2>5, <1>1
  <2>. QED
    BY <2>4, <2>5
<1>. QED
  BY <1>2 DEF ReturnsLast

\* Without a return there is nothing to say, and what follows the first step returns
\* last when the whole does.
LEMMA ReturnsStayLast ==
  ASSUME NEW kind, NEW s \in Seq(Steps)
  PROVE  /\ Plain(s) => ReturnsLast(s, kind)
         /\ s # << >> /\ ReturnsLast(s, kind) => ReturnsLast(Tail(s), kind)
<1>1. Plain(s) => ReturnsLast(s, kind)
  BY DEF Plain, ReturnsLast
<1>2. ASSUME s # << >>, ReturnsLast(s, kind) PROVE ReturnsLast(Tail(s), kind)
  <2>1. /\ Len(Tail(s)) = Len(s) - 1 /\ Len(s) \in Nat /\ Len(s) >= 1
        /\ \A n \in 1 .. Len(s) - 1 : Tail(s)[n] = s[n + 1]
    BY <1>2
  <2>2. ASSUME NEW n \in 1 .. Len(Tail(s)), Tail(s)[n] = Return
        PROVE  /\ Nests(kind)
               /\ IF kind = "relay" THEN n + 1 = Len(Tail(s)) /\ Tail(s)[n + 1] = Close
                  ELSE n = Len(Tail(s))
    <3>1. n + 1 \in 1 .. Len(s) /\ s[n + 1] = Return
      BY <2>1, <2>2
    <3>2. /\ Nests(kind)
          /\ IF kind = "relay" THEN (n + 1) + 1 = Len(s) /\ s[(n + 1) + 1] = Close
             ELSE n + 1 = Len(s)
      BY <1>2, <3>1 DEF ReturnsLast
    <3>. QED
      BY <2>1, <3>2
  <2>. QED
    BY <2>2 DEF ReturnsLast
<1>. QED
  BY <1>1, <1>2

\* Where a batch or a tick goes on after an early return.
End(kind) == IF kind = "relay" THEN <<Return, Close>> ELSE <<Return>>

\* The end of a batch or tick gives back what is open around its handlers.
LEMMA EndLeadsOut ==
  ASSUME NEW kind, Nests(kind)
  PROVE  /\ Leads(End(kind), kind, Base(kind), << >>) /\ ReturnsLast(End(kind), kind)
         /\ End(kind) \in Seq(Steps)
<1>1. Leads(<<Return>>, kind, Base(kind), Base(kind))
  <2>1. Moves(Return, kind, Base(kind), Base(kind))
    BY DEF Moves, Returns
  <2>. QED
    BY <2>1, StepsDiffer, LeadsAtOnce
<1>2. Return \in Steps /\ Close \in Steps /\ Close # Return
  BY StepsDiffer
<1>3. CASE kind = "relay"
  <2>1. Leads(<<Close>>, kind, <<{}>>, << >>)
    <3>1. Clear(kind, << >>) /\ Append(<< >>, {}) = <<{}>>
      BY DEF Clear
    <3>. QED
      BY <3>1, CloseEndsInnermost
  <2>2. <<Return>> \o <<Close>> = End(kind)
    BY <1>2, <1>3, OneAfterOther DEF End
  <2>3. Leads(End(kind), kind, Base(kind), << >>)
    BY <1>1, <1>3, <2>1, <2>2, LeadsOn DEF Base
  <2>. QED
    BY <1>2, <1>3, <2>3 DEF End, ReturnsLast
<1>4. CASE kind # "relay"
  BY <1>1, <1>2, <1>4 DEF End, Base, ReturnsLast
<1>. QED
  BY <1>3, <1>4

\* The kinds of work exclude each other.
LEMMA KindOfWork ==
  ASSUME NEW t \in Tasks
  PROVE  /\ t \in Relays => Kind(t) = "relay" /\ Work(t) = {Batch(h) : h \in Handlers}
         /\ t \in Reconcilers => Kind(t) = "reconciler" /\ Work(t) = {Tick}
         /\ t \in Clients => Kind(t) = "client" /\ Work(t) = ClientScripts
         /\ t \in Collectors => Kind(t) = "ticker" /\ Work(t) = {CollectFromDB}
         /\ Nests(Kind(t)) <=> t \in Nesting
BY TasksAssumption DEF Kind, Work, Nesting, Nests, Tasks

\* Whatever a task begins leads back to no connection.
LEMMA WorkKeepsToScript ==
  ASSUME NEW t \in Tasks, NEW s \in Work(t)
  PROVE  KeepsToScript(Kind(t), s, << >>)
<1>0. WellShaped(Kind(t), << >>) /\ Fits(<< >>, << >>)
  BY DEF WellShaped, Fits
<1>1. CASE t \in Clients \cup Collectors
  <2>1. Round(s, Kind(t), << >>)
    BY <1>1, KindOfWork, ClientsComeBack, CollectComesBack
  <2>2. s \in Seq(Steps)
    BY <2>1 DEF Round, Leads
  <2>. QED
    BY <1>0, <2>1, <2>2, ReturnsStayLast DEF Round, KeepsToScript
<1>2. CASE t \in Relays
  <2>1. PICK h \in Handlers : s = Batch(h)
    BY <1>2, KindOfWork
  <2>2. Round(h, "relay", <<{}>>) /\ h \in Seq(Steps)
    BY HandlersComeBack DEF Round, Leads
  <2>3. /\ Leads(End("relay"), "relay", <<{}>>, << >>) /\ ReturnsLast(End("relay"), "relay")
        /\ End("relay") \in Seq(Steps)
    BY EndLeadsOut DEF Base, Nests
  <2>4. Leads(<<Open>>, "relay", << >>, <<{}>>) /\ Plain(<<Open>>) /\ <<Open>> \in Seq(Steps)
    <3>1. Clear("relay", << >>) /\ <<{}>> = Append(<< >>, {})
      BY DEF Clear, Nests
    <3>2. Moves(Open, "relay", << >>, <<{}>>)
      BY <3>1 DEF Moves, Opens
    <3>. QED
      BY <3>2, StepsDiffer, LeadsAtOnce DEF Plain
  <2>5. Leads(<<Open>> \o (h \o End("relay")), "relay", << >>, << >>)
    <3>1. Leads(h \o End("relay"), "relay", <<{}>>, << >>)
      BY <2>2, <2>3, LeadsOn DEF Round
    <3>. QED
      BY <2>4, <3>1, LeadsOn
  <2>6. ReturnsLast(<<Open>> \o (h \o End("relay")), "relay")
    <3>1. ReturnsLast(h \o End("relay"), "relay") /\ h \o End("relay") \in Seq(Steps)
      BY <2>2, <2>3, PlainBeforeReturn DEF Round
    <3>. QED
      BY <2>4, <3>1, PlainBeforeReturn
  <2>7. Batch(h) = <<Open>> \o (h \o End("relay"))
    <3>1. SelectBatch \o h = h
      BY <2>2 DEF SelectBatch
    <3>2. Return \in Steps /\ Close \in Steps /\ Open \in Steps
      BY StepsDiffer
    <3>3. <<Open>> \o (h \o <<Return>>) \o <<Close>> = <<Open>> \o ((h \o <<Return>>) \o <<Close>>)
      BY <2>2, <3>2, ConcatAssociative
    <3>4. (h \o <<Return>>) \o <<Close>> = h \o (<<Return>> \o <<Close>>)
      BY <2>2, <3>2, ConcatAssociative
    <3>5. <<Return>> \o <<Close>> = End("relay")
      BY <3>2, OneAfterOther DEF End
    <3>. QED
      BY <3>1, <3>3, <3>4, <3>5 DEF Batch, Do
  <2>. QED
    BY <1>0, <1>2, <2>1, <2>5, <2>6, <2>7, KindOfWork DEF KeepsToScript
<1>3. CASE t \in Reconcilers
  <2>1. s = Tick /\ Kind(t) = "reconciler"
    BY <1>3, KindOfWork
  <2>2. Clear("reconciler", << >>) /\ Base("reconciler") = << >>
    BY DEF Clear, Base, Nests
  <2>3. Round(ListVirtualAccounts \o Reconcile, "reconciler", << >>)
    BY <2>2, QueryIsRound, ReconcileComesBack, RoundAfterRound DEF ListVirtualAccounts
  <2>4. ListVirtualAccounts \o Reconcile \in Seq(Steps)
    BY <2>3 DEF Round, Leads
  <2>5. /\ Leads(<<Return>>, "reconciler", << >>, << >>) /\ ReturnsLast(<<Return>>, "reconciler")
        /\ <<Return>> \in Seq(Steps)
    BY <2>2, EndLeadsOut DEF End, Nests
  <2>6. Leads(Tick, "reconciler", << >>, << >>)
    BY <2>3, <2>5, LeadsOn DEF Round, Tick
  <2>7. ReturnsLast(Tick, "reconciler")
    BY <2>3, <2>4, <2>5, PlainBeforeReturn DEF Round, Tick
  <2>. QED
    BY <1>0, <2>1, <2>6, <2>7 DEF KeepsToScript
<1>. QED
  BY <1>1, <1>2, <1>3 DEF Tasks

-----------------------------------------------------------------------------
(***************************************************************************)
(* One step of one task.                                                   *)
(***************************************************************************)

\* Steps are told apart by what they do.
LEMMA MoveIsKnown ==
  ASSUME NEW step \in Steps, NEW kind, NEW a, NEW b, Moves(step, kind, a, b)
  PROVE  /\ step.do = "open" => Opens(step, kind, a, b)
         /\ step.do = "close" => Closes(step, a, b)
         /\ step.do = "bank" => Calls(step, kind, a, b)
         /\ step.do = "return" => Returns(step, kind, a, b)
         /\ step.do \notin {"open", "close", "bank", "return"} => Writes(step, kind, a, b)
         /\ step.do \in {"open", "close", "bank", "return", "exclusive", "shared", "range",
                         "insert", "rows"}
<1>1. step.do \in {"open", "close", "bank", "return", "exclusive", "shared", "range",
                   "insert", "rows"}
  BY StepsDiffer DEF Steps, Open, Close, Bank, Return
<1>2. Writes(step, kind, a, b) => step.do \notin {"open", "close", "bank", "return"}
  BY DEF Writes, Allowed, Modes
<1>3. /\ Opens(step, kind, a, b) => step.do = "open"
      /\ Closes(step, a, b) => step.do = "close"
      /\ Calls(step, kind, a, b) => step.do = "bank"
      /\ Returns(step, kind, a, b) => step.do = "return"
  BY DEF Opens, Closes, Calls, Returns, Open, Close, Bank, Return
<1>. QED
  BY <1>1, <1>2, <1>3 DEF Moves

\* What the next step of a task does, and what is left after it.
Follows(t, a, b) ==
  /\ NextOf(t) \in Steps
  /\ Moves(NextOf(t), Kind(t), a, b)
  /\ WellShaped(Kind(t), a) /\ Fits(held[t], a)
  /\ Leads(Tail(rest[t]), Kind(t), b, << >>)
  /\ ReturnsLast(Tail(rest[t]), Kind(t))

LEMMA NextMoves ==
  ASSUME SessionsInv, NEW t \in Tasks, ~ Idle(t)
  PROVE  \E a, b : Follows(t, a, b)
<1>1. PICK a : /\ Leads(rest[t], Kind(t), a, << >>) /\ WellShaped(Kind(t), a)
               /\ Fits(held[t], a)
  BY DEF SessionsInv, KeepsToScript
<1>2. rest[t] # << >> /\ rest[t] \in Seq(Steps)
  BY <1>1 DEF Idle, Leads
<1>3. ReturnsLast(Tail(rest[t]), Kind(t))
  BY <1>2, ReturnsStayLast DEF SessionsInv, KeepsToScript
<1>4. PICK b : /\ Moves(NextOf(t), Kind(t), a, b) /\ Leads(Tail(rest[t]), Kind(t), b, << >>)
               /\ NextOf(t) \in Steps
  BY <1>1, <1>2, LeadsAfterHead DEF NextOf
<1>. QED
  BY <1>1, <1>3, <1>4 DEF Follows

\* What fits connections that may have no locks, or some.
LEMMA FitIsKnown ==
  /\ \A c : Fits(c, << >>) <=> c = << >>
  /\ \A c : Fits(c, <<{}>>) <=> c = <<{}>>
  /\ \A c, P : Fits(c, <<P>>) <=> \E X \in SUBSET P : c = <<X>>
  /\ \A c, P : Fits(c, <<{}, P>>) <=> \E X \in SUBSET P : c = <<{}, X>>
<1>1. ASSUME NEW c PROVE Fits(c, << >>) <=> c = << >>
  BY DEF Fits
<1>2. ASSUME NEW c, NEW P PROVE Fits(c, <<P>>) <=> \E X \in SUBSET P : c = <<X>>
  BY DEF Fits
<1>3. ASSUME NEW c, NEW P PROVE Fits(c, <<{}, P>>) <=> \E X \in SUBSET P : c = <<{}, X>>
  BY DEF Fits
<1>4. ASSUME NEW c PROVE Fits(c, <<{}>>) <=> c = <<{}>>
  BY <1>2
<1>. QED
  BY <1>1, <1>2, <1>3, <1>4

\* A task that is clear of locks has the very connections.
LEMMA ClearFits ==
  ASSUME NEW kind, NEW a, Clear(kind, a), NEW c, Fits(c, a)
  PROVE  c = a
<1>1. CASE a = << >>
  BY <1>1, FitIsKnown
<1>2. CASE a = <<{}>>
  BY <1>2, FitIsKnown
<1>. QED
  BY <1>1, <1>2 DEF Clear

\* Before and after a statement of a transaction.
LEMMA TransactionFits ==
  ASSUME NEW kind, NEW c, Fits(c, Unlocked(kind)) \/ Fits(c, Locked(kind))
  PROVE  /\ \E X \in SUBSET LocksOf(kind) : c = Locking(kind, X)
         /\ Fits(c, Locked(kind))
<1>. DEFINE L == LocksOf(kind)
<1>1. CASE kind = "relay"
  <2>1. Locked(kind) = <<{}, L>> /\ Unlocked(kind) = <<{}, {}>>
        /\ \A X : Locking(kind, X) = <<{}, X>>
    BY <1>1 DEF Locked, Unlocked, Locking
  <2>. HIDE DEF L
  <2>2. PICK X \in SUBSET L : c = <<{}, X>>
    BY <2>1, FitIsKnown
  <2>3. Fits(c, <<{}, L>>)
    BY <2>2, FitIsKnown
  <2>4. c = Locking(kind, X)
    BY <2>1, <2>2
  <2>. QED
    BY <2>1, <2>3, <2>4 DEF L
<1>2. CASE kind # "relay"
  <2>1. Locked(kind) = <<L>> /\ Unlocked(kind) = <<{}>> /\ \A X : Locking(kind, X) = <<X>>
    BY <1>2 DEF Locked, Unlocked, Locking
  <2>. HIDE DEF L
  <2>2. PICK X \in SUBSET L : c = <<X>>
    BY <2>1, FitIsKnown
  <2>3. Fits(c, <<L>>)
    BY <2>2, FitIsKnown
  <2>4. c = Locking(kind, X)
    BY <2>1, <2>2
  <2>. QED
    BY <2>1, <2>3, <2>4 DEF L
<1>. QED
  BY <1>1, <1>2

\* And the other way round.
LEMMA LockingFits ==
  ASSUME NEW kind, NEW X \in SUBSET LocksOf(kind)
  PROVE  Fits(Locking(kind, X), Locked(kind))
<1>. DEFINE L == LocksOf(kind)
<1>1. CASE kind = "relay"
  <2>1. Locked(kind) = <<{}, L>> /\ Locking(kind, X) = <<{}, X>>
    BY <1>1 DEF Locked, Locking
  <2>2. X \in SUBSET L
    OBVIOUS
  <2>. HIDE DEF L
  <2>. QED
    BY <2>1, <2>2, FitIsKnown
<1>2. CASE kind # "relay"
  <2>1. Locked(kind) = <<L>> /\ Locking(kind, X) = <<X>>
    BY <1>2 DEF Locked, Locking
  <2>2. X \in SUBSET L
    OBVIOUS
  <2>. HIDE DEF L
  <2>. QED
    BY <2>1, <2>2, FitIsKnown
<1>. QED
  BY <1>1, <1>2

\* A new connection of a task that has no locks.
LEMMA OpenedIsKnown ==
  ASSUME NEW kind, NEW a, Clear(kind, a)
  PROVE  /\ Append(a, {}) = <<{}>> \/ (Nests(kind) /\ Append(a, {}) = <<{}, {}>>)
         /\ WellShaped(kind, Append(a, {})) /\ Fits(Append(a, {}), Append(a, {}))
<1>1. CASE a = << >>
  <2>1. Append(a, {}) = <<{}>>
    BY <1>1
  <2>. QED
    BY <2>1, FitIsKnown DEF WellShaped
<1>2. CASE Nests(kind) /\ a = <<{}>>
  <2>1. Append(a, {}) = <<{}, {}>>
    BY <1>2, InnermostIsAppended
  <2>2. Fits(<<{}, {}>>, <<{}, {}>>)
    <3>1. \E X \in SUBSET {} : <<{}, {}>> = <<{}, X>>
      OBVIOUS
    <3>. QED
      BY <3>1, FitIsKnown
  <2>3. WellShaped(kind, <<{}, {}>>)
    BY <1>2 DEF WellShaped
  <2>. QED
    BY <1>2, <2>1, <2>2, <2>3
<1>. QED
  BY <1>1, <1>2 DEF Clear

\* The shape of a transaction.
LEMMA LockedIsShaped ==
  ASSUME NEW kind
  PROVE  WellShaped(kind, Locked(kind))
BY DEF Locked, Locking, WellShaped, Nests

\* What a task can hold: connections of which the innermost alone has locks, and only
\* those of its kind of work.
LEMMA HeldIsKnown ==
  ASSUME SessionsInv, NEW t \in Tasks
  PROVE  \/ held[t] = << >>
         \/ \E X \in SUBSET LocksOf(Kind(t)) : held[t] = <<X>> /\ (Kind(t) = "relay" => X = {})
         \/ t \in Nesting /\ \E X \in SUBSET LocksOf(Kind(t)) : held[t] = <<{}, X>>
<1>. DEFINE L == LocksOf(Kind(t))
<1>1. PICK a : WellShaped(Kind(t), a) /\ Fits(held[t], a)
  BY DEF SessionsInv, KeepsToScript
<1>2. Nests(Kind(t)) <=> t \in Nesting
  BY KindOfWork
<1>3. CASE a = << >>
  BY <1>1, <1>3, FitIsKnown
<1>4. CASE \E P \in {{}, L} : a = <<P>> /\ (Kind(t) = "relay" => P = {})
  <2>. HIDE DEF L
  <2>1. PICK P \in {{}, L} : a = <<P>> /\ (Kind(t) = "relay" => P = {})
    BY <1>4
  <2>2. PICK X \in SUBSET P : held[t] = <<X>>
    BY <1>1, <2>1, FitIsKnown
  <2>3. X \in SUBSET L /\ (Kind(t) = "relay" => X = {})
    BY <2>1
  <2>. QED
    BY <2>2, <2>3 DEF L
<1>5. CASE Nests(Kind(t)) /\ \E P \in {{}, L} : a = <<{}, P>>
  <2>. HIDE DEF L
  <2>1. PICK P \in {{}, L} : a = <<{}, P>>
    BY <1>5
  <2>2. PICK X \in SUBSET P : held[t] = <<{}, X>>
    BY <1>1, <2>1, FitIsKnown
  <2>3. X \in SUBSET L
    BY <2>1
  <2>. QED
    BY <1>2, <1>5, <2>2, <2>3 DEF L
<1>. QED
  BY <1>1, <1>3, <1>4, <1>5 DEF WellShaped

\* A task has two connections at most, all of them sets of locks.
LEMMA ConnectionsAreFew ==
  ASSUME SessionsInv, NEW t \in Tasks
  PROVE  /\ Len(held[t]) \in 0 .. 2 /\ (Len(held[t]) = 2 => t \in Nesting)
         /\ held[t] \in Seq(SUBSET LocksOf(Kind(t)))
         /\ DOMAIN held[t] = 1 .. Len(held[t])
<1>. DEFINE L == LocksOf(Kind(t))
<1>. HIDE DEF L
<1>1. CASE held[t] = << >>
  <2>1. Len(<< >>) = 0 /\ << >> \in Seq(SUBSET L) /\ DOMAIN << >> = 1 .. 0
    OBVIOUS
  <2>. QED
    BY <1>1, <2>1 DEF L
<1>2. CASE \E X \in SUBSET L : held[t] = <<X>>
  <2>1. PICK X \in SUBSET L : held[t] = <<X>>
    BY <1>2
  <2>2. Len(<<X>>) = 1 /\ <<X>> \in Seq(SUBSET L) /\ DOMAIN <<X>> = 1 .. 1
    OBVIOUS
  <2>. QED
    BY <2>1, <2>2 DEF L
<1>3. CASE t \in Nesting /\ \E X \in SUBSET L : held[t] = <<{}, X>>
  <2>1. PICK X \in SUBSET L : held[t] = <<{}, X>>
    BY <1>3
  <2>2. {} \in SUBSET L
    OBVIOUS
  <2>3. Len(<<{}, X>>) = 2 /\ <<{}, X>> \in Seq(SUBSET L) /\ DOMAIN <<{}, X>> = 1 .. 2
    BY <2>2
  <2>. QED
    BY <1>3, <2>1, <2>3 DEF L
<1>. QED
  BY <1>1, <1>2, <1>3, HeldIsKnown DEF L

\* The innermost connection with one more lock.
Added(conns, x) == [conns EXCEPT ![Len(conns)] = @ \cup {x}]

\* The transaction has the row among its locks, and the outer connection is untouched.
LEMMA LockIsAdded ==
  ASSUME NEW kind, NEW rows, NEW x
  PROVE  Added(Locking(kind, rows), x) = Locking(kind, rows \cup {x})
<1>1. CASE kind = "relay"
  <2>1. Locking(kind, rows) = <<{}, rows>> /\ Len(<<{}, rows>>) = 2
    BY <1>1 DEF Locking
  <2>2. [<<{}, rows>> EXCEPT ![2] = @ \cup {x}] = <<{}, rows \cup {x}>>
    OBVIOUS
  <2>. QED
    BY <1>1, <2>1, <2>2 DEF Added, Locking
<1>2. CASE kind # "relay"
  <2>1. Locking(kind, rows) = <<rows>> /\ Len(<<rows>>) = 1
    BY <1>2 DEF Locking
  <2>2. [<<rows>> EXCEPT ![1] = @ \cup {x}] = <<rows \cup {x}>>
    OBVIOUS
  <2>. QED
    BY <1>2, <2>1, <2>2 DEF Added, Locking
<1>. QED
  BY <1>1, <1>2

\* The connections in use are those of finitely many tasks.
LEMMA InUseIsFinite ==
  ASSUME SessionsInv, NEW p
  PROVE  IsFiniteSet(InUse(p)) /\ InUse(p) \subseteq TasksOf(p) \X (1 .. 2)
<1>1. InUse(p) \subseteq TasksOf(p) \X (1 .. 2)
  <2>1. ASSUME NEW t \in TasksOf(p)
        PROVE  {t} \X (1 .. Len(held[t])) \subseteq TasksOf(p) \X (1 .. 2)
    <3>1. Len(held[t]) \in 0 .. 2
      BY ConnectionsAreFew DEF TasksOf
    <3>2. \A k \in 0 .. 2 : 1 .. k \subseteq 1 .. 2
      OBVIOUS
    <3>3. 1 .. Len(held[t]) \subseteq 1 .. 2
      BY <3>1, <3>2
    <3>. QED
      BY <3>3
  <2>. QED
    BY <2>1 DEF InUse
<1>2. IsFiniteSet(TasksOf(p)) /\ IsFiniteSet(1 .. 2)
  BY TasksAssumption, FS_Subset, FS_Interval DEF TasksOf
<1>3. IsFiniteSet(TasksOf(p) \X (1 .. 2))
  BY <1>2, FS_Product
<1>. QED
  BY <1>1, <1>3, FS_Subset

\* How many connections these are.
LEMMA FitsAreFew ==
  ASSUME NEW c, NEW shape, Fits(c, shape)
  PROVE  Len(c) \in 0 .. 2
<1>1. CASE c = << >>
  <2>1. Len(<< >>) = 0
    OBVIOUS
  <2>. QED
    BY <1>1, <2>1
<1>2. CASE \E X : c = <<X>>
  <2>1. \A X : Len(<<X>>) = 1
    OBVIOUS
  <2>2. Len(c) = 1
    BY <1>2, <2>1
  <2>. QED
    BY <2>2
<1>3. CASE \E X : c = <<{}, X>>
  <2>1. \A X : Len(<<{}, X>>) = 2
    OBVIOUS
  <2>2. Len(c) = 2
    BY <1>3, <2>1
  <2>. QED
    BY <2>2
<1>. QED
  BY <1>1, <1>2, <1>3 DEF Fits

\* Whom a task waits for, by what it does next.
LEMMA WhoIsWaitedFor ==
  ASSUME NEW t \in Tasks, ~ Idle(t)
  PROVE  /\ NextOf(t).do # "open" => WaitsFor(t) = Blockers(t)
         /\ NextOf(t).do = "open" =>
              WaitsFor(t) = IF Cardinality(InUse(ProcessOf[t])) >= MaxOpenConns[ProcessOf[t]]
                            THEN {u \in TasksOf(ProcessOf[t]) : held[u] # << >>} ELSE {}
         /\ NextOf(t).do \notin {"exclusive", "shared", "insert", "open"} => WaitsFor(t) = {}
<1>1. NextOf(t).do # "open" => WaitsFor(t) = Blockers(t)
  BY DEF WaitsFor
<1>2. NextOf(t).do = "open" =>
        WaitsFor(t) = IF Cardinality(InUse(ProcessOf[t])) >= MaxOpenConns[ProcessOf[t]]
                      THEN {u \in TasksOf(ProcessOf[t]) : held[u] # << >>} ELSE {}
  BY DEF WaitsFor
<1>3. NextOf(t).do \notin {"exclusive", "shared", "insert"} => Blockers(t) = {}
  <2>. SUFFICES ASSUME NextOf(t).do \notin {"exclusive", "shared", "insert"}
                PROVE  Blockers(t) = {}
    OBVIOUS
  <2>1. Against(NextOf(t).do) = {}
    BY DEF Against
  <2>2. \A u, n : ~ Blocks(u, n, t)
    BY <2>1 DEF Blocks
  <2>. QED
    BY <2>2 DEF Blockers
<1>. QED
  BY <1>1, <1>2, <1>3

\* The step changes only the task that takes it.
LEMMA StartChanges ==
  ASSUME SessionsInv, NEW t \in Tasks, Start(t)
  PROVE  \E s, c : Changes(t, s, c)
<1>1. PICK s \in Work(t) : rest' = [rest EXCEPT ![t] = s]
  BY DEF Start
<1>2. held[t] = << >>
  <2>1. PICK shape : Leads(<< >>, Kind(t), shape, << >>) /\ Fits(held[t], shape)
    BY DEF Start, Idle, SessionsInv, KeepsToScript
  <2>2. shape = << >>
    BY <2>1, NothingLeadsNowhere
  <2>. QED
    BY <2>1, <2>2, FitIsKnown
<1>3. held' = [held EXCEPT ![t] = held[t]]
  BY DEF Start, SessionsInv
<1>4. KeepsToScript(Kind(t), s, held[t])
  BY <1>2, WorkKeepsToScript
<1>5. Len(held[t]) <= Len(held[t])
  BY <1>2
<1>6. Changes(t, s, held[t])
  BY <1>1, <1>3, <1>4, <1>5 DEF Changes
<1>. QED
  BY <1>6

\* A connection is taken while the pool has one left.
LEMMA TakeChanges ==
  ASSUME SessionsInv, NEW t \in Tasks, Take(t)
  PROVE  \E s, c : Changes(t, s, c)
<1>1. ~ Idle(t) /\ NextOf(t).do = "open" /\ WaitsFor(t) = {}
  BY DEF Take
<1>2. \E a, b : Follows(t, a, b)
  BY <1>1, NextMoves
<1>. PICK a, b : Follows(t, a, b)
  BY <1>2
<1>3. b = Append(a, {}) /\ Clear(Kind(t), a)
  BY <1>1, MoveIsKnown DEF Follows, Opens
<1>4. a = held[t]
  BY <1>3, ClearFits DEF Follows
<1>5. WellShaped(Kind(t), b) /\ Fits(b, b)
  BY <1>3, OpenedIsKnown
<1>6. \/ Cardinality(InUse(ProcessOf[t])) < MaxOpenConns[ProcessOf[t]]
      \/ \A u \in TasksOf(ProcessOf[t]) : held[u] = << >>
  <2>. DEFINE n == Cardinality(InUse(ProcessOf[t]))
              m == MaxOpenConns[ProcessOf[t]]
              H == {u \in TasksOf(ProcessOf[t]) : held[u] # << >>}
  <2>1. CASE n >= m
    <3>1. H = {}
      BY <1>1, <2>1, WhoIsWaitedFor
    <3>. QED
      BY <3>1
  <2>2. n \in Nat /\ m \in Nat
    <3>1. ProcessOf[t] \in Processes
      BY TasksAssumption
    <3>2. m \in Nat
      BY <3>1, PoolAssumption
    <3>3. IsFiniteSet(InUse(ProcessOf[t]))
      BY InUseIsFinite
    <3>. QED
      BY <3>2, <3>3, FS_CardinalityType
  <2>. QED
    BY <2>1, <2>2
<1>7. Changes(t, Tail(rest[t]), b)
  <2>1. rest' = [rest EXCEPT ![t] = Tail(rest[t])] /\ held' = [held EXCEPT ![t] = b]
    BY <1>3, <1>4 DEF Take, Advance
  <2>. QED
    BY <2>1, <1>3, <1>4, <1>5, <1>6 DEF Changes, KeepsToScript, Follows
<1>. QED
  BY <1>7

\* A statement of a transaction, and one more lock of its kind or none.
LEMMA StatementChanges ==
  ASSUME SessionsInv, NEW t \in Tasks, NEW a, NEW b, Follows(t, a, b),
         Writes(NextOf(t), Kind(t), a, b)
  PROVE  /\ b = Locked(Kind(t)) /\ WellShaped(Kind(t), b) /\ Fits(held[t], b)
         /\ \E X \in SUBSET LocksOf(Kind(t)) : held[t] = Locking(Kind(t), X)
<1>1. b = Locked(Kind(t)) /\ (a = Unlocked(Kind(t)) \/ a = Locked(Kind(t)))
  BY DEF Writes
<1>2. Fits(held[t], Unlocked(Kind(t))) \/ Fits(held[t], Locked(Kind(t)))
  BY <1>1 DEF Follows
<1>. QED
  BY <1>1, <1>2, TransactionFits, LockedIsShaped

\* A statement adds a lock of its kind of work to the innermost connection, or none.
LEMMA ExecuteChanges ==
  ASSUME SessionsInv, NEW t \in Tasks, Execute(t)
  PROVE  \E s, c : Changes(t, s, c)
<1>1. ~ Idle(t) /\ NextOf(t).do \in {"exclusive", "shared", "range", "insert"}
  BY DEF Execute
<1>2. \E a, b : Follows(t, a, b)
  BY <1>1, NextMoves
<1>. PICK a, b : Follows(t, a, b)
  BY <1>2
<1>3. Writes(NextOf(t), Kind(t), a, b)
  BY <1>1, MoveIsKnown DEF Follows
<1>4. /\ b = Locked(Kind(t)) /\ WellShaped(Kind(t), b) /\ Fits(held[t], b)
      /\ \E X \in SUBSET LocksOf(Kind(t)) : held[t] = Locking(Kind(t), X)
  BY <1>3, StatementChanges
<1>5. rest' = [rest EXCEPT ![t] = Tail(rest[t])]
  BY DEF Execute, Advance
<1>6. Len(held[t]) <= Len(held[t])
  BY ConnectionsAreFew
<1>7. CASE NextOf(t).do = "insert"
  <2>1. held' = [held EXCEPT ![t] = held[t]]
    BY <1>7 DEF Execute, SessionsInv
  <2>2. Changes(t, Tail(rest[t]), held[t])
    BY <1>4, <1>5, <1>6, <2>1 DEF Changes, KeepsToScript, Follows
  <2>. QED
    BY <2>2
<1>8. CASE NextOf(t).do # "insert"
  <2>. DEFINE lock == <<NextOf(t).what, NextOf(t).do>>
              L == LocksOf(Kind(t))
              c == Added(held[t], lock)
  <2>1. NextOf(t).do \in Modes
    BY <1>1, <1>8 DEF Modes
  <2>2. lock \in L
    BY <1>3, <2>1 DEF Writes, Allowed, Modes
  <2>3. held' = [held EXCEPT ![t] = c]
    BY <1>8 DEF Execute, Added
  <2>. HIDE DEF lock, L
  <2>4. PICK X \in SUBSET L : held[t] = Locking(Kind(t), X)
    BY <1>4 DEF L
  <2>5. c = Locking(Kind(t), X \cup {lock})
    BY <2>4, LockIsAdded
  <2>6. X \cup {lock} \in SUBSET L
    BY <2>2
  <2>. HIDE DEF c
  <2>7. Fits(c, b)
    BY <1>4, <2>5, <2>6, LockingFits DEF L
  <2>8. Len(c) <= Len(held[t])
    <3>1. \A Y : Len(Locking(Kind(t), Y)) = IF Kind(t) = "relay" THEN 2 ELSE 1
      BY DEF Locking
    <3>2. Len(c) = Len(held[t])
      BY <2>4, <2>5, <3>1, Zenon
    <3>. QED
      BY <1>6, <3>2
  <2>9. Changes(t, Tail(rest[t]), c)
    BY <1>4, <1>5, <2>3, <2>7, <2>8 DEF Changes, KeepsToScript, Follows
  <2>. QED
    BY <2>9
<1>. QED
  BY <1>7, <1>8

\* A script is its first step and what follows.
LEMMA HeadTailAgain ==
  ASSUME NEW s \in Seq(Steps), s # << >>
  PROVE  s = <<Head(s)>> \o Tail(s)
<1>1. /\ Len(s) \in Nat /\ Len(s) >= 1 /\ Head(s) = s[1] /\ Head(s) \in Steps
      /\ Tail(s) \in Seq(Steps) /\ Len(Tail(s)) = Len(s) - 1
      /\ \A n \in 1 .. Len(s) - 1 : Tail(s)[n] = s[n + 1]
  OBVIOUS
<1>2. <<Head(s)>> \o Tail(s) \in Seq(Steps) /\ Len(<<Head(s)>> \o Tail(s)) = Len(s)
  BY <1>1
<1>3. ASSUME NEW n \in 1 .. Len(s) PROVE s[n] = (<<Head(s)>> \o Tail(s))[n]
  <2>1. CASE n = 1
    BY <2>1, <1>1
  <2>2. CASE n > 1
    <3>1. (<<Head(s)>> \o Tail(s))[n] = Tail(s)[n - 1]
      BY <2>2, <1>1
    <3>2. n - 1 \in 1 .. Len(s) - 1 /\ (n - 1) + 1 = n
      BY <2>2, <1>1
    <3>3. Tail(s)[n - 1] = s[(n - 1) + 1]
      BY <3>2, <1>1
    <3>. QED
      BY <3>1, <3>2, <3>3
  <2>. QED
    BY <2>1, <2>2, <1>1
<1>. QED
  BY <1>2, <1>3, SeqEqual
\* The next row of a list is one more statement of the same transaction.
LEMMA NextRowChanges ==
  ASSUME SessionsInv, NEW t \in Tasks, NextRow(t)
  PROVE  \E s, c : Changes(t, s, c)
<1>1. ~ Idle(t) /\ NextOf(t).do = "rows"
  BY DEF NextRow
<1>2. \E a, b : Follows(t, a, b)
  BY <1>1, NextMoves
<1>. PICK a, b : Follows(t, a, b)
  BY <1>2
<1>3. Writes(NextOf(t), Kind(t), a, b)
  BY <1>1, MoveIsKnown DEF Follows
<1>4. b = Locked(Kind(t)) /\ WellShaped(Kind(t), b) /\ Fits(held[t], b)
  BY <1>3, StatementChanges
<1>5. held' = [held EXCEPT ![t] = held[t]] /\ Len(held[t]) <= Len(held[t])
  BY ConnectionsAreFew DEF NextRow, SessionsInv
<1>6. CASE Advance(t)
  <2>1. Changes(t, Tail(rest[t]), held[t])
    BY <1>4, <1>5, <1>6 DEF Changes, KeepsToScript, Follows, Advance
  <2>. QED
    BY <2>1
<1>7. CASE \E next \in Statements(NextOf(t).what) : rest' = [rest EXCEPT ![t] = next \o @]
  <2>1. PICK next \in Statements(NextOf(t).what) : rest' = [rest EXCEPT ![t] = next \o rest[t]]
    BY <1>7
  <2>2. Kind(t) # "relay" /\ Body(next, Kind(t))
    <3>1. \/ Kind(t) = "client" /\ NextOf(t).what = "accounts"
          \/ Kind(t) = "reconciler" /\ NextOf(t).what = "incoming_transactions"
      BY <1>1, <1>3 DEF Writes, Allowed, Modes
    <3>. QED
      BY <2>1, <3>1, StatementsAreBodies
  <2>3. Leads(rest[t], Kind(t), b, << >>)
    <3>1. Moves(NextOf(t), Kind(t), b, b)
      BY <1>3, <1>4, <2>2 DEF Moves, Writes
    <3>2. Leads(<<NextOf(t)>>, Kind(t), b, b)
      BY <3>1, LeadsAtOnce DEF Follows
    <3>3. Leads(<<NextOf(t)>> \o Tail(rest[t]), Kind(t), b, << >>)
      BY <3>2, LeadsOn DEF Follows
    <3>4. rest[t] = <<NextOf(t)>> \o Tail(rest[t])
      <4>1. rest[t] \in Seq(Steps) /\ rest[t] # << >>
        BY <1>1 DEF SessionsInv, KeepsToScript, Leads, Idle
      <4>. QED
        BY <4>1, HeadTailAgain DEF NextOf
    <3>. QED
      BY <3>3, <3>4
  <2>4. ReturnsLast(rest[t], Kind(t))
    BY DEF SessionsInv, KeepsToScript
  <2>5. next \in Seq(Steps) /\ Plain(next) /\ Leads(next, Kind(t), b, b) /\ rest[t] \in Seq(Steps)
    BY <1>4, <2>2, <2>3 DEF Body, Leads
  <2>6. Leads(next \o rest[t], Kind(t), b, << >>)
    BY <2>3, <2>5, LeadsOn
  <2>7. ReturnsLast(next \o rest[t], Kind(t))
    BY <2>4, <2>5, PlainBeforeReturn
  <2>8. Changes(t, next \o rest[t], held[t])
    BY <1>4, <1>5, <2>1, <2>6, <2>7 DEF Changes, KeepsToScript
  <2>. QED
    BY <2>8
<1>. QED
  BY <1>6, <1>7 DEF NextRow

\* A commit or rollback gives back the innermost connection with its locks.
LEMMA GiveBackChanges ==
  ASSUME SessionsInv, NEW t \in Tasks, GiveBack(t)
  PROVE  \E s, c : Changes(t, s, c)
<1>1. ~ Idle(t) /\ NextOf(t).do = "close"
  BY DEF GiveBack
<1>2. \E a, b : Follows(t, a, b)
  BY <1>1, NextMoves
<1>. PICK a, b : Follows(t, a, b)
  BY <1>2
<1>. DEFINE c == SubSeq(held[t], 1, Len(held[t]) - 1)
<1>3. a # << >> /\ b = SubSeq(a, 1, Len(a) - 1) /\ WellShaped(Kind(t), a) /\ Fits(held[t], a)
  BY <1>1, MoveIsKnown DEF Follows, Closes
<1>4. WellShaped(Kind(t), b) /\ Fits(c, b) /\ Len(c) <= Len(held[t])
  <2>1. CASE \E P : a = <<P>>
    <3>1. PICK P : a = <<P>>
      BY <2>1
    <3>2. PICK X \in SUBSET P : held[t] = <<X>>
      BY <1>3, <3>1, FitIsKnown
    <3>3. \A Y : Len(<<Y>>) = 1 /\ SubSeq(<<Y>>, 1, 1 - 1) = << >> /\ Len(<< >>) = 0
      OBVIOUS
    <3>4. b = << >> /\ c = << >> /\ Len(c) = 0 /\ Len(held[t]) = 1
      BY <1>3, <3>1, <3>2, <3>3
    <3>5. WellShaped(Kind(t), << >>) /\ Fits(<< >>, << >>)
      BY DEF WellShaped, Fits
    <3>. HIDE DEF c
    <3>. QED
      BY <3>4, <3>5
  <2>2. CASE Nests(Kind(t)) /\ \E P : a = <<{}, P>>
    <3>1. PICK P : a = <<{}, P>>
      BY <2>2
    <3>2. PICK X \in SUBSET P : held[t] = <<{}, X>>
      BY <1>3, <3>1, FitIsKnown
    <3>3. \A Y : Len(<<{}, Y>>) = 2 /\ SubSeq(<<{}, Y>>, 1, 2 - 1) = <<{}>> /\ Len(<<{}>>) = 1
      BY InnermostIsLast
    <3>4. b = <<{}>> /\ c = <<{}>> /\ Len(c) = 1 /\ Len(held[t]) = 2
      BY <1>3, <3>1, <3>2, <3>3
    <3>5. WellShaped(Kind(t), <<{}>>) /\ Fits(<<{}>>, <<{}>>)
      BY FitIsKnown DEF WellShaped
    <3>. HIDE DEF c
    <3>. QED
      BY <3>4, <3>5
  <2>. QED
    BY <1>3, <2>1, <2>2 DEF WellShaped
<1>5. rest' = [rest EXCEPT ![t] = Tail(rest[t])] /\ held' = [held EXCEPT ![t] = c]
  BY DEF GiveBack, Advance
<1>. HIDE DEF c
<1>6. Changes(t, Tail(rest[t]), c)
  BY <1>4, <1>5 DEF Changes, KeepsToScript, Follows
<1>. QED
  BY <1>6

\* A call of the bank changes no connection.
LEMMA AnsweredChanges ==
  ASSUME SessionsInv, NEW t \in Tasks, Answered(t)
  PROVE  \E s, c : Changes(t, s, c)
<1>1. ~ Idle(t) /\ NextOf(t).do = "bank"
  BY DEF Answered
<1>2. \E a, b : Follows(t, a, b)
  BY <1>1, NextMoves
<1>. PICK a, b : Follows(t, a, b)
  BY <1>2
<1>3. b = a
  BY <1>1, MoveIsKnown DEF Calls, Follows
<1>4. Len(held[t]) <= Len(held[t])
  BY ConnectionsAreFew
<1>5. rest' = [rest EXCEPT ![t] = Tail(rest[t])] /\ held' = [held EXCEPT ![t] = held[t]]
  BY DEF Answered, Advance, SessionsInv
<1>6. Changes(t, Tail(rest[t]), held[t])
  BY <1>3, <1>4, <1>5 DEF Changes, KeepsToScript, Follows
<1>. QED
  BY <1>6

\* After a handler or an account the loop ends or goes on from the same connections.
LEMMA ReturnedChanges ==
  ASSUME SessionsInv, NEW t \in Tasks, Returned(t)
  PROVE  \E s, c : Changes(t, s, c)
<1>1. ~ Idle(t) /\ NextOf(t).do = "return"
  BY DEF Returned
<1>2. \E a, b : Follows(t, a, b)
  BY <1>1, NextMoves
<1>. PICK a, b : Follows(t, a, b)
  BY <1>2
<1>. DEFINE base == Base(Kind(t))
<1>3. a = base /\ b = base /\ Nests(Kind(t)) /\ WellShaped(Kind(t), base) /\ Fits(held[t], base)
  BY <1>1, MoveIsKnown DEF Returns, Follows
<1>4. Len(held[t]) <= Len(held[t])
  BY ConnectionsAreFew
<1>5. held' = [held EXCEPT ![t] = held[t]]
  BY DEF Returned, SessionsInv
<1>6. CASE Advance(t)
  <2>. HIDE DEF base
  <2>1. Changes(t, Tail(rest[t]), held[t])
    BY <1>3, <1>4, <1>5, <1>6 DEF Changes, KeepsToScript, Advance, Follows
  <2>. QED
    BY <2>1
<1>7. CASE \E next \in Further(t) : rest' = [rest EXCEPT ![t] = next \o @]
  <2>1. PICK next \in Further(t) : rest' = [rest EXCEPT ![t] = next \o rest[t]]
    BY <1>7
  <2>2. Round(next, Kind(t), base)
    <3>1. t \in Nesting
      BY <1>3, KindOfWork
    <3>2. CASE t \in Relays
      BY <3>2, <2>1, HandlersComeBack, KindOfWork DEF Further, Base
    <3>3. CASE t \in Reconcilers
      <4>1. t \notin Relays
        BY <3>3, TasksAssumption
      <4>. QED
        BY <3>3, <4>1, <2>1, ReconcileComesBack, KindOfWork DEF Further, Base
    <3>. QED
      BY <3>1, <3>2, <3>3 DEF Nesting
  <2>. HIDE DEF base
  <2>3. Leads(rest[t], Kind(t), base, << >>)
    <3>1. Leads(<<NextOf(t)>>, Kind(t), base, base)
      BY <1>3, LeadsAtOnce DEF Follows
    <3>2. Leads(<<NextOf(t)>> \o Tail(rest[t]), Kind(t), base, << >>)
      BY <1>3, <3>1, LeadsOn DEF Follows
    <3>3. rest[t] \in Seq(Steps) /\ rest[t] # << >>
      BY <1>1 DEF SessionsInv, KeepsToScript, Leads, Idle
    <3>4. rest[t] = <<NextOf(t)>> \o Tail(rest[t])
      BY <3>3, HeadTailAgain DEF NextOf
    <3>. QED
      BY <3>2, <3>4
  <2>4. next \in Seq(Steps) /\ rest[t] \in Seq(Steps) /\ Plain(next)
    BY <2>2, <2>3 DEF Round, Leads
  <2>5. Leads(next \o rest[t], Kind(t), base, << >>)
    BY <2>2, <2>3, LeadsOn DEF Round
  <2>6. ReturnsLast(next \o rest[t], Kind(t))
    BY <2>4, PlainBeforeReturn DEF SessionsInv, KeepsToScript
  <2>7. Changes(t, next \o rest[t], held[t])
    BY <1>3, <1>4, <1>5, <2>1, <2>5, <2>6 DEF Changes, KeepsToScript
  <2>. QED
    BY <2>7
<1>. QED
  BY <1>6, <1>7 DEF Returned

\* What follows an early return, and how many connections are around it.
LEMMA EndFollowsReturn ==
  ASSUME NEW kind, NEW s \in Seq(Steps), ReturnsLast(s, kind),
         NEW n \in DOMAIN s, s[n].do = "return"
  PROVE  Nests(kind) /\ SubSeq(s, n, Len(s)) = End(kind)
<1>1. n \in 1 .. Len(s) /\ Len(s) \in Nat /\ s[n] \in Steps
  OBVIOUS
<1>2. s[n] = Return
  BY <1>1, StepsDiffer DEF Steps, Open, Close, Bank, Return
<1>3. /\ Nests(kind)
      /\ IF kind = "relay" THEN n + 1 = Len(s) /\ s[n + 1] = Close ELSE n = Len(s)
  BY <1>1, <1>2 DEF ReturnsLast
<1>4. /\ SubSeq(s, n, Len(s)) \in Seq(Steps) /\ Len(SubSeq(s, n, Len(s))) = Len(s) - n + 1
      /\ \A i \in 1 .. Len(s) - n + 1 : SubSeq(s, n, Len(s))[i] = s[n + i - 1]
  BY <1>1, SubSeqProperties
<1>5. End(kind) \in Seq(Steps)
  BY <1>3, EndLeadsOut
<1>6. CASE kind = "relay"
  <2>1. Len(s) - n + 1 = 2
    BY <1>1, <1>3, <1>6
  <2>2. SubSeq(s, n, Len(s))[1] = s[n] /\ SubSeq(s, n, Len(s))[2] = s[n + 1]
    <3>1. n + 1 - 1 = n /\ n + 2 - 1 = n + 1 /\ 1 \in 1 .. 2 /\ 2 \in 1 .. 2
      BY <1>1
    <3>. QED
      BY <1>4, <2>1, <3>1
  <2>3. End(kind) = <<Return, Close>>
    BY <1>6 DEF End
  <2>4. \A i \in 1 .. 2 : SubSeq(s, n, Len(s))[i] = <<Return, Close>>[i]
    BY <1>2, <1>3, <1>6, <2>2
  <2>5. Len(<<Return, Close>>) = 2 /\ Len(SubSeq(s, n, Len(s))) = 2
    BY <1>4, <2>1
  <2>6. <<Return, Close>> \in Seq(Steps) /\ SubSeq(s, n, Len(s)) \in Seq(Steps)
    BY <1>4, <1>5, <2>3
  <2>7. SubSeq(s, n, Len(s)) = <<Return, Close>>
    BY <2>4, <2>5, <2>6, SeqEqual
  <2>. QED
    BY <1>3, <2>3, <2>7
<1>7. CASE kind # "relay"
  <2>1. Len(s) - n + 1 = 1
    BY <1>1, <1>3, <1>7
  <2>2. SubSeq(s, n, Len(s))[1] = s[n]
    <3>1. n + 1 - 1 = n /\ 1 \in 1 .. 1
      BY <1>1
    <3>. QED
      BY <1>4, <2>1, <3>1
  <2>3. End(kind) = <<Return>> /\ Len(<<Return>>) = 1
    BY <1>7 DEF End
  <2>4. \A i \in 1 .. 1 : SubSeq(s, n, Len(s))[i] = <<Return>>[i]
    BY <1>2, <2>2
  <2>. QED
    BY <1>3, <1>4, <1>5, <2>1, <2>3, <2>4, SeqEqual
<1>. QED
  BY <1>6, <1>7

\* The balance of the ends that follow a return: one for the relay, none for the reconciler.
LEMMA EndClosesBase ==
  /\ Count(<<Return, Close>>, "close") - Count(<<Return, Close>>, "open") = 1
  /\ Count(<<Return>>, "close") - Count(<<Return>>, "open") = 0
<1>1. {n \in DOMAIN <<Return, Close>> : <<Return, Close>>[n].do = "close"} = {2}
  BY DEF Return, Close
<1>2. {n \in DOMAIN <<Return, Close>> : <<Return, Close>>[n].do = "open"} = {}
  BY DEF Return, Close
<1>3. {n \in DOMAIN <<Return>> : <<Return>>[n].do = "close"} = {}
  BY DEF Return
<1>4. {n \in DOMAIN <<Return>> : <<Return>>[n].do = "open"} = {}
  BY DEF Return
<1>5. Cardinality({2}) = 1 /\ Cardinality({}) = 0
  BY FS_Singleton, FS_EmptySet
<1>6. /\ Count(<<Return, Close>>, "close") = 1 /\ Count(<<Return, Close>>, "open") = 0
      /\ Count(<<Return>>, "close") = 0 /\ Count(<<Return>>, "open") = 0
  <2>1. Count(<<Return, Close>>, "close") = 1
    BY <1>1, <1>5 DEF Count
  <2>2. Count(<<Return, Close>>, "open") = 0
    BY <1>2, <1>5 DEF Count
  <2>3. Count(<<Return>>, "close") = 0
    BY <1>3, <1>5 DEF Count
  <2>4. Count(<<Return>>, "open") = 0
    BY <1>4, <1>5 DEF Count
  <2>. QED
    BY <2>1, <2>2, <2>3, <2>4
<1>. QED
  BY <1>6
\* An early return leaves the connections that are open around the handler.
LEMMA ReturnsEarlyChanges ==
  ASSUME SessionsInv, NEW t \in Tasks, ReturnsEarly(t)
  PROVE  \E s, c : Changes(t, s, c)
<1>. DEFINE onward(n) == SubSeq(rest[t], n, Len(rest[t]))
            outer(n)  == Count(onward(n), "close") - Count(onward(n), "open")
<1>1. PICK n \in DOMAIN rest[t] :
        /\ rest[t][n].do = "return" /\ outer(n) <= Len(held[t])
        /\ rest' = [rest EXCEPT ![t] = onward(n)]
        /\ held' = [held EXCEPT ![t] = SubSeq(held[t], 1, outer(n))]
  BY DEF ReturnsEarly
<1>2. ReturnsLast(rest[t], Kind(t)) /\ rest[t] \in Seq(Steps)
  BY DEF SessionsInv, KeepsToScript, Leads
<1>3. Nests(Kind(t)) /\ onward(n) = End(Kind(t))
  BY <1>1, <1>2, EndFollowsReturn
<1>. HIDE DEF onward
<1>4. /\ SubSeq(held[t], 1, outer(n)) = Base(Kind(t))
      /\ Len(Base(Kind(t))) <= Len(held[t])
  <2>1. CASE Kind(t) = "relay"
    <3>1. outer(n) = 1
      BY <1>3, <2>1, EndClosesBase DEF End
    <3>. HIDE DEF outer
    <3>2. held[t] # << >>
      BY <1>1, <3>1
    <3>3. SubSeq(<<{}>>, 1, 1) = <<{}>> /\ Len(<<{}>>) = 1
      <4>1. /\ SubSeq(<<{}>>, 1, 1) \in Seq({{}}) /\ <<{}>> \in Seq({{}})
            /\ Len(SubSeq(<<{}>>, 1, 1)) = 1 /\ Len(<<{}>>) = 1
            /\ SubSeq(<<{}>>, 1, 1)[1] = {}
        OBVIOUS
      <4>2. \A i \in 1 .. 1 : SubSeq(<<{}>>, 1, 1)[i] = <<{}>>[i]
        BY <4>1
      <4>. QED
        BY <4>1, <4>2, SeqEqual
    <3>4. CASE held[t] = <<{}>>
      BY <2>1, <3>1, <3>3, <3>4 DEF Base
    <3>5. CASE \E X : held[t] = <<{}, X>>
      <4>1. \A X : Len(<<{}, X>>) = 2
        OBVIOUS
      <4>2. Len(held[t]) = 2 /\ SubSeq(held[t], 1, 1) = <<{}>>
        BY <3>5, <4>1, InnermostIsLast
      <4>. QED
        BY <2>1, <3>1, <3>3, <4>2 DEF Base
    <3>. QED
      BY <2>1, <3>2, <3>4, <3>5, HeldIsKnown
  <2>2. CASE Kind(t) # "relay"
    <3>1. outer(n) = 0
      BY <1>3, <2>2, EndClosesBase DEF End
    <3>. HIDE DEF outer
    <3>2. SubSeq(held[t], 1, 0) = << >> /\ Len(<< >>) = 0
      BY SubSeqEmpty
    <3>3. Len(held[t]) \in 0 .. 2
      BY ConnectionsAreFew
    <3>. QED
      BY <2>2, <3>1, <3>2, <3>3 DEF Base
  <2>. QED
    BY <2>1, <2>2
<1>. HIDE DEF outer
<1>5. WellShaped(Kind(t), Base(Kind(t))) /\ Fits(Base(Kind(t)), Base(Kind(t)))
  BY FitIsKnown DEF Base, WellShaped
<1>6. Leads(End(Kind(t)), Kind(t), Base(Kind(t)), << >>) /\ ReturnsLast(End(Kind(t)), Kind(t))
  BY <1>3, EndLeadsOut
<1>7. Changes(t, onward(n), Base(Kind(t)))
  BY <1>1, <1>3, <1>4, <1>5, <1>6 DEF Changes, KeepsToScript
<1>. QED
  BY <1>7

\* A task that is cut off has given everything back.
LEMMA AbandonChanges ==
  ASSUME SessionsInv, NEW t \in Tasks, Abandon(t)
  PROVE  \E s, c : Changes(t, s, c)
<1>1. KeepsToScript(Kind(t), << >>, << >>)
  BY NothingLeadsNowhere DEF ReturnsLast, WellShaped, Fits, KeepsToScript
<1>2. Len(<< >>) <= Len(held[t])
  BY ConnectionsAreFew
<1>3. Changes(t, << >>, << >>)
  BY <1>1, <1>2 DEF Abandon, Changes
<1>. QED
  BY <1>3

-----------------------------------------------------------------------------
(***************************************************************************)
(* The invariant holds.                                                    *)
(***************************************************************************)

\* A change of one task keeps its script, and overdraws no pool.
LEMMA ChangesKeepInv ==
  ASSUME SessionsInv, NEW t \in Tasks, NEW s, NEW c, Changes(t, s, c)
  PROVE  SessionsInv'
<1>1. /\ rest' = [u \in Tasks |-> IF u = t THEN s ELSE rest[u]]
      /\ held' = [u \in Tasks |-> IF u = t THEN c ELSE held[u]]
  BY DEF SessionsInv, Changes
<1>2. /\ rest'[t] = s /\ held'[t] = c
      /\ \A u \in Tasks : u # t => rest'[u] = rest[u] /\ held'[u] = held[u]
  BY <1>1
<1>3. ASSUME NEW u \in Tasks PROVE KeepsToScript(Kind(u), rest'[u], held'[u])
  <2>1. CASE u = t
    BY <1>2, <2>1 DEF Changes
  <2>2. CASE u # t
    BY <1>2, <2>2 DEF SessionsInv
  <2>. QED
    BY <2>1, <2>2
<1>4. PoolsSuffice'
  <2>1. ASSUME NEW p \in Processes PROVE Cardinality(InUse(p)') <= MaxOpenConns[p]
    <3>1. /\ IsFiniteSet(InUse(p)) /\ Cardinality(InUse(p)) <= MaxOpenConns[p]
          /\ MaxOpenConns[p] \in Nat \ {0} /\ Cardinality(InUse(p)) \in Nat
      BY InUseIsFinite, PoolAssumption, FS_CardinalityType DEF SessionsInv, PoolsSuffice
    <3>2. CASE Len(c) <= Len(held[t])
      <4>1. InUse(p)' \subseteq InUse(p)
        <5>1. ASSUME NEW u \in TasksOf(p)
              PROVE  {u} \X (1 .. Len(held'[u])) \subseteq {u} \X (1 .. Len(held[u]))
          <6>1. CASE u = t
            <7>1. Len(held[t]) \in Nat /\ Len(c) \in Nat
              BY ConnectionsAreFew, FitsAreFew DEF Changes, KeepsToScript
            <7>2. 1 .. Len(c) \subseteq 1 .. Len(held[t])
              BY <3>2, <7>1
            <7>. QED
              BY <1>2, <6>1, <7>2
          <6>2. CASE u # t
            BY <1>2, <6>2 DEF TasksOf
          <6>. QED
            BY <6>1, <6>2
        <5>. QED
          BY <5>1 DEF InUse
      <4>2. Cardinality(InUse(p)') <= Cardinality(InUse(p)) /\ Cardinality(InUse(p)') \in Nat
        BY <3>1, <4>1, FS_Subset, FS_CardinalityType
      <4>. QED
        BY <3>1, <4>2
    <3>3. CASE /\ c = Append(held[t], {})
               /\ \/ Cardinality(InUse(ProcessOf[t])) < MaxOpenConns[ProcessOf[t]]
                  \/ \A u \in TasksOf(ProcessOf[t]) : held[u] = << >>
      <4>. DEFINE new == <<t, Len(held[t]) + 1>>
      <4>1. InUse(p)' \subseteq InUse(p) \cup {new}
        <5>1. Len(c) = Len(held[t]) + 1 /\ Len(held[t]) \in Nat
          <6>1. held[t] \in Seq(SUBSET LocksOf(Kind(t)))
            BY ConnectionsAreFew
          <6>. QED
            BY <3>3, <6>1
        <5>2. 1 .. Len(held[t]) + 1 = (1 .. Len(held[t])) \cup {Len(held[t]) + 1}
          BY <5>1
        <5>3. ASSUME NEW u \in TasksOf(p)
              PROVE  {u} \X (1 .. Len(held'[u])) \subseteq ({u} \X (1 .. Len(held[u]))) \cup {new}
          <6>1. CASE u = t
            BY <1>2, <5>1, <5>2, <6>1
          <6>2. CASE u # t
            BY <1>2, <6>2 DEF TasksOf
          <6>. QED
            BY <6>1, <6>2
        <5>. QED
          BY <5>3 DEF InUse
      <4>2. CASE p # ProcessOf[t]
        <5>1. InUse(p)' = InUse(p)
          BY <1>2, <4>2 DEF InUse, TasksOf
        <5>. QED
          BY <3>1, <5>1
      <4>3. CASE p = ProcessOf[t] /\ Cardinality(InUse(p)) < MaxOpenConns[p]
        <5>. HIDE DEF new
        <5>. DEFINE k == Cardinality(InUse(p))
        <5>1. /\ Cardinality(InUse(p) \cup {new}) \in {k, k + 1}
              /\ IsFiniteSet(InUse(p) \cup {new})
          BY <3>1, FS_AddElement
        <5>2. /\ Cardinality(InUse(p)') <= Cardinality(InUse(p) \cup {new})
              /\ Cardinality(InUse(p)') \in Nat /\ Cardinality(InUse(p) \cup {new}) \in Nat
          BY <4>1, <5>1, FS_Subset, FS_CardinalityType
        <5>. QED
          BY <3>1, <4>3, <5>1, <5>2
      <4>4. CASE p = ProcessOf[t] /\ \A u \in TasksOf(p) : held[u] = << >>
        <5>1. InUse(p) = {}
          <6>1. \A u \in TasksOf(p) : {u} \X (1 .. Len(held[u])) = {}
            BY <4>4
          <6>. QED
            BY <6>1 DEF InUse
        <5>. HIDE DEF new
        <5>2. InUse(p)' \subseteq {new}
          BY <4>1, <5>1
        <5>3. Cardinality({new}) = 1 /\ IsFiniteSet({new})
          BY FS_Singleton
        <5>4. Cardinality(InUse(p)') <= 1 /\ Cardinality(InUse(p)') \in Nat
          BY <5>2, <5>3, FS_Subset, FS_CardinalityType
        <5>. QED
          BY <3>1, <5>4
      <4>. QED
        BY <3>3, <4>2, <4>3, <4>4
    <3>. QED
      BY <3>2, <3>3 DEF Changes
  <2>. QED
    BY <2>1 DEF PoolsSuffice
<1>. QED
  BY <1>1, <1>2, <1>3, <1>4 DEF SessionsInv

\* Nothing is open at first.
LEMMA SessionsInvInit == Init => SessionsInv
<1>. SUFFICES ASSUME Init PROVE SessionsInv
  OBVIOUS
<1>1. /\ rest = [t \in Tasks |-> rest[t]] /\ held = [t \in Tasks |-> held[t]]
      /\ \A t \in Tasks : rest[t] = << >> /\ held[t] = << >>
  BY DEF Init
<1>2. ASSUME NEW t \in Tasks PROVE KeepsToScript(Kind(t), rest[t], held[t])
  <2>1. Leads(<< >>, Kind(t), << >>, << >>)
    BY NothingLeadsNowhere
  <2>2. ReturnsLast(<< >>, Kind(t)) /\ WellShaped(Kind(t), << >>) /\ Fits(<< >>, << >>)
    BY DEF ReturnsLast, WellShaped, Fits
  <2>3. KeepsToScript(Kind(t), << >>, << >>)
    BY <2>1, <2>2 DEF KeepsToScript
  <2>. QED
    BY <1>1, <2>3
<1>3. PoolsSuffice
  <2>1. ASSUME NEW p \in Processes PROVE Cardinality(InUse(p)) <= MaxOpenConns[p]
    <3>1. InUse(p) = {}
      <4>1. \A u \in TasksOf(p) : {u} \X (1 .. Len(held[u])) = {}
        BY <1>1 DEF TasksOf
      <4>. QED
        BY <4>1 DEF InUse
    <3>2. Cardinality(InUse(p)) = 0
      BY <3>1, FS_EmptySet
    <3>3. MaxOpenConns[p] \in Nat
      BY PoolAssumption
    <3>. QED
      BY <3>2, <3>3
  <2>. QED
    BY <2>1 DEF PoolsSuffice
<1>. QED
  BY <1>1, <1>2, <1>3 DEF SessionsInv

\* Every step of every task keeps the invariant.
LEMMA SessionsInvNext == SessionsInv /\ [Next]_vars => SessionsInv'
<1>. SUFFICES ASSUME SessionsInv, [Next]_vars PROVE SessionsInv'
  OBVIOUS
<1>1. CASE Next
  <2>. PICK t \in Tasks :
         \/ Start(t) \/ Take(t) \/ Execute(t) \/ NextRow(t) \/ GiveBack(t)
         \/ Answered(t) \/ Returned(t) \/ ReturnsEarly(t) \/ Abandon(t)
    BY <1>1 DEF Next
  <2>1. \E s, c : Changes(t, s, c)
    BY StartChanges, TakeChanges, ExecuteChanges, NextRowChanges, GiveBackChanges,
       AnsweredChanges, ReturnedChanges, ReturnsEarlyChanges, AbandonChanges
  <2>. QED
    BY <2>1, ChangesKeepInv
<1>2. CASE UNCHANGED vars
  BY <1>2 DEF vars, SessionsInv, PoolsSuffice, InUse
<1>. QED
  BY <1>1, <1>2

\* Every task keeps to one of the program's scripts, has no locks but those that its
\* kind of work takes, and none across a nested connection, and no pool is overdrawn.
THEOREM SessionsHold == Spec => []SessionsInv
<1>. QED
  BY SessionsInvInit, SessionsInvNext, PTL DEF Spec

\* What the invariant says of connections and pools.
LEMMA SessionsAreTyped == SessionsInv => TypeOK
<1>. SUFFICES ASSUME SessionsInv PROVE TypeOK
  OBVIOUS
<1>1. ASSUME NEW t \in Tasks
      PROVE  /\ Len(held[t]) <= 2
             /\ \A n \in DOMAIN held[t] : held[t][n] \subseteq Locks
             /\ Idle(t) => held[t] = << >>
  <2>1. Len(held[t]) <= 2
    <3>1. Len(held[t]) \in 0 .. 2
      BY ConnectionsAreFew
    <3>2. \A k \in 0 .. 2 : k <= 2
      OBVIOUS
    <3>. QED
      BY <3>1, <3>2, Zenon
  <2>2. \A n \in DOMAIN held[t] : held[t][n] \subseteq Locks
    <3>1. /\ held[t] \in Seq(SUBSET LocksOf(Kind(t))) /\ DOMAIN held[t] = 1 .. Len(held[t])
          /\ LocksOf(Kind(t)) \subseteq Locks
      BY ConnectionsAreFew, LocksAreLocks
    <3>. QED
      BY <3>1
  <2>3. ASSUME Idle(t) PROVE held[t] = << >>
    <3>1. PICK shape : Leads(<< >>, Kind(t), shape, << >>) /\ Fits(held[t], shape)
      BY <2>3 DEF SessionsInv, KeepsToScript, Idle
    <3>2. shape = << >>
      BY <3>1, NothingLeadsNowhere
    <3>. QED
      BY <3>1, <3>2, FitIsKnown
  <2>. QED
    BY <2>1, <2>2, <2>3
<1>. QED
  BY <1>1 DEF TypeOK, SessionsInv, PoolsSuffice

\* No pool hands out more connections than it has, no task holds more than two of
\* them, and one that has ended holds none, whatever branch it took, returned early
\* from or was cut off in (db.go Open, the deferred rollbacks and Closes).
THEOREM PoolsAreKept == Spec => []TypeOK
<1>. QED
  BY SessionsHold, SessionsAreTyped, PTL-----------------------------------------------------------------------------
(***************************************************************************)
(* Deadlocks.  Whoever waits for a connection of an exhausted pool waits,  *)
(* because of NestingAssumption, for somebody who waits for a lock.  Locks *)
(* are only held by innermost connections, so whoever waits for one waits  *)
(* for somebody the database can name.  The relay and the ticker never     *)
(* wait while they have a lock, and requests and reconcilers never want    *)
(* each other's: so those who have locks and wait for some form a circle   *)
(* of their own.                                                           *)
(***************************************************************************)

\* Only the innermost connection has locks, those of its task's kind of work.
LEMMA InnermostOwns ==
  ASSUME SessionsInv, NEW u \in Tasks, NEW n \in DOMAIN held[u], held[u][n] # {}
  PROVE  /\ held[u] # << >> /\ n = Len(held[u]) /\ held[u][n] \subseteq LocksOf(Kind(u))
         /\ ~ Clear(Kind(u), held[u])
<1>. DEFINE L == LocksOf(Kind(u))
<1>. HIDE DEF L
<1>1. held[u] # << >>
  <2>1. DOMAIN << >> = {}
    OBVIOUS
  <2>. QED
    BY <2>1
<1>2. CASE \E X \in SUBSET L : held[u] = <<X>>
  <2>1. PICK X \in SUBSET L : held[u] = <<X>>
    BY <1>2
  <2>2. n = 1 /\ Len(<<X>>) = 1 /\ held[u][1] = X
    BY <2>1
  <2>3. X # {}
    BY <2>2
  <2>4. held[u] # <<{}>>
    BY <2>1, <2>3
  <2>. QED
    BY <1>1, <2>1, <2>2, <2>4 DEF Clear, L
<1>3. CASE \E X \in SUBSET L : held[u] = <<{}, X>>
  <2>1. PICK X \in SUBSET L : held[u] = <<{}, X>>
    BY <1>3
  <2>2. n \in 1 .. 2 /\ Len(<<{}, X>>) = 2 /\ held[u][1] = {} /\ held[u][2] = X
    BY <2>1
  <2>3. n = 2
    BY <2>2
  <2>4. held[u] # <<{}>>
    <3>1. Len(<<{}>>) = 1
      OBVIOUS
    <3>. QED
      BY <2>1, <2>2, <3>1
  <2>. QED
    BY <1>1, <2>1, <2>2, <2>3, <2>4 DEF Clear, L
<1>. QED
  BY <1>1, <1>2, <1>3, HeldIsKnown DEF L

\* Whoever blocks a task has the lock in its innermost connection, so that the database
\* knows of it.
LEMMA BlockersAreKnown ==
  ASSUME SessionsInv, NEW t \in Tasks, NEW u \in Blockers(t)
  PROVE  /\ u \in InnermostBlockers(t) /\ u \in Tasks /\ ~ Clear(Kind(u), held[u])
         /\ \E n \in DOMAIN held[u] : held[u][n] # {}
         /\ \E mode \in Against(NextOf(t).do) : <<NextOf(t).what, mode>> \in LocksOf(Kind(u))
<1>1. PICK n \in DOMAIN held[u] : Blocks(u, n, t) /\ (u # t \/ n # Len(held[t]))
  BY DEF Blockers
<1>2. u \in Tasks
  BY DEF Blockers
<1>3. PICK mode \in Against(NextOf(t).do) : <<NextOf(t).what, mode>> \in held[u][n]
  BY <1>1 DEF Blocks
<1>4. /\ held[u] # << >> /\ n = Len(held[u]) /\ held[u][n] \subseteq LocksOf(Kind(u))
      /\ ~ Clear(Kind(u), held[u])
  BY <1>2, <1>3, InnermostOwns
<1>5. u \in InnermostBlockers(t)
  BY <1>1, <1>2, <1>4 DEF InnermostBlockers
<1>. QED
  BY <1>2, <1>3, <1>4, <1>5

\* What a waiting task waits for: a connection, while it has no lock, or a lock of its
\* kind of work.  Nobody waits to insert into the outbox, whose range nobody locks.
LEMMA WaitsForPoolOrLock ==
  ASSUME SessionsInv, NEW t \in Tasks, t \in Waiting
  PROVE  \/ /\ NextOf(t).do = "open" /\ Clear(Kind(t), held[t])
            /\ Cardinality(InUse(ProcessOf[t])) >= MaxOpenConns[ProcessOf[t]]
            /\ WaitsFor(t) = {u \in TasksOf(ProcessOf[t]) : held[u] # << >>}
         \/ /\ NextOf(t).do # "open" /\ WaitsFor(t) = Blockers(t)
            /\ \E mode : <<NextOf(t).what, mode>> \in LocksOf(Kind(t))
            /\ Kind(t) = "relay" => held[t] = <<{}, {}>>
<1>1. WaitsFor(t) # {}
  BY DEF Waiting
<1>2. ~ Idle(t)
  BY <1>1 DEF WaitsFor
<1>3. \E a, b : Follows(t, a, b)
  BY <1>2, NextMoves
<1>. PICK a, b : Follows(t, a, b)
  BY <1>3
<1>4. CASE NextOf(t).do = "open"
  <2>1. Clear(Kind(t), a)
    BY <1>4, MoveIsKnown DEF Opens, Follows
  <2>2. a = held[t]
    BY <2>1, ClearFits DEF Follows
  <2>. QED
    BY <1>1, <1>2, <1>4, <2>1, <2>2, WhoIsWaitedFor
<1>5. CASE NextOf(t).do # "open"
  <2>1. WaitsFor(t) = Blockers(t) /\ NextOf(t).do \in {"exclusive", "shared", "insert"}
    BY <1>1, <1>2, <1>5, WhoIsWaitedFor
  <2>2. Writes(NextOf(t), Kind(t), a, b)
    BY <2>1, MoveIsKnown DEF Follows
  <2>3. NextOf(t).what # "outbox"
    <3>1. PICK u \in Blockers(t) : TRUE
      BY <1>1, <2>1
    <3>2. \E mode : <<NextOf(t).what, mode>> \in LocksOf(Kind(u))
      BY BlockersAreKnown
    <3>. QED
      BY <3>2, LocksAreLocks
  <2>4. \E mode : <<NextOf(t).what, mode>> \in LocksOf(Kind(t))
    BY <2>1, <2>2, <2>3 DEF Writes, Allowed, Modes
  <2>5. ASSUME Kind(t) = "relay" PROVE held[t] = <<{}, {}>>
    <3>1. \A x : <<x, "range">> \notin LocksOf("relay")
      BY DEF LocksOf
    <3>2. NextOf(t).do # "insert"
      BY <2>2, <2>3, <2>5, <3>1 DEF Writes, Allowed, Modes
    <3>3. a = <<{}, {}>>
      BY <2>2, <2>5, <3>2 DEF Writes, Unlocked, Locking
    <3>4. \E X \in SUBSET {} : held[t] = <<{}, X>>
      BY <3>3, FitIsKnown DEF Follows
    <3>. QED
      BY <3>4
  <2>. QED
    BY <1>5, <2>1, <2>4, <2>5
<1>. QED
  BY <1>4, <1>5

\* Whoever blocks a waiting task and waits too, waits for a lock as well, and is a
\* request or a reconciler, and a request when a request waits for it.
LEMMA BlockedByOwnKind ==
  ASSUME SessionsInv, NEW t \in Tasks, t \in Waiting, NextOf(t).do # "open",
         NEW u \in Blockers(t), u \in Waiting
  PROVE  /\ u \in InnermostBlockers(t) /\ NextOf(u).do # "open" /\ u \in Clients \cup Reconcilers
         /\ t \in Clients => u \in Clients
         /\ t \in Reconcilers => u \in Reconcilers
<1>1. /\ u \in InnermostBlockers(t) /\ u \in Tasks /\ ~ Clear(Kind(u), held[u])
      /\ \E n \in DOMAIN held[u] : held[u][n] # {}
      /\ \E mode : <<NextOf(t).what, mode>> \in LocksOf(Kind(u))
  BY BlockersAreKnown
<1>2. NextOf(u).do # "open" /\ (Kind(u) = "relay" => held[u] = <<{}, {}>>)
  BY <1>1, WaitsForPoolOrLock
<1>3. Kind(u) # "relay"
  <2>1. \A n \in DOMAIN <<{}, {}>> : <<{}, {}>>[n] = {}
    OBVIOUS
  <2>. QED
    BY <1>1, <1>2, <2>1
<1>4. LocksOf("ticker") = {}
  BY DEF LocksOf
<1>5. u \in Clients \cup Reconcilers
  <2>1. u \notin Relays /\ u \notin Collectors
    BY <1>1, <1>3, <1>4, KindOfWork
  <2>. QED
    BY <1>1, <2>1 DEF Tasks
<1>6. \E mode : <<NextOf(t).what, mode>> \in LocksOf(Kind(t))
  BY WaitsForPoolOrLock
<1>7. t \in Clients => u \in Clients
  <2>. SUFFICES ASSUME t \in Clients, u \in Reconcilers PROVE FALSE
    BY <1>5
  <2>1. Kind(t) = "client" /\ Kind(u) = "reconciler"
    BY <1>1, KindOfWork
  <2>. QED
    BY <1>1, <1>6, <2>1, LocksAreApart
<1>8. t \in Reconcilers => u \in Reconcilers
  <2>. SUFFICES ASSUME t \in Reconcilers, u \in Clients PROVE FALSE
    BY <1>5
  <2>1. Kind(t) = "reconciler" /\ Kind(u) = "client"
    BY <1>1, KindOfWork
  <2>. QED
    BY <1>1, <1>6, <2>1, LocksAreApart
<1>. QED
  BY <1>1, <1>2, <1>5, <1>7, <1>8

\* When a pool is exhausted and all who have its connections wait, one of them waits
\* for a lock: the tasks that wait with a connection for another are too few.
LEMMA SomebodyWaitsForLock ==
  ASSUME SessionsInv, NEW p \in Processes,
         Cardinality(InUse(p)) >= MaxOpenConns[p],
         \A u \in TasksOf(p) : held[u] # << >> => u \in Waiting
  PROVE  \E u \in TasksOf(p) : held[u] # << >> /\ NextOf(u).do # "open"
<1>. SUFFICES ASSUME \A u \in TasksOf(p) : held[u] # << >> => NextOf(u).do = "open"
              PROVE  FALSE
  OBVIOUS
<1>. DEFINE N == TasksOf(p) \cap Nesting
<1>1. ASSUME NEW u \in TasksOf(p), held[u] # << >> PROVE u \in N /\ held[u] = <<{}>>
  <2>1. u \in Tasks /\ u \in Waiting
    BY <1>1 DEF TasksOf
  <2>2. Clear(Kind(u), held[u])
    BY <1>1, <2>1, WaitsForPoolOrLock
  <2>. QED
    BY <1>1, <2>1, <2>2, KindOfWork DEF Clear
<1>2. InUse(p) \subseteq N \X {1}
  <2>1. ASSUME NEW u \in TasksOf(p)
        PROVE  {u} \X (1 .. Len(held[u])) \subseteq N \X {1}
    <3>1. CASE held[u] = << >>
      BY <3>1
    <3>2. CASE held[u] # << >>
      <4>1. u \in N /\ held[u] = <<{}>>
        BY <1>1, <3>2
      <4>2. Len(<<{}>>) = 1 /\ 1 .. 1 = {1}
        OBVIOUS
      <4>. HIDE DEF N
      <4>. QED
        BY <4>1, <4>2
    <3>. QED
      BY <3>1, <3>2
  <2>. HIDE DEF N
  <2>. QED
    BY <2>1 DEF InUse
<1>3. IsFiniteSet(N)
  BY TasksAssumption, FS_Subset DEF TasksOf
<1>4. Cardinality(N) < MaxOpenConns[p] /\ MaxOpenConns[p] \in Nat
  BY NestingAssumption, PoolAssumption
<1>. HIDE DEF N
<1>5. IsFiniteSet(N \X {1}) /\ Cardinality(N \X {1}) = Cardinality(N) * Cardinality({1})
  BY <1>3, FS_Singleton, FS_Product
<1>6. Cardinality(N) \in Nat /\ Cardinality({1}) = 1
  BY <1>3, FS_CardinalityType, FS_Singleton
<1>7. Cardinality(InUse(p)) <= Cardinality(N \X {1}) /\ Cardinality(InUse(p)) \in Nat
  BY <1>2, <1>5, FS_Subset, FS_CardinalityType
<1>. QED
  BY <1>4, <1>5, <1>6, <1>7

\* In a set of tasks of which none can move before another does, those who have locks
\* and wait for some are there, and are blocked by each other.
LEMMA DeadlocksHaveSeenCircles == SessionsInv => DeadlocksAreSeen
<1>. SUFFICES ASSUME SessionsInv,
                     NEW set \in SUBSET Waiting, set # {}, Stuck(set)
              PROVE  \E circle \in (SUBSET set) \ {{}} :
                       /\ SeenCircle(circle)
                       /\ circle \subseteq Clients \/ circle \subseteq Reconcilers
  BY DEF DeadlocksAreSeen
<1>. DEFINE Blocked(kind) == {u \in set : NextOf(u).do # "open" /\ u \in kind}
<1>1. set \subseteq Tasks
  BY DEF Waiting
<1>2. ASSUME NEW t \in set, NextOf(t).do # "open"
      PROVE  \E u \in Blockers(t) : u \in set
  <2>1. WaitsFor(t) \cap set # {}
    BY <1>2 DEF Stuck
  <2>2. WaitsFor(t) = Blockers(t)
    BY <1>1, <1>2, WaitsForPoolOrLock
  <2>. QED
    BY <2>1, <2>2
<1>3. \E t \in set : NextOf(t).do # "open"
  <2>. PICK t \in set : TRUE
    OBVIOUS
  <2>1. CASE NextOf(t).do = "open"
    <3>1. /\ Cardinality(InUse(ProcessOf[t])) >= MaxOpenConns[ProcessOf[t]]
          /\ WaitsFor(t) = {u \in TasksOf(ProcessOf[t]) : held[u] # << >>}
          /\ ProcessOf[t] \in Processes
      BY <1>1, <2>1, WaitsForPoolOrLock, TasksAssumption
    <3>2. WaitsFor(t) \subseteq set
      BY <2>1 DEF Stuck
    <3>3. \A u \in TasksOf(ProcessOf[t]) : held[u] # << >> => u \in set
      BY <3>1, <3>2
    <3>4. \E u \in TasksOf(ProcessOf[t]) : held[u] # << >> /\ NextOf(u).do # "open"
      BY <3>1, <3>3, SomebodyWaitsForLock
    <3>. QED
      BY <3>3, <3>4
  <2>. QED
    BY <2>1
<1>4. \E t \in set : NextOf(t).do # "open" /\ t \in Clients \cup Reconcilers
  <2>. PICK t \in set : NextOf(t).do # "open"
    BY <1>3
  <2>1. PICK u \in Blockers(t) : u \in set
    BY <1>2
  <2>2. NextOf(u).do # "open" /\ u \in Clients \cup Reconcilers
    BY <1>1, <2>1, BlockedByOwnKind
  <2>. QED
    BY <2>1, <2>2
<1>5. ASSUME NEW kind \in {Clients, Reconcilers}, Blocked(kind) # {}
      PROVE  \E circle \in (SUBSET set) \ {{}} :
               /\ SeenCircle(circle)
               /\ circle \subseteq Clients \/ circle \subseteq Reconcilers
  <2>1. ASSUME NEW t \in Blocked(kind)
        PROVE  NextOf(t).do # "open" /\ InnermostBlockers(t) \cap Blocked(kind) # {}
    <3>1. PICK u \in Blockers(t) : u \in set
      BY <1>2
    <3>2. u \in InnermostBlockers(t) /\ NextOf(u).do # "open" /\ u \in kind
      BY <1>1, <3>1, BlockedByOwnKind
    <3>. QED
      BY <3>1, <3>2
  <2>2. SeenCircle(Blocked(kind))
    BY <2>1 DEF SeenCircle
  <2>3. Blocked(kind) \in (SUBSET set) \ {{}} /\ Blocked(kind) \subseteq kind
    BY <1>5
  <2>. QED
    BY <2>2, <2>3
<1>6. Blocked(Clients) # {} \/ Blocked(Reconcilers) # {}
  BY <1>4
<1>. QED
  BY <1>5, <1>6

\* Whatever deadlock the locks of the rows and ranges lead to, in any order of the
\* lists, the database sees one, among requests or among reconcilers, and it ends with
\* one of them rolled back; none hides behind a pool or a nested transaction, and none
\* takes the relay (relay.go ProcessBatch, whose handlers need a second connection,
\* insert into the outbox and lock transfers; usecase.go Execute with its nested read;
\* the upserts and INSERT IGNOREs in the bank's order), in any number of processes,
\* provided only that no pool can be filled by loops that each wait for their second
\* connection.
THEOREM DeadlocksEndThemselves == Spec => []DeadlocksAreSeen
<1>. QED
  BY SessionsHold, DeadlocksHaveSeenCircles, PTL

-----------------------------------------------------------------------------
(***************************************************************************)
(* Clients and the bank.  The tasks that a client may come to wait for are *)
(* those of its own process that have a connection and, everywhere, those  *)
(* that have a lock; neither calls the bank.                               *)
(***************************************************************************)

\* Who has a lock.
LockHolders == {u \in Tasks : \E n \in 1 .. Len(held[u]) : held[u][n] # {}}

\* The bank is called without a lock, and by a task that nests nothing without a
\* connection.
LEMMA CallersHoldNothing ==
  ASSUME SessionsInv, NEW t \in Calling
  PROVE  t \in Tasks /\ Clear(Kind(t), held[t]) /\ t \notin LockHolders /\ t \notin Waiting
<1>1. t \in Tasks /\ ~ Idle(t) /\ NextOf(t).do = "bank"
  BY DEF Calling
<1>2. \E a, b : Follows(t, a, b)
  BY <1>1, NextMoves
<1>. PICK a, b : Follows(t, a, b)
  BY <1>2
<1>3. Clear(Kind(t), held[t])
  <2>1. Clear(Kind(t), a)
    BY <1>1, MoveIsKnown DEF Calls, Follows
  <2>. QED
    BY <2>1, ClearFits DEF Follows
<1>4. t \notin LockHolders
  BY <1>3 DEF Clear, LockHolders
<1>5. WaitsFor(t) = {}
  BY <1>1, WhoIsWaitedFor
<1>. QED
  BY <1>1, <1>3, <1>4, <1>5 DEF Waiting

\* The chain: the client, the users of its pool, and all who have a lock.
LEMMA WaitingChainsAvoidBank == SessionsInv => ClientsNeverWaitForBank
<1>. SUFFICES ASSUME SessionsInv, NEW c \in Clients \cap Waiting
              PROVE  \E chain \in SUBSET (Tasks \ Calling) :
                       c \in chain /\ \A t \in chain : WaitsFor(t) \subseteq chain
  BY DEF ClientsNeverWaitForBank
<1>. DEFINE p == ProcessOf[c]
            users == {u \in TasksOf(p) : held[u] # << >>}
            chain == {c} \cup users \cup LockHolders
<1>1. c \in Tasks /\ c \in TasksOf(p)
  BY DEF Tasks, TasksOf
<1>2. chain \subseteq Tasks
  BY <1>1 DEF TasksOf, LockHolders
<1>3. ASSUME NEW t \in chain PROVE t \notin Calling
  <2>1. ASSUME t \in Calling PROVE FALSE
    <3>1. t \in Tasks /\ Clear(Kind(t), held[t]) /\ t \notin LockHolders /\ t \notin Waiting
      BY <2>1, CallersHoldNothing
    <3>2. t \in users
      BY <1>3, <3>1
    <3>3. t \notin Nesting
      BY <3>2, TasksAssumption
    <3>. QED
      BY <3>1, <3>2, <3>3, KindOfWork DEF Clear
  <2>. QED
    BY <2>1
<1>4. ASSUME NEW t \in chain PROVE WaitsFor(t) \subseteq chain
  <2>1. t \in Tasks
    BY <1>2
  <2>2. CASE t \notin Waiting
    BY <2>1, <2>2 DEF Waiting
  <2>3. CASE WaitsFor(t) = Blockers(t)
    <3>1. ASSUME NEW u \in Blockers(t) PROVE u \in LockHolders
      <4>1. u \in Tasks /\ \E n \in DOMAIN held[u] : held[u][n] # {}
        BY <2>1, BlockersAreKnown
      <4>2. DOMAIN held[u] = 1 .. Len(held[u])
        BY <4>1, ConnectionsAreFew
      <4>. QED
        BY <4>1, <4>2 DEF LockHolders
    <3>. QED
      BY <2>3, <3>1
  <2>4. CASE /\ Clear(Kind(t), held[t])
             /\ WaitsFor(t) = {u \in TasksOf(ProcessOf[t]) : held[u] # << >>}
    <3>1. t \notin LockHolders
      BY <2>4 DEF Clear, LockHolders
    <3>2. ProcessOf[t] = p
      BY <1>4, <3>1 DEF TasksOf
    <3>. QED
      BY <2>4, <3>2
  <2>. QED
    BY <2>1, <2>2, <2>3, <2>4, WaitsForPoolOrLock
<1>. QED
  BY <1>2, <1>3, <1>4

\* Neither a client's request nor anyone it waits for, directly or through others,
\* waits for a task that is calling the bank: the calls are made without locks, and
\* where a connection is held across them (relay.go ProcessBatch) it is one of a pool
\* that no client draws from.
THEOREM ClientsAreFreeOfBank == Spec => []ClientsNeverWaitForBank
<1>. QED
  BY SessionsHold, WaitingChainsAvoidBank, PTL
=============================================================================
