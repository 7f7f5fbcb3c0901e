--------------------------- MODULE CollectionProofs -------------------------
(***************************************************************************)
(* Proofs about Reconciliation and Collection, for any entries, amounts,   *)
(* invoices, accounts and numbers of reconcilers.                          *)
(***************************************************************************)
EXTENDS Collection, FiniteSetTheorems, SequenceTheorems, TLAPS

-----------------------------------------------------------------------------
(***************************************************************************)
(* Sums of amounts.                                                        *)
(***************************************************************************)

\* Induction on finite sets: Good holds a finite S if it holds the empty set and every
\* subset of S whose predecessors it holds.  Otherwise there is a least subset
\* that it does not hold.
LEMMA SubsetInduction ==
  ASSUME NEW S, IsFiniteSet(S), NEW Good,
         {} \in Good,
         \A s \in SUBSET S : s # {} /\ (\A i \in s : s \ {i} \in Good) => s \in Good
  PROVE  SUBSET S \subseteq Good
<1>. DEFINE Bad == (SUBSET S) \ Good
<1>. SUFFICES ASSUME Bad # {} PROVE FALSE
  OBVIOUS
<1>1. IsWellFoundedOn(StrictSubsetOrdering(S), SUBSET S)
  BY FS_StrictSubsetOrderingWellFounded, FS_FiniteSubsetsOfFinite
<1>2. PICK s \in Bad : \A t \in Bad : <<t, s>> \notin StrictSubsetOrdering(S)
  <2>1. Bad \subseteq SUBSET S
    OBVIOUS
  <2>. HIDE DEF Bad
  <2>. QED
    BY <1>1, <2>1, WFMin
<1>3. s \in SUBSET S /\ s \notin Good /\ s # {}
  BY <1>2
<1>4. ASSUME NEW i \in s
      PROVE  s \ {i} \in Good
  <2>1. <<s \ {i}, s>> \in StrictSubsetOrdering(S)
    BY <1>3, <1>4 DEF StrictSubsetOrdering
  <2>. QED
    BY <1>2, <1>3, <2>1
<1>. HIDE DEF Bad
<1>. QED
  BY <1>3, <1>4

\* The recursion that Total evaluates, for the subsets of U.
IsSum(f, U) ==
  f = [s \in SUBSET U |-> IF s = {} THEN 0
                          ELSE LET i == CHOOSE i \in s : TRUE IN Amount[i] + f[s \ {i}]]

TheSum(U) == CHOOSE f : IsSum(f, U)

\* Total is what the fold of the library computes.
LEMMA TotalIsSum == ASSUME NEW U PROVE Total(U) = TheSum(U)[U]
BY DEF Total, MapThenSumSet, MapThenFoldSet, TheSum, IsSum

\* What the recursion says of one subset.
LEMMA SumStep ==
  ASSUME NEW U, NEW f, IsSum(f, U), NEW s \in SUBSET U
  PROVE  /\ s = {} => f[s] = 0
         /\ s # {} => LET i == CHOOSE i \in s : TRUE IN
                      i \in s /\ s \ {i} \in SUBSET U /\ f[s] = Amount[i] + f[s \ {i}]
BY DEF IsSum

\* Two such functions agree.
LEMMA SumsAgree ==
  ASSUME NEW U, NEW V, NEW f, NEW g, IsSum(f, U), IsSum(g, V),
         NEW s, IsFiniteSet(s), s \subseteq U, s \subseteq V
  PROVE  f[s] = g[s]
<1>. DEFINE Good == {t \in SUBSET s : f[t] = g[t]}
<1>1. {} \in Good
  <2>1. {} \in SUBSET U /\ {} \in SUBSET V
    OBVIOUS
  <2>2. f[{}] = 0 /\ g[{}] = 0
    BY <2>1, SumStep
  <2>. QED
    BY <2>2
<1>2. ASSUME NEW t \in SUBSET s, t # {}, \A i \in t : t \ {i} \in Good
      PROVE  t \in Good
  <2>. DEFINE i == CHOOSE i \in t : TRUE
  <2>1. t \in SUBSET U /\ t \in SUBSET V
    OBVIOUS
  <2>2. i \in t /\ f[t] = Amount[i] + f[t \ {i}]
    BY <1>2, <2>1, SumStep
  <2>3. g[t] = Amount[i] + g[t \ {i}]
    BY <1>2, <2>1, SumStep
  <2>4. f[t \ {i}] = g[t \ {i}]
    BY <1>2, <2>2
  <2>. QED
    BY <2>2, <2>3, <2>4
<1>3. SUBSET s \subseteq Good
  <2>. HIDE DEF Good
  <2>. QED
    BY <1>1, <1>2, SubsetInduction
<1>. QED
  BY <1>3

\* There is such a function for every finite set, built from those of its subsets.
LEMMA SumExists ==
  ASSUME NEW S, IsFiniteSet(S)
  PROVE  \A s \in SUBSET S : IsSum(TheSum(s), s)
<1>. DEFINE Good == {t \in SUBSET S : \A s \in SUBSET t : IsSum(TheSum(s), s)}
<1>1. {} \in Good
  <2>1. IsSum([s \in SUBSET {} |-> 0], {})
    BY DEF IsSum
  <2>2. IsSum(TheSum({}), {})
    BY <2>1 DEF TheSum
  <2>. QED
    BY <2>2
<1>2. ASSUME NEW t \in SUBSET S, t # {}, \A i \in t : t \ {i} \in Good
      PROVE  t \in Good
  <2>1. ASSUME NEW u \in SUBSET t, u # t
        PROVE  IsSum(TheSum(u), u) /\ IsFiniteSet(u)
    <3>1. PICK i \in t : u \subseteq t \ {i}
      BY <2>1
    <3>2. t \ {i} \in Good
      BY <1>2
    <3>. QED
      BY <3>1, <3>2, FS_Subset
  <2>. DEFINE Sum(s) == TheSum(s)[s]
              Step(s) == LET i == CHOOSE i \in s : TRUE IN Amount[i] + Sum(s \ {i})
              f == [s \in SUBSET t |-> IF s = {} THEN 0 ELSE Step(s)]
  <2>2. ASSUME NEW u \in SUBSET t, u # t
        PROVE  f[u] = Sum(u)
    <3>1. CASE u = {}
      <4>0. IsSum(TheSum(u), u) /\ u \in SUBSET u
        BY <2>1, <2>2
      <4>1. Sum(u) = 0
        BY <3>1, <4>0, SumStep
      <4>. QED
        BY <3>1, <4>1
    <3>2. CASE u # {}
      <4>. DEFINE i == CHOOSE i \in u : TRUE
                  w == u \ {i}
      <4>1. i \in u /\ w \in SUBSET u /\ Sum(u) = Amount[i] + TheSum(u)[w]
        BY <2>1, <2>2, <3>2, SumStep
      <4>2. w \in SUBSET t /\ w # t
        BY <4>1, <2>2
      <4>3. TheSum(u)[w] = Sum(w)
        BY <2>1, <2>2, <4>1, <4>2, SumsAgree
      <4>4. f[u] = Amount[i] + Sum(w)
        BY <3>2
      <4>. QED
        BY <4>1, <4>3, <4>4
    <3>. QED
      BY <3>1, <3>2
  <2>3. ASSUME NEW s \in SUBSET t
        PROVE  f[s] = IF s = {} THEN 0
                      ELSE LET i == CHOOSE i \in s : TRUE IN Amount[i] + f[s \ {i}]
    <3>1. CASE s = {}
      BY <3>1
    <3>2. CASE s # {}
      <4>. DEFINE i == CHOOSE i \in s : TRUE
      <4>1. i \in s /\ s \ {i} \in SUBSET t /\ s \ {i} # t
        BY <3>2
      <4>2. f[s \ {i}] = Sum(s \ {i})
        BY <2>2, <4>1
      <4>3. f[s] = Amount[i] + Sum(s \ {i})
        BY <3>2
      <4>. QED
        BY <3>2, <4>2, <4>3
    <3>. QED
      BY <3>1, <3>2
  <2>4. IsSum(f, t)
    <3>1. f = [s \in SUBSET t |-> f[s]]
      OBVIOUS
    <3>. HIDE DEF f
    <3>. QED
      BY <2>3, <3>1 DEF IsSum
  <2>5. IsSum(TheSum(t), t)
    BY <2>4 DEF TheSum
  <2>. QED
    BY <2>1, <2>5
<1>3. SUBSET S \subseteq Good
  <2>. HIDE DEF Good
  <2>. QED
    BY <1>1, <1>2, SubsetInduction
<1>. QED
  BY <1>3

\* The sum of nothing.
LEMMA TotalNone == Total({}) = 0
<1>1. IsFiniteSet({})
  BY FS_EmptySet
<1>2. IsSum(TheSum({}), {}) /\ {} \in SUBSET {}
  BY <1>1, SumExists
<1>. QED
  BY <1>2, SumStep, TotalIsSum

\* The first step of the sum, which takes the element that CHOOSE takes.
LEMMA TotalTakes ==
  ASSUME NEW s, IsFiniteSet(s), s # {}
  PROVE  \E i \in s : Total(s) = Amount[i] + Total(s \ {i})
<1>. DEFINE i == CHOOSE i \in s : TRUE
<1>1. IsSum(TheSum(s), s) /\ s \in SUBSET s
  BY SumExists
<1>2. i \in s /\ s \ {i} \in SUBSET s /\ TheSum(s)[s] = Amount[i] + TheSum(s)[s \ {i}]
  BY <1>1, SumStep
<1>3. IsFiniteSet(s \ {i})
  BY <1>2, FS_Subset
<1>4. IsSum(TheSum(s \ {i}), s \ {i})
  BY <1>2, SumExists
<1>5. TheSum(s)[s \ {i}] = TheSum(s \ {i})[s \ {i}]
  BY <1>1, <1>2, <1>3, <1>4, SumsAgree
<1>. QED
  BY <1>2, <1>5, TotalIsSum

\* Sums of whole amounts are whole, and of amounts that are not negative, not negative.
LEMMA TotalType ==
  ASSUME NEW S, IsFiniteSet(S), S \subseteq Items
  PROVE  Total(S) \in Int /\ ((\A i \in S : Amount[i] > 0) => Total(S) >= 0)
<1>. DEFINE Good == {s \in SUBSET S :
              Total(s) \in Int /\ ((\A i \in s : Amount[i] > 0) => Total(s) >= 0)}
<1>1. {} \in Good
  BY TotalNone
<1>2. ASSUME NEW s \in SUBSET S, s # {}, \A i \in s : s \ {i} \in Good
      PROVE  s \in Good
  <2>1. PICK i \in s : Total(s) = Amount[i] + Total(s \ {i})
    BY <1>2, FS_Subset, TotalTakes
  <2>2. s \ {i} \in Good /\ Amount[i] \in Int
    BY <1>2, <2>1, ItemsAssumption
  <2>. QED
    BY <2>1, <2>2
<1>3. SUBSET S \subseteq Good
  <2>. HIDE DEF Good
  <2>. QED
    BY <1>1, <1>2, SubsetInduction
<1>. QED
  BY <1>3

\* A sum of positive amounts is positive.
LEMMA TotalPositive ==
  ASSUME NEW S, IsFiniteSet(S), S \subseteq Items, S # {}, \A i \in S : Amount[i] > 0
  PROVE  Total(S) > 0
<1>1. PICK i \in S : Total(S) = Amount[i] + Total(S \ {i})
  BY TotalTakes
<1>2. IsFiniteSet(S \ {i}) /\ S \ {i} \subseteq Items
  BY FS_Subset
<1>. DEFINE rest == Total(S \ {i})
<1>3. rest \in Int /\ rest >= 0 /\ Amount[i] \in Int /\ Amount[i] > 0
  BY <1>1, <1>2, TotalType, ItemsAssumption
<1>. HIDE DEF rest
<1>4. rest + Amount[i] > 0 /\ Amount[i] + rest = rest + Amount[i]
  BY <1>3
<1>. QED
  BY <1>1, <1>4 DEF rest

\* Any element may be taken first.
LEMMA TotalWithout ==
  ASSUME NEW S, IsFiniteSet(S), S \subseteq Items, NEW j \in S
  PROVE  Total(S) = Amount[j] + Total(S \ {j})
<1>. DEFINE Good == {s \in SUBSET S : \A k \in s : Total(s) = Amount[k] + Total(s \ {k})}
<1>1. {} \in Good
  OBVIOUS
<1>2. ASSUME NEW s \in SUBSET S, s # {}, \A i \in s : s \ {i} \in Good
      PROVE  s \in Good
  <2>1. PICK i \in s : Total(s) = Amount[i] + Total(s \ {i})
    BY <1>2, FS_Subset, TotalTakes
  <2>2. ASSUME NEW k \in s, k # i
        PROVE  Total(s) = Amount[k] + Total(s \ {k})
    <3>. DEFINE rest == (s \ {i}) \ {k}
    <3>1. Total(s \ {i}) = Amount[k] + Total(rest)
      BY <1>2, <2>1, <2>2
    <3>2. Total(s \ {k}) = Amount[i] + Total((s \ {k}) \ {i})
      BY <1>2, <2>1, <2>2
    <3>3. rest = (s \ {k}) \ {i}
      OBVIOUS
    <3>4. Amount[i] \in Int /\ Amount[k] \in Int /\ Total(rest) \in Int
      <4>1. IsFiniteSet(rest) /\ rest \subseteq Items
        BY FS_Subset
      <4>. QED
        BY <2>1, <2>2, <4>1, TotalType, ItemsAssumption
    <3>5. Total(s \ {k}) = Amount[i] + Total(rest)
      BY <3>2, <3>3
    <3>6. Total(s) = Amount[i] + (Amount[k] + Total(rest))
      BY <2>1, <3>1
    <3>7. Amount[i] + (Amount[k] + Total(rest)) = Amount[k] + (Amount[i] + Total(rest))
      <4>. HIDE DEF rest
      <4>. QED
        BY <3>4
    <3>. QED
      BY <3>5, <3>6, <3>7
  <2>. QED
    BY <2>1, <2>2
<1>3. SUBSET S \subseteq Good
  <2>. HIDE DEF Good
  <2>. QED
    BY <1>1, <1>2, SubsetInduction
<1>. QED
  BY <1>3

\* The sum of two sets that have nothing in common.
LEMMA TotalUnion ==
  ASSUME NEW A, NEW B, IsFiniteSet(A), IsFiniteSet(B), A \subseteq Items, B \subseteq Items,
         A \cap B = {}
  PROVE  Total(A \union B) = Total(A) + Total(B)
<1>. DEFINE Good == {s \in SUBSET B : Total(A \union s) = Total(A) + Total(s)}
<1>1. {} \in Good
  <2>1. A \union {} = A /\ Total(A) \in Int
    BY TotalType
  <2>. QED
    BY <2>1, TotalNone
<1>2. ASSUME NEW s \in SUBSET B, s # {}, \A i \in s : s \ {i} \in Good
      PROVE  s \in Good
  <2>1. PICK i \in s : TRUE
    BY <1>2
  <2>. DEFINE u == A \union s
              rest == s \ {i}
              others == A \union rest
  <2>2. IsFiniteSet(s) /\ IsFiniteSet(rest) /\ IsFiniteSet(u)
    BY FS_Subset, FS_Union
  <2>3. i \in u /\ u \ {i} = others /\ rest \in Good
    BY <1>2, <2>1
  <2>4. Total(u) = Amount[i] + Total(u \ {i}) /\ Total(s) = Amount[i] + Total(rest)
    BY <2>1, <2>2, TotalWithout
  <2>5. Total(others) = Total(A) + Total(rest)
    BY <2>3
  <2>6. Amount[i] \in Int /\ Total(A) \in Int /\ Total(rest) \in Int
    BY <2>1, <2>2, TotalType, ItemsAssumption
  <2>7. Total(u) = Amount[i] + (Total(A) + Total(rest))
    BY <2>3, <2>4, <2>5
  <2>8. Total(u) = Total(A) + Total(s)
    <3>. HIDE DEF u, rest
    <3>. QED
      BY <2>4, <2>6, <2>7
  <2>. QED
    BY <2>8
<1>3. SUBSET B \subseteq Good
  <2>. HIDE DEF Good
  <2>. QED
    BY <1>1, <1>2, SubsetInduction
<1>. QED
  BY <1>3

-----------------------------------------------------------------------------
(***************************************************************************)
(* Reconciliation.  The copy of the invoice that a reconciler holds rests  *)
(* on deposits that are matched by now, and what it adds to it is not yet  *)
(* recorded: so its write credits nothing twice, however old the copy.     *)
(***************************************************************************)

\* What is recorded came from the statement and is worth something.
DepositInv ==
  /\ IsFiniteSet(statement)
  /\ incomings \subseteq statement /\ matched \subseteq incomings
  /\ \A i \in incomings : Creditable(i)
  /\ \A r \in Reconcilers : list[r] \subseteq statement

\* An invoice, as it is stored or as somebody has read it, has no more credited to it
\* than is matched; a copy is one of the stored invoice.
CreditInv ==
  /\ 0 <= invoice.paid /\ invoice.paid <= Total(matched)
  /\ \A r \in Reconcilers : copy[r] # NoInvoice =>
       /\ invoice # NoInvoice /\ copy[r].amount = invoice.amount
       /\ 0 <= copy[r].paid /\ copy[r].paid <= Total(matched)

EventInv == EventsTellStatus /\ (invoice = NoInvoice => published = << >>)

BooksInv == TypeOK /\ DepositInv /\ CreditInv /\ EventInv

\* A status always goes with an amount.  (domain/invoice.go)
LEMMA StatusType == \A paid, amount \in Int : StatusFor(paid, amount) \in InvoiceStatus
BY DEF StatusFor, InvoiceStatus

\* No invoice is not an invoice.
LEMMA NoInvoiceApart == NoInvoice \notin Invoices
BY DEF NoInvoice, Invoices, InvoiceStatus

\* What a reconciler is about to insert is new, finite and worth something.
LEMMA InsertedIsNew ==
  ASSUME BooksInv, NEW r \in Reconcilers
  PROVE  /\ Inserted(r) \subseteq list[r] /\ Inserted(r) \subseteq Items
         /\ IsFiniteSet(Inserted(r)) /\ IsFiniteSet(matched)
         /\ matched \subseteq Items /\ matched \cap Inserted(r) = {}
         /\ \A i \in Inserted(r) : Creditable(i)
<1>1. /\ Inserted(r) \subseteq list[r] /\ list[r] \subseteq statement /\ statement \subseteq Items
      /\ matched \subseteq statement /\ IsFiniteSet(statement)
  BY DEF Inserted, BooksInv, DepositInv, TypeOK
<1>2. IsFiniteSet(Inserted(r)) /\ IsFiniteSet(matched)
  BY <1>1, FS_Subset
<1>3. matched \cap Inserted(r) = {} /\ \A i \in Inserted(r) : Creditable(i)
  BY DEF Inserted, BooksInv, DepositInv
<1>. QED
  BY <1>1, <1>2, <1>3

\* What a commit with something to match does: the invoice becomes what was computed
\* from the copy, which is announced, and the sum of what is matched grows by what is
\* added to the copy.
LEMMA CommitCredits ==
  ASSUME BooksInv, NEW r \in Reconcilers, Commit(r), ~NothingToMatch(r)
  PROVE  /\ invoice' = Applied(r) /\ invoice' \in Invoices
         /\ invoice'.paid \in Int /\ invoice'.amount = invoice.amount
         /\ invoice'.status = StatusFor(invoice'.paid, invoice'.amount)
         /\ invoice'.status # "OPEN" /\ published' = Append(published, invoice')
         /\ \E sum \in Int :
              /\ sum > 0 /\ invoice'.paid = copy[r].paid + sum
              /\ Total(matched) \in Int /\ Total(matched') = Total(matched) + sum
<1>. DEFINE sum == Total(Inserted(r))
<1>1. copy[r] \in Invoices /\ copy[r].amount = invoice.amount /\ invoice \in Invoices
      /\ 0 <= copy[r].paid /\ Inserted(r) # {}
  BY DEF NothingToMatch, BooksInv, TypeOK, CreditInv
<1>2. /\ sum \in Int /\ sum > 0 /\ Total(matched) \in Int
      /\ Total(matched \union Inserted(r)) = Total(matched) + sum
  BY <1>1, InsertedIsNew, TotalType, TotalPositive, TotalUnion DEF Creditable
<1>3. matched' = matched \union Inserted(r) /\ invoice' = Update(Applied(r))
      /\ published' = published \o StateEvent(r)
  BY DEF Commit
<1>. HIDE DEF sum
<1>4. copy[r].paid \in Int /\ copy[r].amount \in Int /\ copy[r].amount \in InvoiceAmounts
  BY <1>1, InvoiceAssumption DEF Invoices
<1>5. /\ Applied(r).paid = copy[r].paid + sum /\ Applied(r).amount = copy[r].amount
      /\ Applied(r).status = StatusFor(copy[r].paid + sum, copy[r].amount)
      /\ Applied(r) = [amount |-> copy[r].amount, paid |-> copy[r].paid + sum,
                       status |-> StatusFor(copy[r].paid + sum, copy[r].amount)]
  <2>. DEFINE paid == copy[r].paid + sum
              status == StatusFor(copy[r].paid + sum, copy[r].amount)
  <2>1. Applied(r) = [copy[r] EXCEPT !.paid = paid, !.status = status]
    BY DEF Applied, sum
  <2>2. Applied(r) = [amount |-> copy[r].amount, paid |-> paid, status |-> status]
    <3>. HIDE DEF paid, status
    <3>. QED
      BY <1>1, <2>1 DEF Invoices
  <2>. QED
    BY <2>2
<1>6. copy[r].paid + sum \in Int /\ copy[r].paid + sum > 0
  BY <1>1, <1>2, <1>4
<1>7. Applied(r) \in Invoices /\ Applied(r).status # "OPEN"
  BY <1>4, <1>5, <1>6, StatusType DEF Invoices, StatusFor
<1>8. invoice' = Applied(r)
  BY <1>1, <1>3, <1>5 DEF Update, Invoices
<1>9. published' = Append(published, invoice')
  BY <1>3, <1>7, <1>8 DEF StateEvent, BooksInv, TypeOK
<1>. QED
  BY <1>1, <1>2, <1>3, <1>5, <1>6, <1>7, <1>8, <1>9

-----------------------------------------------------------------------------
\* Nothing is there at the start.
LEMMA InitBooks == Init => BooksInv
<1>. SUFFICES ASSUME Init PROVE BooksInv
  OBVIOUS
<1>1. TypeOK
  BY DEF Init, TypeOK
<1>2. DepositInv
  BY FS_EmptySet DEF Init, DepositInv
<1>3. CreditInv
  BY TotalNone DEF Init, CreditInv, NoInvoice
<1>4. EventInv
  BY DEF Init, EventInv, EventsTellStatus
<1>. QED
  BY <1>1, <1>2, <1>3, <1>4 DEF BooksInv

\* A reconciler that drops its copy.
LEMMA DropsCopy ==
  ASSUME BooksInv, NEW r \in Reconcilers,
         pc' = [pc EXCEPT ![r] = "idle"], list' = [list EXCEPT ![r] = {}],
         copy' = [copy EXCEPT ![r] = NoInvoice]
  PROVE  /\ pc' \in [Reconcilers -> {"idle", "listed", "read"}]
         /\ list' \in [Reconcilers -> SUBSET Items]
         /\ copy' \in [Reconcilers -> Invoices \union {NoInvoice}]
         /\ \A q \in Reconcilers : list'[q] \subseteq statement
         /\ \A q \in Reconcilers : copy'[q] # NoInvoice => copy'[q] = copy[q]
BY DEF BooksInv, TypeOK, DepositInv

\* The commit credits what is new to the copy, which had no more than is matched.
LEMMA CommitBooks ==
  ASSUME BooksInv, NEW r \in Reconcilers, Commit(r)
  PROVE  BooksInv'
<1>1. /\ incomings' = incomings \union Inserted(r) /\ statement' = statement
      /\ pc' = [pc EXCEPT ![r] = "idle"] /\ list' = [list EXCEPT ![r] = {}]
      /\ copy' = [copy EXCEPT ![r] = NoInvoice]
  BY DEF Commit
<1>2. /\ Inserted(r) \subseteq Items /\ Inserted(r) \subseteq statement
      /\ \A i \in Inserted(r) : Creditable(i)
  BY InsertedIsNew DEF BooksInv, DepositInv
<1>3. CASE NothingToMatch(r)
  <2>1. UNCHANGED <<invoice, matched, published>>
    BY <1>3 DEF Commit
  <2>2. TypeOK'
    BY <1>1, <1>2, <2>1, DropsCopy DEF BooksInv, TypeOK
  <2>3. DepositInv'
    BY <1>1, <1>2, <2>1, DropsCopy DEF BooksInv, DepositInv, Creditable
  <2>4. CreditInv'
    BY <1>1, <2>1, DropsCopy DEF BooksInv, CreditInv
  <2>5. EventInv'
    BY <2>1 DEF BooksInv, EventInv, EventsTellStatus
  <2>. QED
    BY <2>2, <2>3, <2>4, <2>5 DEF BooksInv
<1>4. CASE ~NothingToMatch(r)
  <2>1. matched' = matched \union Inserted(r)
    BY <1>4 DEF Commit
  <2>2. /\ invoice' \in Invoices /\ invoice'.amount = invoice.amount
        /\ invoice'.paid \in Int /\ published' = Append(published, invoice')
    BY <1>4, CommitCredits
  <2>3. PICK sum \in Int :
          /\ sum > 0 /\ invoice'.paid = copy[r].paid + sum
          /\ Total(matched) \in Int /\ Total(matched') = Total(matched) + sum
    BY <1>4, CommitCredits
  <2>4. TypeOK'
    <3>1. published' \in Seq(Invoices)
      BY <2>2, AppendProperties DEF BooksInv, TypeOK
    <3>. QED
      BY <1>1, <1>2, <2>1, <2>2, <3>1, DropsCopy DEF BooksInv, TypeOK
  <2>5. DepositInv'
    BY <1>1, <1>2, <2>1, DropsCopy DEF BooksInv, DepositInv, Creditable
  <2>6. CreditInv'
    <3>1. /\ copy[r] \in Invoices /\ copy[r].paid \in Int
          /\ 0 <= copy[r].paid /\ copy[r].paid <= Total(matched)
      BY <1>4 DEF NothingToMatch, BooksInv, TypeOK, CreditInv, Invoices
    <3>2. 0 <= invoice'.paid /\ invoice'.paid <= Total(matched')
      BY <2>3, <3>1
    <3>3. ASSUME NEW q \in Reconcilers, copy'[q] # NoInvoice
          PROVE  /\ copy'[q].amount = invoice'.amount
                 /\ 0 <= copy'[q].paid /\ copy'[q].paid <= Total(matched')
      <4>1. /\ copy'[q] = copy[q] /\ copy[q] \in Invoices /\ copy[q].paid \in Int
            /\ copy[q].amount = invoice.amount
            /\ 0 <= copy[q].paid /\ copy[q].paid <= Total(matched)
        BY <1>1, <3>3, DropsCopy DEF BooksInv, TypeOK, CreditInv, Invoices
      <4>. QED
        BY <2>2, <2>3, <4>1
    <3>. QED
      BY <2>2, <3>2, <3>3, NoInvoiceApart DEF CreditInv
  <2>7. EventInv'
    <3>1. published' # << >> /\ published'[Len(published')] = invoice'
      BY <2>2, AppendProperties DEF BooksInv, TypeOK
    <3>. QED
      BY <2>2, <3>1, NoInvoiceApart DEF EventInv, EventsTellStatus
  <2>. QED
    BY <2>4, <2>5, <2>6, <2>7 DEF BooksInv
<1>. QED
  BY <1>3, <1>4

\* Every step keeps the books.
LEMMA StepBooks == BooksInv /\ [Next]_vars => BooksInv'
<1>. SUFFICES ASSUME BooksInv, [Next]_vars PROVE BooksInv'
  OBVIOUS
<1>. USE DEF BooksInv
<1>1. CASE BankBooks
  <2>1. PICK i \in Items \ statement : statement' = statement \union {i}
    BY <1>1 DEF BankBooks
  <2>2. IsFiniteSet(statement')
    BY <2>1, FS_AddElement DEF DepositInv
  <2>3. TypeOK' /\ DepositInv'
    BY <1>1, <2>1, <2>2 DEF BankBooks, TypeOK, DepositInv, Creditable
  <2>4. CreditInv' /\ EventInv'
    BY <1>1 DEF BankBooks, CreditInv, EventInv, EventsTellStatus
  <2>. QED
    BY <2>3, <2>4
<1>2. CASE IssueInvoice
  <2>1. PICK a \in InvoiceAmounts : invoice' = NewInvoice(a)
    BY <1>2 DEF IssueInvoice
  <2>2. invoice = NoInvoice /\ UNCHANGED <<statement, incomings, matched, published, pc, list, copy>>
    BY <1>2 DEF IssueInvoice
  <2>3. /\ invoice' \in Invoices /\ invoice'.paid = 0 /\ invoice'.status = "OPEN"
    BY <2>1, InvoiceAssumption DEF NewInvoice, Invoices, InvoiceStatus
  <2>4. TypeOK' /\ DepositInv'
    BY <2>2, <2>3 DEF TypeOK, DepositInv, Creditable
  <2>5. CreditInv'
    BY <2>2, <2>3 DEF CreditInv, NoInvoice
  <2>6. EventInv'
    BY <2>2, <2>3, NoInvoiceApart DEF EventInv, EventsTellStatus
  <2>. QED
    BY <2>4, <2>5, <2>6
<1>3. ASSUME NEW r \in Reconcilers, ListTransactions(r)
      PROVE  BooksInv'
  BY <1>3 DEF ListTransactions, TypeOK, DepositInv, CreditInv, EventInv, EventsTellStatus, Creditable
<1>4. ASSUME NEW r \in Reconcilers, FindInvoice(r)
      PROVE  BooksInv'
  <2>1. TypeOK' /\ DepositInv' /\ EventInv'
    BY <1>4 DEF FindInvoice, TypeOK, DepositInv, EventInv, EventsTellStatus, Creditable
  <2>2. CreditInv'
    BY <1>4 DEF FindInvoice, TypeOK, CreditInv
  <2>. QED
    BY <2>1, <2>2
<1>5. ASSUME NEW r \in Reconcilers, Fail(r)
      PROVE  BooksInv'
  <2>1. /\ UNCHANGED <<statement, invoice, incomings, matched, published>>
        /\ pc' = [pc EXCEPT ![r] = "idle"] /\ list' = [list EXCEPT ![r] = {}]
        /\ copy' = [copy EXCEPT ![r] = NoInvoice]
    BY <1>5 DEF Fail
  <2>2. TypeOK' /\ DepositInv'
    BY <2>1, DropsCopy DEF TypeOK, DepositInv, Creditable
  <2>3. CreditInv' /\ EventInv'
    BY <2>1, DropsCopy DEF CreditInv, EventInv, EventsTellStatus
  <2>. QED
    BY <2>2, <2>3
<1>6. CASE UNCHANGED vars
  BY <1>6 DEF vars, TypeOK, DepositInv, CreditInv, EventInv, EventsTellStatus, Creditable
<1>. QED
  BY <1>1, <1>2, <1>3, <1>4, <1>5, <1>6, CommitBooks DEF Next, Reconcile

\* Every behaviour keeps the books.
THEOREM BooksHold == Spec => []BooksInv
BY InitBooks, StepBooks, PTL DEF Spec

\* Every variable keeps its type.
THEOREM ReconciliationTypes == Spec => []TypeOK
<1>1. BooksInv => TypeOK
  BY DEF BooksInv
<1>. QED
  BY <1>1, BooksHold, PTL

\* A deposit is credited once at most, however often and by however many reconcilers it
\* is listed, and however old the copies they write.
THEOREM CreditedOnce == Spec => []NoDoubleCredit
<1>1. BooksInv => NoDoubleCredit
  BY DEF BooksInv, CreditInv, NoDoubleCredit
<1>. QED
  BY <1>1, BooksHold, PTL

\* The last event published tells what the invoice row says, and an invoice that is not
\* OPEN has been announced.
THEOREM EventsAreTrue == Spec => []EventsTellStatus
<1>1. BooksInv => EventsTellStatus
  BY DEF BooksInv, EventInv
<1>. QED
  BY <1>1, BooksHold, PTL

\* Only a commit writes the invoice and the matches of an account that has an invoice.
LEMMA WhoCredits ==
  ASSUME BooksInv, [Next]_vars, invoice # NoInvoice
  PROVE  \/ UNCHANGED <<invoice, matched>>
         \/ \E r \in Reconcilers : Commit(r) /\ ~NothingToMatch(r)
BY DEF Next, BankBooks, IssueInvoice, Reconcile, ListTransactions, FindInvoice, Commit, Fail, vars

\* Books that balance stay so unless somebody commits an outdated copy.
THEOREM BooksStayBalanced == Spec => BooksBalance
<1>. DEFINE Keeps == (invoice # NoInvoice /\ Balanced /\ \A r \in Reconcilers : ~Outdated(r)) => Balanced'
<1>1. BooksInv /\ [Next]_vars => Keeps
  <2>. SUFFICES ASSUME BooksInv, [Next]_vars, invoice # NoInvoice, Balanced,
                       \A r \in Reconcilers : ~Outdated(r)
                PROVE  Balanced'
    OBVIOUS
  <2>1. CASE UNCHANGED <<invoice, matched>>
    BY <2>1 DEF Balanced
  <2>2. ASSUME NEW r \in Reconcilers, Commit(r), ~NothingToMatch(r)
        PROVE  Balanced'
    <3>1. copy[r] = invoice
      BY <2>2 DEF Outdated, Commit, NothingToMatch
    <3>2. invoice'.status = StatusFor(invoice'.paid, invoice'.amount)
      BY <2>2, CommitCredits
    <3>3. invoice'.paid = Total(matched')
      BY <2>2, <3>1, CommitCredits DEF Balanced
    <3>. QED
      BY <3>2, <3>3 DEF Balanced
  <2>. QED
    BY <2>1, <2>2, WhoCredits
<1>. QED
  BY <1>1, BooksHold, PTL DEF Spec, BooksBalance

-----------------------------------------------------------------------------
(***************************************************************************)
(* Collection.  Its reconcilers take Reconciliation's steps or none, so    *)
(* all of the above holds of it; its own part is about the accounts.       *)
(***************************************************************************)

\* A step of a reconciler is one of Reconciliation or none.
LEMMA ReconcilerReconciles ==
  ASSUME NEW r \in Reconcilers, Reconciler(r)
  PROVE  [Next]_vars
<1>1. Restart(r) => [Next]_vars
  BY DEF Restart, Next, Reconcile
<1>2. Lists(r) \/ Reads(r) \/ Commits(r) \/ VisitFails(r) => Next
  BY DEF Lists, Reads, Commits, VisitFails, Next, Reconcile
<1>3. Tick(r) \/ VisitOther(r) \/ ListFails(r) => UNCHANGED vars
  BY DEF Tick, VisitOther, ListFails
<1>. QED
  BY <1>1, <1>2, <1>3 DEF Reconciler

\* What holds of every behaviour of Reconciliation holds while accounts are issued and
\* ticks fail and restart around it.
THEOREM CollectionReconciles == CollectionSpec => Spec
<1>1. CollectionInit => Init
  BY DEF CollectionInit
<1>2. [CollectionNext]_allVars => [Next]_vars
  <2>1. ASSUME NEW c \in Issues, IssueVirtualAccount(c)
        PROVE  UNCHANGED vars
    BY <2>1 DEF IssueVirtualAccount, BankIssues, Insert, IssueFails
  <2>2. MoneyMoves \/ InvoiceIssued => Next
    BY DEF MoneyMoves, InvoiceIssued, Next
  <2>3. UNCHANGED allVars => UNCHANGED vars
    BY DEF allVars
  <2>. QED
    BY <2>1, <2>2, <2>3, ReconcilerReconciles DEF CollectionNext
<1>. QED
  BY <1>1, <1>2, PTL DEF CollectionSpec, Spec

\* A call inserts the row of the account that the bank issued to it, and no other call
\* does; a queue holds rows, the watched account first while it is visited.
CallInv ==
  /\ stored \in Seq(Issues)
  /\ \A c \in Issues : issue[c] = "ready" => ~IsStored(c)
  /\ \A c \in Issues : issue[c] = "issued" => c \in held /\ ~IsStored(c)

QueueInv ==
  /\ queue \in [Reconcilers -> Seq(Issues)]
  /\ \A r \in Reconcilers : pc[r] # "idle" => Visits(r, Watched)

AccountInv == CallInv /\ QueueInv /\ CollectionTypeOK

\* The rows only grow at the end of the table.
LEMMA AppendedRow ==
  ASSUME NEW c \in Issues, stored \in Seq(Issues), stored' = Append(stored, c)
  PROVE  /\ stored' \in Seq(Issues)
         /\ DOMAIN stored' = DOMAIN stored \union {Len(stored) + 1}
         /\ Len(stored) + 1 \notin DOMAIN stored /\ stored'[Len(stored) + 1] = c
         /\ \A n \in DOMAIN stored : stored'[n] = stored[n]
         /\ \A d : IsStored(d)' <=> IsStored(d) \/ d = c
<1>1. /\ stored' \in Seq(Issues) /\ Len(stored) \in Nat
      /\ DOMAIN stored = 1..Len(stored) /\ DOMAIN stored' = 1..(Len(stored) + 1)
      /\ stored'[Len(stored) + 1] = c
      /\ \A n \in 1..Len(stored) : stored'[n] = stored[n]
  BY AppendProperties, LenProperties
<1>2. DOMAIN stored' = DOMAIN stored \union {Len(stored) + 1}
  BY <1>1
<1>3. Len(stored) + 1 \notin DOMAIN stored
  BY <1>1
<1>. QED
  BY <1>1, <1>2, <1>3 DEF IsStored

\* A reconciler's queue that is filled with the rows there are, loses its head or is
\* emptied still holds rows.
LEMMA QueueKeeps ==
  ASSUME AccountInv, NEW r \in Reconcilers, UNCHANGED accountVars,
         \A q \in Reconcilers \ {r} : pc'[q] = pc[q],
         \/ queue' = queue /\ (pc'[r] # "idle" => Visits(r, Watched))
         \/ queue' = [queue EXCEPT ![r] = << >>] /\ pc'[r] = "idle"
         \/ queue' = [queue EXCEPT ![r] = stored] /\ pc'[r] = "idle"
         \/ queue[r] # << >> /\ queue' = [queue EXCEPT ![r] = Tail(@)] /\ pc'[r] = "idle"
  PROVE  AccountInv'
<1>1. CallInv'
  BY DEF AccountInv, CallInv, accountVars, IsStored
<1>2. QueueInv'
  <2>1. queue' \in [Reconcilers -> Seq(Issues)]
    <3>1. stored \in Seq(Issues) /\ << >> \in Seq(Issues) /\ queue[r] \in Seq(Issues)
          /\ (queue[r] # << >> => Tail(queue[r]) \in Seq(Issues))
      BY HeadTailProperties, EmptySeq DEF AccountInv, CallInv, QueueInv
    <3>2. queue \in [Reconcilers -> Seq(Issues)]
      BY DEF AccountInv, QueueInv
    <3>. QED
      BY <3>1, <3>2
  <2>2. \A q \in Reconcilers \ {r} : queue'[q] = queue[q]
    BY DEF AccountInv, QueueInv
  <2>3. pc'[r] # "idle" => queue' = queue /\ Visits(r, Watched)
    OBVIOUS
  <2>. QED
    BY <2>1, <2>2, <2>3 DEF AccountInv, QueueInv, Visits
<1>3. \A n \in DOMAIN queue'[r] : IsStored(queue'[r][n])
  <2>1. CASE queue' = queue
    BY <2>1 DEF AccountInv, CollectionTypeOK
  <2>2. CASE queue' = [queue EXCEPT ![r] = << >>]
    BY <2>2 DEF AccountInv, QueueInv
  <2>3. CASE queue' = [queue EXCEPT ![r] = stored]
    BY <2>3 DEF AccountInv, QueueInv, IsStored
  <2>4. CASE queue[r] # << >> /\ queue' = [queue EXCEPT ![r] = Tail(@)]
    <3>1. queue[r] \in Seq(Issues) /\ queue'[r] = Tail(queue[r])
      BY <2>4 DEF AccountInv, QueueInv
    <3>2. \A n \in DOMAIN Tail(queue[r]) :
            n + 1 \in DOMAIN queue[r] /\ Tail(queue[r])[n] = queue[r][n + 1]
      BY <2>4, <3>1, HeadTailProperties
    <3>. QED
      BY <3>1, <3>2 DEF AccountInv, CollectionTypeOK
  <2>. QED
    BY <2>1, <2>2, <2>3, <2>4
<1>4. CollectionTypeOK'
  <2>1. \A q \in Reconcilers \ {r} : queue'[q] = queue[q]
    BY DEF AccountInv, QueueInv
  <2>. QED
    BY <1>3, <2>1 DEF AccountInv, CollectionTypeOK, accountVars, IsStored
<1>. QED
  BY <1>1, <1>2, <1>4 DEF AccountInv

\* A call that does not insert leaves the table alone.
LEMMA OtherCalls ==
  ASSUME AccountInv, NEW c \in Issues, BankIssues(c) \/ IssueFails(c)
  PROVE  AccountInv'
<1>1. /\ stored' = stored /\ queue' = queue /\ pc' = pc
      /\ issue' \in [Issues -> {"ready", "issued", "answered", "failed"}]
      /\ held \subseteq held' /\ held' \subseteq Issues
      /\ issue[c] \in {"ready", "issued"}
      /\ issue'[c] \in {"issued", "failed"} /\ (issue'[c] = "issued" => issue[c] = "ready" /\ c \in held')
      /\ \A d \in Issues \ {c} : issue'[d] = issue[d]
  BY DEF BankIssues, IssueFails, Goes, AccountInv, CollectionTypeOK, vars
<1>2. CallInv' /\ QueueInv'
  BY <1>1 DEF AccountInv, CallInv, QueueInv, IsStored, Visits
<1>3. CollectionTypeOK'
  BY <1>1 DEF AccountInv, CollectionTypeOK, IsStored
<1>. QED
  BY <1>2, <1>3 DEF AccountInv

\* The insert adds the row of an account that had none.
LEMMA InsertAccounts == ASSUME AccountInv, NEW c \in Issues, Insert(c) PROVE AccountInv'
<1>1. /\ stored \in Seq(Issues) /\ stored' = Append(stored, c)
      /\ issue[c] = "issued" /\ c \in held /\ ~IsStored(c)
      /\ held' = held /\ queue' = queue /\ pc' = pc
      /\ issue' \in [Issues -> {"ready", "issued", "answered", "failed"}]
      /\ issue'[c] \in {"answered", "failed"}
      /\ \A d \in Issues \ {c} : issue'[d] = issue[d]
  BY DEF Insert, MayInsert, Goes, AccountInv, CallInv, CollectionTypeOK, vars
<1>2. /\ stored' \in Seq(Issues) /\ \A d : IsStored(d)' <=> IsStored(d) \/ d = c
      /\ \A n \in DOMAIN stored' : \/ n \in DOMAIN stored /\ stored'[n] = stored[n]
                                   \/ n = Len(stored) + 1 /\ stored'[n] = c
  BY <1>1, AppendedRow
<1>3. \A n \in DOMAIN stored : stored[n] # c /\ stored[n] \in held
  BY <1>1 DEF IsStored, AccountInv, CollectionTypeOK
<1>4. \A n \in DOMAIN stored' : stored'[n] \in held
  BY <1>1, <1>2, <1>3
<1>5. ASSUME NEW m \in DOMAIN stored', NEW n \in DOMAIN stored', stored'[m] = stored'[n]
      PROVE  m = n
  <2>1. CASE m \in DOMAIN stored /\ n \in DOMAIN stored
    BY <1>2, <1>3, <1>5, <2>1 DEF AccountInv, CollectionTypeOK
  <2>2. CASE ~(m \in DOMAIN stored /\ n \in DOMAIN stored)
    BY <1>2, <1>3, <1>5, <2>2
  <2>. QED
    BY <2>1, <2>2
<1>6. ASSUME NEW r \in Reconcilers, NEW n \in DOMAIN queue'[r]
      PROVE  \E k \in DOMAIN stored' : stored'[k] = queue'[r][n]
  <2>1. queue'[r] = queue[r] /\ n \in DOMAIN queue[r]
    BY <1>1
  <2>2. PICK k \in DOMAIN stored : stored[k] = queue[r][n]
    BY <2>1 DEF AccountInv, CollectionTypeOK, IsStored
  <2>3. k \in DOMAIN stored' /\ stored'[k] = stored[k]
    BY <1>1, AppendedRow
  <2>. QED
    BY <2>1, <2>2, <2>3
<1>7. /\ CallInv' /\ QueueInv'
      /\ \A d \in Issues : issue'[d] = "answered" => IsStored(d)'
  BY <1>1, <1>2 DEF AccountInv, CallInv, QueueInv, CollectionTypeOK, Visits
<1>. QED
  BY <1>1, <1>4, <1>5, <1>6, <1>7 DEF AccountInv, CollectionTypeOK, IsStored

\* A reconciler takes a queue at a tick, and its head off after each account.
LEMMA ReconcilerQueues ==
  ASSUME BooksInv, AccountInv, NEW r \in Reconcilers, Reconciler(r)
  PROVE  AccountInv'
<1>. USE DEF Visits
<1>1. /\ pc \in [Reconcilers -> {"idle", "listed", "read"}]
      /\ pc[r] # "idle" => queue[r] # << >> /\ Head(queue[r]) = Watched
  BY DEF BooksInv, TypeOK, AccountInv, QueueInv
<1>2. /\ UNCHANGED accountVars
      /\ \A q \in Reconcilers \ {r} : pc'[q] = pc[q]
  BY <1>1 DEF Reconciler, Tick, VisitOther, Lists, ListFails, Reads, Commits, VisitFails,
     Restart, vars, ListTransactions, FindInvoice, Commit, Fail
<1>3. CASE Tick(r)
  <2>1. pc'[r] = "idle" /\ queue' = [queue EXCEPT ![r] = stored]
    BY <1>1, <1>3 DEF Tick, vars
  <2>. QED
    BY <1>2, <2>1, QueueKeeps
<1>4. CASE Restart(r)
  <2>1. pc'[r] = "idle" /\ queue' = [queue EXCEPT ![r] = << >>]
    BY <1>1, <1>4 DEF Restart, vars, Fail
  <2>. QED
    BY <1>2, <2>1, QueueKeeps
<1>5. CASE Lists(r) \/ Reads(r)
  <2>1. queue' = queue /\ (pc'[r] # "idle" => Visits(r, Watched))
    BY <1>1, <1>5 DEF Lists, Reads, FindInvoice
  <2>. QED
    BY <1>2, <2>1, QueueKeeps
<1>6. CASE VisitOther(r) \/ ListFails(r) \/ Commits(r) \/ VisitFails(r)
  <2>1. queue[r] # << >> /\ queue' = [queue EXCEPT ![r] = Tail(@)]
    BY <1>1, <1>6 DEF VisitOther, ListFails, Commits, VisitFails, AfterError, Commit, Fail
  <2>2. pc'[r] = "idle"
    BY <1>1, <1>6 DEF VisitOther, ListFails, Commits, VisitFails, Commit, Fail, vars
  <2>. QED
    BY <1>2, <2>1, <2>2, QueueKeeps
<1>. QED
  BY <1>3, <1>4, <1>5, <1>6 DEF Reconciler

\* Every step keeps the accounts.
LEMMA StepAccounts == BooksInv /\ AccountInv /\ [CollectionNext]_allVars => AccountInv'
<1>. SUFFICES ASSUME BooksInv, AccountInv, [CollectionNext]_allVars PROVE AccountInv'
  OBVIOUS
<1>1. CASE MoneyMoves \/ InvoiceIssued \/ UNCHANGED allVars
  <2>1. UNCHANGED <<accountVars, queue, pc>>
    BY <1>1 DEF MoneyMoves, InvoiceIssued, BankBooks, IssueInvoice, allVars, vars
  <2>. QED
    BY <2>1 DEF accountVars, AccountInv, CallInv, QueueInv, CollectionTypeOK, IsStored, Visits
<1>. QED
  BY <1>1, OtherCalls, InsertAccounts, ReconcilerQueues DEF CollectionNext, IssueVirtualAccount

\* Each account has one row, a caller who got an account finds it in the table, and the
\* table holds no account that the bank does not know.
THEOREM AccountsAreKept == CollectionSpec => []CollectionTypeOK
<1>1. CollectionInit => AccountInv
  BY DEF CollectionInit, Init, AccountInv, CallInv, QueueInv, CollectionTypeOK, IsStored
<1>2. AccountInv => CollectionTypeOK
  BY DEF AccountInv
<1>. QED
  BY <1>1, <1>2, StepAccounts, CollectionReconciles, BooksHold, PTL DEF CollectionSpec
=============================================================================
