SPECIFICATION Spec
CONSTANTS
  d1 = d1
  d2 = d2
  debit = debit
  r1 = r1
  Reconcilers = {r1}
  Items = {d1, d2, debit}
  Credits = {d1, d2}
  Amount <- MCAmount
  InvoiceAmounts = {3}
INVARIANT StatusFollowsIncomings
