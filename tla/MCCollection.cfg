SPECIFICATION CollectionSpec
CONSTANTS
  d1 = d1
  d2 = d2
  r1 = r1
  r2 = r2
  v1 = v1
  v2 = v2
  Reconcilers = {r1, r2}
  Items = {d1, d2}
  Credits = {d1, d2}
  Amount <- MCAmount
  InvoiceAmounts = {2}
  Issues = {v1, v2}
  Watched = v1
  Steady = r1
INVARIANTS
  TypeOK
  CollectionTypeOK
  NoDoubleCredit
  EventsTellStatus
PROPERTIES
  BooksBalance
  DepositsRecorded
