SPECIFICATION Spec
CONSTANTS
  q1 = q1
  q2 = q2
  relay1 = relay1
  ticker = ticker
  r1 = r1
  r2 = r2
  Clients = {q1, q2}
  Relays = {relay1}
  Collectors = {ticker}
  Reconcilers = {r1, r2}
  Processes = {"api", "relay", "reconciler1", "reconciler2"}
  ProcessOf <- MCProcessOf
  MaxOpenConns <- MCMaxOpenConns
  Transfers = {"transfer1"}
  Accounts = {"account1", "account2"}
  Deposits = {"deposit1", "deposit2"}
CONSTRAINT InPairs
SYMMETRY RequestSymmetry
INVARIANTS
  TypeOK
  DeadlocksAreSeen
  ClientsNeverWaitForBank
