CONSTANTS
  a1 = a1  a2 = a2  m1 = m1  r1 = r1  r2 = r2  r3 = r3
  Exchanges = {1, 2}
  Addresses = {a1, a2}
  Mainnet = {}
  Messages = {m1}
  Blocks = {m1}
  Balances = {1, 2}
  RowIds = {1, 2, 3, 4, 5, 6}
  Requests = {r1, r2}
  Operations = {"submit", "refreshExchange", "refreshAll"}
  Submissions <- MCSubmissions
  Seed <- MCSeed
  BatchSize = 2
  Outages = FALSE
  MaxCrashes = 0
SPECIFICATION Spec
INVARIANTS SettledFunds
