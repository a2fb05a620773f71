CONSTANTS
  a1 = a1  a2 = a2  b1 = b1  m1 = m1  m2 = m2  r1 = r1  r2 = r2
  Exchanges = {1, 2}
  Addresses = {a1, a2, b1}
  Mainnet = {b1}
  Messages = {m1, m2}
  Blocks = {m1}
  Balances = {1}
  RowIds = {1, 2, 3, 4, 5}
  Requests = {r1, r2}
  Operations = {"submit", "cancel", "delete", "refreshAddress", "refreshExchange", "refreshAll"}
  Submissions <- MCSubmissions
  Seed <- MCSeed
  BatchSize = 2
  Outages = TRUE
  MaxCrashes = 1
SPECIFICATION Spec
SYMMETRY Symmetry
INVARIANTS TypeOK ExhaustedIsGivenUp OneNetworkUnlessOverlap OneRowUnlessOverlap
PROPERTY ImplementsLifecycle
