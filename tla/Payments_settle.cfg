SPECIFICATION PaySpec
CONSTANTS
  c1 = c1
  c2 = c2
  m1 = m1
  m2 = m2
  k1 = k1
  k2 = k2
  r1 = r1
  f1 = f1
  e1 = e1
  e2 = e2
  e3 = e3
  h1 = h1
  h2 = h2
  w1 = w1
  None = None
  Contracts = {c1}
  Milestones = {m1}
  ContractOf <- MCContractOf
  Amount <- MCAmount
  Percents = {}
  PaidAmounts <- MCPaidAmounts
  MaxInt = 2
  Keys = {}
  Refs = {r1}
  RefContract <- MCRefContract
  Foreign = {}
  Events = {e2}
  EventOf <- MCEventOf
  Outcomes = {"success", "short", "failed"}
  Handlers = {h1, h2}
  Sweepers = {w1}
  Overlaps = TRUE
  MaxCrashes = 1
CHECK_DEADLOCK FALSE
PROPERTIES
  PaymentsSettle
