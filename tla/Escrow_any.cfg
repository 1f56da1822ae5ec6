SPECIFICATION Spec
CONSTANTS
  c1 = c1
  c2 = c2
  m1 = m1
  m2 = m2
  m3 = m3
  Contracts <- MCContracts
  Milestones <- MCMilestones
  ContractOf <- MCContractOf
  Amount <- MCAmount
  Percents <- MCPercents
  PaidAmounts <- MCAnyAmount
  MaxInt = 5
CHECK_DEADLOCK FALSE
INVARIANTS
  EscrowNotOverdrawn
  LedgerBalanced
  FreelancerOwed
  PayoutsCovered
  DisputesCoherent
  CompletedIffSettled
  TypeOK
PROPERTIES
  SettledForever
