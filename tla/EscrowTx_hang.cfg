SPECIFICATION TxSpec
CONSTANTS
  c1 = c1
  m1 = m1
  m2 = m2
  s1 = s1
  s2 = s2
  s3 = s3
  p1 = p1
  p2 = p2
  None = None
  Contracts <- MCContracts
  Milestones <- OneMilestone
  ContractOf <- OneContractOf
  Amount <- OneAmount
  Percents <- MCPercents
  PaidAmounts <- OnePaidAmount
  MaxInt = 3
  Slots <- TwoSlots
  Processes = {p1}
  ProcessOf <- OneProcess
  Overlaps = {}
CHECK_DEADLOCK FALSE
PROPERTIES
  RequestsFinish
