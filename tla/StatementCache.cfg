SPECIFICATION Spec
CONSTANTS
  p1 = p1
  p2 = p2
  r1 = r1
  r2 = r2
  None = None
  Pages = {p1, p2}
  Readers = {r1, r2}
  Queries = 2
  MaxMoves = 2
CHECK_DEADLOCK FALSE
INVARIANTS
  TypeOK
  StaleOnlyIfRaced
PROPERTIES
  StatementsCatchUp
