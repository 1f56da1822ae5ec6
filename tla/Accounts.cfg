SPECIFICATION Spec
CONSTANTS
  e1 = e1
  e2 = e2
  e3 = e3
  h1 = h1
  h2 = h2
  None = None
  Self = Self
  Seed = Seed
  Emails = {e1, e2, e3}
  PublicForms <- MCPublicForms
  AdminForms <- MCAdminForms
  SeedForms <- MCSeedForms
  MaxUsers = 3
  MaxInactive = 1
  AccessTime = 1
  RefreshTime = 2
  Handlers = {h1, h2}
SYMMETRY Interchangeable
INVARIANTS
  TypeOK
  OneAccountPerEmail
  PrivilegeFromAbove
  NobodyJudgesOwnCase
PROPERTIES
  BarredDoNothing
