SPECIFICATION Spec
CONSTANTS
  m1 = m1
  m2 = m2
  h1 = h1
  h2 = h2
  s1 = s1
  s2 = s2
  p1 = p1
  None = None
  Resolved = Resolved
  Messages = {m1, m2}
  Handlers = {h1, h2}
  Streams = {s1, s2}
  Processes = {p1}
  ProcessOf <- OneProcess
  MaxCrashes = 1
CHECK_DEADLOCK FALSE
INVARIANTS
  TypeOK
  ConfirmedIsStored
  AnnouncedInOrder
  StreamsExact
PROPERTIES
  KeepsThread
  ThreadClosedForGood
  WatchersTold
