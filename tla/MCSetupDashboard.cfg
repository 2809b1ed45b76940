SPECIFICATION StartSpec
CONSTANTS
  Threads = {t1, t2}
  Vaults = {v1, v2}
  Callers = {agent, person}
  Agent = agent
  Person = person
  NoOne = NoOne
  MaxLen = 2
  MaxSnapshots = 3
  Tries = 2
  Devices = {d1, d2, d3}
  First = d1
  NoDevice = NoDevice
  Builds = {1, 2}
  Budgets <- FewBudgets
  MaxMinted = 2
  MaxCodes = 2
  MaxKeys = 2
  MaxUploads = 2
  MaxReviews = 1
  MaxOperations = 1
  Docs = {c1}
  Pages = {p1}
  MaxChanges = 3
  Plans <- FewPlans
INVARIANTS
  SnapshotIsAMoment
  LossStaysFlagged
  ReceiptIsStored
  DeviceIsUsable
  NothingIsInterrupted
  KeyStaysInView
  NothingOrphaned
  RecoveredIsWhole
  SearchMissesNothing
PROPERTIES
  DeferralsAreCaughtUp
CHECK_DEADLOCK FALSE
