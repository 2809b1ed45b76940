SPECIFICATION Spec
CONSTANTS
  Reservations = {r1, r2}
  Keys = {k1, k2}
  Encryptions = {e1, e2}
  Nobody = Nobody
  Allowance = 4
SYMMETRY Symmetry
INVARIANTS
  PublishedIsStored
  LedgerBalances
  StoredIsCharged
PROPERTY HistoryIsProtected
CHECK_DEADLOCK FALSE
