SPECIFICATION IndexSpec
CONSTANTS
  Docs = {c1}
  Pages = {p1}
  MaxChanges = 2
INVARIANT SearchIsComplete
CHECK_DEADLOCK FALSE
