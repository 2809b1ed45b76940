SPECIFICATION Spec
CONSTANTS
  Runs = {r1, r2}
  Peers = {p1}
  Threads = {t1, t2}
  None = None
  Sources <- TwoMessages
  MaxSize = 2
  MaxEdits = 1
SYMMETRY Symmetry
INVARIANTS
  OneReservation
  LossIsKnown
  HintIsTrue
  AnswersAreTrue
  RetryIsExact
CHECK_DEADLOCK FALSE
