SPECIFICATION FairSpec
CONSTANTS
  p1 = p1
  p2 = p2
  p3 = p3
  Slots = {p1, p2, p3}
  AttemptLimit = 4
  AttemptWindow = 3
  Postgres = TRUE
  MaxTried = 6
INVARIANTS WrongCodesCapped
PROPERTIES LimitLifts
CHECK_DEADLOCK FALSE
