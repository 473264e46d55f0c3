SPECIFICATION Spec
CONSTANTS
  p1 = p1
  p2 = p2
  p3 = p3
  Slots = {p1, p2, p3}
  AttemptLimit = 2
  AttemptWindow = 2
  Postgres = TRUE
  MaxTried = 3
INVARIANTS ChallengesCapped
CHECK_DEADLOCK FALSE
