SPECIFICATION FairSpec
CONSTANTS
  r1 = r1
  r2 = r2
  q1 = q1
  q2 = q2
  q3 = q3
  q4 = q4
  Replicas = {r1, r2}
  Requests = {q1, q2, q3, q4}
  NoRequest = NoRequest
  Home <- MCHome
  Postgres = TRUE
  MaxTickets = 5
INVARIANTS ServedInOrder MapEntryIffInUse
PROPERTIES EveryRequestEnds ImplementsMutex
CHECK_DEADLOCK FALSE
