\* Deliveries for two pull requests that share their commits, against two workers
\* on the task of one of these and a deployment event.
CONSTANTS
  h1 = h1
  None = None
  PR = {p1, p2}
  SHA = {h1, h2}
  Run = {t1}
  RunHead <- MCRunHead
  DeliveryId = {d1, d2, d3}
  Worker = {w1, w2}
  Reviewer = {}
  Conn = {e1}
  Attempt = {a1}
  EventId = {v1}
  Time = {1}
  MaxClaims = 4
  MaximumAttempts = 3
SPECIFICATION Spec
SYMMETRY Symmetry
INVARIANTS WithdrawnHasNoAttempt LiveTaskIsCurrent FailedAfterMaximumAttempts
PROPERTIES SettledTaskStays
CHECK_DEADLOCK FALSE
