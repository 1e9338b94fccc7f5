\* One release, its reviews, its closure and deployment events, with time.
CONSTANTS
  h1 = h1
  None = None
  PR = {p1}
  SHA = {h1}
  Run = {}
  RunHead <- MCRunHead
  DeliveryId = {d1}
  Worker = {}
  Reviewer = {c1}
  Conn = {e1}
  Attempt = {a1, a2}
  EventId = {v1, v2, v3, v4}
  Time = {1, 2}
  MaxClaims = 1
  MaximumAttempts = 1
SPECIFICATION Spec
SYMMETRY Symmetry
INVARIANTS TypeOK OneActiveAttempt DeployingHasAttempt OutcomeAgrees OutcomeIsChronological
PROPERTIES ImplementsLedger
CHECK_DEADLOCK FALSE
