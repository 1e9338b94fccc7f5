\* A blocked outcome beside an active attempt, then a new head.
CONSTANTS
  h1 = h1
  None = None
  PR = {p1}
  SHA = {h1, h2}
  Run = {}
  RunHead <- MCRunHead
  DeliveryId = {d1, d2}
  Worker = {}
  Reviewer = {c1}
  Conn = {e1}
  Attempt = {a1}
  EventId = {v1, v2}
  Time = {1}
  MaxClaims = 1
  MaximumAttempts = 1
SPECIFICATION Spec
SYMMETRY Symmetry
PROPERTIES SupersessionCancelsAttempts
CHECK_DEADLOCK FALSE
