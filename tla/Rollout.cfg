\* Any answer may be lost or unusable while the release changes under the rollout.
CONSTANTS
  None = None
  PR = {p1}
  SHA = {h1, h2}
  Run = {}
  RunHead <- MCNoRuns
  MaxClaims = 1
  DeliveryId = {d1, d2}
  Attempt = {a1}
  EventId = {"START", "OBSERVATION", "OUTCOME", "FAILURE"}
  Time <- MCTime
  Release = h1
  Deployment = a1
  MaxRetries = 1
  Faults = {"LOST", "UNUSABLE"}
  ReviewAgain = {"CANARY", "BLOCKED"}
  MinimumStableRequests = 2
  MinimumCanaryRequests = 4
  MaximumCanaryFailurePercent = 80
  MaximumFailureIncreasePercent = 25
  MaximumTotalRequests = 6
SPECIFICATION Spec
INVARIANTS FailureRollsBack QuietEndAgrees PromotionIsEarned
PROPERTIES CanaryAfterStart RolloutEnds
CHECK_DEADLOCK FALSE
