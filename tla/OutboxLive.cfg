\* A worker and both notifications of a lead, everything out of service at times.
CONSTANTS
  Lead = {l1}
  Worker = {w1}
  None = None
  Requests = {"QUALIFIED"}
  Monitored = TRUE
  AlertAttempts = 1
  MaxAttempts = 1
  LeaseOutlastsJob = TRUE
  KeyOutlastsRetries = TRUE
SPECIFICATION Spec
PROPERTIES EveryEventIsDelivered StuckRaisesAlert
