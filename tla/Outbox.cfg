\* Both notifications of a lead, two workers whose jobs may outlive their leases.
CONSTANTS
  Lead = {l1}
  Worker = {w1, w2}
  None = None
  Requests = {"QUALIFIED", "CLOSED"}
  Monitored = FALSE
  AlertAttempts = 1
  MaxAttempts = 3
  LeaseOutlastsJob = FALSE
  KeyOutlastsRetries = TRUE
SPECIFICATION Spec
SYMMETRY Symmetry
INVARIANTS OneMail
PROPERTIES ReportsAreFenced
