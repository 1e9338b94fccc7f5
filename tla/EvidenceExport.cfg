\* Two releases in a history, and requests that fail.
CONSTANTS
  ours = ours
  theirs = theirs
  p2 = p2
  None = None
  Repository = {ours, theirs}
  Release = {1, 2, 3}
  RepositoryOf <- MCRepositoryOf
  PR = {p1, p2}
  HeadOf <- MCHeadOf
  Millisecond = 2
  Limit = 2
  MaximumAttempts = 1
  MaximumObservations = 1
  MaximumAuditEvents = 3
  MaxTime = 1
  MaxTransactions = 2
  Deployment = {d1, d2}
  Deployed = ours
  Client = {"DASHBOARD"}
SPECIFICATION Spec
PROPERTIES DownloadIsOfDetail
CHECK_DEADLOCK FALSE
