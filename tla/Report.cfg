\* The three instances of Explored: two releases of one repository and one of
\* another, listed page by page while they are created, with stamps of one
\* millisecond or two; one release, its detail read while it is reviewed again,
\* deployed twice, closed or superseded; two pull requests of one head, whose
\* release is moved, reviewed and deployed while a deployment is correlated.
CONSTANTS
  ours = ours
  theirs = theirs
  p2 = p2
  None = None
  Repository = {ours, theirs}
  Release = {1, 2, 3}
  RepositoryOf <- MCRepositoryOf
  PR = {p1, p2}
  HeadOf <- MCHeadOf
  Millisecond = 2
  Limit = 1
  MaximumAttempts = 1
  MaximumObservations = 1
  MaximumAuditEvents = 3
  MaxTime = 2
  MaxTransactions = 5
  Deployment = {d1}
  Deployed = ours
  Client = {"DASHBOARD", "DISCOVERY"}
SPECIFICATION Spec
CONSTRAINT Explored
INVARIANTS HistoryIsOrdered HistoryIsWhole DetailIsOfOneMoment AnswerIsEntitled CorrelationIsOfMergedPullRequest
CHECK_DEADLOCK FALSE
