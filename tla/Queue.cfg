\* Two workers on a task of a commit that others review too, with crashes and with jobs that outlive their leases.
CONSTANTS
  None = None
  c1 = c1
  Task = {t1}
  Commit = {c1}
  CommitOf <- MCCommitOf
  Shared = {c1}
  Worker = {w1, w2}
  MaximumAttempts = 2
  MaxCrashes = 2
  MaxOnWire = 1
SPECIFICATION Spec
INVARIANTS CheckRunShowsReview
PROPERTIES OneCheckRun EveryTaskSettles
CHECK_DEADLOCK FALSE
