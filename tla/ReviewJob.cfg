\* One run of at most two attempts, one artifact, a push at any time, and others
\* who review the same commit.
CONSTANTS
  None = None
  Matches <- MCMatches
  TestNames = {"test"}
  Sha = {h1, h2}
  Head = h1
  Target = {t1}
  Result <- MCResult
  Scan <- MCScan
  Adapter = {"TRIVY", "AXE"}
  MaximumFindings = 1
  Supplied <- MCSupplied
  Advice <- MCAdvice
  MockAdvice <- MCMockAdvice
  Changed <- MCChanged
  Overlong = {h2}
  MaxRetries = 1
  MaximumAttempts = 2
  Shared = TRUE
  MaxRunAttempt = 2
  MaxPushes = 1
  MaxCrashes = 2
SPECIFICATION Spec
CONSTRAINT Explored
INVARIANTS EvidenceIsOfOneAttempt DiffIsOfHead FailedEvidenceBlocks GreenCheckIsEarned DiagnosisAgrees
PROPERTIES ImplementsQueue
CHECK_DEADLOCK FALSE
