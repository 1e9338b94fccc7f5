---------------------------- MODULE ReviewPolicy ----------------------------
(***************************************************************************)
(* From a release's evidence and the model's advice to the review: the CI  *)
(* investigator, the deterministic engine, the policy engine, the CI       *)
(* diagnosis, and the conclusion of the Check Run that reports the review. *)
(*                                                                         *)
(* Evidence is [ci, tests, security, reports]: what a workflow run came    *)
(* to, the test status, the severities of supplied findings, and external  *)
(* reports, which are [source, severities, truncated].  A job is           *)
(* [name, conclusion, steps] and a step [name, conclusion]; a name stands  *)
(* for what the patterns for names see in it.  Advice is                   *)
(* [decision, score, level, diagnosis], and a diagnosis is [category,      *)
(* confidence, retry, files, hasActions].  Titles, explanations, actions   *)
(* and counts are left out, and so are log excerpts: no collector fetches  *)
(* them.                                                                   *)
(***************************************************************************)
EXTENDS Naturals

CONSTANTS
  Matches,     \* name -> the failure categories whose pattern it matches
  TestNames,   \* names that testStepPattern matches
  None

Severity == {"LOW", "MEDIUM", "HIGH", "CRITICAL"}

Category ==
  {"TEST_FAILURE", "TYPE_CHECK_FAILURE", "BUILD_FAILURE", "DEPENDENCY_FAILURE",
   "SECURITY_SCAN_FAILURE", "INFRASTRUCTURE_FAILURE", "FLAKY_OR_INCONCLUSIVE_FAILURE"}

Confidence == {"LOW", "MEDIUM", "HIGH"}

ASSUME ReviewPolicyAssumption ==
  /\ \A name \in DOMAIN Matches : Matches[name] \subseteq Category
  /\ None \notin [category : Category, confidence : Confidence]
  /\ None \notin {"success", "neutral", "failure"}

Floor == [LOW |-> 10, MEDIUM |-> 40, HIGH |-> 70, CRITICAL |-> 90]

----------------------------------------------------------------------------
(* The CI investigator. *)

FailedConclusions == {"failure", "timed_out", "action_required", "startup_failure"}

IncompleteConclusions == {"neutral", "cancelled", "skipped", "stale"}

Classify(c) ==
  IF c \in FailedConclusions THEN "FAILED"
  ELSE IF c \in IncompleteConclusions THEN "INCOMPLETE"
  ELSE "PASSED"

ClassifyNested(c) == IF c = "skipped" THEN "SKIPPED" ELSE Classify(c)

Outcome(ci) ==
  LET OneIs(outcome) == \/ Classify(ci.conclusion) = outcome
                        \/ \E j \in ci.jobs : ClassifyNested(j.conclusion) = outcome
  IN  IF OneIs("FAILED") THEN "FAILED" ELSE IF OneIs("INCOMPLETE") THEN "INCOMPLETE" ELSE "PASSED"

Problem(item) == ClassifyNested(item.conclusion) \in {"FAILED", "INCOMPLETE"}

ProblemSteps(ci) == {s \in UNION {j.steps : j \in ci.jobs} : Problem(s)}

ProblemJobs(ci) == {j \in ci.jobs : Problem(j) \/ \E s \in j.steps : Problem(s)}

(* What the steps that run tests say; the webhook's job asks it of them. *)
DeriveTestStatus(ci) ==
  LET Ended(c) == \E j \in ci.jobs : \E s \in j.steps : s.name \in TestNames /\ s.conclusion = c
  IN  IF Ended("failure") THEN "failed" ELSE IF Ended("success") THEN "passed" ELSE "unknown"

----------------------------------------------------------------------------
(* The deterministic engine. *)

Finding(code, severity, blocking) == [code |-> code, severity |-> severity, blocking |-> blocking]

TestFindings(status) ==
  IF status = "passed" THEN {}
  ELSE IF status = "failed" THEN {Finding(<<"TESTS", "FAILED">>, "CRITICAL", TRUE)}
  ELSE {Finding(<<"TESTS", "UNKNOWN">>, "HIGH", FALSE)}

(* SECURITY_FINDING_..., TRIVY_..., AXE_... and the rest, by source. *)
SeverityFindings(source, severities) ==
  {Finding(<<source, s>>, s, s = "CRITICAL") : s \in severities}

(* Mutant: a report that was cut short goes unmentioned. *)
ReportFindingsWhole(report) == SeverityFindings(report.source, report.severities)

ReportFindings(report) ==
  SeverityFindings(report.source, report.severities)
    \cup IF report.truncated THEN {Finding(<<report.source, "TRUNCATED">>, "HIGH", FALSE)} ELSE {}

CiFindings(outcome) ==
  IF outcome = "PASSED" THEN {}
  ELSE IF outcome = "FAILED" THEN {Finding(<<"CI", "FAILED">>, "CRITICAL", TRUE)}
  ELSE {Finding(<<"CI", "INCOMPLETE">>, "HIGH", FALSE)}

Findings(evidence) ==
  TestFindings(evidence.tests)
    \cup SeverityFindings("SECURITY", evidence.security)
    \cup (UNION {ReportFindings(r) : r \in evidence.reports})
    \cup CiFindings(Outcome(evidence.ci))

Blocking(evidence) == {f.code : f \in {g \in Findings(evidence) : g.blocking}}

----------------------------------------------------------------------------
(* The policy engine. *)

(* score >= n, score being the greatest of the model's score, the floor of *)
(* its level and the floors of the findings.                               *)
ScoreReaches(n, findings, advice) ==
  \/ advice.score >= n
  \/ Floor[advice.level] >= n
  \/ \E f \in findings : Floor[f.severity] >= n

RiskLevel(findings, advice) ==
  IF ScoreReaches(90, findings, advice) THEN "CRITICAL"
  ELSE IF ScoreReaches(70, findings, advice) THEN "HIGH"
  ELSE IF ScoreReaches(40, findings, advice) THEN "MEDIUM"
  ELSE "LOW"

PolicyOverrides(evidence, advice) ==
  IF advice.decision # "CONTINUE" THEN {}
  ELSE IF Blocking(evidence) # {} THEN Blocking(evidence)
  ELSE IF RiskLevel(Findings(evidence), advice) = "CRITICAL" THEN {<<"RISK", "CRITICAL">>}
  ELSE {}

(* Mutant: the model's advice is taken for the decision. *)
DecisionAdvised(evidence, advice) == advice.decision

Decision(evidence, advice) ==
  IF \/ Blocking(evidence) # {}
     \/ advice.decision = "BLOCK"
     \/ RiskLevel(Findings(evidence), advice) = "CRITICAL"
  THEN "BLOCK" ELSE "CONTINUE"

Deployment(decision, level) ==
  IF decision = "BLOCK" THEN [strategy |-> "BLOCKED", traffic |-> 0]
  ELSE IF level = "HIGH" THEN [strategy |-> "CANARY", traffic |-> 5]
  ELSE IF level = "MEDIUM" THEN [strategy |-> "CANARY", traffic |-> 10]
  ELSE [strategy |-> "STANDARD", traffic |-> 100]

----------------------------------------------------------------------------
(* The CI diagnosis. *)

(* The category of a name that matches the pattern of just one. *)
OnlyCategory(name, category) == Matches[name] = {category}

CategoriesOf(items) == {c \in UNION {Matches[i.name] : i \in items} :
                          \E i \in items : OnlyCategory(i.name, c)}

Classification(category, confidence) == [category |-> category, confidence |-> confidence]

ClassifyDeterministically(ci) ==
  LET bySteps == CategoriesOf(ProblemSteps(ci))
      byJobs  == CategoriesOf(ProblemJobs(ci))
      Sole(categories, confidence) ==
        IF \E c \in categories : categories = {c}
        THEN Classification(CHOOSE c \in categories : TRUE, confidence) ELSE None
  IN  IF Outcome(ci) = "INCOMPLETE" THEN Classification("FLAKY_OR_INCONCLUSIVE_FAILURE", "HIGH")
      ELSE IF bySteps # {} THEN Sole(bySteps, "HIGH")
      ELSE IF byJobs # {} THEN Sole(byJobs, "MEDIUM")
      ELSE IF ci.conclusion \in {"startup_failure", "timed_out"}
           THEN Classification("INFRASTRUCTURE_FAILURE", "HIGH")
      ELSE None

RetryFor(category) ==
  IF category = "INFRASTRUCTURE_FAILURE" THEN "RETRY"
  ELSE IF category = "FLAKY_OR_INCONCLUSIVE_FAILURE" THEN "MANUAL_REVIEW"
  ELSE "RETRY_AFTER_FIX"

(* A problem job's problem steps, or the job, or else the workflow. *)
SupportingEvidence(ci) ==
  LET ofJob(j) == IF \E s \in j.steps : Problem(s)
                  THEN {<<j.name, s.name, s.conclusion>> : s \in {t \in j.steps : Problem(t)}}
                  ELSE {<<j.name, None, j.conclusion>>}
  IN  IF ProblemJobs(ci) = {} THEN {<<None, None, ci.conclusion>>}
      ELSE UNION {ofJob(j) : j \in ProblemJobs(ci)}

RelevantChangedFiles(advised, changed) == advised.files \cap changed

(* Mutant: a diagnosis by the model is preferred. *)
UsesAdviceFirst(ci, advised) == Outcome(ci) # "PASSED" /\ advised # None

(* The model's diagnosis stands in only where names do not decide. *)
UsesAdvice(ci, advised) ==
  /\ Outcome(ci) # "PASSED"
  /\ ClassifyDeterministically(ci) = None
  /\ advised # None

CiDiagnostic(ci, advised, changed) ==
  LET own        == ClassifyDeterministically(ci)
      classified == IF own # None THEN own ELSE Classification("FLAKY_OR_INCONCLUSIVE_FAILURE", "LOW")
      Diagnostic(classification, retry, files, from) ==
        [category |-> classification.category, confidence |-> classification.confidence,
         retry |-> retry, files |-> files, evidence |-> SupportingEvidence(ci), source |-> from,
         affectsApproval |-> Outcome(ci) = "FAILED"]
  IN  IF Outcome(ci) = "PASSED" THEN None
      ELSE IF UsesAdvice(ci, advised)
      THEN Diagnostic(Classification(advised.category, advised.confidence), advised.retry,
                      RelevantChangedFiles(advised, changed), "INTELLIGENCE")
      ELSE Diagnostic(classified, RetryFor(classified.category), {}, "DETERMINISTIC")

(* A diagnostic is parsed before it is returned and must recommend an      *)
(* action; the model's own schema accepts one that recommends none.        *)
DiagnosticParses(ci, advised) == UsesAdvice(ci, advised) => advised.hasActions

----------------------------------------------------------------------------
(* The response of evaluate, and how a Check Run reports it. *)

Review(evidence, advice, changed) ==
  LET level      == RiskLevel(Findings(evidence), advice)
      decision   == Decision(evidence, advice)
      deployment == Deployment(decision, level)
  IN  [decision   |-> decision,
       level      |-> level,
       strategy   |-> deployment.strategy,
       traffic    |-> deployment.traffic,
       overrides  |-> PolicyOverrides(evidence, advice),
       diagnostic |-> CiDiagnostic(evidence.ci, advice.diagnosis, changed)]

(* mapCheckRunConclusion. *)
CheckRunConclusion(review) ==
  IF review.decision = "BLOCK" THEN "failure"
  ELSE IF review.strategy = "CANARY" THEN "neutral"
  ELSE "success"

=============================================================================
