-------------------------- MODULE ReviewJobProofs --------------------------
(***************************************************************************)
(* What a review is made of and what it says, for every workflow, scan,    *)
(* advice and number of attempts, pushes and crashes.                      *)
(*                                                                         *)
(* The inductive invariant follows the collection: what a request brought  *)
(* is of an attempt that has ended, so that no later step of GitHub adds   *)
(* to it.  The policy is a matter of lemmas without state.                 *)
(***************************************************************************)
EXTENDS ReviewJob, FiniteSetTheorems, WellFoundedInduction, TLAPS

(* The attempt whose evidence is collected. *)
Subject == IF source = "WEBHOOK" THEN 1 ELSE ci.attempt

Fetching == {"LIST", "DOWNLOAD", "DONE"}

JobTypes ==
  /\ ci = [at |-> ci.at, attempt |-> ci.attempt, conclusion |-> ci.conclusion, jobs |-> ci.jobs]
  /\ ci.at \in {"RUN", "JOBS", "DONE"}
  /\ change \in [at : {"PULL", "DIFF", "DONE"}, diff : Sha \cup {None}, pushes : Nat, still : BOOLEAN]
  /\ found \in [Target -> [at : Fetching, artifact : Artifact \cup {None}]]
  /\ claims \in Nat
  /\ checkRun.count \in Nat
  /\ stage \in {"REVIEWED", "LISTED", "PUBLISHED"} => source = "WEBHOOK"

(* The run is taken as an attempt that has ended left it. *)
RunCollected ==
  /\ 1 \in DOMAIN results
  /\ ci.at # "RUN" =>
       /\ ci.attempt \in DOMAIN results
       /\ ci.conclusion = results[ci.attempt].conclusion
       /\ source = "WEBHOOK" => ci.attempt = 1
  /\ ci.at = "DONE" => ci.jobs = results[ci.attempt].jobs

(* What was listed is all that the attempt will ever have of that name. *)
ArtifactsCollected ==
  \A t \in Target :
    /\ found[t].at = "LIST" => found[t].artifact = None
    /\ found[t].at # "LIST" =>
         /\ source = "REQUEST" => ci.at = "DONE"
         /\ \A a \in artifacts[t] : a.attempt = Subject => a = found[t].artifact
    /\ found[t].at = "DONE" /\ found[t].artifact # None =>
         Readable(found[t].artifact) /\ found[t].artifact.attempt = Subject

ChangeCollected ==
  source = "WEBHOOK" =>
    /\ change.at = "DIFF" => change.pushes <= pushes /\ (change.pushes = pushes => head = Head)
    /\ change.at = "DONE" => change.diff = Head \/ ~change.still

AllCollected ==
  stage = "ANALYZING" =>
    ci.at = "DONE" /\ change.at = "DONE" /\ \A t \in Target : found[t].at = "DONE"

Collecting ==
  TypeOK /\ JobTypes /\ RunCollected /\ ArtifactsCollected /\ ChangeCollected /\ AllCollected

(* What a recorded review was made from. *)
ReviewTells ==
  /\ recorded.attempt \in DOMAIN results
  /\ source = "WEBHOOK" => recorded.attempt = 1
  /\ recorded.reported \subseteq {recorded.attempt}
  /\ recorded.evidence.ci = results[recorded.attempt]
  /\ source = "WEBHOOK" => recorded.evidence.tests = DeriveTestStatus(recorded.evidence.ci)
  /\ source = "WEBHOOK" => recorded.diff = Head \/ ~recorded.still
  /\ \A t \in Target : \A a \in artifacts[t] :
       a.attempt = recorded.attempt =>
         Readable(a) /\ Normalize(adapter[t], a.scan) \in recorded.evidence.reports
  /\ \E advice \in Advice :
       recorded.review = Review(recorded.evidence, advice, Changed[recorded.diff])

RecordTells ==
  recorded # None \/ stage \in {"REVIEWED", "LISTED", "PUBLISHED"} => ReviewTells

ReviewInv ==
  /\ Collecting
  /\ RecordTells
  /\ GreenCheckIsEarned


----------------------------------------------------------------------------
(* Reports of a scan. *)

(* A set of bounded numbers has a greatest one, which is its Max. *)
LEMMA MaxOfSome ==
  ASSUME NEW n \in Nat, NEW S \in SUBSET (1 .. n), S # {}
  PROVE  Max(S) \in S
<1> DEFINE Bounds   == {u \in 1 .. n : \A y \in S : y <= u}
           Segments == {1 .. u : u \in Bounds}
           Order    == StrictSubsetOrdering(1 .. n)
<1>1. Segments \subseteq FiniteSubsetsOf(1 .. n) /\ Segments # {}
  <2>1. n \in Bounds
    <3>1. PICK y \in S : TRUE
      OBVIOUS
    <3> QED
      BY <3>1
  <2>2. \A u \in Bounds : 1 .. u \subseteq 1 .. n /\ IsFiniteSet(1 .. u)
    BY FS_Interval
  <2> QED
    BY <2>1, <2>2 DEF FiniteSubsetsOf
<1>2. PICK segment \in Segments : \A other \in Segments : ~(<<other, segment>> \in Order)
  <2>1. IsWellFoundedOn(Order, FiniteSubsetsOf(1 .. n))
    BY FS_StrictSubsetOrderingWellFounded
  <2> HIDE DEF Segments, Order
  <2> QED
    BY <1>1, <2>1, WFMin, Zenon
<1>3. PICK u \in Bounds : segment = 1 .. u
  OBVIOUS
<1>4. u \in S
  <2>1. SUFFICES ASSUME u \notin S PROVE FALSE
    OBVIOUS
  <2>2. u - 1 \in Bounds
    <3>1. PICK y \in S : TRUE
      OBVIOUS
    <3> QED
      BY <1>3, <2>1, <3>1
  <2>3. <<1 .. (u - 1), 1 .. u>> \in Order
    <3>1. u \in 1 .. u /\ u \notin 1 .. (u - 1)
      OBVIOUS
    <3>2. 1 .. (u - 1) \in SUBSET (1 .. n) /\ 1 .. u \in SUBSET (1 .. n)
      OBVIOUS
    <3>3. 1 .. (u - 1) \subseteq 1 .. u
      OBVIOUS
    <3> QED
      BY <3>1, <3>2, <3>3 DEF StrictSubsetOrdering
  <2> QED
    BY <1>2, <1>3, <2>2, <2>3
<1> QED
  BY <1>3, <1>4 DEF Max

(* What is found has keys of the scan, each with a known severity. *)
LEMMA FoundIsKnown ==
  ASSUME NEW scan \in Scan \ {None}
  PROVE  /\ DOMAIN Found(scan) \subseteq Nat /\ IsFiniteSet(DOMAIN Found(scan))
         /\ Found(scan) \in [DOMAIN Found(scan) -> Severity]
<1> DEFINE known == {i \in DOMAIN scan : scan[i].severity # "UNKNOWN"}
           keys  == {scan[i].key : i \in known}
           Of(k) == {i \in known : scan[i].key = k}
           n     == Cardinality(DOMAIN scan)
<1>1. /\ DOMAIN scan = 1 .. n
      /\ \A i \in DOMAIN scan : scan[i].key \in Nat /\ scan[i].severity \in Severity \cup {"UNKNOWN"}
  BY ScanAssumption DEF ScanAssumption
<1>2. PICK m \in Nat : DOMAIN scan = 1 .. m
  BY <1>1, ScanAssumption, FS_CardinalityType DEF ScanAssumption
<1>3. IsFiniteSet(known)
  BY <1>2, FS_Interval, FS_Subset
<1>4. IsFiniteSet(keys)
  <2> HIDE DEF known
  <2>1. [i \in known |-> scan[i].key] \in Surjection(known, keys)
    BY Zenon DEF Surjection
  <2> QED
    BY <1>3, <2>1, FS_Surjection
<1>5. \A k \in keys : Max(Of(k)) \in Of(k)
  <2> SUFFICES ASSUME NEW k \in keys PROVE Max(Of(k)) \in Of(k)
    OBVIOUS
  <2>1. Of(k) \in SUBSET (1 .. m) /\ Of(k) # {}
    BY <1>2
  <2> QED
    BY <2>1, MaxOfSome
<1>6. Found(scan) = [k \in keys |-> scan[Max(Of(k))].severity]
  BY DEF Found
<1>7. \A k \in keys : scan[Max(Of(k))].severity \in Severity
  BY <1>1, <1>5
<1>8. keys \subseteq Nat
  BY <1>1
<1> QED
  BY <1>4, <1>6, <1>7, <1>8

(* No finding comes before itself. *)
LEMMA BeforeIsIrreflexive ==
  ASSUME NEW scan \in Scan \ {None}, NEW by, NEW k \in DOMAIN Found(scan)
  PROVE  ~Before(by, Found(scan), k, k)
BY FoundIsKnown DEF Before

(* A report that is not cut short keeps every finding. *)
LEMMA WholeReportKeepsAll ==
  ASSUME NEW scan \in Scan \ {None}, NEW by, ~Normalize(by, scan).truncated
  PROVE  \A k \in DOMAIN Found(scan) : Found(scan)[k] \in Normalize(by, scan).severities
<1> DEFINE keys     == DOMAIN Found(scan)
           First(k) == {j \in keys : Before(by, Found(scan), j, k)}
<1>1. IsFiniteSet(keys) /\ Cardinality(keys) \in Nat
  BY FoundIsKnown, FS_CardinalityType
<1>2. Cardinality(keys) <= MaximumFindings
  <2>1. Normalize(by, scan).truncated = (Cardinality(keys) > MaximumFindings)
    BY DEF Normalize
  <2>2. ~(Cardinality(keys) > MaximumFindings)
    BY <2>1, Zenon
  <2> QED
    BY <1>1, <2>2, EvidenceReportAssumption DEF EvidenceReportAssumption
<1>3. SUFFICES ASSUME NEW k \in keys PROVE k \in Kept(by, Found(scan))
  BY DEF Normalize
<1>4. First(k) \in SUBSET keys /\ k \notin First(k)
  BY BeforeIsIrreflexive
<1>5. Cardinality(First(k)) < Cardinality(keys)
  <2> HIDE DEF keys, First
  <2>1. Cardinality(First(k)) <= Cardinality(keys)
    BY <1>1, <1>4, FS_Subset
  <2>2. Cardinality(First(k)) # Cardinality(keys)
    BY <1>1, <1>3, <1>4, FS_Subset
  <2>3. Cardinality(First(k)) \in Nat
    BY <1>1, <1>4, FS_Subset, FS_CardinalityType
  <2> QED
    BY <1>1, <2>1, <2>2, <2>3
<1>6. Cardinality(First(k)) < MaximumFindings
  <2>1. Cardinality(First(k)) \in Nat
    <3> HIDE DEF keys, First
    <3> QED
      BY <1>1, <1>4, FS_Subset, FS_CardinalityType
  <2> QED
    BY <1>1, <1>2, <1>5, <2>1, EvidenceReportAssumption DEF EvidenceReportAssumption
<1> QED
  BY <1>3, <1>6 DEF Kept

(* A set of keys has a least one. *)
LEMMA LeastKey ==
  ASSUME NEW scan \in Scan \ {None}, NEW S \in SUBSET DOMAIN Found(scan), S # {}
  PROVE  \E k \in S : \A j \in S : ~(j < k)
<1> DEFINE UpTo(k)  == {j \in S : j <= k}
           Segments == {UpTo(k) : k \in S}
           Order    == StrictSubsetOrdering(S)
<1>1. S \subseteq Nat /\ IsFiniteSet(S)
  BY FoundIsKnown, FS_Subset
<1>2. Segments \subseteq FiniteSubsetsOf(S) /\ Segments # {}
  <2>1. \A k \in S : UpTo(k) \in SUBSET S
    OBVIOUS
  <2>2. \A k \in S : IsFiniteSet(UpTo(k))
    <3> HIDE DEF UpTo
    <3> QED
      BY <1>1, <2>1, FS_Subset
  <2> QED
    BY <2>1, <2>2 DEF FiniteSubsetsOf
<1>3. PICK segment \in Segments : \A other \in Segments : ~(<<other, segment>> \in Order)
  <2>1. IsWellFoundedOn(Order, FiniteSubsetsOf(S))
    BY FS_StrictSubsetOrderingWellFounded
  <2> HIDE DEF Segments, Order
  <2> QED
    BY <1>2, <2>1, WFMin, Zenon
<1>4. PICK k \in S : segment = UpTo(k)
  OBVIOUS
<1>5. ASSUME NEW j \in S, j < k PROVE FALSE
  <2>1. UpTo(j) \subseteq UpTo(k) /\ k \in UpTo(k) /\ k \notin UpTo(j)
    <3>1. \A i \in S : i \in Nat
      BY <1>1
    <3>2. k \in Nat /\ j \in Nat /\ j <= k /\ k <= k /\ ~(k <= j)
      BY <1>5, <3>1
    <3>3. \A i \in S : i <= j => i <= k
      BY <3>1, <3>2
    <3> QED
      BY <3>2, <3>3
  <2>2. UpTo(j) \in SUBSET S /\ UpTo(k) \in SUBSET S
    OBVIOUS
  <2>3. <<UpTo(j), UpTo(k)>> \in Order
    <3> HIDE DEF UpTo
    <3> QED
      BY <2>1, <2>2 DEF StrictSubsetOrdering
  <2> QED
    BY <1>3, <1>4, <2>3
<1> QED
  BY <1>4, <1>5

(* Any report but Trivy's keeps a critical finding, if there is one. *)
LEMMA CriticalIsKept ==
  ASSUME NEW scan \in Scan \ {None}, NEW by, by # "TRIVY",
         NEW k \in DOMAIN Found(scan), Found(scan)[k] = "CRITICAL"
  PROVE  "CRITICAL" \in Normalize(by, scan).severities
<1> DEFINE criticals == {j \in DOMAIN Found(scan) : Found(scan)[j] = "CRITICAL"}
<1>1. PICK c \in criticals : \A j \in criticals : ~(j < c)
  BY LeastKey
<1>2. \A j \in DOMAIN Found(scan) : ~Before(by, Found(scan), j, c)
  BY <1>1, FoundIsKnown DEF Before, Rank, Severity
<1>3. {j \in DOMAIN Found(scan) : Before(by, Found(scan), j, c)} = {}
  BY <1>2
<1>4. c \in Kept(by, Found(scan))
  BY <1>3, FS_EmptySet, EvidenceReportAssumption DEF Kept, EvidenceReportAssumption
<1> QED
  BY <1>4 DEF Normalize

----------------------------------------------------------------------------
(* The policy. *)

(* What the run, the tests and the reports say is among the findings. *)
LEMMA FindingsAreAll ==
  ASSUME NEW evidence
  PROVE  /\ CiFindings(Outcome(evidence.ci)) \subseteq Findings(evidence)
         /\ TestFindings(evidence.tests) \subseteq Findings(evidence)
         /\ \A report \in evidence.reports : ReportFindings(report) \subseteq Findings(evidence)
<1>1. CiFindings(Outcome(evidence.ci)) \subseteq Findings(evidence)
  BY Zenon DEF Findings
<1>2. TestFindings(evidence.tests) \subseteq Findings(evidence)
  BY Zenon DEF Findings
<1>3. \A report \in evidence.reports : ReportFindings(report) \subseteq Findings(evidence)
  BY Zenon DEF Findings
<1> QED
  BY <1>1, <1>2, <1>3

(* A blocking finding blocks the release, whatever the model advises. *)
LEMMA BlockingFindingBlocks ==
  ASSUME NEW evidence, NEW advice, NEW changed, NEW f \in Findings(evidence), f.blocking
  PROVE  Review(evidence, advice, changed).decision = "BLOCK"
         /\ Review(evidence, advice, changed).traffic = 0
<1>1. f.code \in Blocking(evidence)
  BY DEF Blocking
<1>2. Decision(evidence, advice) = "BLOCK"
  BY <1>1 DEF Decision
<1>3. Deployment("BLOCK", RiskLevel(Findings(evidence), advice)).traffic = 0
  BY DEF Deployment
<1> QED
  BY <1>2, <1>3 DEF Review

(* So does a run that failed. *)
LEMMA FailedRunBlocks ==
  ASSUME NEW evidence, NEW advice, NEW changed, Outcome(evidence.ci) = "FAILED"
  PROVE  Review(evidence, advice, changed).decision = "BLOCK"
<1> DEFINE f == Finding(<<"CI", "FAILED">>, "CRITICAL", TRUE)
<1>1. f \in Findings(evidence)
  BY FindingsAreAll DEF CiFindings
<1>2. f.blocking
  BY DEF Finding
<1> QED
  BY <1>1, <1>2, BlockingFindingBlocks

(* So does a report with a critical finding. *)
LEMMA CriticalReportBlocks ==
  ASSUME NEW evidence, NEW advice, NEW changed,
         NEW report \in evidence.reports, "CRITICAL" \in report.severities
  PROVE  Review(evidence, advice, changed).decision = "BLOCK"
         /\ Review(evidence, advice, changed).traffic = 0
<1> DEFINE f == Finding(<<report.source, "CRITICAL">>, "CRITICAL", "CRITICAL" = "CRITICAL")
<1>1. f \in SeverityFindings(report.source, report.severities)
  BY DEF SeverityFindings
<1>2. f \in Findings(evidence)
  BY <1>1, FindingsAreAll DEF ReportFindings
<1>3. f.blocking
  BY DEF Finding
<1> QED
  BY <1>2, <1>3, BlockingFindingBlocks

(* A release whose report was cut short is not deployed at once. *)
LEMMA TruncatedReportSlows ==
  ASSUME NEW evidence, NEW advice, NEW changed,
         NEW report \in evidence.reports, report.truncated
  PROVE  Review(evidence, advice, changed).traffic < 100
<1> DEFINE f     == Finding(<<report.source, "TRUNCATED">>, "HIGH", FALSE)
           level == RiskLevel(Findings(evidence), advice)
<1>1. f \in Findings(evidence)
  <2>1. f \in ReportFindings(report)
    BY DEF ReportFindings
  <2> QED
    BY <2>1, FindingsAreAll
<1>2. Floor[f.severity] >= 70
  BY DEF Finding, Floor
<1>3. level \in {"CRITICAL", "HIGH"}
  BY <1>1, <1>2 DEF RiskLevel, ScoreReaches
<1>4. Decision(evidence, advice) = "BLOCK" \/ level = "HIGH"
  BY <1>3 DEF Decision
<1>5. Deployment(Decision(evidence, advice), level).traffic \in {0, 5}
  BY <1>4 DEF Deployment
<1> QED
  BY <1>5 DEF Review

(* A release goes out at once only if no finding is worse than LOW. *)
LEMMA SuccessIsLow ==
  ASSUME NEW evidence, NEW advice, NEW changed,
         CheckRunConclusion(Review(evidence, advice, changed)) = "success"
  PROVE  \A f \in Findings(evidence) : f.severity \notin {"MEDIUM", "HIGH", "CRITICAL"}
<1> DEFINE level == RiskLevel(Findings(evidence), advice)
<1>1. Decision(evidence, advice) # "BLOCK"
  BY DEF CheckRunConclusion, Review
<1>2. Deployment(Decision(evidence, advice), level).strategy # "CANARY"
  BY DEF CheckRunConclusion, Review
<1>3. level \notin {"MEDIUM", "HIGH", "CRITICAL"}
  BY <1>1, <1>2 DEF Decision, Deployment
<1>4. ~ScoreReaches(40, Findings(evidence), advice)
  <2>1. ~ScoreReaches(90, Findings(evidence), advice) /\ ~ScoreReaches(70, Findings(evidence), advice)
    BY <1>3 DEF RiskLevel
  <2> QED
    BY <1>3, <2>1 DEF RiskLevel
<1>5. \A s \in {"MEDIUM", "HIGH", "CRITICAL"} : Floor[s] >= 40
  BY DEF Floor
<1> QED
  BY <1>4, <1>5 DEF ScoreReaches

(* So its run and tests succeeded, and its reports are whole and at most   *)
(* LOW.                                                                    *)
LEMMA SuccessIsEarned ==
  ASSUME NEW evidence, NEW advice, NEW changed,
         CheckRunConclusion(Review(evidence, advice, changed)) = "success"
  PROVE  /\ Outcome(evidence.ci) = "PASSED"
         /\ evidence.tests = "passed"
         /\ \A report \in evidence.reports :
              ~report.truncated /\ \A s \in report.severities : s \notin {"MEDIUM", "HIGH", "CRITICAL"}
<1>1. \A f \in Findings(evidence) : f.severity \notin {"MEDIUM", "HIGH", "CRITICAL"}
  BY SuccessIsLow
<1>2. Outcome(evidence.ci) = "PASSED"
  <2>1. \A f \in CiFindings(Outcome(evidence.ci)) : f.severity \notin {"MEDIUM", "HIGH", "CRITICAL"}
    BY <1>1, FindingsAreAll
  <2> QED
    BY <2>1 DEF CiFindings, Finding
<1>3. evidence.tests = "passed"
  <2>1. \A f \in TestFindings(evidence.tests) : f.severity \notin {"MEDIUM", "HIGH", "CRITICAL"}
    BY <1>1, FindingsAreAll
  <2> QED
    BY <2>1 DEF TestFindings, Finding
<1>4. ASSUME NEW report \in evidence.reports
      PROVE  ~report.truncated /\ \A s \in report.severities : s \notin {"MEDIUM", "HIGH", "CRITICAL"}
  <2>1. \A f \in ReportFindings(report) : f.severity \notin {"MEDIUM", "HIGH", "CRITICAL"}
    BY <1>1, FindingsAreAll
  <2>2. ~report.truncated
    <3>1. Finding(<<report.source, "TRUNCATED">>, "HIGH", FALSE).severity = "HIGH"
      BY DEF Finding
    <3> QED
      BY <2>1, <3>1 DEF ReportFindings
  <2>3. \A s \in report.severities :
          /\ Finding(<<report.source, s>>, s, s = "CRITICAL") \in ReportFindings(report)
          /\ Finding(<<report.source, s>>, s, s = "CRITICAL").severity = s
    BY DEF ReportFindings, SeverityFindings, Finding
  <2> QED
    BY <2>1, <2>2, <2>3
<1> QED
  BY <1>2, <1>3, <1>4

----------------------------------------------------------------------------
(* The diagnosis. *)

LEMMA OutcomeType == ASSUME NEW run PROVE Outcome(run) \in {"FAILED", "INCOMPLETE", "PASSED"}
BY DEF Outcome

LEMMA ClassificationIsSome ==
  ASSUME NEW category \in Category, NEW confidence \in Confidence
  PROVE  Classification(category, confidence) # None
BY ReviewPolicyAssumption DEF ReviewPolicyAssumption, Classification

LEMMA CategoryIsFinite == IsFiniteSet(Category)
<1>1. \A x, S : IsFiniteSet(S) => IsFiniteSet(S \cup {x})
  BY FS_AddElement
<1>2. IsFiniteSet({"TEST_FAILURE"})
  BY FS_Singleton
<1>3. IsFiniteSet(((((({"TEST_FAILURE"} \cup {"TYPE_CHECK_FAILURE"}) \cup {"BUILD_FAILURE"})
                    \cup {"DEPENDENCY_FAILURE"}) \cup {"SECURITY_SCAN_FAILURE"})
                   \cup {"INFRASTRUCTURE_FAILURE"}) \cup {"FLAKY_OR_INCONCLUSIVE_FAILURE"})
  BY <1>1, <1>2
<1>4. Category = ((((({"TEST_FAILURE"} \cup {"TYPE_CHECK_FAILURE"}) \cup {"BUILD_FAILURE"})
                    \cup {"DEPENDENCY_FAILURE"}) \cup {"SECURITY_SCAN_FAILURE"})
                   \cup {"INFRASTRUCTURE_FAILURE"}) \cup {"FLAKY_OR_INCONCLUSIVE_FAILURE"}
  BY DEF Category
<1> QED
  BY <1>3, <1>4

(* The name of a sole problem step decides if it matches just one pattern. *)
LEMMA SoleStepDecides ==
  ASSUME NEW run \in Result, Outcome(run) # "INCOMPLETE",
         NEW i, ProblemSteps(run) = {i}, Cardinality(Matches[i.name]) = 1
  PROVE  ClassifyDeterministically(run) # None
<1>1. i.name \in DOMAIN Matches
  <2>1. PICK j \in run.jobs : i \in j.steps
    BY Zenon DEF ProblemSteps
  <2> QED
    BY <2>1, ResultAssumption DEF ResultAssumption
<1>2. Matches[i.name] \in SUBSET Category
  BY <1>1, ReviewPolicyAssumption DEF ReviewPolicyAssumption
<1>3. PICK c : Matches[i.name] = {c}
  BY <1>2, CategoryIsFinite, FS_Subset, FS_Singleton
<1>4. CategoriesOf(ProblemSteps(run)) = {c}
  BY <1>3 DEF CategoriesOf, OnlyCategory
<1>5. (CHOOSE d \in {c} : TRUE) = c
  OBVIOUS
<1>6. ClassifyDeterministically(run) = Classification(c, "HIGH")
  <2> DEFINE steps == CategoriesOf(ProblemSteps(run))
  <2>1. steps # {} /\ \E d \in steps : steps = {d}
    BY <1>4
  <2>2. ClassifyDeterministically(run) = Classification(CHOOSE d \in steps : TRUE, "HIGH")
    BY <2>1 DEF ClassifyDeterministically
  <2> QED
    BY <1>4, <1>5, <2>2
<1> QED
  BY <1>2, <1>3, <1>6, ClassificationIsSome DEF Confidence

(* What a diagnosis says, and when it is the model's. *)
LEMMA DiagnosisSays ==
  ASSUME NEW run, NEW advised, NEW changed, CiDiagnostic(run, advised, changed) # None
  PROVE  LET diagnostic == CiDiagnostic(run, advised, changed)
         IN  /\ diagnostic.affectsApproval => Outcome(run) = "FAILED"
             /\ diagnostic.files \subseteq changed
             /\ diagnostic.source = "INTELLIGENCE" =>
                  Outcome(run) # "PASSED" /\ ClassifyDeterministically(run) = None
<1>1. Outcome(run) # "PASSED"
  BY DEF CiDiagnostic
<1>2. CASE UsesAdvice(run, advised)
  <2>1. CiDiagnostic(run, advised, changed) =
          [category |-> advised.category, confidence |-> advised.confidence,
           retry |-> advised.retry, files |-> RelevantChangedFiles(advised, changed),
           evidence |-> SupportingEvidence(run), source |-> "INTELLIGENCE",
           affectsApproval |-> Outcome(run) = "FAILED"]
    BY <1>1, <1>2 DEF CiDiagnostic, Classification
  <2>2. ClassifyDeterministically(run) = None
    BY <1>2 DEF UsesAdvice
  <2>3. RelevantChangedFiles(advised, changed) \subseteq changed
    BY DEF RelevantChangedFiles
  <2>4. CiDiagnostic(run, advised, changed).affectsApproval = (Outcome(run) = "FAILED")
    BY <2>1
  <2>5. CiDiagnostic(run, advised, changed).files \subseteq changed
    BY <2>1, <2>3
  <2> QED
    BY <1>1, <2>2, <2>4, <2>5, Zenon
<1>3. CASE ~UsesAdvice(run, advised)
  <2> DEFINE diagnostic == CiDiagnostic(run, advised, changed)
  <2>1. diagnostic.source = "DETERMINISTIC" /\ diagnostic.files = {}
    BY <1>1, <1>3 DEF CiDiagnostic
  <2>2. diagnostic.affectsApproval = (Outcome(run) = "FAILED")
    BY <1>1, <1>3 DEF CiDiagnostic
  <2>3. diagnostic.source # "INTELLIGENCE"
    BY <2>1
  <2>4. diagnostic.files \subseteq changed
    BY <2>1
  <2> QED
    BY <2>2, <2>3, <2>4, Zenon
<1> QED
  BY <1>2, <1>3

----------------------------------------------------------------------------
(* The types. *)

LEMMA InitTypes == Init => TypeOK /\ JobTypes
<1> SUFFICES ASSUME Init PROVE TypeOK /\ JobTypes
  OBVIOUS
<1> USE ReviewJobAssumption DEF ReviewJobAssumption
<1>1. results \in [1 .. LastEnded -> Result]
  <2>1. 1 .. 1 = {1}
    OBVIOUS
  <2> QED
    BY <2>1 DEF Init, LastEnded
<1>2. artifacts \in [Target -> SUBSET Artifact]
  <2>1. \A s \in Scan : [attempt |-> 1, scan |-> s] \in Artifact
    BY DEF Artifact
  <2>2. artifacts \in [Target -> {{}} \cup {{[attempt |-> 1, scan |-> s]} : s \in Scan}]
    BY DEF Init
  <2>3. {{}} \cup {{[attempt |-> 1, scan |-> s]} : s \in Scan} \subseteq SUBSET Artifact
    BY <2>1
  <2> HIDE DEF Init
  <2> QED
    BY <2>2, <2>3
<1>3. TypeOK
  <2>1. pushes \in 0 .. MaxPushes /\ runAttempt \in 1 .. MaxRunAttempt
    BY DEF Init
  <2>5. head \in Sha /\ running \in BOOLEAN
    BY Zenon DEF Init
  <2>2. /\ adapter \in [Target -> Adapter]
        /\ source \in {"WEBHOOK", "REQUEST"} /\ provider \in {None, "MOCK", "OPENAI"}
        /\ status \in {"PENDING", "PROCESSING", "COMPLETED", "FAILED", "SUPERSEDED"}
    BY DEF Init
  <2>3. stage \in Stages
    BY DEF Init, Stages
  <2>4. tries \in 0 .. MaxRetries + 1 /\ crashes \in 0 .. MaxCrashes
    BY DEF Init
  <2> QED
    BY <1>1, <1>2, <2>1, <2>2, <2>3, <2>4, <2>5 DEF TypeOK
<1>4. change \in [at : {"PULL", "DIFF", "DONE"}, diff : Sha \cup {None}, pushes : Nat, still : BOOLEAN]
  <2>1. NoChange \in [at : {"PULL", "DIFF", "DONE"}, diff : Sha \cup {None}, pushes : Nat, still : BOOLEAN]
    BY DEF NoChange
  <2>2. change = NoChange \/ \E d \in Sha : change = [at |-> "DONE", diff |-> d, pushes |-> 0, still |-> TRUE]
    BY DEF Init
  <2>3. \A d \in Sha : [at |-> "DONE", diff |-> d, pushes |-> 0, still |-> TRUE] \in
                         [at : {"PULL", "DIFF", "DONE"}, diff : Sha \cup {None}, pushes : Nat, still : BOOLEAN]
    OBVIOUS
  <2> QED
    BY <2>1, <2>2, <2>3, Zenon
<1>5. found \in [Target -> [at : Fetching, artifact : Artifact \cup {None}]]
  BY DEF Init, Unread, Fetching
<1> QED
  BY <1>3, <1>4, <1>5 DEF Init, JobTypes, NoCi, NoCheckRun

(* GitHub adds nothing to an attempt that has ended. *)
GithubKept ==
  /\ UNCHANGED <<adapter, source, taskVars, jobVars, outVars>>
  /\ \A n \in DOMAIN results : n \in DOMAIN results' /\ results'[n] = results[n]
  /\ \A t \in Target : \A a \in artifacts'[t] : a.attempt \in DOMAIN results => a \in artifacts[t]
  /\ pushes \in Nat /\ pushes' \in Nat
  /\ (pushes' = pushes /\ head' = head) \/ pushes' > pushes

LEMMA GithubKeeps == TypeOK /\ Github => TypeOK' /\ GithubKept
<1> SUFFICES ASSUME TypeOK, Github PROVE TypeOK' /\ GithubKept
  OBVIOUS
<1> USE ReviewJobAssumption DEF ReviewJobAssumption
<1>1. CASE \E h \in Sha : Push(h)
  BY <1>1 DEF GithubKept, Push, TypeOK, LastEnded, taskVars, jobVars, outVars
<1>2. CASE Rerun
  <2>1. LastEnded' = LastEnded
    BY <1>2 DEF Rerun, LastEnded, TypeOK
  <2> QED
    BY <1>2, <2>1 DEF GithubKept, Rerun, TypeOK, taskVars, jobVars, outVars
<1>3. ASSUME NEW t \in Target, Delete(t)
      PROVE  TypeOK' /\ GithubKept
  <2>1. LastEnded' = LastEnded
    BY <1>3 DEF Delete, LastEnded
  <2> QED
    BY <1>3, <2>1 DEF GithubKept, Delete, TypeOK, taskVars, jobVars, outVars
<1>4. ASSUME NEW t \in Target, NEW s \in Scan, Upload(t, s)
      PROVE  TypeOK' /\ GithubKept
  <2> DEFINE new == [attempt |-> runAttempt, scan |-> s]
  <2>1. LastEnded' = LastEnded
    BY <1>4 DEF Upload, LastEnded
  <2>2. new \in Artifact
    BY DEF Artifact, TypeOK
  <2>3. artifacts' \in [Target -> SUBSET Artifact]
    BY <1>4, <2>2 DEF Upload, TypeOK
  <2>4. runAttempt \notin DOMAIN results
    BY <1>4 DEF Upload, TypeOK, LastEnded
  <2>5. \A u \in Target : \A a \in artifacts'[u] : a.attempt \in DOMAIN results => a \in artifacts[u]
    BY <1>4, <2>4 DEF Upload, TypeOK
  <2> QED
    BY <1>4, <2>1, <2>3, <2>5 DEF GithubKept, Upload, TypeOK, taskVars, jobVars, outVars
<1>5. ASSUME NEW result \in Result, RerunEnds(result)
      PROVE  TypeOK' /\ GithubKept
  <2>1. LastEnded' = runAttempt /\ LastEnded = runAttempt - 1
    BY <1>5 DEF RerunEnds, LastEnded, TypeOK
  <2>2. results' \in [1 .. LastEnded' -> Result]
    BY <1>5, <2>1 DEF RerunEnds, TypeOK
  <2>3. \A n \in DOMAIN results : n \in DOMAIN results' /\ results'[n] = results[n]
    BY <1>5, <2>1 DEF RerunEnds, TypeOK
  <2> QED
    <3>1. TypeOK'
      BY <1>5, <2>2 DEF RerunEnds, TypeOK, taskVars, jobVars, outVars
    <3>2. GithubKept
      <4>1. UNCHANGED <<head, pushes, artifacts, adapter, source, taskVars, jobVars, outVars>>
        BY <1>5 DEF RerunEnds
      <4>2. pushes \in Nat
        BY DEF TypeOK
      <4> QED
        BY <2>3, <4>1, <4>2 DEF GithubKept
    <3> QED
      BY <3>1, <3>2
<1> QED
  BY <1>1, <1>2, <1>3, <1>4, <1>5 DEF Github

(* A job that lets go of its task leaves nothing it had collected. *)
LEMMA LettingGoKeepsTypes ==
  ASSUME TypeOK, JobTypes, NEW next \in {"IDLE", "BACKOFF", "LEASED", "REVIEWED"}, LetGo(next),
         UNCHANGED <<githubVars, source, claims>>,
         checkRun' = checkRun,
         next = "REVIEWED" => source = "WEBHOOK",
         status' \in {"PENDING", "PROCESSING", "COMPLETED", "FAILED", "SUPERSEDED"},
         crashes' \in 0 .. MaxCrashes
  PROVE  TypeOK' /\ JobTypes'
<1> USE ReviewJobAssumption DEF ReviewJobAssumption
<1>1. LastEnded' = LastEnded
  BY DEF LastEnded, githubVars
<1>2. TypeOK'
  BY <1>1 DEF TypeOK, LetGo, githubVars, Stages
<1>3. found' \in [Target -> [at : Fetching, artifact : Artifact \cup {None}]]
  BY DEF LetGo, Unread, Fetching
<1>4. change' \in [at : {"PULL", "DIFF", "DONE"}, diff : Sha \cup {None}, pushes : Nat, still : BOOLEAN]
  BY DEF LetGo, NoChange
<1> QED
  BY <1>2, <1>3, <1>4 DEF JobTypes, LetGo, NoCi

LEMMA NextTypes == TypeOK /\ JobTypes /\ [Next]_vars => TypeOK' /\ JobTypes'
<1> SUFFICES ASSUME TypeOK, JobTypes, [Next]_vars PROVE TypeOK' /\ JobTypes'
  OBVIOUS
<1> USE ReviewJobAssumption DEF ReviewJobAssumption
<1> DEFINE Changes == [at : {"PULL", "DIFF", "DONE"}, diff : Sha \cup {None}, pushes : Nat, still : BOOLEAN]
           Fetches == [at : Fetching, artifact : Artifact \cup {None}]
<1>1. CASE Github
  <2>1. TypeOK' /\ UNCHANGED <<source, taskVars, jobVars, outVars>>
    BY <1>1, GithubKeeps DEF GithubKept
  <2> QED
    BY <2>1 DEF JobTypes, taskVars, jobVars, outVars
<1>2. ASSUME UNCHANGED <<githubVars, source, ci, change, found, provider, tries, listed, outVars>>,
             stage' \in Stages, stage' \in {"REVIEWED", "LISTED", "PUBLISHED"} => stage' = stage,
             status' \in {"PENDING", "PROCESSING", "COMPLETED", "FAILED", "SUPERSEDED"},
             claims' \in Nat, crashes' = crashes
      PROVE  TypeOK' /\ JobTypes'
  <2>1. LastEnded' = LastEnded
    BY <1>2 DEF LastEnded, githubVars
  <2> QED
    BY <1>2, <2>1 DEF TypeOK, JobTypes, githubVars, outVars
<1>3. CASE BackoffEnds \/ LeaseEnds \/ Claim \/ Supersede
  <2>1. UNCHANGED <<githubVars, source, ci, change, found, provider, tries, listed, outVars>>
    BY <1>3 DEF BackoffEnds, LeaseEnds, Claim, Supersede
  <2>2. stage' \in Stages /\ (stage' \in {"REVIEWED", "LISTED", "PUBLISHED"} => stage' = stage)
    BY <1>3 DEF BackoffEnds, LeaseEnds, Claim, Supersede, Stages, TypeOK
  <2>3. /\ status' \in {"PENDING", "PROCESSING", "COMPLETED", "FAILED", "SUPERSEDED"}
        /\ claims' \in Nat /\ crashes' = crashes
    BY <1>3 DEF BackoffEnds, LeaseEnds, Claim, Supersede, taskVars, TypeOK, JobTypes
  <2> QED
    BY <1>2, <2>1, <2>2, <2>3
<1>4. CASE Crash
  <2>1. PICK next \in {"IDLE", "LEASED"} : LetGo(next)
    BY <1>4 DEF Crash
  <2>2. crashes' \in 0 .. MaxCrashes /\ status' = status /\ checkRun' = checkRun
    BY <1>4 DEF Crash, TypeOK, outVars
  <2> QED
    BY <1>4, <2>1, <2>2, LettingGoKeepsTypes DEF Crash, TypeOK
<1>5. CASE Fail
  <2>1. PICK next \in {"IDLE", "BACKOFF"} : LetGo(next)
    BY <1>5 DEF Fail
  <2>2. status' \in {status, "FAILED", "PENDING"}
    BY <1>5 DEF Fail
  <2>3. crashes' = crashes /\ checkRun' = checkRun /\ UNCHANGED <<githubVars, source, claims>>
    BY <1>5 DEF Fail, outVars
  <2> QED
    BY <2>1, <2>2, <2>3, LettingGoKeepsTypes DEF TypeOK
<1>6. CASE Complete
  <2>1. status' \in {status, "COMPLETED"} /\ crashes' = crashes /\ checkRun' = checkRun
    BY <1>6 DEF Complete, outVars
  <2> QED
    BY <1>6, <2>1, LettingGoKeepsTypes DEF Complete, TypeOK
<1>7. ASSUME NEW advice \in Advice, NEW supplied \in Supplied, Record(advice, supplied)
      PROVE  TypeOK' /\ JobTypes'
  <2>1. PICK next \in {"IDLE", "REVIEWED"} : LetGo(next) /\ (next = "REVIEWED" => source = "WEBHOOK")
    BY <1>7 DEF Record
  <2>2. UNCHANGED <<githubVars, source, taskVars, checkRun>>
    BY <1>7 DEF Record
  <2> QED
    BY <2>1, <2>2, LettingGoKeepsTypes DEF TypeOK, taskVars
<1>8. ASSUME UNCHANGED <<githubVars, source, taskVars, stage, provider, tries, listed, outVars>>,
             ci' = [at |-> ci'.at, attempt |-> ci'.attempt, conclusion |-> ci'.conclusion, jobs |-> ci'.jobs],
             ci'.at \in {"RUN", "JOBS", "DONE"},
             change' \in Changes, found' \in [Target -> Fetches]
      PROVE  TypeOK' /\ JobTypes'
  <2>1. LastEnded' = LastEnded
    BY <1>8 DEF LastEnded, githubVars
  <2> QED
    BY <1>8, <2>1 DEF TypeOK, JobTypes, githubVars, taskVars, outVars
<1>9. CASE GetRun \/ GetJobs
  <2>1. /\ ci' = [at |-> ci'.at, attempt |-> ci'.attempt, conclusion |-> ci'.conclusion, jobs |-> ci'.jobs]
        /\ ci'.at \in {"RUN", "JOBS", "DONE"}
    <3>1. CASE GetRun
      BY <3>1 DEF GetRun
    <3>2. CASE GetJobs
      <4>1. ci' = [at |-> "DONE", attempt |-> ci.attempt, conclusion |-> ci.conclusion,
                   jobs |-> results[ci.attempt].jobs]
        BY <3>2 DEF GetJobs, JobTypes
      <4> QED
        BY <4>1
    <3> QED
      BY <1>9, <3>1, <3>2
  <2>2. UNCHANGED <<githubVars, source, taskVars, stage, change, found, provider, tries, listed, outVars>>
    BY <1>9 DEF GetRun, GetJobs
  <2> QED
    BY <1>8, <2>1, <2>2 DEF JobTypes
<1>10. CASE GetPull \/ GetDiff
  <2>1. change' \in Changes
    <3>1. CASE GetPull
      <4>1. change \in Changes /\ pushes \in Nat
        BY DEF JobTypes, TypeOK
      <4>2. change' = [change EXCEPT !.at = "DIFF", !.pushes = pushes]
        BY <3>1 DEF GetPull
      <4> QED
        BY <4>1, <4>2
    <3>2. CASE GetDiff
      <4>1. (pushes = change.pushes) \in BOOLEAN /\ head \in Sha
        BY DEF TypeOK
      <4>2. change' = [at |-> "DONE", diff |-> head, pushes |-> 0, still |-> pushes = change.pushes]
        BY <3>2 DEF GetDiff
      <4> QED
        BY <4>1, <4>2
    <3> QED
      BY <1>10, <3>1, <3>2
  <2>2. UNCHANGED <<githubVars, source, taskVars, stage, ci, found, provider, tries, listed, outVars>>
    BY <1>10 DEF GetPull, GetDiff
  <2> QED
    BY <1>8, <2>1, <2>2 DEF JobTypes
<1>11. ASSUME NEW t \in Target, ListArtifact(t) \/ Download(t)
       PROVE  TypeOK' /\ JobTypes'
  <2>1. found' \in [Target -> Fetches]
    <3>1. CASE ListArtifact(t)
      <4>1. artifacts[t] \subseteq Artifact
        BY DEF TypeOK
      <4> QED
        BY <3>1, <4>1 DEF ListArtifact, JobTypes, Fetching
    <3>2. CASE Download(t)
      BY <3>2 DEF Download, JobTypes, Fetching
    <3> QED
      BY <1>11, <3>1, <3>2
  <2>2. UNCHANGED <<githubVars, source, taskVars, stage, ci, change, provider, tries, listed, outVars>>
    BY <1>11 DEF ListArtifact, Download
  <2> QED
    BY <1>8, <2>1, <2>2 DEF JobTypes
<1>12. CASE Analyze \/ AskAgain
  <2>1. LastEnded' = LastEnded
    BY <1>12 DEF Analyze, AskAgain, LastEnded, githubVars
  <2>2. CASE Analyze
    <3>1. tries' \in 0 .. MaxRetries + 1 /\ provider' \in {None, "MOCK", "OPENAI"} /\ stage' = "ANALYZING"
      BY <2>2 DEF Analyze
    <3> QED
      BY <2>1, <2>2, <3>1 DEF Analyze, TypeOK, JobTypes, Stages, githubVars, taskVars, outVars
  <2>3. CASE AskAgain
    <3>1. tries' \in 0 .. MaxRetries + 1
      BY <2>3 DEF AskAgain, TypeOK
    <3> QED
      BY <2>1, <2>3, <3>1 DEF AskAgain, TypeOK, JobTypes, githubVars, taskVars, outVars
  <2> QED
    BY <1>12, <2>2, <2>3
<1>13. CASE List \/ Publish
  <2>1. LastEnded' = LastEnded
    BY <1>13 DEF List, Publish, LastEnded, githubVars
  <2>2. checkRun'.count \in Nat
    BY <1>13 DEF List, Publish, JobTypes, outVars
  <2> QED
    BY <1>13, <2>1, <2>2 DEF List, Publish, TypeOK, JobTypes, Stages, githubVars, taskVars, outVars
<1>14. CASE Others \/ UNCHANGED vars
  <2>1. UNCHANGED <<githubVars, source, taskVars, jobVars, checkRun>>
    BY <1>14 DEF Others, vars, outVars
  <2>2. LastEnded' = LastEnded
    BY <2>1 DEF LastEnded, githubVars
  <2> QED
    BY <2>1, <2>2 DEF TypeOK, JobTypes, githubVars, taskVars, jobVars
<1> QED
  BY <1>1, <1>3, <1>4, <1>5, <1>6, <1>7, <1>9, <1>10, <1>11, <1>12, <1>13, <1>14 DEF Next

(* Every variable keeps to its type. *)
THEOREM TypeCorrect == Spec => []TypeOK
<1>1. Init => TypeOK /\ JobTypes
  BY InitTypes
<1>2. TypeOK /\ JobTypes /\ [Next]_vars => (TypeOK /\ JobTypes)'
  BY NextTypes
<1> QED
  BY <1>1, <1>2, PTL DEF Spec

----------------------------------------------------------------------------
(* The collection. *)

LEMMA InitCollects == Init => Collecting
<1> SUFFICES ASSUME Init PROVE Collecting
  OBVIOUS
<1>1. TypeOK /\ JobTypes
  BY InitTypes
<1>2. RunCollected
  BY DEF Init, RunCollected, NoCi
<1>3. ArtifactsCollected
  BY DEF Init, ArtifactsCollected, Unread
<1>4. ChangeCollected
  BY DEF Init, ChangeCollected, NoChange
<1>5. AllCollected
  BY DEF Init, AllCollected
<1> QED
  BY <1>1, <1>2, <1>3, <1>4, <1>5 DEF Collecting

(* GitHub may change, but not what is already collected. *)
LEMMA GithubCollects == Collecting /\ Github => RunCollected' /\ ArtifactsCollected' /\ ChangeCollected'
<1> SUFFICES ASSUME Collecting, Github
             PROVE  RunCollected' /\ ArtifactsCollected' /\ ChangeCollected'
  OBVIOUS
<1> USE DEF Collecting
<1>1. GithubKept
  BY GithubKeeps
<1>2. UNCHANGED <<source, ci, change, found>>
  BY <1>1 DEF GithubKept, jobVars
<1>3. RunCollected'
  BY <1>1, <1>2 DEF RunCollected, GithubKept
<1>4. ASSUME NEW t \in Target, found[t].at # "LIST",
             NEW a \in artifacts'[t], a.attempt = Subject
      PROVE  a = found[t].artifact
  <2>1. Subject \in DOMAIN results
    BY <1>4 DEF Subject, RunCollected, ArtifactsCollected, TypeOK
  <2>2. a \in artifacts[t]
    BY <1>1, <1>4, <2>1 DEF GithubKept
  <2> QED
    BY <1>4, <2>2 DEF ArtifactsCollected
<1>5. Subject' = Subject
  BY <1>2 DEF Subject
<1>6. ArtifactsCollected'
  BY <1>2, <1>4, <1>5 DEF ArtifactsCollected
<1>7. ChangeCollected'
  <2>1. change \in [at : {"PULL", "DIFF", "DONE"}, diff : Sha \cup {None}, pushes : Nat, still : BOOLEAN]
    BY DEF JobTypes
  <2>2. change.pushes \in Nat /\ pushes \in Nat /\ pushes' \in Nat
    BY <1>1, <2>1 DEF GithubKept
  <2>3. ASSUME source = "WEBHOOK", change.at = "DIFF"
        PROVE  change.pushes <= pushes' /\ (change.pushes = pushes' => head' = Head)
    BY <1>1, <2>2, <2>3 DEF GithubKept, ChangeCollected
  <2> QED
    BY <1>2, <2>3 DEF ChangeCollected
<1> QED
  BY <1>3, <1>6, <1>7

(* Nor does letting go keep anything. *)
LEMMA LettingGoCollects ==
  ASSUME Collecting, NEW next \in {"IDLE", "BACKOFF", "LEASED", "REVIEWED"}, LetGo(next),
         UNCHANGED <<githubVars, source>>
  PROVE  RunCollected' /\ ArtifactsCollected' /\ ChangeCollected' /\ AllCollected'
<1> USE DEF Collecting
<1>1. RunCollected'
  BY DEF RunCollected, LetGo, NoCi, githubVars
<1>2. ArtifactsCollected'
  BY DEF ArtifactsCollected, LetGo, Unread
<1>3. ChangeCollected'
  BY DEF ChangeCollected, LetGo, NoChange
<1>4. AllCollected'
  BY DEF AllCollected, LetGo
<1> QED
  BY <1>1, <1>2, <1>3, <1>4

LEMMA NextCollects == Collecting /\ [Next]_vars => Collecting'
<1> SUFFICES ASSUME Collecting, [Next]_vars
             PROVE  RunCollected' /\ ArtifactsCollected' /\ ChangeCollected' /\ AllCollected'
  BY NextTypes DEF Collecting
<1> USE DEF Collecting
<1> DEFINE Goal == RunCollected' /\ ArtifactsCollected' /\ ChangeCollected' /\ AllCollected'
<1>1. CASE Github
  <2>1. UNCHANGED <<source, taskVars, jobVars, outVars>>
    BY <1>1, GithubKeeps DEF GithubKept
  <2>2. AllCollected'
    BY <2>1 DEF AllCollected, jobVars
  <2> QED
    BY <1>1, <2>2, GithubCollects
<1>2. ASSUME UNCHANGED <<githubVars, source, ci, change, found>>, stage' = "ANALYZING" => stage = "ANALYZING"
      PROVE  Goal
  <2>1. UNCHANGED <<results, artifacts, head, pushes>>
    BY <1>2 DEF githubVars
  <2>2. RunCollected' /\ ChangeCollected' /\ AllCollected'
    BY <1>2, <2>1 DEF RunCollected, ChangeCollected, AllCollected
  <2>3. ArtifactsCollected'
    BY <1>2, <2>1 DEF ArtifactsCollected, Subject
  <2> QED
    BY <2>2, <2>3
<1>3. CASE BackoffEnds \/ LeaseEnds \/ Claim \/ Supersede \/ AskAgain \/ List \/ Publish
  <2>1. UNCHANGED <<githubVars, source, ci, change, found>>
    BY <1>3 DEF BackoffEnds, LeaseEnds, Claim, Supersede, AskAgain, List, Publish
  <2>2. stage' = "ANALYZING" => stage = "ANALYZING"
    BY <1>3 DEF BackoffEnds, LeaseEnds, Claim, Supersede, AskAgain, List, Publish
  <2> QED
    BY <1>2, <2>1, <2>2
<1>4. CASE Crash \/ Fail \/ Complete
  <2>1. \E next \in {"IDLE", "BACKOFF", "LEASED", "REVIEWED"} : LetGo(next)
    BY <1>4 DEF Crash, Fail, Complete
  <2>2. UNCHANGED <<githubVars, source>>
    BY <1>4 DEF Crash, Fail, Complete
  <2> QED
    BY <2>1, <2>2, LettingGoCollects
<1>5. ASSUME NEW advice \in Advice, NEW supplied \in Supplied, Record(advice, supplied)
      PROVE  Goal
  <2>1. \E next \in {"IDLE", "BACKOFF", "LEASED", "REVIEWED"} : LetGo(next)
    BY <1>5 DEF Record
  <2>2. UNCHANGED <<githubVars, source>>
    BY <1>5 DEF Record
  <2> QED
    BY <2>1, <2>2, LettingGoCollects
<1>6. CASE GetRun
  <2>1. /\ ci' = [at |-> "JOBS", attempt |-> runAttempt,
                  conclusion |-> results[runAttempt].conclusion, jobs |-> {}]
        /\ ci.at = "RUN" /\ stage' = "COLLECTING" /\ ~running
        /\ source = "WEBHOOK" => runAttempt = 1
        /\ UNCHANGED <<githubVars, source, change, found>>
    BY <1>6 DEF GetRun, RunMatches
  <2>2. runAttempt \in DOMAIN results
    BY <2>1 DEF TypeOK, LastEnded
  <2>3. RunCollected'
    BY <2>1, <2>2 DEF RunCollected, githubVars
  <2>4. ArtifactsCollected'
    BY <2>1 DEF ArtifactsCollected, Subject, githubVars, TypeOK
  <2>5. ChangeCollected' /\ AllCollected'
    BY <2>1 DEF ChangeCollected, AllCollected, githubVars
  <2> QED
    BY <2>3, <2>4, <2>5
<1>7. CASE GetJobs
  <2>1. /\ ci' = [at |-> "DONE", attempt |-> ci.attempt, conclusion |-> ci.conclusion,
                  jobs |-> results[ci.attempt].jobs]
        /\ ci.at = "JOBS" /\ stage' = "COLLECTING"
        /\ UNCHANGED <<githubVars, source, change, found>>
    BY <1>7 DEF GetJobs, JobTypes
  <2>2. RunCollected'
    BY <2>1 DEF RunCollected, githubVars
  <2>3. ArtifactsCollected'
    BY <2>1 DEF ArtifactsCollected, Subject, githubVars
  <2>4. ChangeCollected' /\ AllCollected'
    BY <2>1 DEF ChangeCollected, AllCollected, githubVars
  <2> QED
    BY <2>2, <2>3, <2>4
<1>8. CASE GetPull \/ GetDiff
  <2>1. UNCHANGED <<githubVars, source, ci, found>> /\ stage' = "COLLECTING"
    BY <1>8 DEF GetPull, GetDiff
  <2>2. RunCollected' /\ AllCollected'
    BY <2>1 DEF RunCollected, AllCollected, githubVars
  <2>3. ArtifactsCollected'
    BY <2>1 DEF ArtifactsCollected, Subject, githubVars
  <2>4. ChangeCollected'
    <3>1. CASE GetPull
      <4>1. change'.at = "DIFF" /\ change'.pushes = pushes /\ head = Head
        BY <3>1 DEF GetPull, HeadMatches, JobTypes
      <4>2. pushes <= pushes
        BY DEF TypeOK
      <4> QED
        BY <2>1, <4>1, <4>2 DEF ChangeCollected, githubVars
    <3>2. CASE GetDiff
      <4>1. change.at = "DIFF"
            /\ change' = [at |-> "DONE", diff |-> head, pushes |-> 0, still |-> pushes = change.pushes]
        BY <3>2 DEF GetDiff
      <4>2. source = "WEBHOOK" /\ pushes = change.pushes => head = Head
        BY <4>1 DEF ChangeCollected
      <4>3. source = "WEBHOOK" => change'.diff = Head \/ ~change'.still
        BY <4>1, <4>2
      <4>4. change'.at = "DONE"
        BY <4>1
      <4> QED
        BY <2>1, <4>3, <4>4 DEF ChangeCollected
    <3> QED
      BY <1>8, <3>1, <3>2
  <2> QED
    BY <2>2, <2>3, <2>4
<1>9. ASSUME NEW t \in Target, ListArtifact(t) \/ Download(t)
      PROVE  Goal
  <2>1. UNCHANGED <<githubVars, source, ci, change>> /\ stage' = "COLLECTING"
    BY <1>9 DEF ListArtifact, Download
  <2>2. RunCollected' /\ ChangeCollected' /\ AllCollected'
    BY <2>1 DEF RunCollected, ChangeCollected, AllCollected, githubVars
  <2>3. found \in [Target -> [at : Fetching, artifact : Artifact \cup {None}]]
    BY DEF JobTypes
  <2>4. ArtifactsCollected'
    <3>1. CASE ListArtifact(t)
      <4>1. source = "REQUEST" => ci.at = "DONE"
        BY <3>1 DEF ListArtifact
      <4>2. \A u \in Target : u # t => found'[u] = found[u]
        BY <2>3, <3>1 DEF ListArtifact
      <4>3. \/ found'[t].at = "DONE" /\ found'[t].artifact = None /\ artifacts[t] = {}
            \/ found'[t].at = "DOWNLOAD" /\ artifacts[t] = {found'[t].artifact}
        BY <2>3, <3>1 DEF ListArtifact, ArtifactsCollected
      <4> QED
        BY <2>1, <4>1, <4>2, <4>3 DEF ArtifactsCollected, Subject, githubVars
    <3>2. CASE Download(t)
      <4>1. \A u \in Target : u # t => found'[u] = found[u]
        BY <2>3, <3>2 DEF Download
      <4>2. found'[t].at = "DONE" /\ found'[t].artifact = found[t].artifact
        BY <2>3, <3>2 DEF Download
      <4>3. Readable(found[t].artifact) /\ found[t].artifact.attempt = Subject
        BY <3>2 DEF Download, ReportMatches, Subject
      <4>4. found[t].at # "LIST"
        BY <3>2 DEF Download
      <4>5. Readable(found'[t].artifact)
        BY <4>2, <4>3 DEF Readable
      <4> QED
        BY <2>1, <4>1, <4>2, <4>3, <4>4, <4>5 DEF ArtifactsCollected, Subject, githubVars, Readable
    <3> QED
      BY <1>9, <3>1, <3>2
  <2> QED
    BY <2>2, <2>4
<1>10. CASE Analyze
  <2>1. /\ UNCHANGED <<githubVars, source, ci, change, found>>
        /\ ci.at = "DONE" /\ change.at = "DONE" /\ \A t \in Target : found[t].at = "DONE"
    BY <1>10 DEF Analyze
  <2>2. RunCollected' /\ ChangeCollected' /\ AllCollected'
    BY <2>1 DEF RunCollected, ChangeCollected, AllCollected, githubVars
  <2>3. ArtifactsCollected'
    BY <2>1 DEF ArtifactsCollected, Subject, githubVars
  <2> QED
    BY <2>2, <2>3
<1>11. CASE Others \/ UNCHANGED vars
  BY <1>2, <1>11 DEF Others, vars, jobVars
<1> QED
  BY <1>1, <1>3, <1>4, <1>5, <1>6, <1>7, <1>8, <1>9, <1>10, <1>11 DEF Next

----------------------------------------------------------------------------
(* The review. *)

(* What any step leaves of the evidence. *)
EvidenceKept ==
  /\ UNCHANGED <<adapter, source>>
  /\ \A n \in DOMAIN results : n \in DOMAIN results' /\ results'[n] = results[n]
  /\ \A t \in Target : \A a \in artifacts'[t] : a.attempt \in DOMAIN results => a \in artifacts[t]

LEMMA NextKeeps == TypeOK /\ [Next]_vars => EvidenceKept
<1> SUFFICES ASSUME TypeOK, [Next]_vars PROVE EvidenceKept
  OBVIOUS
<1>1. CASE Github
  BY <1>1, GithubKeeps DEF GithubKept, EvidenceKept
<1>2. ASSUME UNCHANGED <<githubVars, source>> PROVE EvidenceKept
  BY <1>2 DEF githubVars, EvidenceKept
<1>3. CASE BackoffEnds \/ LeaseEnds \/ Claim \/ Supersede \/ Crash \/ Fail
  BY <1>2, <1>3 DEF BackoffEnds, LeaseEnds, Claim, Supersede, Crash, Fail
<1>4. CASE GetRun \/ GetJobs \/ GetPull \/ GetDiff
  BY <1>2, <1>4 DEF GetRun, GetJobs, GetPull, GetDiff
<1>5. ASSUME NEW t \in Target, ListArtifact(t) \/ Download(t) PROVE EvidenceKept
  BY <1>2, <1>5 DEF ListArtifact, Download
<1>6. CASE Analyze \/ AskAgain \/ List \/ Publish \/ Others \/ Complete
  BY <1>2, <1>6 DEF Analyze, AskAgain, List, Publish, Others, Complete
<1>7. ASSUME NEW advice \in Advice, NEW supplied \in Supplied, Record(advice, supplied) PROVE EvidenceKept
  BY <1>2, <1>7 DEF Record
<1>8. CASE UNCHANGED vars
  BY <1>2, <1>8 DEF vars
<1> QED
  BY <1>1, <1>3, <1>4, <1>5, <1>6, <1>7, <1>8 DEF Next

(* A review is made of all that was collected. *)
LEMMA RecordSettles ==
  ASSUME Collecting, NEW advice \in Advice, NEW supplied \in Supplied, Record(advice, supplied)
  PROVE  ReviewTells'
<1> USE DEF Collecting
<1> DEFINE evidence == Evidence(supplied)
           reported == {found[t].artifact.attempt : t \in Collected}
<1>1. /\ recorded' = [review   |-> Review(evidence, advice, Changed[change.diff]),
                      evidence |-> evidence, attempt |-> ci.attempt, reported |-> reported,
                      diff |-> change.diff, still |-> change.still]
      /\ UNCHANGED <<githubVars, source>> /\ stage = "ANALYZING"
  BY DEF Record
<1>2. ci.at = "DONE" /\ change.at = "DONE" /\ \A t \in Target : found[t].at = "DONE"
  BY <1>1 DEF AllCollected
<1>3. /\ ci.attempt \in DOMAIN results /\ ci.conclusion = results[ci.attempt].conclusion
      /\ ci.jobs = results[ci.attempt].jobs /\ Subject = ci.attempt
      /\ source = "WEBHOOK" => ci.attempt = 1
  BY <1>2 DEF RunCollected, Subject
<1>4. CollectedRun = results[ci.attempt]
  <2>1. results[ci.attempt] \in Result
    BY <1>3 DEF TypeOK
  <2> QED
    BY <1>3, <2>1, ResultAssumption DEF ResultAssumption, CollectedRun
<1>5. evidence.ci = CollectedRun /\ evidence.reports = Reports
  BY DEF Evidence, EvidenceOfDelivery, EvidenceOfRequest
<1>6. source = "WEBHOOK" => evidence.tests = DeriveTestStatus(CollectedRun)
  BY DEF Evidence, EvidenceOfDelivery
<1>7. \A t \in Collected : found[t].artifact.attempt = ci.attempt
  BY <1>2, <1>3 DEF Collected, ArtifactsCollected
<1>8. ASSUME NEW t \in Target, NEW a \in artifacts[t], a.attempt = ci.attempt
      PROVE  Readable(a) /\ Normalize(adapter[t], a.scan) \in Reports
  <2>1. a = found[t].artifact
    BY <1>2, <1>3, <1>8 DEF ArtifactsCollected
  <2>2. a # None
    BY ArtifactAssumption DEF ArtifactAssumption, TypeOK
  <2>3. t \in Collected
    BY <2>1, <2>2 DEF Collected
  <2>4. Readable(a)
    BY <1>2, <2>1, <2>2 DEF ArtifactsCollected
  <2> QED
    BY <2>1, <2>3, <2>4 DEF Reports
<1>9. source = "WEBHOOK" => change.diff = Head \/ ~change.still
  BY <1>2 DEF ChangeCollected
<1> HIDE DEF evidence, reported
<1>10. /\ recorded'.review = Review(evidence, advice, Changed[change.diff])
       /\ recorded'.evidence = evidence /\ recorded'.attempt = ci.attempt
       /\ recorded'.reported = reported /\ recorded'.diff = change.diff
       /\ recorded'.still = change.still
  BY <1>1
<1>11. reported \subseteq {ci.attempt}
  BY <1>7 DEF reported
<1>12. UNCHANGED <<results, artifacts, adapter, source>>
  BY <1>1 DEF githubVars
<1>13. source = "WEBHOOK" => recorded'.diff = Head \/ ~recorded'.still
  BY <1>9, <1>10, Zenon
<1>14. \E a \in Advice : recorded'.review = Review(recorded'.evidence, a, Changed[recorded'.diff])
  BY <1>10, Zenon
<1> QED
  BY <1>3, <1>4, <1>5, <1>6, <1>8, <1>10, <1>11, <1>12, <1>13, <1>14 DEF ReviewTells

(* It stays true of what is left of the evidence. *)
LEMMA ReviewStands ==
  ASSUME ReviewTells, EvidenceKept, recorded' = recorded
  PROVE  ReviewTells'
BY DEF ReviewTells, EvidenceKept

LEMMA NextTells == Collecting /\ RecordTells /\ [Next]_vars => RecordTells'
<1> SUFFICES ASSUME Collecting, RecordTells, [Next]_vars PROVE RecordTells'
  OBVIOUS
<1> DEFINE After == {"REVIEWED", "LISTED", "PUBLISHED"}
<1>1. EvidenceKept
  BY NextKeeps DEF Collecting
<1>2. ASSUME recorded' = recorded, stage' \in After => stage \in After PROVE RecordTells'
  BY <1>1, <1>2, ReviewStands DEF RecordTells
<1>3. ASSUME NEW advice \in Advice, NEW supplied \in Supplied, Record(advice, supplied) PROVE RecordTells'
  BY <1>3, RecordSettles DEF RecordTells
<1>4. CASE Github
  <2>1. UNCHANGED <<jobVars, outVars>>
    BY <1>4, GithubKeeps DEF GithubKept, Collecting
  <2> QED
    BY <1>2, <2>1 DEF jobVars, outVars
<1>5. CASE BackoffEnds \/ LeaseEnds \/ Claim \/ Supersede \/ Crash \/ Fail \/ Complete
  <2>1. recorded' = recorded
    BY <1>5 DEF BackoffEnds, LeaseEnds, Claim, Supersede, Crash, Fail, Complete, outVars
  <2>2. stage' \in After => stage \in After
    BY <1>5 DEF BackoffEnds, LeaseEnds, Claim, Supersede, Crash, Fail, Complete, LetGo
  <2> QED
    BY <1>2, <2>1, <2>2
<1>6. CASE GetRun \/ GetJobs \/ GetPull \/ GetDiff
  <2>1. UNCHANGED <<stage, recorded>>
    BY <1>6 DEF GetRun, GetJobs, GetPull, GetDiff, outVars
  <2> QED
    BY <1>2, <2>1
<1>7. ASSUME NEW t \in Target, ListArtifact(t) \/ Download(t) PROVE RecordTells'
  <2>1. UNCHANGED <<stage, recorded>>
    BY <1>7 DEF ListArtifact, Download, outVars
  <2> QED
    BY <1>2, <2>1
<1>8. CASE Analyze \/ AskAgain \/ List \/ Publish \/ Others
  <2>1. recorded' = recorded
    BY <1>8 DEF Analyze, AskAgain, List, Publish, Others, outVars
  <2>2. stage' \in After => stage \in After
    BY <1>8 DEF Analyze, AskAgain, List, Publish, Others, jobVars
  <2> QED
    BY <1>2, <2>1, <2>2
<1>9. CASE UNCHANGED vars
  BY <1>2, <1>9 DEF vars, jobVars, outVars
<1> QED
  BY <1>3, <1>4, <1>5, <1>6, <1>7, <1>8, <1>9 DEF Next

----------------------------------------------------------------------------
(* What the review and its Check Run say. *)

LEMMA ReportedScan ==
  ASSUME TypeOK, NEW t \in Target, NEW a \in artifacts[t], Readable(a)
  PROVE  a.scan \in Scan \ {None}
BY DEF TypeOK, Artifact, Readable

LEMMA GreenReview ==
  ASSUME TypeOK, ReviewTells, source = "WEBHOOK", CheckRunConclusion(recorded.review) = "success"
  PROVE  /\ Outcome(results[1]) = "PASSED"
         /\ DeriveTestStatus(results[1]) = "passed"
         /\ \A t \in Target : \A a \in artifacts[t] :
              a.attempt = 1 =>
                Readable(a) /\ \A k \in DOMAIN Found(a.scan) : Found(a.scan)[k] = "LOW"
<1>1. /\ recorded.attempt = 1 /\ recorded.evidence.ci = results[1]
      /\ recorded.evidence.tests = DeriveTestStatus(results[1])
  BY DEF ReviewTells
<1>2. PICK advice \in Advice : recorded.review = Review(recorded.evidence, advice, Changed[recorded.diff])
  BY DEF ReviewTells
<1>3. /\ Outcome(recorded.evidence.ci) = "PASSED" /\ recorded.evidence.tests = "passed"
      /\ \A report \in recorded.evidence.reports :
           ~report.truncated /\ \A s \in report.severities : s \notin {"MEDIUM", "HIGH", "CRITICAL"}
  BY <1>2, SuccessIsEarned
<1>4. ASSUME NEW t \in Target, NEW a \in artifacts[t], a.attempt = 1
      PROVE  Readable(a) /\ \A k \in DOMAIN Found(a.scan) : Found(a.scan)[k] = "LOW"
  <2>1. Readable(a) /\ Normalize(adapter[t], a.scan) \in recorded.evidence.reports
    BY <1>1, <1>4 DEF ReviewTells
  <2>2. a.scan \in Scan \ {None}
    BY <2>1, ReportedScan
  <2>3. ~Normalize(adapter[t], a.scan).truncated
    BY <1>3, <2>1, Zenon
  <2>4. \A k \in DOMAIN Found(a.scan) : Found(a.scan)[k] \in Normalize(adapter[t], a.scan).severities
    BY <2>2, <2>3, WholeReportKeepsAll
  <2>5. \A k \in DOMAIN Found(a.scan) : Found(a.scan)[k] \notin {"MEDIUM", "HIGH", "CRITICAL"}
    BY <1>3, <2>1, <2>4
  <2>6. \A k \in DOMAIN Found(a.scan) : Found(a.scan)[k] \in Severity
    BY <2>2, FoundIsKnown
  <2> QED
    BY <2>1, <2>5, <2>6 DEF Severity
<1> QED
  BY <1>1, <1>3, <1>4

LEMMA NextIsEarned == ReviewInv /\ [Next]_vars => GreenCheckIsEarned'
<1> SUFFICES ASSUME ReviewInv, [Next]_vars, checkRun'.conclusion = "success"
             PROVE  GreenCheckIsEarned'
  BY DEF GreenCheckIsEarned
<1> USE DEF ReviewInv, Collecting
<1>1. EvidenceKept
  BY NextKeeps
<1>2. CASE checkRun' = checkRun
  <2>1. 1 \in DOMAIN results
    BY DEF RunCollected
  <2>2. results'[1] = results[1] /\ \A t \in Target : \A a \in artifacts'[t] : a.attempt = 1 => a \in artifacts[t]
    BY <1>1, <2>1 DEF EvidenceKept
  <2> QED
    BY <1>2, <2>2 DEF GreenCheckIsEarned
<1>3. CASE Publish
  <2>1. checkRun'.conclusion = CheckRunConclusion(recorded.review)
        /\ UNCHANGED <<results, artifacts>> /\ stage = "LISTED"
    BY <1>3 DEF Publish, githubVars
  <2>2. ReviewTells /\ source = "WEBHOOK"
    BY <2>1 DEF RecordTells, JobTypes
  <2>3. CheckRunConclusion(recorded.review) = "success"
    BY <2>1
  <2> QED
    BY <2>1, <2>2, <2>3, GreenReview DEF GreenCheckIsEarned
<1>4. ~Publish => checkRun' = checkRun
  <2>1. Github => checkRun' = checkRun
    BY GithubKeeps DEF GithubKept, outVars
  <2>2. BackoffEnds \/ LeaseEnds \/ Claim \/ Supersede \/ Crash \/ Fail \/ Complete => checkRun' = checkRun
    BY DEF BackoffEnds, LeaseEnds, Claim, Supersede, Crash, Fail, Complete, outVars
  <2>3. GetRun \/ GetJobs \/ GetPull \/ GetDiff \/ Analyze \/ AskAgain \/ List => checkRun' = checkRun
    BY DEF GetRun, GetJobs, GetPull, GetDiff, Analyze, AskAgain, List, outVars
  <2>4. \A t \in Target : ListArtifact(t) \/ Download(t) => checkRun' = checkRun
    BY DEF ListArtifact, Download, outVars
  <2>5. \A advice \in Advice, supplied \in Supplied : Record(advice, supplied) => checkRun' = checkRun
    BY DEF Record
  <2>6. Others \/ UNCHANGED vars => checkRun' = checkRun
    BY DEF Others, vars, outVars
  <2> QED
    BY <2>1, <2>2, <2>3, <2>4, <2>5, <2>6 DEF Next
<1> QED
  BY <1>2, <1>3, <1>4

(* The inductive invariant holds throughout. *)
THEOREM ReviewInvariant == Spec => []ReviewInv
<1>1. Init => ReviewInv
  <2>1. Init => RecordTells /\ GreenCheckIsEarned
    BY ReviewPolicyAssumption DEF Init, RecordTells, GreenCheckIsEarned, NoCheckRun, ReviewPolicyAssumption
  <2> QED
    BY <2>1, InitCollects DEF ReviewInv
<1>2. ReviewInv /\ [Next]_vars => ReviewInv'
  BY NextCollects, NextTells, NextIsEarned DEF ReviewInv
<1> QED
  BY <1>1, <1>2, PTL DEF Spec

----------------------------------------------------------------------------
(* The properties. *)

(* A review's evidence is of one attempt of the run, the delivered one for *)
(* the webhook, however often the workflow is run again while it is        *)
(* collected (collect, collectExternalEvidence).                           *)
THEOREM EvidenceIsOfOneAttemptAlways == Spec => []EvidenceIsOfOneAttempt
<1>1. ReviewInv => EvidenceIsOfOneAttempt
  BY DEF ReviewInv, RecordTells, ReviewTells, EvidenceIsOfOneAttempt
<1> QED
  BY <1>1, ReviewInvariant, PTL

(* The diff that is reviewed is that of the head under review, unless the  *)
(* pull request was pushed to between the two requests for it.             *)
THEOREM DiffIsOfHeadAlways == Spec => []DiffIsOfHead
<1>1. ReviewInv => DiffIsOfHead
  BY Zenon DEF ReviewInv, RecordTells, ReviewTells, DiffIsOfHead
<1> QED
  BY <1>1, ReviewInvariant, PTL

(* Whatever the model advises, a failed run and a critical finding of a    *)
(* scan block the review, or at least keep the release from being deployed *)
(* at once when Trivy's report was cut short.                              *)
THEOREM FailedEvidenceBlocksAlways == Spec => []FailedEvidenceBlocks
<1>1. ReviewInv => FailedEvidenceBlocks
  <2> SUFFICES ASSUME ReviewInv, recorded # None
               PROVE  /\ Outcome(results[recorded.attempt]) = "FAILED" => recorded.review.decision = "BLOCK"
                      /\ \A t \in Target : \A a \in artifacts[t] :
                           a.attempt = recorded.attempt /\ Critical(a) =>
                             \/ recorded.review.decision = "BLOCK" /\ recorded.review.traffic = 0
                             \/ /\ adapter[t] = "TRIVY" /\ Normalize("TRIVY", a.scan).truncated
                                /\ recorded.review.traffic < 100
    BY DEF FailedEvidenceBlocks
  <2>1. ReviewTells
    BY DEF ReviewInv, RecordTells
  <2>2. PICK advice \in Advice : recorded.review = Review(recorded.evidence, advice, Changed[recorded.diff])
    BY <2>1 DEF ReviewTells
  <2>3. Outcome(results[recorded.attempt]) = "FAILED" => recorded.review.decision = "BLOCK"
    BY <2>1, <2>2, FailedRunBlocks DEF ReviewTells
  <2>4. ASSUME NEW t \in Target, NEW a \in artifacts[t], a.attempt = recorded.attempt, Critical(a)
        PROVE  \/ recorded.review.decision = "BLOCK" /\ recorded.review.traffic = 0
               \/ /\ adapter[t] = "TRIVY" /\ Normalize("TRIVY", a.scan).truncated
                  /\ recorded.review.traffic < 100
    <3>1. Readable(a) /\ Normalize(adapter[t], a.scan) \in recorded.evidence.reports
      BY <2>1, <2>4 DEF ReviewTells
    <3>2. a.scan \in Scan \ {None}
      BY <3>1, ReportedScan DEF ReviewInv, Collecting
    <3>3. PICK k \in DOMAIN Found(a.scan) : Found(a.scan)[k] = "CRITICAL"
      BY <2>4 DEF Critical
    <3>4. CASE "CRITICAL" \in Normalize(adapter[t], a.scan).severities
      BY <2>2, <3>1, <3>4, CriticalReportBlocks
    <3>5. CASE "CRITICAL" \notin Normalize(adapter[t], a.scan).severities
      <4>1. adapter[t] = "TRIVY"
        BY <3>2, <3>3, <3>5, CriticalIsKept
      <4>2. Normalize("TRIVY", a.scan).truncated
        <5>1. ~Normalize("TRIVY", a.scan).truncated =>
                Found(a.scan)[k] \in Normalize("TRIVY", a.scan).severities
          BY <3>2, WholeReportKeepsAll, Zenon
        <5>2. Found(a.scan)[k] \notin Normalize("TRIVY", a.scan).severities
          BY <3>3, <3>5, <4>1
        <5> QED
          BY <5>1, <5>2, Zenon
      <4>3. Normalize("TRIVY", a.scan) \in recorded.evidence.reports
        BY <3>1, <4>1
      <4>4. Review(recorded.evidence, advice, Changed[recorded.diff]).traffic < 100
        BY <4>2, <4>3, TruncatedReportSlows, Zenon
      <4>5. recorded.review.traffic < 100
        BY <2>2, <4>4
      <4> QED
        BY <4>1, <4>2, <4>5, Zenon
    <3> QED
      BY <3>4, <3>5
  <2> QED
    BY <2>3, <2>4
<1> QED
  BY <1>1, ReviewInvariant, PTL

(* A green Check Run is only shown for an attempt that succeeded, whose    *)
(* tests are known to have passed and of which no scan found worse than    *)
(* LOW, whatever attempt of the job published it.                          *)
THEOREM GreenCheckIsEarnedAlways == Spec => []GreenCheckIsEarned
<1>1. ReviewInv => GreenCheckIsEarned
  BY DEF ReviewInv
<1> QED
  BY <1>1, ReviewInvariant, PTL

(* A diagnosis affects approval only in a review that is blocked, names    *)
(* only files of the diff, and is the model's only where the name of a     *)
(* sole problem step does not decide (buildCiDiagnostic).                  *)
THEOREM DiagnosisAgreesAlways == Spec => []DiagnosisAgrees
<1>1. ReviewInv => DiagnosisAgrees
  <2> DEFINE diagnostic == recorded.review.diagnostic
             run        == results[recorded.attempt]
  <2> SUFFICES ASSUME ReviewInv, recorded # None, diagnostic # None
               PROVE  /\ diagnostic.affectsApproval => recorded.review.decision = "BLOCK"
                      /\ diagnostic.files \subseteq Changed[recorded.diff]
                      /\ diagnostic.source = "INTELLIGENCE" =>
                           Outcome(run) = "FAILED"
                             /\ \A i \in ProblemSteps(run) :
                                  {i} = ProblemSteps(run) => Cardinality(Matches[i.name]) # 1
    BY DEF DiagnosisAgrees
  <2>1. ReviewTells /\ TypeOK
    BY DEF ReviewInv, RecordTells, Collecting
  <2>2. PICK advice \in Advice : recorded.review = Review(recorded.evidence, advice, Changed[recorded.diff])
    BY <2>1 DEF ReviewTells
  <2>3. recorded.evidence.ci = run /\ run \in Result
    BY <2>1 DEF ReviewTells, TypeOK
  <2>4. diagnostic = CiDiagnostic(run, advice.diagnosis, Changed[recorded.diff])
    BY <2>2, <2>3 DEF Review
  <2>5. /\ diagnostic.affectsApproval => Outcome(run) = "FAILED"
        /\ diagnostic.files \subseteq Changed[recorded.diff]
        /\ diagnostic.source = "INTELLIGENCE" =>
             Outcome(run) # "PASSED" /\ ClassifyDeterministically(run) = None
    <3> DEFINE said == CiDiagnostic(run, advice.diagnosis, Changed[recorded.diff])
    <3>1. said # None
      BY <2>4
    <3>2. /\ said.affectsApproval => Outcome(run) = "FAILED"
          /\ said.files \subseteq Changed[recorded.diff]
          /\ said.source = "INTELLIGENCE" =>
               Outcome(run) # "PASSED" /\ ClassifyDeterministically(run) = None
      <4> HIDE DEF run
      <4> QED
        BY <3>1, DiagnosisSays, Zenon
    <3> HIDE DEF diagnostic, said, run
    <3> QED
      BY <2>4, <3>2, Zenon DEF said
  <2>6. Outcome(run) = "FAILED" => recorded.review.decision = "BLOCK"
    BY <2>2, <2>3, FailedRunBlocks
  <2>7. Outcome(run) = "INCOMPLETE" => ClassifyDeterministically(run) # None
    <3>1. Classification("FLAKY_OR_INCONCLUSIVE_FAILURE", "HIGH") # None
      BY ClassificationIsSome DEF Category, Confidence
    <3> QED
      BY <3>1 DEF ClassifyDeterministically
  <2>8. ASSUME diagnostic.source = "INTELLIGENCE" PROVE Outcome(run) = "FAILED"
    BY <2>5, <2>7, <2>8, OutcomeType
  <2>9. ASSUME diagnostic.source = "INTELLIGENCE", NEW i \in ProblemSteps(run), {i} = ProblemSteps(run)
        PROVE  Cardinality(Matches[i.name]) # 1
    <3>1. Outcome(run) # "INCOMPLETE" /\ ClassifyDeterministically(run) = None
      BY <2>5, <2>8, <2>9
    <3> QED
      BY <2>3, <2>9, <3>1, SoleStepDecides
  <2> HIDE DEF diagnostic, run
  <2> QED
    BY <2>5, <2>6, <2>8, <2>9, Zenon
<1> QED
  BY <1>1, ReviewInvariant, PTL

----------------------------------------------------------------------------
(* The queue. *)

(* A task without its worker is under a lease, or its lease has passed, and *)
(* a worker's has been claimed; a request has no task.                     *)
QueueInv ==
  /\ TypeOK /\ JobTypes
  /\ stage \in {"LEASED", "LAPSED"} => status = "PROCESSING"
  /\ listed \in BOOLEAN /\ (listed => stage \in {"LISTED", "PUBLISHED"})
  /\ newest \in BOOLEAN
  /\ Queued => claims # 0
  /\ source = "REQUEST" =>
       claims = 0 /\ reviewed = 0 /\ ~newest /\ stage \in {"IDLE", "COLLECTING", "ANALYZING"}

LEMMA InitQueued == Init => QueueInv
BY InitTypes DEF Init, QueueInv, Queued, Busy

LEMMA NextQueued == QueueInv /\ [Next]_vars => QueueInv'
<1> SUFFICES ASSUME QueueInv, [Next]_vars PROVE QueueInv'
  OBVIOUS
<1>1. TypeOK' /\ JobTypes'
  BY NextTypes DEF QueueInv
<1>2. ASSUME UNCHANGED <<source, taskVars, stage, listed, reviewed, newest>> PROVE QueueInv'
  BY <1>1, <1>2 DEF QueueInv, taskVars, Queued, Busy
<1>3. CASE Github
  <2>1. UNCHANGED <<source, taskVars, jobVars, outVars>>
    BY <1>3, GithubKeeps DEF GithubKept, QueueInv
  <2> QED
    BY <1>2, <2>1 DEF jobVars, outVars
<1>4. CASE BackoffEnds \/ LeaseEnds \/ Claim \/ Supersede
  BY <1>1, <1>4
     DEF BackoffEnds, LeaseEnds, Claim, Supersede, QueueInv, JobTypes, taskVars, outVars, Queued, Busy
<1>5. CASE Crash \/ Fail \/ Complete
  <2>1. UNCHANGED <<source, claims, reviewed, newest>> /\ listed' = FALSE
    BY <1>5 DEF Crash, Fail, Complete, LetGo, outVars
  <2>2. ~Queued'
    BY <1>5 DEF Crash, Fail, Complete, LetGo, Queued, Busy
  <2>3. stage' \in {"LEASED", "LAPSED"} => status' = "PROCESSING"
    BY <1>5 DEF Crash, Fail, Complete, LetGo
  <2>4. source = "REQUEST" => stage' = "IDLE"
    BY <1>5 DEF Crash, Fail, Complete, LetGo, QueueInv
  <2> QED
    BY <1>1, <2>1, <2>2, <2>3, <2>4 DEF QueueInv
<1>6. CASE GetRun \/ GetJobs \/ GetPull \/ GetDiff \/ AskAgain
  <2>1. UNCHANGED <<source, taskVars, stage, listed, reviewed, newest>>
    BY <1>6 DEF GetRun, GetJobs, GetPull, GetDiff, AskAgain, outVars
  <2> QED
    BY <1>2, <2>1
<1>7. ASSUME NEW t \in Target, ListArtifact(t) \/ Download(t) PROVE QueueInv'
  <2>1. UNCHANGED <<source, taskVars, stage, listed, reviewed, newest>>
    BY <1>7 DEF ListArtifact, Download, outVars
  <2> QED
    BY <1>2, <2>1
<1>8. CASE Analyze \/ List
  <2>1. UNCHANGED <<source, taskVars, reviewed, newest>>
    BY <1>8 DEF Analyze, List, outVars
  <2>2. \/ stage = "COLLECTING" /\ stage' = "ANALYZING" /\ listed' = listed
        \/ stage = "REVIEWED" /\ stage' = "LISTED" /\ listed' \in BOOLEAN /\ source = "WEBHOOK"
    BY <1>8 DEF Analyze, List, QueueInv, JobTypes
  <2>3. listed' \in BOOLEAN /\ (listed' => stage' \in {"LISTED", "PUBLISHED"})
    BY <2>2 DEF QueueInv
  <2> QED
    BY <1>1, <2>1, <2>2, <2>3 DEF QueueInv, taskVars, Queued, Busy
<1>9. CASE Publish
  <2>1. UNCHANGED <<source, taskVars, listed, reviewed>> /\ stage = "LISTED" /\ stage' = "PUBLISHED"
    BY <1>9 DEF Publish
  <2>2. newest' \in BOOLEAN
    BY <1>9 DEF Publish
  <2>3. Queued /\ source = "WEBHOOK"
    BY <2>1 DEF Queued, Busy, QueueInv, JobTypes
  <2> QED
    BY <1>1, <2>1, <2>2, <2>3 DEF QueueInv, taskVars, Queued, Busy
<1>10. CASE Others
  <2>1. UNCHANGED <<source, taskVars, stage, listed>>
    BY <1>10 DEF Others, jobVars
  <2>2. (newest' = newest \/ newest' = FALSE) /\ reviewed' \in {reviewed, 0}
    BY <1>10 DEF Others
  <2>3. newest' \in BOOLEAN
    BY <2>2 DEF QueueInv
  <2>4. source' = "REQUEST" => ~newest'
    BY <2>1, <2>2, Zenon DEF QueueInv
  <2> QED
    BY <1>1, <2>1, <2>2, <2>3, <2>4 DEF QueueInv, taskVars, Queued, Busy
<1>11. ASSUME NEW advice \in Advice, NEW supplied \in Supplied, Record(advice, supplied) PROVE QueueInv'
  <2>1. UNCHANGED <<source, taskVars, newest>> /\ reviewed' = claims /\ listed' = FALSE /\ stage = "ANALYZING"
    BY <1>11 DEF Record, LetGo
  <2>2. stage' = IF source = "WEBHOOK" THEN "REVIEWED" ELSE "IDLE"
    BY <1>11 DEF Record, LetGo
  <2> QED
    BY <1>1, <2>1, <2>2 DEF QueueInv, taskVars, Queued, Busy
<1>12. CASE UNCHANGED vars
  BY <1>2, <1>12 DEF vars, jobVars, outVars
<1> QED
  BY <1>3, <1>4, <1>5, <1>6, <1>7, <1>8, <1>9, <1>10, <1>11, <1>12 DEF Next

(* The steps of the queue. *)
LEMMA QueueWaits ==
  ASSUME QueueInv, BackoffEnds \/ LeaseEnds \/ Supersede
  PROVE  Queue!BackoffEnds("task") \/ Queue!LeaseEnds("task") \/ Queue!Supersede("task")
<1>1. CASE BackoffEnds
  <2>1. Queued' = Queued
    BY <1>1 DEF BackoffEnds, Queued, Busy
  <2> QED
    BY <1>1, <2>1 DEF BackoffEnds, Queue!BackoffEnds, taskVars, outVars, Queued, Busy,
                      Queue!jobVars, Queue!githubVars
<1>2. CASE LeaseEnds
  <2>1. ~Queued /\ ~Queued'
    BY <1>2 DEF LeaseEnds, Queued, Busy
  <2> QED
    BY <1>2, <2>1 DEF LeaseEnds, QueueInv, Queue!LeaseEnds, Queue!HeldBy, Queue!Busy, taskVars, outVars,
                      Queue!jobVars, Queue!githubVars
<1>3. CASE Supersede
  <2>1. Queued' = Queued
    BY <1>3 DEF Supersede, Queued, Busy
  <2> QED
    BY <1>3, <2>1 DEF Supersede, QueueInv, Queue!Supersede, taskVars, outVars,
                      Queue!jobVars, Queue!githubVars, Queued, Busy
<1> QED
  BY <1>1, <1>2, <1>3

LEMMA QueueClaims == QueueInv /\ Claim => Queue!Claim("worker", "task")
<1> SUFFICES ASSUME QueueInv, Claim PROVE Queue!Claim("worker", "task")
  OBVIOUS
<1>1. ~Queued /\ Queued' /\ stage' = "COLLECTING" /\ stage # "BACKOFF"
  BY DEF Claim, Queued, Busy
<1>2. Queue!Claimable("task")
  BY DEF Claim, QueueInv, Queue!Claimable
<1> QED
  BY <1>1, <1>2 DEF Claim, QueueInv, Queue!Claim, outVars, Queue!githubVars

LEMMA QueueReviews ==
  ASSUME QueueInv, source = "WEBHOOK",
         NEW advice \in Advice, NEW supplied \in Supplied, Record(advice, supplied)
  PROVE  Queue!Review("worker")
<1>1. Queued /\ Queued' /\ stage = "ANALYZING" /\ stage' = "REVIEWED"
  BY DEF Record, LetGo, Queued, Busy
<1>2. UNCHANGED <<source, status, claims, crashes, checkRun, newest>> /\ reviewed' = claims
  BY DEF Record, LetGo, taskVars
<1>3. listed = FALSE /\ listed' = FALSE
  <2>1. listed \in BOOLEAN /\ ~listed
    BY <1>1 DEF QueueInv
  <2>2. listed' = FALSE
    BY DEF Record, LetGo
  <2> QED
    BY <2>1, <2>2
<1>4. claims # 0
  BY <1>1 DEF QueueInv
<1> QED
  BY <1>1, <1>2, <1>3, <1>4 DEF Queue!Review, Queue!taskVars, Queue!githubVars

LEMMA QueuePublishes ==
  ASSUME QueueInv, List \/ Publish
  PROVE  Queue!List("worker") \/ Queue!Publish("worker")
<1>1. source = "WEBHOOK"
  BY DEF List, Publish, QueueInv, JobTypes
<1>2. CASE List
  <2>1. Queued /\ Queued' /\ stage = "REVIEWED" /\ stage' = "LISTED"
    BY <1>1, <1>2 DEF List, Queued, Busy
  <2>2. listed' \in BOOLEAN /\ Queue!Listed("task", listed')
    BY <1>2, QueueTaskAssumption DEF List, Queue!Listed, QueueTaskAssumption, QueueInv
  <2> QED
    BY <1>2, <2>1, <2>2 DEF List, Queue!List, taskVars, outVars, Queue!taskVars, Queue!githubVars
<1>3. CASE Publish
  <2>1. Queued /\ Queued' /\ stage = "LISTED" /\ stage' = "PUBLISHED"
    BY <1>1, <1>3 DEF Publish, Queued, Busy
  <2>2. IF newest' THEN Queue!NewestAfter("task", listed) = "task" ELSE Queue!NewestAfter("task", listed) = None
    BY <1>3, <2>1, QueueTaskAssumption DEF Publish, Queue!NewestAfter, QueueTaskAssumption, QueueInv
  <2>3. [c \in {"commit"} |-> IF newest' THEN "task" ELSE None] =
          [[c \in {"commit"} |-> IF newest THEN "task" ELSE None]
             EXCEPT !["commit"] = Queue!NewestAfter("task", listed)]
    BY <2>2
  <2>4. /\ [w \in {"worker"} |-> IF Queued THEN "task" ELSE None]["worker"] = "task"
        /\ [w \in {"worker"} |-> listed]["worker"] = listed
        /\ [t \in {"task"} |-> "commit"]["task"] = "commit"
    BY <2>1
  <2> QED
    BY <1>3, <2>1, <2>3, <2>4 DEF Publish, Queue!Publish, taskVars, Queue!taskVars
<1> QED
  BY <1>2, <1>3

(* What others do to the review and to the list of Check Runs. *)
LEMMA QueueOthers ==
  ASSUME QueueInv, Others
  PROVE  Queue!OthersReview("commit") \/ Queue!OthersCheckRun("commit")
<1>1. /\ Shared
      /\ UNCHANGED <<source, status, claims, crashes, stage, listed, checkRun>>
  BY DEF Others, taskVars, jobVars
<1>2. Queued' = Queued
  BY <1>1 DEF Queued, Busy
<1>3. CASE reviewed # 0 /\ reviewed' = 0 /\ newest' = newest
  BY <1>1, <1>2, <1>3, QueueTaskAssumption
     DEF QueueTaskAssumption, Queue!OthersReview, Queue!Unreviewed, Queue!taskVars, Queue!jobVars, Queue!githubVars
<1>4. CASE newest /\ newest' = FALSE /\ reviewed' = reviewed
  BY <1>1, <1>2, <1>4, QueueTaskAssumption
     DEF QueueTaskAssumption, Queue!OthersCheckRun, Queue!taskVars, Queue!jobVars
<1> QED
  BY <1>3, <1>4 DEF Others

LEMMA QueueLetsGo ==
  ASSUME QueueInv, Complete \/ Crash \/ Fail, source = "WEBHOOK"
  PROVE  Queue!Complete("worker") \/ Queue!Crash("worker") \/ Queue!Fail("worker")
<1>1. Queued /\ Busy
  BY DEF Complete, Crash, Fail, Queued, Busy
<1>2. ~Busy' /\ source' = source
  BY DEF Complete, Crash, Fail, LetGo, Busy
<1>3. ~Queued'
  BY <1>2 DEF Queued
<1>4. listed' = FALSE
  BY DEF Complete, Crash, Fail, LetGo
<1>5. Queue!LetGo("worker")
  <2>1. [w \in {"worker"} |-> IF Queued THEN "task" ELSE None]' =
          [[w \in {"worker"} |-> IF Queued THEN "task" ELSE None] EXCEPT !["worker"] = None]
    BY <1>1, <1>3
  <2>2. [w \in {"worker"} |-> IF Queued THEN claims ELSE 0]' =
          [[w \in {"worker"} |-> IF Queued THEN claims ELSE 0] EXCEPT !["worker"] = 0]
    BY <1>1, <1>3
  <2>3. [w \in {"worker"} |-> listed]' = [[w \in {"worker"} |-> listed] EXCEPT !["worker"] = FALSE]
    BY <1>4
  <2>4. [w \in {"worker"} |-> IF ~Queued THEN "IDLE"
                              ELSE IF stage \in {"COLLECTING", "ANALYZING"} THEN "CLAIMED" ELSE stage]' =
          [[w \in {"worker"} |-> IF ~Queued THEN "IDLE"
                               ELSE IF stage \in {"COLLECTING", "ANALYZING"} THEN "CLAIMED" ELSE stage]
             EXCEPT !["worker"] = "IDLE"]
    BY <1>1, <1>3
  <2> QED
    BY <2>1, <2>2, <2>3, <2>4, Zenon DEF Queue!LetGo
<1>6. stage # "BACKOFF" /\ stage # "LAPSED"
  BY <1>1 DEF Busy
<1>7. CASE Complete
  <2>1. UNCHANGED <<claims, crashes, reviewed, checkRun, newest>> /\ stage' = "IDLE" /\ stage = "PUBLISHED"
    BY <1>7 DEF Complete, LetGo, outVars
  <2>2. Queue!Settle("task", "COMPLETED")
    BY <1>6, <1>7, <2>1 DEF Complete, Queue!Settle
  <2> QED
    BY <1>1, <1>5, <1>6, <2>1, <2>2 DEF Queue!Complete, Queue!githubVars
<1>8. Queue!Busy("worker")
  BY <1>1 DEF Queue!Busy, Busy
<1>9. CASE Crash
  <2>1. UNCHANGED <<status, claims, reviewed, checkRun, newest>> /\ crashes < MaxCrashes /\ crashes' = crashes + 1
    BY <1>9 DEF Crash, outVars
  <2>2. stage' # "BACKOFF" /\ stage' # "LAPSED"
    BY <1>9 DEF Crash, LetGo
  <2>3. [t \in {"task"} |-> status = "PROCESSING" /\ stage # "LAPSED"]' =
          [t \in {"task"} |-> status = "PROCESSING" /\ stage # "LAPSED"]
    BY <1>6, <2>1, <2>2
  <2>4. [t \in {"task"} |-> stage # "BACKOFF"]' = [t \in {"task"} |-> stage # "BACKOFF"]
    BY <1>6, <2>2
  <2>5. Queue!GivenUp("worker")
    BY <1>9 DEF Crash, outVars, Queue!GivenUp
  <2> QED
    BY <1>5, <1>8, <2>1, <2>3, <2>4, <2>5 DEF Queue!Crash, Queue!taskVars
<1>10. CASE Fail
  <2>1. UNCHANGED <<claims, crashes, reviewed, checkRun, newest>>
    BY <1>10 DEF Fail, outVars
  <2>2. [w \in {"worker"} |-> IF Queued THEN "task" ELSE None]["worker"] = "task"
        /\ [w \in {"worker"} |-> IF Queued THEN claims ELSE 0]["worker"] = claims
    BY <1>1
  <2>3. Queue!GivenUp("worker")
    BY <2>1 DEF Queue!GivenUp
  <2>4. CASE status = "PROCESSING"
    <3>1. stage' = "BACKOFF" /\ status' = IF claims >= MaximumAttempts THEN "FAILED" ELSE "PENDING"
      BY <1>10, <2>4 DEF Fail, LetGo
    <3>2. Queue!Settle("task", IF Queue!Terminal("worker") THEN "FAILED" ELSE "PENDING")
      BY <1>6, <2>2, <2>4, <3>1 DEF Queue!Settle, Queue!Terminal
    <3>3. [t \in {"task"} |-> stage # "BACKOFF"]' = [[t \in {"task"} |-> stage # "BACKOFF"] EXCEPT !["task"] = FALSE]
      BY <3>1
    <3> QED
      BY <1>5, <1>8, <2>1, <2>2, <2>3, <2>4, <3>2, <3>3 DEF Queue!Fail
  <2>5. CASE status # "PROCESSING"
    <3>1. stage' = "IDLE" /\ status' = status
      BY <1>10, <2>5 DEF Fail, LetGo
    <3>2. Queue!Settle("task", IF Queue!Terminal("worker") THEN "FAILED" ELSE "PENDING")
      BY <1>6, <2>5, <3>1 DEF Queue!Settle
    <3>3. [t \in {"task"} |-> stage # "BACKOFF"]' = [t \in {"task"} |-> stage # "BACKOFF"]
      BY <1>6, <3>1
    <3> QED
      BY <1>5, <1>8, <2>1, <2>2, <2>3, <2>5, <3>2, <3>3 DEF Queue!Fail
  <2> QED
    BY <2>4, <2>5
<1> QED
  BY <1>7, <1>9, <1>10

(* What collects or analyzes, or is a request's, is nothing to the queue. *)
LEMMA QueueStutters ==
  ASSUME UNCHANGED <<status, claims, crashes, listed, reviewed, checkRun, newest>>,
         {stage, stage'} \cap {"BACKOFF", "LAPSED"} = {},
         \/ ~Queued /\ ~Queued'
         \/ Queued /\ Queued' /\ {stage, stage'} \subseteq {"COLLECTING", "ANALYZING"}
  PROVE  UNCHANGED Queue!vars
<1>1. [t \in {"task"} |-> stage # "BACKOFF"]' = [t \in {"task"} |-> stage # "BACKOFF"]
  OBVIOUS
<1>2. [t \in {"task"} |-> status = "PROCESSING" /\ stage # "LAPSED"]' =
        [t \in {"task"} |-> status = "PROCESSING" /\ stage # "LAPSED"]
  OBVIOUS
<1>3. [w \in {"worker"} |-> IF ~Queued THEN "IDLE"
                            ELSE IF stage \in {"COLLECTING", "ANALYZING"} THEN "CLAIMED" ELSE stage]' =
        [w \in {"worker"} |-> IF ~Queued THEN "IDLE"
                              ELSE IF stage \in {"COLLECTING", "ANALYZING"} THEN "CLAIMED" ELSE stage]
  OBVIOUS
<1>4. /\ [w \in {"worker"} |-> IF Queued THEN "task" ELSE None]' =
           [w \in {"worker"} |-> IF Queued THEN "task" ELSE None]
      /\ [w \in {"worker"} |-> IF Queued THEN claims ELSE 0]' =
           [w \in {"worker"} |-> IF Queued THEN claims ELSE 0]
  OBVIOUS
<1> QED
  BY <1>1, <1>2, <1>3, <1>4 DEF Queue!vars, Queue!taskVars, Queue!jobVars, Queue!githubVars

LEMMA QueueSteps == QueueInv /\ [Next]_vars => [QueueStep]_(Queue!vars)
<1> SUFFICES ASSUME QueueInv, [Next]_vars PROVE QueueStep \/ UNCHANGED Queue!vars
  OBVIOUS
<1>1. CASE UNCHANGED <<source, taskVars, stage, listed, outVars>>
  BY <1>1 DEF QueueStep
<1>2. Github => UNCHANGED <<source, taskVars, stage, listed, outVars>>
  BY GithubKeeps DEF GithubKept, jobVars, QueueInv
<1>3. GetRun \/ GetJobs \/ GetPull \/ GetDiff \/ AskAgain =>
        UNCHANGED <<source, taskVars, stage, listed, outVars>>
  BY DEF GetRun, GetJobs, GetPull, GetDiff, AskAgain
<1>4. \A t \in Target :
        ListArtifact(t) \/ Download(t) => UNCHANGED <<source, taskVars, stage, listed, outVars>>
  BY DEF ListArtifact, Download
<1>5. UNCHANGED vars => UNCHANGED <<source, taskVars, stage, listed, outVars>>
  BY DEF vars, jobVars
<1>6. CASE BackoffEnds \/ LeaseEnds \/ Supersede
  BY <1>6, QueueWaits DEF QueueStep, Queue!Next
<1>7. CASE Claim
  BY <1>7, QueueClaims DEF QueueStep, Queue!Next
<1>8. CASE List \/ Publish
  BY <1>8, QueuePublishes DEF QueueStep, Queue!Next
<1>9. CASE Analyze
  <2>1. /\ UNCHANGED <<source, status, claims, crashes, listed, reviewed, checkRun, newest>>
        /\ stage = "COLLECTING" /\ stage' = "ANALYZING"
    BY <1>9 DEF Analyze, taskVars, outVars
  <2>2. Busy /\ Busy'
    BY <2>1 DEF Busy
  <2> QED
    BY <2>1, <2>2, QueueStutters DEF Queued
<1>10. CASE (Crash \/ Fail \/ Complete) /\ source = "WEBHOOK"
  BY <1>10, QueueLetsGo DEF QueueStep, Queue!Next
<1>11. CASE (Crash \/ Fail \/ Complete) /\ source # "WEBHOOK"
  <2>1. Fail /\ source = "REQUEST"
    BY <1>11 DEF Crash, Complete, QueueInv, TypeOK
  <2>2. /\ UNCHANGED <<source, status, claims, crashes, reviewed, checkRun, newest>>
        /\ stage' = "IDLE" /\ listed' = FALSE
    BY <2>1 DEF Fail, LetGo, outVars
  <2>3. listed \in BOOLEAN /\ ~listed /\ stage \in {"IDLE", "COLLECTING", "ANALYZING"}
    BY <2>1 DEF QueueInv
  <2>4. listed' = listed
    BY <2>2, <2>3
  <2> QED
    BY <2>1, <2>2, <2>3, <2>4, QueueStutters DEF Queued
<1>12. ASSUME NEW advice \in Advice, NEW supplied \in Supplied, Record(advice, supplied)
       PROVE  QueueStep \/ UNCHANGED Queue!vars
  <2>1. CASE source = "WEBHOOK"
    BY <1>12, <2>1, QueueReviews DEF QueueStep, Queue!Next
  <2>2. CASE source # "WEBHOOK"
    <3>1. /\ UNCHANGED <<source, status, claims, crashes, checkRun, newest>>
          /\ stage' = "IDLE" /\ listed' = FALSE /\ reviewed' = claims
      BY <1>12, <2>2 DEF Record, LetGo, taskVars
    <3>2. /\ listed \in BOOLEAN /\ ~listed /\ stage \in {"IDLE", "COLLECTING", "ANALYZING"}
          /\ claims = 0 /\ reviewed = 0
      BY <2>2 DEF QueueInv, TypeOK
    <3>3. listed' = listed /\ reviewed' = reviewed
      BY <3>1, <3>2
    <3> QED
      BY <2>2, <3>1, <3>2, <3>3, QueueStutters DEF Queued
  <2> QED
    BY <2>1, <2>2
<1>13. CASE Others
  BY <1>13, QueueOthers DEF QueueStep, Queue!Next
<1> QED
  BY <1>1, <1>2, <1>3, <1>4, <1>5, <1>6, <1>7, <1>8, <1>9, <1>10, <1>11, <1>12, <1>13 DEF Next

(* The job does to its task, its review and its Check Run what the job of  *)
(* the queue does in fewer steps, as long as no publication that it gave   *)
(* up is applied; a request leaves the queue alone.                        *)
THEOREM QueueRefinement == Spec => ImplementsQueue
<1>1. Init => Queue!Init
  <2> SUFFICES ASSUME Init PROVE Queue!Init
    OBVIOUS
  <2>1. /\ status = "PENDING" /\ claims = 0 /\ crashes = 0 /\ stage \in {"IDLE", "COLLECTING"}
        /\ reviewed = 0 /\ newest = FALSE /\ listed = FALSE /\ checkRun.count = 0 /\ checkRun.claim = 0
    BY DEF Init, NoCheckRun
  <2>2. ~Queued
    BY DEF Init, Queued, Busy
  <2>3. stage # "BACKOFF" /\ ~(status = "PROCESSING" /\ stage # "LAPSED")
    BY <2>1
  <2> QED
    BY <2>1, <2>2, <2>3 DEF Queue!Init, Queue!Unreviewed
<1>2. QueueInv /\ [Next]_vars => [QueueStep]_(Queue!vars)
  BY QueueSteps
<1>3. Spec => []QueueInv
  BY InitQueued, NextQueued, PTL DEF Spec
<1> QED
  BY <1>1, <1>2, <1>3, PTL DEF Spec, ImplementsQueue

=============================================================================
