------------------------------ MODULE ReviewJob ------------------------------
(***************************************************************************)
(* One review from the first request to GitHub to its Check Run, while     *)
(* GitHub goes on changing: the pull request is pushed to, the workflow is *)
(* run again, artifacts are uploaded and deleted between any two requests. *)
(*                                                                         *)
(* A review is made for the WEBHOOK's task, the first attempt of a run on  *)
(* Head (DefaultGitHubWorkflowRunProcessor in a durable worker, whose      *)
(* queue WorkflowQueue models for several workers), or for a REQUEST to    *)
(* POST /github/reviews, whose caller supplies the change and whose        *)
(* attempt is the one the run is found at (DefaultGitHubReviewController). *)
(*                                                                         *)
(* GitHub is external.  The requests for the installation and its tokens   *)
(* bring nothing the review is made of and appear only by failing; so do   *)
(* responses of the wrong shape or size, and a mismatch that the code      *)
(* answers with an error.                                                  *)
(***************************************************************************)
EXTENDS ReviewPolicy, EvidenceReport

CONSTANTS
  Sha, Head,        \* commits, and the one under review
  Target,           \* names of artifacts
  Result,           \* what an attempt may come to: [conclusion, jobs]
  Scan,             \* what a scan may find, a sequence of [key, severity],
                    \* or None if its archive or its JSON is not accepted
  Supplied,         \* what a request may bring: [tests, security]
  Advice,           \* what the model may advise
  MockAdvice,       \* what MockIntelligenceEngine always says
  Changed,          \* commit -> the files its diff changes
  Overlong,         \* commits whose diff is too long once secrets in it
                    \* are replaced by longer placeholders
  MaxRetries,       \* OPENAI_MAX_RETRIES
  MaximumAttempts,  \* GITHUB_AUTOMATION_MAX_ATTEMPTS
  Shared,           \* whether other runs and requests review Head too
  MaxRunAttempt, MaxPushes, MaxCrashes   \* bounds for model checking

ASSUME ReviewJobAssumption ==
  /\ Head \in Sha
  /\ Shared \in BOOLEAN
  /\ Overlong \subseteq Sha
  /\ MaxRetries \in Nat
  /\ MaximumAttempts \in Nat \ {0}
  /\ MaxRunAttempt \in Nat \ {0}
  /\ MaxPushes \in Nat /\ MaxCrashes \in Nat
  /\ MockAdvice \in Advice

(* The queue's task, in the mapping below. *)
ASSUME QueueTaskAssumption == None # "task"

(* Every attempt ends with a conclusion and jobs, whose names and those of *)
(* their steps are what the patterns are applied to.                       *)
ASSUME ResultAssumption ==
  \A r \in Result :
    /\ r = [conclusion |-> r.conclusion, jobs |-> r.jobs]
    /\ \A j \in r.jobs : {j.name} \cup {s.name : s \in j.steps} \subseteq DOMAIN Matches

ASSUME ScanAssumption ==
  \A scan \in Scan \ {None} :
    /\ IsFiniteSet(DOMAIN scan)
    /\ scan \in [1 .. Cardinality(DOMAIN scan) -> [key : {scan[i].key : i \in DOMAIN scan},
                                                   severity : Severity \cup {"UNKNOWN"}]]
    /\ \A i \in DOMAIN scan : scan[i].key \in Nat

VARIABLES
  head, pushes,                  \* GitHub: the pull request's head
  runAttempt, running, results,  \* GitHub: the run's latest attempt, whether
                                 \* it is running, what each attempt came to
  artifacts,                     \* GitHub: the run's artifacts by name
  adapter,                       \* what makes the reports of each name
  source,                        \* who asked for the review
  status, claims, stage,         \* the task, and the job of its worker
  ci, change, found,             \* what the job has collected
  provider, tries,               \* which model is asked, and how often
  recorded,                      \* the review the job recorded last
  reviewed,                      \* the claim whose review the release has, 0
                                 \* while it has none or another's
  listed, checkRun,              \* publishCheckRun, and what GitHub shows
  newest,                        \* GitHub: whether no other Check Run was
                                 \* published since the task's was created
  crashes

githubVars == <<head, pushes, runAttempt, running, results, artifacts, adapter>>
taskVars   == <<status, claims, crashes>>
jobVars    == <<stage, ci, change, found, provider, tries, listed>>
outVars    == <<recorded, reviewed, checkRun, newest>>
vars       == <<githubVars, source, taskVars, jobVars, outVars>>

(* LEASED and LAPSED are a task's without a worker: one has died. *)
Stages == {"IDLE", "BACKOFF", "LEASED", "LAPSED", "COLLECTING", "ANALYZING",
           "REVIEWED", "LISTED", "PUBLISHED"}

Artifact == [attempt : 1 .. MaxRunAttempt, scan : Scan]

ASSUME ArtifactAssumption == None \notin Artifact

Unread     == [at |-> "LIST", artifact |-> None]
NoCi       == [at |-> "RUN", attempt |-> 0, conclusion |-> None, jobs |-> {}]
NoCheckRun == [conclusion |-> None, claim |-> 0, count |-> 0]
NoChange   == [at |-> "PULL", diff |-> None, pushes |-> 0, still |-> TRUE]

Init ==
  /\ head = Head /\ pushes = 0
  /\ runAttempt = 1 /\ running = FALSE
  /\ results \in [{1} -> Result]
  /\ artifacts \in [Target -> {{}} \cup {{[attempt |-> 1, scan |-> s]} : s \in Scan}]
  /\ adapter \in [Target -> Adapter]
  /\ source \in {"WEBHOOK", "REQUEST"}
  /\ status = "PENDING" /\ claims = 0 /\ crashes = 0
  /\ stage = IF source = "WEBHOOK" THEN "IDLE" ELSE "COLLECTING"
  /\ ci = NoCi
  /\ IF source = "WEBHOOK" THEN change = NoChange
     ELSE \E d \in Sha : change = [at |-> "DONE", diff |-> d, pushes |-> 0, still |-> TRUE]
  /\ found = [t \in Target |-> Unread]
  /\ provider = None /\ tries = 0
  /\ recorded = None /\ reviewed = 0
  /\ listed = FALSE /\ checkRun = NoCheckRun /\ newest = FALSE

----------------------------------------------------------------------------
(* GitHub. *)

Push(h) ==
  /\ pushes < MaxPushes
  /\ h # head
  /\ head' = h
  /\ pushes' = pushes + 1
  /\ UNCHANGED <<runAttempt, running, results, artifacts, adapter, source, taskVars, jobVars, outVars>>

Rerun ==
  /\ ~running
  /\ runAttempt < MaxRunAttempt
  /\ runAttempt' = runAttempt + 1
  /\ running' = TRUE
  /\ UNCHANGED <<head, pushes, results, artifacts, adapter, source, taskVars, jobVars, outVars>>

Upload(t, s) ==
  /\ running
  /\ \A a \in artifacts[t] : a.attempt # runAttempt
  /\ artifacts' = [artifacts EXCEPT ![t] = @ \cup {[attempt |-> runAttempt, scan |-> s]}]
  /\ UNCHANGED <<head, pushes, runAttempt, running, results, adapter, source, taskVars, jobVars, outVars>>

RerunEnds(result) ==
  /\ running
  /\ running' = FALSE
  /\ results' = [a \in 1 .. runAttempt |-> IF a = runAttempt THEN result ELSE results[a]]
  /\ UNCHANGED <<head, pushes, runAttempt, artifacts, adapter, source, taskVars, jobVars, outVars>>

Delete(t) ==
  /\ artifacts[t] # {}
  /\ artifacts' = [artifacts EXCEPT ![t] = {}]
  /\ UNCHANGED <<head, pushes, runAttempt, running, results, adapter, source, taskVars, jobVars, outVars>>

Github ==
  \/ \E h \in Sha : Push(h)
  \/ Rerun
  \/ \E t \in Target : Delete(t) \/ \E s \in Scan : Upload(t, s)
  \/ \E result \in Result : RerunEnds(result)

----------------------------------------------------------------------------
(* The queue, as far as one worker sees it. *)

Busy == stage \in {"COLLECTING", "ANALYZING", "REVIEWED", "LISTED", "PUBLISHED"}

LetGo(next) ==
  /\ stage' = next
  /\ ci' = NoCi
  /\ change' = NoChange
  /\ found' = [t \in Target |-> Unread]
  /\ provider' = None /\ tries' = 0
  /\ listed' = FALSE

BackoffEnds ==
  /\ stage = "BACKOFF"
  /\ stage' = "IDLE"
  /\ UNCHANGED <<githubVars, source, taskVars, ci, change, found, provider, tries, listed, outVars>>

LeaseEnds ==
  /\ stage = "LEASED"
  /\ stage' = "LAPSED"
  /\ UNCHANGED <<githubVars, source, taskVars, ci, change, found, provider, tries, listed, outVars>>

Claim ==
  /\ source = "WEBHOOK"
  /\ \/ stage = "IDLE" /\ status = "PENDING"
     \/ stage = "LAPSED"
  /\ status' = "PROCESSING"
  /\ claims' = claims + 1
  /\ stage' = "COLLECTING"
  /\ UNCHANGED <<githubVars, source, crashes, ci, change, found, provider, tries, listed, outVars>>

(* A delivery of another head supersedes the task, also under its worker.  *)
Supersede ==
  /\ source = "WEBHOOK"
  /\ head # Head
  /\ status \in {"PENDING", "PROCESSING"}
  /\ status' = "SUPERSEDED"
  /\ stage' = IF stage \in {"LEASED", "LAPSED"} THEN "IDLE" ELSE stage
  /\ UNCHANGED <<githubVars, source, claims, crashes, ci, change, found, provider, tries, listed, outVars>>

Crash ==
  /\ source = "WEBHOOK"
  /\ Busy
  /\ crashes < MaxCrashes
  /\ crashes' = crashes + 1
  /\ LetGo(IF status = "PROCESSING" THEN "LEASED" ELSE "IDLE")
  /\ UNCHANGED <<githubVars, source, status, claims, outVars>>

(* Anything an await of the job waits for may fail; what it collected is   *)
(* dropped.  A request's caller gets the error.                            *)
Fail ==
  /\ Busy
  /\ IF source = "WEBHOOK" /\ status = "PROCESSING"
     THEN /\ status' = IF claims >= MaximumAttempts THEN "FAILED" ELSE "PENDING"
          /\ LetGo("BACKOFF")
     ELSE status' = status /\ LetGo("IDLE")
  /\ UNCHANGED <<githubVars, source, claims, crashes, outVars>>

----------------------------------------------------------------------------
(* collect: the run as it is now, then the jobs of the attempt it is at.   *)

RunMatches == ~running /\ (source = "WEBHOOK" => runAttempt = 1)

GetRun ==
  /\ stage = "COLLECTING" /\ ci.at = "RUN"
  /\ RunMatches
  /\ ci' = [at |-> "JOBS", attempt |-> runAttempt,
            conclusion |-> results[runAttempt].conclusion, jobs |-> {}]
  /\ UNCHANGED <<githubVars, source, taskVars, stage, change, found, provider, tries, listed, outVars>>

(* Mutant: the jobs of the latest attempt are asked for. *)
GetJobsOfLatest ==
  /\ stage = "COLLECTING" /\ ci.at = "JOBS"
  /\ ~running
  /\ ci' = [ci EXCEPT !.at = "DONE", !.jobs = results[runAttempt].jobs]
  /\ UNCHANGED <<githubVars, source, taskVars, stage, change, found, provider, tries, listed, outVars>>

GetJobs ==
  /\ stage = "COLLECTING" /\ ci.at = "JOBS"
  /\ ci' = [ci EXCEPT !.at = "DONE", !.jobs = results[ci.attempt].jobs]
  /\ UNCHANGED <<githubVars, source, taskVars, stage, change, found, provider, tries, listed, outVars>>

CollectedRun == [conclusion |-> ci.conclusion, jobs |-> ci.jobs]

(* collectPullRequestChange: the head is that of the first request, the    *)
(* diff that of the second.                                                *)

(* Mutant: the head is not compared. *)
HeadMatchesAny == TRUE

HeadMatches == head = Head

GetPull ==
  /\ stage = "COLLECTING" /\ change.at = "PULL"
  /\ HeadMatches
  /\ change' = [change EXCEPT !.at = "DIFF", !.pushes = pushes]
  /\ UNCHANGED <<githubVars, source, taskVars, stage, ci, found, provider, tries, listed, outVars>>

GetDiff ==
  /\ stage = "COLLECTING" /\ change.at = "DIFF"
  /\ change' = [at |-> "DONE", diff |-> head, pushes |-> 0, still |-> pushes = change.pushes]
  /\ UNCHANGED <<githubVars, source, taskVars, stage, ci, found, provider, tries, listed, outVars>>

(* collectExternalEvidence: each target by itself, listed and downloaded.  *)
(* More than one artifact of a name is refused, none is no evidence.       *)

ListArtifact(t) ==
  /\ stage = "COLLECTING" /\ found[t].at = "LIST"
  /\ source = "WEBHOOK" \/ ci.at = "DONE"
  /\ \/ /\ artifacts[t] = {}
        /\ found' = [found EXCEPT ![t].at = "DONE"]
     \/ \E a \in artifacts[t] :
          /\ artifacts[t] = {a}
          /\ found' = [found EXCEPT ![t] = [at |-> "DOWNLOAD", artifact |-> a]]
  /\ UNCHANGED <<githubVars, source, taskVars, stage, ci, change, provider, tries, listed, outVars>>

(* The archive holds the one file and the file is a report. *)
Readable(a) == a.scan # None

(* Mutant: the attempt in the report is not compared. *)
ReportMatchesAny(a) == TRUE

ReportMatches(a) == a.attempt = IF source = "WEBHOOK" THEN 1 ELSE ci.attempt

(* Size and digest are compared: what is read is what was listed. *)
Download(t) ==
  /\ stage = "COLLECTING" /\ found[t].at = "DOWNLOAD"
  /\ found[t].artifact \in artifacts[t]
  /\ Readable(found[t].artifact) /\ ReportMatches(found[t].artifact)
  /\ found' = [found EXCEPT ![t].at = "DONE"]
  /\ UNCHANGED <<githubVars, source, taskVars, stage, ci, change, provider, tries, listed, outVars>>

Collected == {t \in Target : found[t].artifact # None}

----------------------------------------------------------------------------
(* createReview, and publishCheckRun. *)

Analyze ==
  /\ stage = "COLLECTING"
  /\ ci.at = "DONE" /\ change.at = "DONE" /\ \A t \in Target : found[t].at = "DONE"
  /\ stage' = "ANALYZING"
  /\ provider' \in {"MOCK", "OPENAI"}
  /\ tries' = 1
  /\ UNCHANGED <<githubVars, source, taskVars, ci, change, found, listed, outVars>>

(* The model is asked only with a prompt whose texts keep their bounds. *)
Promptable == change.diff \notin Overlong

(* A retryable error; any other, a refusal or an invalid answer is Fail.   *)
AskAgain ==
  /\ stage = "ANALYZING" /\ provider = "OPENAI" /\ Promptable
  /\ tries < MaxRetries + 1
  /\ tries' = tries + 1
  /\ UNCHANGED <<githubVars, source, taskVars, stage, ci, change, found, provider, listed, outVars>>

Reports ==
  {Normalize(adapter[t], found[t].artifact.scan) : t \in Collected}

(* process: the tests' status is what the run's steps say. *)
EvidenceOfDelivery ==
  [ci |-> CollectedRun, tests |-> DeriveTestStatus(CollectedRun), security |-> {}, reports |-> Reports]

(* A request brings its own test status and security findings. *)
EvidenceOfRequest(supplied) ==
  [ci |-> CollectedRun, tests |-> supplied.tests, security |-> supplied.security, reports |-> Reports]

Evidence(supplied) ==
  IF source = "WEBHOOK" THEN EvidenceOfDelivery ELSE EvidenceOfRequest(supplied)

Record(advice, supplied) ==
  /\ stage = "ANALYZING"
  /\ IF provider = "MOCK" THEN advice = MockAdvice ELSE Promptable
  /\ DiagnosticParses(CollectedRun, advice.diagnosis)
  /\ recorded' = [review   |-> Review(Evidence(supplied), advice, Changed[change.diff]),
                  evidence |-> Evidence(supplied),
                  attempt  |-> ci.attempt,
                  reported |-> {found[t].artifact.attempt : t \in Collected},
                  diff     |-> change.diff,
                  still    |-> change.still]
  /\ reviewed' = claims
  /\ LetGo(IF source = "WEBHOOK" THEN "REVIEWED" ELSE "IDLE")
  /\ UNCHANGED <<githubVars, source, taskVars, checkRun, newest>>

(* The latest Check Runs of the name hold the task's own for sure only     *)
(* while it is the newest (filter=latest).                                 *)
List ==
  /\ stage = "REVIEWED"
  /\ stage' = "LISTED"
  /\ listed' \in BOOLEAN
  /\ listed' => checkRun.count > 0
  /\ newest => listed'
  /\ UNCHANGED <<githubVars, source, taskVars, ci, change, found, provider, tries, outVars>>

(* Mutant: the Check Run is published but the list was not looked at. *)
PublishNew ==
  /\ stage = "LISTED"
  /\ checkRun' = [conclusion |-> CheckRunConclusion(recorded.review), claim |-> claims,
                  count |-> checkRun.count + 1]
  /\ newest' = (~listed \/ newest)
  /\ stage' = "PUBLISHED"
  /\ UNCHANGED <<githubVars, source, taskVars, ci, change, found, provider, tries, listed, recorded, reviewed>>

Publish ==
  /\ stage = "LISTED"
  /\ checkRun' = [conclusion |-> CheckRunConclusion(recorded.review), claim |-> claims,
                  count |-> IF listed THEN checkRun.count ELSE checkRun.count + 1]
  /\ newest' = (~listed \/ newest)
  /\ stage' = "PUBLISHED"
  /\ UNCHANGED <<githubVars, source, taskVars, ci, change, found, provider, tries, listed, recorded, reviewed>>

(* Another run of the workflow on the commit, or a request, replaces the   *)
(* review on record and publishes a Check Run of the same name.            *)
Others ==
  /\ Shared
  /\ \/ reviewed # 0 /\ reviewed' = 0 /\ UNCHANGED newest
     \/ newest /\ newest' = FALSE /\ UNCHANGED reviewed
  /\ UNCHANGED <<githubVars, source, taskVars, jobVars, recorded, checkRun>>

Complete ==
  /\ stage = "PUBLISHED"
  /\ status' = IF status = "PROCESSING" THEN "COMPLETED" ELSE status
  /\ LetGo("IDLE")
  /\ UNCHANGED <<githubVars, source, claims, crashes, outVars>>

Next ==
  \/ Github
  \/ BackoffEnds \/ LeaseEnds \/ Claim \/ Supersede \/ Crash \/ Fail
  \/ GetRun \/ GetJobs \/ GetPull \/ GetDiff
  \/ \E t \in Target : ListArtifact(t) \/ Download(t)
  \/ Analyze \/ AskAgain
  \/ \E advice \in Advice, supplied \in Supplied : Record(advice, supplied)
  \/ List \/ Publish \/ Others \/ Complete

Spec == Init /\ [][Next]_vars

----------------------------------------------------------------------------
(* Properties.                                                             *)

(* The latest attempt that has ended. *)
LastEnded == IF running THEN runAttempt - 1 ELSE runAttempt

TypeOK ==
  /\ head \in Sha /\ pushes \in 0 .. MaxPushes
  /\ runAttempt \in 1 .. MaxRunAttempt /\ running \in BOOLEAN
  /\ results \in [1 .. LastEnded -> Result]
  /\ artifacts \in [Target -> SUBSET Artifact] /\ adapter \in [Target -> Adapter]
  /\ source \in {"WEBHOOK", "REQUEST"} /\ provider \in {None, "MOCK", "OPENAI"}
  /\ status \in {"PENDING", "PROCESSING", "COMPLETED", "FAILED", "SUPERSEDED"}
  /\ stage \in Stages
  /\ tries \in 0 .. MaxRetries + 1
  /\ crashes \in 0 .. MaxCrashes

(* A review's evidence is of one attempt of the run, the delivered one for *)
(* the webhook, although the requests for it are made one after another    *)
(* while the workflow may be run again (collect, collectExternalEvidence). *)
EvidenceIsOfOneAttempt ==
  recorded # None =>
    /\ source = "WEBHOOK" => recorded.attempt = 1
    /\ recorded.reported \subseteq {recorded.attempt}
    /\ recorded.evidence.ci = results[recorded.attempt]

(* The diff that is reviewed is that of the head under review, unless the  *)
(* pull request is pushed to between the request for its head and the one  *)
(* for its diff: the diff is not tied to a commit.                         *)
DiffIsOfHead ==
  recorded # None /\ source = "WEBHOOK" => recorded.diff = Head \/ ~recorded.still

Critical(a) == Readable(a) /\ \E k \in DOMAIN Found(a.scan) : Found(a.scan)[k] = "CRITICAL"

(* Whatever the model advises, a failed run and a critical finding of a    *)
(* scan whose artifact is still there block the review of the attempt; a   *)
(* critical finding that Trivy's report was cut short of only keeps it     *)
(* from being deployed at once (normalizeTrivyReport sorts by key).        *)
FailedEvidenceBlocks ==
  recorded # None =>
    LET review == recorded.review
    IN  /\ Outcome(results[recorded.attempt]) = "FAILED" => review.decision = "BLOCK"
        /\ \A t \in Target : \A a \in artifacts[t] :
             a.attempt = recorded.attempt /\ Critical(a) =>
               \/ review.decision = "BLOCK" /\ review.traffic = 0
               \/ /\ adapter[t] = "TRIVY" /\ Normalize("TRIVY", a.scan).truncated
                  /\ review.traffic < 100

(* A green Check Run is only shown for an attempt that succeeded, whose    *)
(* tests are known to have passed and of which no scan found worse than    *)
(* LOW, reported or not, whatever attempt of the job published it.         *)
GreenCheckIsEarned ==
  checkRun.conclusion = "success" =>
    /\ Outcome(results[1]) = "PASSED"
    /\ DeriveTestStatus(results[1]) = "passed"
    /\ \A t \in Target : \A a \in artifacts[t] :
         a.attempt = 1 =>
           /\ Readable(a)
           /\ \A k \in DOMAIN Found(a.scan) : Found(a.scan)[k] = "LOW"

(* A diagnosis says that the failure affects approval only in a review     *)
(* that is blocked, names only files of the diff that was reviewed, and is *)
(* the model's only for a failure that the name of a sole problem step     *)
(* does not already classify (buildCiDiagnostic).                          *)
DiagnosisAgrees ==
  recorded # None /\ recorded.review.diagnostic # None =>
    LET diagnostic == recorded.review.diagnostic
        run        == results[recorded.attempt]
    IN  /\ diagnostic.affectsApproval => recorded.review.decision = "BLOCK"
        /\ diagnostic.files \subseteq Changed[recorded.diff]
        /\ diagnostic.source = "INTELLIGENCE" =>
             Outcome(run) = "FAILED"
               /\ \A i \in ProblemSteps(run) : {i} = ProblemSteps(run) => Cardinality(Matches[i.name]) # 1

(* The job does to its task, its review and its Check Run what the job of  *)
(* WorkflowQueue does in fewer steps, as long as no publication that it    *)
(* gave up is applied; a request leaves the queue alone.                   *)
Queued == source = "WEBHOOK" /\ Busy

Queue == INSTANCE WorkflowQueue WITH
  Task      <- {"task"},
  Commit    <- {"commit"},
  CommitOf  <- [t \in {"task"} |-> "commit"],
  Shared    <- IF Shared THEN {"commit"} ELSE {},
  Worker    <- {"worker"},
  status    <- [t \in {"task"} |-> status],
  attempts  <- [t \in {"task"} |-> claims],
  due       <- [t \in {"task"} |-> stage # "BACKOFF"],
  leased    <- [t \in {"task"} |-> status = "PROCESSING" /\ stage # "LAPSED"],
  phase     <- [w \in {"worker"} |->
                  IF ~Queued THEN "IDLE"
                  ELSE IF stage \in {"COLLECTING", "ANALYZING"} THEN "CLAIMED" ELSE stage],
  holds     <- [w \in {"worker"} |-> IF Queued THEN "task" ELSE None],
  count     <- [w \in {"worker"} |-> IF Queued THEN claims ELSE 0],
  found     <- [w \in {"worker"} |-> listed],
  reviewed  <- [c \in {"commit"} |-> [by    |-> IF reviewed = 0 THEN None ELSE "task",
                                     claim |-> reviewed]],
  checkRuns <- [t \in {"task"} |-> checkRun.count],
  shown     <- [t \in {"task"} |-> checkRun.claim],
  newest    <- [c \in {"commit"} |-> IF newest THEN "task" ELSE None],
  MaxOnWire <- 0,
  onWire    <- {},
  outlived  <- {}

(* The first disjunct only spares TLC the second: such a step stutters.    *)
QueueStep == UNCHANGED <<source, taskVars, stage, listed, outVars>> \/ Queue!Next

ImplementsQueue == Queue!Init /\ [][QueueStep]_(Queue!vars)

=============================================================================
