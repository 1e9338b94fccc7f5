---------------------------- MODULE CanaryGuard ----------------------------
(***************************************************************************)
(* The durable release lifecycle of CanaryGuard: GitHub deliveries, the    *)
(* leased workflow workers, POST /reviews and POST /deployment-events, all *)
(* acting on the tables of ReleaseTables through the transactions of       *)
(* ReleaseLifecycleStore and DeploymentEventStore.                         *)
(*                                                                         *)
(* What is concurrent is what the code runs outside a transaction: a       *)
(* worker between its claim, its review, its Check Run and its completion; *)
(* a review request between resolveReleaseId and recordReview; a           *)
(* deployment event waiting for the release's row lock.                    *)
(*                                                                         *)
(* GitHub is external: a delivery may say anything GitHub can have been in *)
(* (a pull request's head moves freely, force pushes included) and arrives *)
(* late, out of order or not at all; a second arrival of the same delivery *)
(* is a transaction that rolls back.  Collecting evidence succeeds or      *)
(* fails freely, since GitHub's head may be ahead of the delivered one and *)
(* a closed pull request still has its head.                               *)
(***************************************************************************)
EXTENDS ReleaseLifecycleStore, DeploymentEventStore

CONSTANTS
  Worker,           \* concurrent runOnce calls of all instances' workers
  Reviewer,         \* concurrent POST /reviews requests
  Conn,             \* concurrent POST /deployment-events requests
  MaximumAttempts   \* GITHUB_AUTOMATION_MAXIMUM_ATTEMPTS

ASSUME MaximumAttemptsAssumption == MaximumAttempts \in Nat \ {0}

ASSUME NoneConnAssumption == None \notin Worker \cup Reviewer \cup Conn

VARIABLES
  jobPhase,      \* where a worker is in runOnce
  jobTask,       \* the task it claimed
  jobAttempts,   \* the attempts counter its claim returned
  reviewing,     \* the release a review request has resolved
  waiting,       \* the release a deployment event waits for ...
  snapshot       \* ... and the policy decision its SELECT saw

jobVars     == <<jobPhase, jobTask, jobAttempts>>
requestVars == <<reviewing, waiting, snapshot>>
vars        == <<tableVars, jobVars, requestVars>>

TypeOK ==
  /\ TablesTypeOK
  /\ jobPhase \in [Worker -> {"IDLE", "CLAIMED", "REVIEWED"}]
  /\ jobTask \in [Worker -> Run \cup {None}]
  /\ jobAttempts \in [Worker -> Nat]
  /\ reviewing \in [Reviewer -> SHA \cup {None}]
  /\ waiting \in [Conn -> SHA \cup {None}]
  /\ snapshot \in [Conn -> Strategies \cup {"NONE"}]

Init ==
  /\ TablesInit
  /\ jobPhase = [w \in Worker |-> "IDLE"]
  /\ jobTask = [w \in Worker |-> None]
  /\ jobAttempts = [w \in Worker |-> 0]
  /\ reviewing = [c \in Reviewer |-> None]
  /\ waiting = [c \in Conn |-> None]
  /\ snapshot = [c \in Conn |-> "NONE"]

----------------------------------------------------------------------------
(* GitHub deliveries, after the receiver has checked their signature.      *)

PullRequestDelivery(d, p, action, h) ==
  AcceptPullRequestDelivery(d, p, action, h) /\ UNCHANGED <<jobVars, requestVars>>

WorkflowRunDelivery(d, t, p) ==
  AcceptWorkflowRunDelivery(d, t, p) /\ UNCHANGED <<jobVars, requestVars>>

IgnoredDelivery(d) == IgnoreDelivery(d) /\ UNCHANGED <<jobVars, requestVars>>

----------------------------------------------------------------------------
(* DurableGitHubWorkflowRunWorker.runOnce, one step per await.             *)

Job(w, phase, t, attempts) ==
  /\ jobPhase' = [jobPhase EXCEPT ![w] = phase]
  /\ jobTask' = [jobTask EXCEPT ![w] = t]
  /\ jobAttempts' = [jobAttempts EXCEPT ![w] = attempts]
  /\ UNCHANGED requestVars

Claim(w, t) ==
  /\ jobPhase[w] = "IDLE"
  /\ ClaimWorkflowRunTask(t)
  /\ Job(w, "CLAIMED", t, taskAttempts[t] + 1)

(* The evidence is collected and createReview has reached recordReview for *)
(* the task's release; the task's own status is not looked at again.       *)
WorkerReview(w, strategy) ==
  /\ jobPhase[w] = "CLAIMED"
  /\ RecordReview(taskRelease[jobTask[w]], strategy)
  /\ Job(w, "REVIEWED", jobTask[w], jobAttempts[w])

(* Mutant: the task is completed as soon as it is claimed. *)
WorkerCompleteUnreviewed(w) ==
  /\ jobPhase[w] # "IDLE"
  /\ CompleteWorkflowRunTask(jobTask[w])
  /\ Job(w, "IDLE", None, 0)

(* The Check Run is published and the task completed. *)
WorkerComplete(w) ==
  /\ jobPhase[w] = "REVIEWED"
  /\ CompleteWorkflowRunTask(jobTask[w])
  /\ Job(w, "IDLE", None, 0)

(* Mutant: off by one. *)
LastAttemptOffByOne(w) == jobAttempts[w] + 1 >= MaximumAttempts

LastAttempt(w) == jobAttempts[w] >= MaximumAttempts

(* Anything up to the completion threw: collection, review or publication. *)
WorkerFail(w) ==
  /\ jobPhase[w] # "IDLE"
  /\ RetryWorkflowRunTask(jobTask[w], LastAttempt(w))
  /\ Job(w, "IDLE", None, 0)

(* The process dies, or loses the database until its lease is over. *)
WorkerCrash(w) ==
  /\ jobPhase[w] # "IDLE"
  /\ Job(w, "IDLE", None, 0)
  /\ UNCHANGED tableVars

----------------------------------------------------------------------------
(* ReviewController.createReview for POST /reviews: the release is         *)
(* resolved in one transaction, the review recorded in a later one, with   *)
(* the engines' awaits between them.                                       *)

ResolveReview(c, s) ==
  /\ reviewing[c] = None
  /\ ResolveReleaseId(s)
  /\ reviewing' = [reviewing EXCEPT ![c] = s]
  /\ UNCHANGED <<jobVars, waiting, snapshot>>

FinishReview(c, strategy) ==
  /\ reviewing[c] # None
  /\ RecordReview(reviewing[c], strategy)
  /\ reviewing' = [reviewing EXCEPT ![c] = None]
  /\ UNCHANGED <<jobVars, waiting, snapshot>>

----------------------------------------------------------------------------
(* POST /deployment-events: lockRelease takes its snapshot, perhaps waits  *)
(* for the row lock, and the transaction then runs to its end.             *)

LockRelease(c, s) ==
  /\ waiting[c] = None
  /\ relStatus[s] # "ABSENT"
  /\ waiting' = [waiting EXCEPT ![c] = s]
  /\ snapshot' = [snapshot EXCEPT ![c] = policy[s]]
  /\ UNCHANGED <<tableVars, jobVars, reviewing>>

EndEvent(c) ==
  /\ waiting' = [waiting EXCEPT ![c] = None]
  /\ snapshot' = [snapshot EXCEPT ![c] = "NONE"]
  /\ UNCHANGED <<jobVars, reviewing>>

ApplyEvent(c, e) ==
  /\ waiting[c] # None
  /\ RecordDeploymentEvent(e, waiting[c], snapshot[c])
  /\ EndEvent(c)

(* The event was a replay, was refused, or its client went away. *)
LeaveEvent(c) ==
  /\ waiting[c] # None
  /\ EndEvent(c)
  /\ UNCHANGED tableVars

----------------------------------------------------------------------------
Next ==
  \/ \E d \in DeliveryId :
       \/ \E p \in PR, action \in Actions, h \in SHA : PullRequestDelivery(d, p, action, h)
       \/ \E t \in Run, p \in PR : WorkflowRunDelivery(d, t, p)
       \/ IgnoredDelivery(d)
  \/ \E w \in Worker :
       \/ \E t \in Run : Claim(w, t)
       \/ \E strategy \in Strategies : WorkerReview(w, strategy)
       \/ WorkerComplete(w)
       \/ WorkerFail(w)
       \/ WorkerCrash(w)
  \/ \E c \in Reviewer :
       \/ \E s \in SHA : ResolveReview(c, s)
       \/ \E strategy \in Strategies : FinishReview(c, strategy)
  \/ \E c \in Conn :
       \/ \E s \in SHA : LockRelease(c, s)
       \/ \E e \in EventId : ApplyEvent(c, e)
       \/ LeaveEvent(c)

Spec == Init /\ [][Next]_vars

----------------------------------------------------------------------------
(* Safety.                                                                 *)

(* A release never has two deployment attempts in progress, whatever the   *)
(* order of starts, reviews, supersessions and closures (recordStarted).   *)
OneActiveAttempt ==
  \A a, b \in Attempt :
    ActiveAttempt(a) /\ ActiveAttempt(b) /\ attRelease[a] = attRelease[b] => a = b

(* A release that the tables show as deploying has an attempt in progress: *)
(* the two rows move together in every transaction that touches either.    *)
DeployingHasAttempt ==
  \A s \in SHA : relStatus[s] = "DEPLOYING" => ActiveAttemptsOf(s) # {}

(* No attempt outlives the supersession or the cancellation of its release *)
(* and none exists before the release's first review.                      *)
WithdrawnHasNoAttempt ==
  \A s \in SHA :
    relStatus[s] \in {"ABSENT", "PENDING", "SUPERSEDED", "CANCELLED"}
      => ActiveAttemptsOf(s) = {}

(* Work still queued or in a worker's hands is for the head that its own   *)
(* pull request has in the tables, in spite of late, repeated and          *)
(* reordered deliveries and of retries.  The exception is a commit shared  *)
(* by two pull requests: once another one has taken the release over, its  *)
(* own may move on and leave the task behind (older releases are found by  *)
(* the pull request of the release), and then that other one, which has    *)
(* the commit as its head, is what keeps the task alive.                   *)
LiveTaskIsCurrent ==
  \A t \in Run :
    LiveTask(t) =>
      \/ prHead[taskPr[t]] = taskRelease[t]
      \/ \E p \in PR \ {taskPr[t]} : relPr[taskRelease[t]] = p /\ prHead[p] = taskRelease[t]

(* The outcome row agrees with the attempt it names: a final outcome is    *)
(* the attempt's own final status, a continued canary is still observed or *)
(* was withdrawn, and only a blocked release has an outcome of no attempt. *)
OutcomeAgreesFor(s) ==
  LET a == outcomeAttempt[s] IN
  /\ outcome[s] \in {"NONE", "BLOCKED"} <=> a = None
  /\ a # None =>
       /\ attRelease[a] = s
       /\ outcome[s] # "CONTINUED" => attStatus[a] = outcome[s]
       /\ outcome[s] = "CONTINUED" =>
            IF attStrategy[a] = "CANARY" THEN attStatus[a] \in {"OBSERVING", "CANCELLED"}
            ELSE attStatus[a] = "PROMOTED"

OutcomeAgrees == \A s \in SHA : OutcomeAgreesFor(s)

(* Exactly one accepted start stands behind every attempt, and it was for  *)
(* the attempt's release: retried and reordered events create no second.   *)
StartReceipts(a) ==
  {e \in EventId : /\ receipts[e] # None
                   /\ receipts[e].type = "DEPLOYMENT_STARTED"
                   /\ receipts[e].attempt = a}

AttemptStartedOnce ==
  \A a \in Attempt :
    IF attStatus[a] = "ABSENT" THEN StartReceipts(a) = {}
    ELSE \E e \in EventId : /\ StartReceipts(a) = {e}
                            /\ receipts[e].release = attRelease[a]

(* A final outcome is never dated before the start or the latest recorded  *)
(* observation of its attempt.                                             *)
OutcomeIsChronological ==
  \A s \in SHA :
    outcome[s] \notin {"NONE", "BLOCKED", "CONTINUED"} =>
      LET a == outcomeAttempt[s] IN
      outcomeAt[s] >= attStartedAt[a] /\ outcomeAt[s] >= attObservedAt[a]

(* A task given up as FAILED has really been claimed the configured number *)
(* of times, though the count that decides it is the one a worker was      *)
(* handed when it claimed the task, perhaps several claims ago (runOnce).  *)
FailedAfterMaximumAttempts ==
  \A t \in Run : taskStatus[t] = "FAILED" => taskAttempts[t] >= MaximumAttempts

(* A completed task left a policy decision behind for its release, though  *)
(* the worker that completes it need not be the one that holds the lease.  *)
CompletedTaskHasDecision ==
  \A t \in Run : taskStatus[t] = "COMPLETED" => policy[taskRelease[t]] # "NONE"

----------------------------------------------------------------------------
(* Action properties.                                                      *)

(* A task that was completed, given up or superseded never runs again, not *)
(* even when a worker whose lease expired long ago reports its result.     *)
SettledTaskStays ==
  [][\A t \in Run :
       taskStatus[t] \in {"COMPLETED", "FAILED", "SUPERSEDED"}
         => taskStatus'[t] = taskStatus[t]]_taskVars

(* An attempt that ended keeps how it ended, its release and its strategy. *)
EndedAttemptStays ==
  [][\A a \in Attempt :
       ~ActiveAttempt(a) /\ attStatus[a] # "ABSENT"
         => /\ attStatus'[a] = attStatus[a]
            /\ attRelease'[a] = attRelease[a]
            /\ attStrategy'[a] = attStrategy[a]]_attemptVars

(* The recorded outcome of a release never moves back in recorded time. *)
OutcomeTimeAdvances ==
  [][\A s \in SHA : outcome[s] # "NONE" => outcomeAt'[s] >= outcomeAt[s]]_outcomeVars

----------------------------------------------------------------------------
(* The tables implement the ledger of attempts: a cancelled attempt is a   *)
(* withdrawn one, and the start, observation, outcome and withdrawal of    *)
(* attempts by any mix of requests are its steps or leave it unchanged.    *)

AttemptEnd ==
  [a \in Attempt |->
    IF attStatus[a] \in {"ABSENT", "STARTED", "OBSERVING"} THEN "OPEN"
    ELSE IF attStatus[a] = "CANCELLED" THEN "WITHDRAWN"
    ELSE attStatus[a]]

Ledger == INSTANCE AttemptLedger WITH Release <- SHA, owner <- attRelease, end <- AttemptEnd

(* Every behaviour of the platform is a behaviour of the attempt ledger.   *)
ImplementsLedger == Ledger!LedgerSpec

----------------------------------------------------------------------------
(* "... release supersession cancels active attempts": once a pull request *)
(* has a new head, no attempt of its earlier heads is in progress.  Refuted *)
(* by a run of its own: a blocked outcome after a second review completes  *)
(* a release around its active attempt (recordBlockedOutcome), and a       *)
(* completed release is not superseded.                                    *)
SupersessionCancelsAttempts ==
  [][\A p \in PR : prHead'[p] # prHead[p] =>
       \A a \in Attempt :
         ActiveAttempt(a) /\ relPr[attRelease[a]] = p /\ attRelease[a] # prHead'[p]
           => attStatus'[a] = "CANCELLED"]_tableVars

=============================================================================
