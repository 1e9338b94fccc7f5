------------------------- MODULE CanaryGuardProofs -------------------------
(***************************************************************************)
(* Safety of CanaryGuard, for every set of pull requests, commits, runs,   *)
(* deliveries, workers, requests, attempts, events and times: its type     *)
(* invariant and steps as transactions, then deployments with the ledger   *)
(* of attempts, then deliveries, tasks and workers.                        *)
(***************************************************************************)
EXTENDS CanaryGuard, TLAPS

(* A transaction of either store, or none: all that the tables can see of  *)
(* a step.  A worker's review is for the release of the task it claimed.   *)
Transaction ==
  \/ \E d \in DeliveryId :
       \/ \E p \in PR, action \in Actions, h \in SHA : AcceptPullRequestDelivery(d, p, action, h)
       \/ \E t \in Run, p \in PR : AcceptWorkflowRunDelivery(d, t, p)
       \/ IgnoreDelivery(d)
  \/ \E t \in Run : ClaimWorkflowRunTask(t)
  \/ \E t \in Run, status \in {"PENDING", "COMPLETED", "FAILED"} : SettleTask(t, status)
  \/ \E s \in SHA : ResolveReleaseId(s)
  \/ \E s \in SHA, strategy \in Strategies : RecordReview(s, strategy)
  \/ \E e \in EventId, s \in SHA, decided \in Strategies \cup {"NONE"} :
       RecordDeploymentEvent(e, s, decided)
  \/ UNCHANGED tableVars

(* What a worker holds: a task that exists, so one with a release. *)
JobsHoldTasks ==
  /\ \A t \in Run : taskStatus[t] # "ABSENT" => taskRelease[t] \in SHA
  /\ \A w \in Worker :
       jobPhase[w] # "IDLE" => jobTask[w] \in Run /\ taskStatus[jobTask[w]] # "ABSENT"

THEOREM TypeInit == Init => TypeOK
  BY DEF Init, TypeOK, TablesInit, TablesTypeOK, PrStates, ReleaseStatuses, TaskStatuses,
         AttemptStatuses, Outcomes

LEMMA PullRequestKeepsTypes ==
  ASSUME TablesTypeOK,
         NEW d \in DeliveryId, NEW p \in PR, NEW action \in Actions, NEW h \in SHA,
         AcceptPullRequestDelivery(d, p, action, h)
  PROVE  TablesTypeOK'
  BY DEF AcceptPullRequestDelivery, TablesTypeOK, FindOrCreateRelease, ReleaseStatusAfter,
         HeadStatus, UpsertedStatus, StateAfter, PrStates, ReleaseStatuses, TaskStatuses,
         AttemptStatuses, outcomeVars

LEMMA WorkflowRunKeepsTypes ==
  ASSUME TablesTypeOK,
         NEW d \in DeliveryId, NEW t \in Run, NEW p \in PR,
         AcceptWorkflowRunDelivery(d, t, p)
  PROVE  TablesTypeOK'
  BY RunHeadAssumption
  DEF AcceptWorkflowRunDelivery, TablesTypeOK, FindOrCreateRelease, UpsertedStatus,
      CorrelatedState, CorrelatedHead, PrStates, ReleaseStatuses, TaskStatuses,
      releaseVars, attemptVars, outcomeVars

LEMMA DeploymentEventKeepsTypes ==
  ASSUME TablesTypeOK,
         NEW e \in EventId, NEW s \in SHA, NEW decided \in Strategies \cup {"NONE"},
         RecordDeploymentEvent(e, s, decided)
  PROVE  TablesTypeOK'
<1> USE DEF TablesTypeOK, InsertReceipt, Receipts, EventTypes, Strategies, prVars, releaseVars,
            taskVars, attemptVars, outcomeVars
<1>1. ASSUME NEW a \in Attempt, NEW at \in Time, RecordStarted(e, s, a, at, decided)
      PROVE  TablesTypeOK'
  BY <1>1 DEF RecordStarted, ReleaseStatuses, AttemptStatuses
<1>2. ASSUME NEW a \in Attempt, NEW at \in Time, RecordObservation(e, s, a, at, decided)
      PROVE  TablesTypeOK'
  BY <1>2 DEF RecordObservation, AttemptStatuses
<1>3. ASSUME NEW a \in Attempt, NEW result \in AttemptedOutcomes, NEW at \in Time,
             RecordAttemptedOutcome(e, s, a, result, at, decided)
      PROVE  TablesTypeOK'
  BY <1>3 DEF RecordAttemptedOutcome, UpsertOutcome, AttemptedOutcomes, AttemptStatusFor,
              ReleaseStatusFor, ReleaseStatuses, AttemptStatuses, Outcomes
<1>4. ASSUME NEW at \in Time, RecordBlockedOutcome(e, s, at, decided)
      PROVE  TablesTypeOK'
  BY <1>4 DEF RecordBlockedOutcome, UpsertOutcome, ReleaseStatuses, Outcomes
<1> QED
  BY <1>1, <1>2, <1>3, <1>4 DEF RecordDeploymentEvent

(* Every transaction keeps the columns within their types. *)
LEMMA TransactionKeepsTypes ==
  ASSUME TablesTypeOK, Transaction
  PROVE  TablesTypeOK'
<1> USE DEF TablesTypeOK, prVars, releaseVars, taskVars, attemptVars, outcomeVars
<1>1. ASSUME NEW d \in DeliveryId, IgnoreDelivery(d)
      PROVE  TablesTypeOK'
  BY <1>1 DEF IgnoreDelivery
<1>2. ASSUME NEW t \in Run, ClaimWorkflowRunTask(t)
      PROVE  TablesTypeOK'
  BY <1>2 DEF ClaimWorkflowRunTask, TaskStatuses
<1>3. ASSUME NEW t \in Run, NEW status \in {"PENDING", "COMPLETED", "FAILED"},
             SettleTask(t, status)
      PROVE  TablesTypeOK'
  BY <1>3 DEF SettleTask, SettledStatus, TaskStatuses
<1>4. ASSUME NEW s \in SHA, ResolveReleaseId(s)
      PROVE  TablesTypeOK'
  BY <1>4 DEF ResolveReleaseId, FindOrCreateRelease, UpsertedStatus, ReleaseStatuses
<1>5. ASSUME NEW s \in SHA, NEW strategy \in Strategies, RecordReview(s, strategy)
      PROVE  TablesTypeOK'
  BY <1>5 DEF RecordReview, FindOrCreateRelease, ReleaseStatuses
<1>6. CASE UNCHANGED tableVars
  BY <1>6 DEF tableVars
<1> QED
  BY <1>1, <1>2, <1>3, <1>4, <1>5, <1>6, PullRequestKeepsTypes, WorkflowRunKeepsTypes,
     DeploymentEventKeepsTypes
  DEF Transaction

----------------------------------------------------------------------------
(* Steps of the platform as transactions.                                  *)

LEMMA StepIsTransaction ==
  ASSUME TypeOK, JobsHoldTasks, [Next]_vars
  PROVE  Transaction
<1>1. ASSUME NEW d \in DeliveryId, NEW p \in PR, NEW action \in Actions, NEW h \in SHA,
             PullRequestDelivery(d, p, action, h)
      PROVE  Transaction
  BY <1>1 DEF PullRequestDelivery, Transaction
<1>2. ASSUME NEW d \in DeliveryId, NEW t \in Run, NEW p \in PR, WorkflowRunDelivery(d, t, p)
      PROVE  Transaction
  BY <1>2 DEF WorkflowRunDelivery, Transaction
<1>3. ASSUME NEW d \in DeliveryId, IgnoredDelivery(d)
      PROVE  Transaction
  BY <1>3 DEF IgnoredDelivery, Transaction
<1>4. ASSUME NEW w \in Worker, NEW t \in Run, Claim(w, t)
      PROVE  Transaction
  BY <1>4 DEF Claim, Transaction
<1>5. ASSUME NEW w \in Worker, NEW strategy \in Strategies, WorkerReview(w, strategy)
      PROVE  Transaction
  <2>1. taskRelease[jobTask[w]] \in SHA
    BY <1>5 DEF WorkerReview, JobsHoldTasks
  <2> QED
    BY <1>5, <2>1 DEF WorkerReview, Transaction
<1>6. ASSUME NEW w \in Worker, WorkerComplete(w) \/ WorkerFail(w)
      PROVE  Transaction
  <2>1. jobTask[w] \in Run
    BY <1>6 DEF WorkerComplete, WorkerFail, JobsHoldTasks
  <2>2. \E status \in {"PENDING", "COMPLETED", "FAILED"} : SettleTask(jobTask[w], status)
    BY <1>6 DEF WorkerComplete, WorkerFail, CompleteWorkflowRunTask, RetryWorkflowRunTask
  <2> QED
    BY <2>1, <2>2 DEF Transaction
<1>7. ASSUME NEW w \in Worker, WorkerCrash(w)
      PROVE  Transaction
  BY <1>7 DEF WorkerCrash, Transaction
<1>8. ASSUME NEW c \in Reviewer, NEW s \in SHA, ResolveReview(c, s)
      PROVE  Transaction
  BY <1>8 DEF ResolveReview, Transaction
<1>9. ASSUME NEW c \in Reviewer, NEW strategy \in Strategies, FinishReview(c, strategy)
      PROVE  Transaction
  <2>1. reviewing[c] \in SHA
    BY <1>9 DEF FinishReview, TypeOK
  <2> QED
    BY <1>9, <2>1 DEF FinishReview, Transaction
<1>10. ASSUME NEW c \in Conn, NEW s \in SHA, LockRelease(c, s)
       PROVE  Transaction
  BY <1>10 DEF LockRelease, Transaction
<1>11. ASSUME NEW c \in Conn, NEW e \in EventId, ApplyEvent(c, e)
       PROVE  Transaction
  <2>1. waiting[c] \in SHA /\ snapshot[c] \in Strategies \cup {"NONE"}
    BY <1>11 DEF ApplyEvent, TypeOK
  <2> QED
    BY <1>11, <2>1 DEF ApplyEvent, Transaction
<1>12. ASSUME NEW c \in Conn, LeaveEvent(c)
       PROVE  Transaction
  BY <1>12 DEF LeaveEvent, Transaction
<1>13. CASE UNCHANGED vars
  BY <1>13 DEF vars, Transaction
<1> QED
  BY <1>1, <1>2, <1>3, <1>4, <1>5, <1>6, <1>7, <1>8, <1>9, <1>10, <1>11, <1>12, <1>13 DEF Next

(* A task, once there, stays there and stays with its release. *)
LEMMA TasksStay ==
  ASSUME TablesTypeOK, Transaction, NEW t \in Run
  PROVE  /\ taskStatus[t] # "ABSENT" =>
              taskStatus'[t] # "ABSENT" /\ taskRelease'[t] = taskRelease[t]
         /\ taskStatus[t] = "ABSENT" /\ taskStatus'[t] # "ABSENT" => taskRelease'[t] \in SHA
<1> USE DEF TablesTypeOK, taskVars
<1>1. CASE taskStatus' = taskStatus /\ taskRelease' = taskRelease
  BY <1>1
<1>2. ASSUME NEW d \in DeliveryId, NEW p \in PR, NEW action \in Actions, NEW h \in SHA,
             AcceptPullRequestDelivery(d, p, action, h)
      PROVE  /\ taskRelease' = taskRelease
             /\ taskStatus[t] = "ABSENT" <=> taskStatus'[t] = "ABSENT"
  BY <1>2 DEF AcceptPullRequestDelivery, StaleTask, LiveTask
<1>3. ASSUME NEW d \in DeliveryId, NEW u \in Run, NEW p \in PR,
             AcceptWorkflowRunDelivery(d, u, p)
      PROVE  /\ taskStatus[t] # "ABSENT" =>
                  taskStatus'[t] # "ABSENT" /\ taskRelease'[t] = taskRelease[t]
             /\ taskStatus[t] = "ABSENT" /\ taskStatus'[t] # "ABSENT" => taskRelease'[t] \in SHA
  BY <1>3, RunHeadAssumption DEF AcceptWorkflowRunDelivery
<1>4. ASSUME NEW u \in Run,
             \/ ClaimWorkflowRunTask(u)
             \/ \E status \in {"PENDING", "COMPLETED", "FAILED"} : SettleTask(u, status)
      PROVE  /\ taskRelease' = taskRelease
             /\ taskStatus[t] = "ABSENT" <=> taskStatus'[t] = "ABSENT"
  BY <1>4 DEF ClaimWorkflowRunTask, SettleTask, SettledStatus, LiveTask
<1>5. ASSUME \/ \E d \in DeliveryId : IgnoreDelivery(d)
             \/ \E s \in SHA : ResolveReleaseId(s)
             \/ \E s \in SHA, strategy \in Strategies : RecordReview(s, strategy)
             \/ \E e \in EventId, s \in SHA, decided \in Strategies \cup {"NONE"} :
                  RecordDeploymentEvent(e, s, decided)
             \/ UNCHANGED tableVars
      PROVE  taskStatus' = taskStatus /\ taskRelease' = taskRelease
  BY <1>5 DEF IgnoreDelivery, ResolveReleaseId, RecordReview, RecordDeploymentEvent,
              RecordStarted, RecordObservation, RecordAttemptedOutcome, RecordBlockedOutcome,
              tableVars
<1> QED
  BY <1>1, <1>2, <1>3, <1>4, <1>5 DEF Transaction

LEMMA JobsStep ==
  ASSUME TypeOK, JobsHoldTasks, [Next]_vars
  PROVE  JobsHoldTasks'
<1>1. TablesTypeOK /\ Transaction
  BY StepIsTransaction DEF TypeOK
<1>2. \A t \in Run : taskStatus'[t] # "ABSENT" => taskRelease'[t] \in SHA
  BY <1>1, TasksStay DEF JobsHoldTasks
<1>3. \A t \in Run : taskStatus[t] # "ABSENT" => taskStatus'[t] # "ABSENT"
  BY <1>1, TasksStay
<1>4. ASSUME NEW w \in Worker, jobPhase'[w] # "IDLE"
      PROVE  \/ jobPhase[w] # "IDLE" /\ jobTask'[w] = jobTask[w]
             \/ jobTask'[w] \in Run /\ taskStatus[jobTask'[w]] # "ABSENT"
  BY <1>4
  DEF Next, TypeOK, vars, jobVars, requestVars, PullRequestDelivery, WorkflowRunDelivery,
      IgnoredDelivery, Claim, ClaimWorkflowRunTask, LiveTask, WorkerReview, WorkerComplete,
      WorkerFail, WorkerCrash, Job, ResolveReview, FinishReview, LockRelease, ApplyEvent,
      EndEvent, LeaveEvent
<1> QED
  BY <1>2, <1>3, <1>4 DEF JobsHoldTasks

LEMMA RequestsStep ==
  ASSUME TypeOK, [Next]_vars
  PROVE  /\ jobPhase' \in [Worker -> {"IDLE", "CLAIMED", "REVIEWED"}]
         /\ jobTask' \in [Worker -> Run \cup {None}]
         /\ jobAttempts' \in [Worker -> Nat]
         /\ reviewing' \in [Reviewer -> SHA \cup {None}]
         /\ waiting' \in [Conn -> SHA \cup {None}]
         /\ snapshot' \in [Conn -> Strategies \cup {"NONE"}]
  BY DEF Next, TypeOK, TablesTypeOK, vars, jobVars, requestVars, PullRequestDelivery,
         WorkflowRunDelivery, IgnoredDelivery, Claim, ClaimWorkflowRunTask, WorkerReview,
         WorkerComplete, WorkerFail, WorkerCrash, Job, ResolveReview, FinishReview,
         LockRelease, ApplyEvent, EndEvent, LeaveEvent

(* TypeOK and JobsHoldTasks carry each other over every step. *)
Typed == TypeOK /\ JobsHoldTasks

(* The type invariant of CanaryGuard, with what workers hold, for all      *)
(* constants.                                                              *)
THEOREM TypeCorrectness == Spec => []Typed
<1>1. Init => Typed
  BY TypeInit DEF Init, TablesInit, Typed, JobsHoldTasks
<1>2. Typed /\ [Next]_vars => Typed'
  <2> SUFFICES ASSUME Typed, [Next]_vars
               PROVE  Typed'
    OBVIOUS
  <2>1. TablesTypeOK'
    BY StepIsTransaction, TransactionKeepsTypes DEF Typed, TypeOK
  <2> QED
    BY <2>1, RequestsStep, JobsStep DEF Typed, TypeOK
<1> QED
  BY <1>1, <1>2, PTL DEF Spec

(* Every column, job and request keeps its type (TypeOK). *)
THEOREM TypeSafety == Spec => []TypeOK
  BY TypeCorrectness, PTL DEF Typed

----------------------------------------------------------------------------
(* Deployment attempts and outcomes, and the refinement of the ledger that *)
(* follows.  The inductive invariant is RolloutInv: each of its conjuncts  *)
(* but the first two is a property of CanaryGuard, and only the outcome's  *)
(* need others.                                                            *)

(* An attempt has a release exactly when it was started. *)
AttemptHasRelease == \A a \in Attempt : attStatus[a] = "ABSENT" <=> attRelease[a] = None

(* The transactions that leave attempts, outcomes and receipts alone, and  *)
(* the release statuses too or but for a review's.                         *)
Bystander ==
  /\ UNCHANGED <<attemptVars, outcomeVars, receipts>>
  /\ \/ UNCHANGED relStatus
     \/ \E s \in SHA : relStatus' = [relStatus EXCEPT ![s] = "REVIEWED"]
     \/ \E s \in SHA : relStatus' = [relStatus EXCEPT ![s] = UpsertedStatus(s)]

LEMMA RolloutTransactions ==
  ASSUME Transaction
  PROVE  \/ Bystander
         \/ \E d \in DeliveryId, p \in PR, action \in Actions, h \in SHA :
              AcceptPullRequestDelivery(d, p, action, h)
         \/ \E e \in EventId, s \in SHA, decided \in Strategies \cup {"NONE"} :
              RecordDeploymentEvent(e, s, decided)
<1> USE DEF Bystander, attemptVars, outcomeVars
<1>1. ASSUME NEW d \in DeliveryId, NEW t \in Run, NEW p \in PR,
             AcceptWorkflowRunDelivery(d, t, p)
      PROVE  Bystander
  BY <1>1, RunHeadAssumption DEF AcceptWorkflowRunDelivery, releaseVars
<1>2. ASSUME \/ \E d \in DeliveryId : IgnoreDelivery(d)
             \/ \E t \in Run : ClaimWorkflowRunTask(t)
             \/ \E t \in Run, status \in {"PENDING", "COMPLETED", "FAILED"} :
                  SettleTask(t, status)
             \/ UNCHANGED tableVars
      PROVE  Bystander
  BY <1>2 DEF IgnoreDelivery, ClaimWorkflowRunTask, SettleTask, tableVars, releaseVars
<1>3. ASSUME \/ \E s \in SHA : ResolveReleaseId(s)
             \/ \E s \in SHA, strategy \in Strategies : RecordReview(s, strategy)
      PROVE  Bystander
  BY <1>3 DEF ResolveReleaseId, RecordReview
<1> QED
  BY <1>1, <1>2, <1>3 DEF Transaction

LEMMA WithdrawnStep ==
  ASSUME TablesTypeOK, WithdrawnHasNoAttempt, Transaction
  PROVE  WithdrawnHasNoAttempt'
<1> USE DEF TablesTypeOK, WithdrawnHasNoAttempt, ActiveAttemptsOf, ActiveAttempt
<1>1. CASE Bystander
  BY <1>1 DEF Bystander, attemptVars, UpsertedStatus
<1>2. ASSUME NEW d \in DeliveryId, NEW p \in PR, NEW action \in Actions, NEW h \in SHA,
             AcceptPullRequestDelivery(d, p, action, h)
      PROVE  WithdrawnHasNoAttempt'
  BY <1>2 DEF AcceptPullRequestDelivery, StaleAttempt, ReleaseStatusAfter, SupersededReleases,
              OlderReleases, HeadStatus, UpsertedStatus
<1>3. ASSUME NEW e \in EventId, NEW s \in SHA, NEW decided \in Strategies \cup {"NONE"},
             NEW a \in Attempt, NEW at \in Time, RecordStarted(e, s, a, at, decided)
      PROVE  WithdrawnHasNoAttempt'
  BY <1>3 DEF RecordStarted, UnusedAttempt
<1>4. ASSUME NEW e \in EventId, NEW s \in SHA, NEW decided \in Strategies \cup {"NONE"},
             NEW a \in Attempt, NEW at \in Time, RecordObservation(e, s, a, at, decided)
      PROVE  WithdrawnHasNoAttempt'
  BY <1>4 DEF RecordObservation, BoundActiveAttempt, releaseVars
<1>5. ASSUME NEW e \in EventId, NEW s \in SHA, NEW decided \in Strategies \cup {"NONE"},
             NEW a \in Attempt, NEW result \in AttemptedOutcomes, NEW at \in Time,
             RecordAttemptedOutcome(e, s, a, result, at, decided)
      PROVE  WithdrawnHasNoAttempt'
  BY <1>5 DEF RecordAttemptedOutcome, BoundActiveAttempt, ReleaseStatusFor
<1>6. ASSUME NEW e \in EventId, NEW s \in SHA, NEW decided \in Strategies \cup {"NONE"},
             NEW at \in Time, RecordBlockedOutcome(e, s, at, decided)
      PROVE  WithdrawnHasNoAttempt'
  BY <1>6 DEF RecordBlockedOutcome, attemptVars
<1> QED
  BY <1>1, <1>2, <1>3, <1>4, <1>5, <1>6, RolloutTransactions DEF RecordDeploymentEvent

LEMMA OneActiveStep ==
  ASSUME TablesTypeOK, OneActiveAttempt, Transaction
  PROVE  OneActiveAttempt'
<1> USE DEF TablesTypeOK, OneActiveAttempt, ActiveAttempt
<1>1. CASE Bystander
  BY <1>1 DEF Bystander, attemptVars
<1>2. ASSUME NEW d \in DeliveryId, NEW p \in PR, NEW action \in Actions, NEW h \in SHA,
             AcceptPullRequestDelivery(d, p, action, h)
      PROVE  OneActiveAttempt'
  BY <1>2 DEF AcceptPullRequestDelivery
<1>3. ASSUME NEW e \in EventId, NEW s \in SHA, NEW decided \in Strategies \cup {"NONE"},
             NEW a \in Attempt, NEW at \in Time, RecordStarted(e, s, a, at, decided)
      PROVE  OneActiveAttempt'
  BY <1>3 DEF RecordStarted, MayStart, ActiveAttemptsOf
<1>4. ASSUME NEW e \in EventId, NEW s \in SHA, NEW decided \in Strategies \cup {"NONE"},
             NEW a \in Attempt, NEW at \in Time, RecordObservation(e, s, a, at, decided)
      PROVE  OneActiveAttempt'
  BY <1>4 DEF RecordObservation, BoundActiveAttempt
<1>5. ASSUME NEW e \in EventId, NEW s \in SHA, NEW decided \in Strategies \cup {"NONE"},
             NEW a \in Attempt, NEW result \in AttemptedOutcomes, NEW at \in Time,
             RecordAttemptedOutcome(e, s, a, result, at, decided)
      PROVE  OneActiveAttempt'
  BY <1>5 DEF RecordAttemptedOutcome, BoundActiveAttempt
<1>6. ASSUME NEW e \in EventId, NEW s \in SHA, NEW decided \in Strategies \cup {"NONE"},
             NEW at \in Time, RecordBlockedOutcome(e, s, at, decided)
      PROVE  OneActiveAttempt'
  BY <1>6 DEF RecordBlockedOutcome, attemptVars
<1> QED
  BY <1>1, <1>2, <1>3, <1>4, <1>5, <1>6, RolloutTransactions DEF RecordDeploymentEvent

LEMMA DeployingStep ==
  ASSUME TablesTypeOK, DeployingHasAttempt, Transaction
  PROVE  DeployingHasAttempt'
<1> USE DEF TablesTypeOK, DeployingHasAttempt, ActiveAttemptsOf, ActiveAttempt
<1>1. CASE Bystander
  BY <1>1 DEF Bystander, attemptVars, UpsertedStatus
<1>2. ASSUME NEW d \in DeliveryId, NEW p \in PR, NEW action \in Actions, NEW h \in SHA,
             AcceptPullRequestDelivery(d, p, action, h)
      PROVE  DeployingHasAttempt'
  BY <1>2 DEF AcceptPullRequestDelivery, StaleAttempt, ReleaseStatusAfter, SupersededReleases,
              OlderReleases, HeadStatus, UpsertedStatus
<1>3. ASSUME NEW e \in EventId, NEW s \in SHA, NEW decided \in Strategies \cup {"NONE"},
             NEW a \in Attempt, NEW at \in Time, RecordStarted(e, s, a, at, decided)
      PROVE  DeployingHasAttempt'
  BY <1>3 DEF RecordStarted, UnusedAttempt
<1>4. ASSUME NEW e \in EventId, NEW s \in SHA, NEW decided \in Strategies \cup {"NONE"},
             NEW a \in Attempt, NEW at \in Time, RecordObservation(e, s, a, at, decided)
      PROVE  DeployingHasAttempt'
  BY <1>4 DEF RecordObservation, BoundActiveAttempt, releaseVars
<1>5. ASSUME NEW e \in EventId, NEW s \in SHA, NEW decided \in Strategies \cup {"NONE"},
             NEW a \in Attempt, NEW result \in AttemptedOutcomes, NEW at \in Time,
             RecordAttemptedOutcome(e, s, a, result, at, decided)
      PROVE  DeployingHasAttempt'
  BY <1>5 DEF RecordAttemptedOutcome, BoundActiveAttempt, ReleaseStatusFor, AttemptStatusFor
<1>6. ASSUME NEW e \in EventId, NEW s \in SHA, NEW decided \in Strategies \cup {"NONE"},
             NEW at \in Time, RecordBlockedOutcome(e, s, at, decided)
      PROVE  DeployingHasAttempt'
  BY <1>6 DEF RecordBlockedOutcome, attemptVars
<1> QED
  BY <1>1, <1>2, <1>3, <1>4, <1>5, <1>6, RolloutTransactions DEF RecordDeploymentEvent

LEMMA AttemptReleaseStep ==
  ASSUME TablesTypeOK, AttemptHasRelease, Transaction
  PROVE  AttemptHasRelease'
<1> USE NoneAssumption DEF TablesTypeOK, AttemptHasRelease, ActiveAttempt
<1>1. CASE Bystander
  BY <1>1 DEF Bystander, attemptVars
<1>2. ASSUME NEW d \in DeliveryId, NEW p \in PR, NEW action \in Actions, NEW h \in SHA,
             AcceptPullRequestDelivery(d, p, action, h)
      PROVE  AttemptHasRelease'
  BY <1>2 DEF AcceptPullRequestDelivery, StaleAttempt
<1>3. ASSUME NEW e \in EventId, NEW s \in SHA, NEW decided \in Strategies \cup {"NONE"},
             RecordDeploymentEvent(e, s, decided)
      PROVE  AttemptHasRelease'
  BY <1>3 DEF RecordDeploymentEvent, RecordStarted, RecordObservation, RecordAttemptedOutcome,
              RecordBlockedOutcome, BoundActiveAttempt, AttemptStatusFor, AttemptedOutcomes,
              attemptVars
<1> QED
  BY <1>1, <1>2, <1>3, RolloutTransactions

LEMMA OutcomeStep ==
  ASSUME TablesTypeOK, AttemptHasRelease, OutcomeAgrees, Transaction
  PROVE  OutcomeAgrees'
<1> SUFFICES ASSUME NEW r \in SHA
             PROVE  OutcomeAgreesFor(r)'
  BY DEF OutcomeAgrees
<1>0. OutcomeAgreesFor(r)
  BY DEF OutcomeAgrees
<1> USE <1>0, NoneAssumption DEF TablesTypeOK, AttemptHasRelease, OutcomeAgreesFor, ActiveAttempt
<1>1. CASE Bystander
  BY <1>1 DEF Bystander, attemptVars, outcomeVars
<1>2. ASSUME NEW d \in DeliveryId, NEW p \in PR, NEW action \in Actions, NEW h \in SHA,
             AcceptPullRequestDelivery(d, p, action, h)
      PROVE  OutcomeAgreesFor(r)'
  BY <1>2 DEF AcceptPullRequestDelivery, StaleAttempt, outcomeVars, Outcomes
<1>3. ASSUME NEW e \in EventId, NEW s \in SHA, NEW decided \in Strategies \cup {"NONE"},
             NEW a \in Attempt, NEW at \in Time, RecordStarted(e, s, a, at, decided)
      PROVE  OutcomeAgreesFor(r)'
  BY <1>3 DEF RecordStarted, UnusedAttempt, outcomeVars
<1>4. ASSUME NEW e \in EventId, NEW s \in SHA, NEW decided \in Strategies \cup {"NONE"},
             NEW a \in Attempt, NEW at \in Time, RecordObservation(e, s, a, at, decided)
      PROVE  OutcomeAgreesFor(r)'
  BY <1>4 DEF RecordObservation, BoundActiveAttempt, outcomeVars, Outcomes
<1>5. ASSUME NEW e \in EventId, NEW s \in SHA, NEW decided \in Strategies \cup {"NONE"},
             NEW a \in Attempt, NEW result \in AttemptedOutcomes, NEW at \in Time,
             RecordAttemptedOutcome(e, s, a, result, at, decided)
      PROVE  OutcomeAgreesFor(r)'
  BY <1>5 DEF RecordAttemptedOutcome, UpsertOutcome, BoundActiveAttempt, AttemptStatusFor,
              AttemptedOutcomes, Outcomes
<1>6. ASSUME NEW e \in EventId, NEW s \in SHA, NEW decided \in Strategies \cup {"NONE"},
             NEW at \in Time, RecordBlockedOutcome(e, s, at, decided)
      PROVE  OutcomeAgreesFor(r)'
  BY <1>6 DEF RecordBlockedOutcome, UpsertOutcome, attemptVars
<1> QED
  BY <1>1, <1>2, <1>3, <1>4, <1>5, <1>6, RolloutTransactions DEF RecordDeploymentEvent

LEMMA ChronologyStep ==
  ASSUME TablesTypeOK, AttemptHasRelease, OutcomeAgrees, OutcomeIsChronological, Transaction
  PROVE  OutcomeIsChronological'
<1> USE NoneAssumption DEF TablesTypeOK, AttemptHasRelease, OutcomeIsChronological, ActiveAttempt
<1>0. \A s \in SHA : OutcomeAgreesFor(s)
  BY DEF OutcomeAgrees
<1>1. CASE Bystander
  BY <1>1 DEF Bystander, attemptVars, outcomeVars
<1>2. ASSUME NEW d \in DeliveryId, NEW p \in PR, NEW action \in Actions, NEW h \in SHA,
             AcceptPullRequestDelivery(d, p, action, h)
      PROVE  OutcomeIsChronological'
  BY <1>2 DEF AcceptPullRequestDelivery, outcomeVars
<1>3. ASSUME NEW e \in EventId, NEW s \in SHA, NEW decided \in Strategies \cup {"NONE"},
             NEW a \in Attempt, NEW at \in Time, RecordStarted(e, s, a, at, decided)
      PROVE  OutcomeIsChronological'
  BY <1>0, <1>3 DEF RecordStarted, UnusedAttempt, outcomeVars, OutcomeAgreesFor, Outcomes
<1>4. ASSUME NEW e \in EventId, NEW s \in SHA, NEW decided \in Strategies \cup {"NONE"},
             NEW a \in Attempt, NEW at \in Time, RecordObservation(e, s, a, at, decided)
      PROVE  OutcomeIsChronological'
  BY <1>0, <1>4 DEF RecordObservation, BoundActiveAttempt, outcomeVars, OutcomeAgreesFor, Outcomes
<1>5. ASSUME NEW e \in EventId, NEW s \in SHA, NEW decided \in Strategies \cup {"NONE"},
             NEW a \in Attempt, NEW result \in AttemptedOutcomes, NEW at \in Time,
             RecordAttemptedOutcome(e, s, a, result, at, decided)
      PROVE  OutcomeIsChronological'
  BY <1>0, <1>5 DEF RecordAttemptedOutcome, UpsertOutcome, Chronological
<1>6. ASSUME NEW e \in EventId, NEW s \in SHA, NEW decided \in Strategies \cup {"NONE"},
             NEW at \in Time, RecordBlockedOutcome(e, s, at, decided)
      PROVE  OutcomeIsChronological'
  BY <1>6 DEF RecordBlockedOutcome, UpsertOutcome, attemptVars
<1> QED
  BY <1>1, <1>2, <1>3, <1>4, <1>5, <1>6, RolloutTransactions DEF RecordDeploymentEvent

----------------------------------------------------------------------------
RolloutInv ==
  /\ Typed
  /\ AttemptHasRelease
  /\ OneActiveAttempt
  /\ DeployingHasAttempt
  /\ WithdrawnHasNoAttempt
  /\ OutcomeAgrees
  /\ OutcomeIsChronological

(* The invariant of the attempts and outcomes of all releases.             *)
THEOREM RolloutInvariance == Spec => []RolloutInv
<1>1. Init => RolloutInv
  <2> SUFFICES ASSUME Init
               PROVE  RolloutInv
    OBVIOUS
  <2>1. Typed
    BY TypeInit DEF Init, TablesInit, Typed, JobsHoldTasks
  <2> QED
    BY <2>1, NoneAssumption
    DEF Init, TablesInit, RolloutInv, AttemptHasRelease, OneActiveAttempt, DeployingHasAttempt,
        WithdrawnHasNoAttempt, OutcomeAgrees, OutcomeAgreesFor, OutcomeIsChronological,
        ActiveAttempt, ActiveAttemptsOf
<1>2. RolloutInv /\ [Next]_vars => RolloutInv'
  <2> SUFFICES ASSUME RolloutInv, [Next]_vars
               PROVE  RolloutInv'
    OBVIOUS
  <2>1. TablesTypeOK /\ Transaction
    BY StepIsTransaction DEF RolloutInv, Typed, TypeOK
  <2>2. Typed'
    BY <2>1, TransactionKeepsTypes, RequestsStep, JobsStep DEF RolloutInv, Typed, TypeOK
  <2> QED
    BY <2>1, <2>2, AttemptReleaseStep, OneActiveStep, DeployingStep, WithdrawnStep, OutcomeStep,
       ChronologyStep
    DEF RolloutInv
<1> QED
  BY <1>1, <1>2, PTL DEF Spec

(* No release ever has two attempts in progress (OneActiveAttempt). *)
THEOREM OneActiveAttemptAlways == Spec => []OneActiveAttempt
  BY RolloutInvariance, PTL DEF RolloutInv

(* A deploying release has an attempt in progress (DeployingHasAttempt). *)
THEOREM DeployingHasAttemptAlways == Spec => []DeployingHasAttempt
  BY RolloutInvariance, PTL DEF RolloutInv

(* A superseded or cancelled release has none (WithdrawnHasNoAttempt). *)
THEOREM WithdrawnHasNoAttemptAlways == Spec => []WithdrawnHasNoAttempt
  BY RolloutInvariance, PTL DEF RolloutInv

(* The outcome row and the attempt it names agree (OutcomeAgrees). *)
THEOREM OutcomeAgreesAlways == Spec => []OutcomeAgrees
  BY RolloutInvariance, PTL DEF RolloutInv

(* No final outcome precedes what was observed (OutcomeIsChronological). *)
THEOREM OutcomeIsChronologicalAlways == Spec => []OutcomeIsChronological
  BY RolloutInvariance, PTL DEF RolloutInv

----------------------------------------------------------------------------
(* What no transaction may do to an attempt or an outcome.                 *)

LEMMA EndedAttemptStep ==
  ASSUME TablesTypeOK, Transaction, NEW a \in Attempt,
         ~ActiveAttempt(a), attStatus[a] # "ABSENT"
  PROVE  /\ attStatus'[a] = attStatus[a]
         /\ attRelease'[a] = attRelease[a]
         /\ attStrategy'[a] = attStrategy[a]
<1> USE DEF TablesTypeOK, ActiveAttempt
<1>1. CASE Bystander
  BY <1>1 DEF Bystander, attemptVars
<1>2. ASSUME NEW d \in DeliveryId, NEW p \in PR, NEW action \in Actions, NEW h \in SHA,
             AcceptPullRequestDelivery(d, p, action, h)
      PROVE  /\ attStatus'[a] = attStatus[a]
             /\ attRelease'[a] = attRelease[a]
             /\ attStrategy'[a] = attStrategy[a]
  BY <1>2 DEF AcceptPullRequestDelivery, StaleAttempt
<1>3. ASSUME NEW e \in EventId, NEW s \in SHA, NEW decided \in Strategies \cup {"NONE"},
             RecordDeploymentEvent(e, s, decided)
      PROVE  /\ attStatus'[a] = attStatus[a]
             /\ attRelease'[a] = attRelease[a]
             /\ attStrategy'[a] = attStrategy[a]
  BY <1>3 DEF RecordDeploymentEvent, RecordStarted, UnusedAttempt, RecordObservation,
              RecordAttemptedOutcome, RecordBlockedOutcome, BoundActiveAttempt, attemptVars
<1> QED
  BY <1>1, <1>2, <1>3, RolloutTransactions

(* An attempt that ended keeps its end, release and strategy.              *)
THEOREM EndedAttemptStaysAlways == Spec => EndedAttemptStays
<1>1. RolloutInv /\ [Next]_vars =>
        [\A a \in Attempt :
           ~ActiveAttempt(a) /\ attStatus[a] # "ABSENT"
             => /\ attStatus'[a] = attStatus[a]
                /\ attRelease'[a] = attRelease[a]
                /\ attStrategy'[a] = attStrategy[a]]_attemptVars
  BY StepIsTransaction, EndedAttemptStep DEF RolloutInv, Typed, TypeOK
<1> QED
  BY <1>1, RolloutInvariance, PTL DEF Spec, EndedAttemptStays

LEMMA TimesAreNumbers == \A at \in Time \cup {0} : at \in Nat
  BY TimeAssumption

(* The recorded outcome of a release never moves back in recorded time.    *)
THEOREM OutcomeTimeAdvancesAlways == Spec => OutcomeTimeAdvances
<1>1. RolloutInv /\ [Next]_vars =>
        [\A s \in SHA : outcome[s] # "NONE" => outcomeAt'[s] >= outcomeAt[s]]_outcomeVars
  <2> SUFFICES ASSUME RolloutInv, [Next]_vars, NEW s \in SHA, outcome[s] # "NONE",
                      ~ UNCHANGED outcomeVars
               PROVE  outcomeAt'[s] >= outcomeAt[s]
    OBVIOUS
  <2>1. TablesTypeOK /\ Transaction
    BY StepIsTransaction DEF RolloutInv, Typed, TypeOK
  <2>2. PICK e \in EventId, r \in SHA, decided \in Strategies \cup {"NONE"} :
          RecordDeploymentEvent(e, r, decided)
    BY <2>1, RolloutTransactions DEF Bystander, AcceptPullRequestDelivery
  <2>3. PICK a \in Attempt \cup {None}, result \in Outcomes, at \in Time :
          UpsertOutcome(r, a, result, at)
    BY <2>2 DEF RecordDeploymentEvent, RecordStarted, RecordObservation, RecordAttemptedOutcome,
                RecordBlockedOutcome, AttemptedOutcomes, Outcomes
  <2>4. outcomeAt[s] \in Nat /\ at \in Nat
    <3>1. outcomeAt[s] \in Time \cup {0}
      BY <2>1 DEF TablesTypeOK
    <3> QED
      BY <3>1, TimesAreNumbers
  <2>5. outcomeAt'[s] = IF s = r THEN at ELSE outcomeAt[s]
    BY <2>1, <2>3 DEF UpsertOutcome, TablesTypeOK
  <2>6. s = r => at >= outcomeAt[s]
    BY <2>3 DEF UpsertOutcome, MayOverwriteOutcome
  <2> QED
    BY <2>4, <2>5, <2>6
<1> QED
  BY <1>1, RolloutInvariance, PTL DEF Spec, OutcomeTimeAdvances

----------------------------------------------------------------------------
(* Receipts of deployment events.                                          *)

LEMMA ReceiptInserted ==
  ASSUME receipts \in [EventId -> Receipts \cup {None}],
         NEW e \in EventId, NEW s \in SHA, NEW type \in EventTypes,
         NEW x \in Attempt \cup {None}, NEW a \in Attempt,
         InsertReceipt(e, s, type, x)
  PROVE  /\ StartReceipts(a)' = IF type = "DEPLOYMENT_STARTED" /\ x = a
                                THEN StartReceipts(a) \cup {e} ELSE StartReceipts(a)
         /\ receipts'[e].release = s
         /\ \A o \in StartReceipts(a) : receipts'[o] = receipts[o]
<1>1. [release |-> s, type |-> type, attempt |-> x] \in Receipts
  BY DEF Receipts
<1> QED
  BY <1>1, NoReceiptAssumption DEF InsertReceipt, StartReceipts

LEMMA StartedOnceStep ==
  ASSUME TablesTypeOK, AttemptStartedOnce, Transaction
  PROVE  AttemptStartedOnce'
<1> USE DEF TablesTypeOK, ActiveAttempt
<1>1. CASE Bystander
  BY <1>1 DEF Bystander, attemptVars, AttemptStartedOnce, StartReceipts
<1>2. ASSUME NEW d \in DeliveryId, NEW p \in PR, NEW action \in Actions, NEW h \in SHA,
             AcceptPullRequestDelivery(d, p, action, h)
      PROVE  AttemptStartedOnce'
  BY <1>2 DEF AcceptPullRequestDelivery, StaleAttempt, AttemptStartedOnce, StartReceipts
<1>3. ASSUME NEW e \in EventId, NEW s \in SHA, NEW decided \in Strategies \cup {"NONE"},
             NEW b \in Attempt, NEW at \in Time, RecordStarted(e, s, b, at, decided)
      PROVE  AttemptStartedOnce'
  <2> SUFFICES ASSUME NEW a \in Attempt
               PROVE  IF attStatus'[a] = "ABSENT" THEN StartReceipts(a)' = {}
                      ELSE \E o \in EventId : /\ StartReceipts(a)' = {o}
                                              /\ receipts'[o].release = attRelease'[a]
    BY DEF AttemptStartedOnce
  <2>1. /\ StartReceipts(a)' = IF b = a THEN StartReceipts(a) \cup {e} ELSE StartReceipts(a)
        /\ receipts'[e].release = s
        /\ \A o \in StartReceipts(a) : receipts'[o] = receipts[o]
    BY <1>3, ReceiptInserted DEF RecordStarted, EventTypes
  <2>2. CASE b = a
    <3>1. attStatus[a] = "ABSENT" /\ attStatus'[a] = "STARTED" /\ attRelease'[a] = s
      BY <1>3, <2>2 DEF RecordStarted, UnusedAttempt
    <3>2. StartReceipts(a)' = {e}
      BY <2>1, <2>2, <3>1 DEF AttemptStartedOnce
    <3> QED
      BY <2>1, <3>1, <3>2
  <2>3. CASE b # a
    <3>1. attStatus'[a] = attStatus[a] /\ attRelease'[a] = attRelease[a]
      BY <1>3, <2>3 DEF RecordStarted
    <3> QED
      BY <2>1, <2>3, <3>1 DEF AttemptStartedOnce
  <2> QED
    BY <2>2, <2>3
<1>4. ASSUME NEW e \in EventId, NEW s \in SHA, NEW type \in EventTypes,
             NEW x \in Attempt \cup {None}, type # "DEPLOYMENT_STARTED",
             InsertReceipt(e, s, type, x),
             \A a \in Attempt : /\ attStatus'[a] = "ABSENT" <=> attStatus[a] = "ABSENT"
                                /\ attRelease'[a] = attRelease[a]
      PROVE  AttemptStartedOnce'
  <2> SUFFICES ASSUME NEW a \in Attempt
               PROVE  IF attStatus'[a] = "ABSENT" THEN StartReceipts(a)' = {}
                      ELSE \E o \in EventId : /\ StartReceipts(a)' = {o}
                                              /\ receipts'[o].release = attRelease'[a]
    BY DEF AttemptStartedOnce
  <2>1. /\ StartReceipts(a)' = StartReceipts(a)
        /\ \A o \in StartReceipts(a) : receipts'[o] = receipts[o]
    BY <1>4, ReceiptInserted
  <2> QED
    BY <1>4, <2>1 DEF AttemptStartedOnce
<1>5. ASSUME NEW e \in EventId, NEW s \in SHA, NEW decided \in Strategies \cup {"NONE"},
             NEW b \in Attempt, NEW at \in Time,
             \/ RecordObservation(e, s, b, at, decided)
             \/ \E result \in AttemptedOutcomes :
                  RecordAttemptedOutcome(e, s, b, result, at, decided)
      PROVE  AttemptStartedOnce'
  <2>1. \A a \in Attempt : /\ attStatus'[a] = "ABSENT" <=> attStatus[a] = "ABSENT"
                           /\ attRelease'[a] = attRelease[a]
    BY <1>5 DEF RecordObservation, RecordAttemptedOutcome, BoundActiveAttempt, AttemptStatusFor,
                AttemptedOutcomes
  <2>2. \E type \in EventTypes : type # "DEPLOYMENT_STARTED" /\ InsertReceipt(e, s, type, b)
    BY <1>5 DEF RecordObservation, RecordAttemptedOutcome, EventTypes
  <2> QED
    BY <1>4, <2>1, <2>2
<1>6. ASSUME NEW e \in EventId, NEW s \in SHA, NEW decided \in Strategies \cup {"NONE"},
             NEW at \in Time, RecordBlockedOutcome(e, s, at, decided)
      PROVE  AttemptStartedOnce'
  <2>1. InsertReceipt(e, s, "DEPLOYMENT_OUTCOME_RECORDED", None) /\ UNCHANGED attemptVars
    BY <1>6 DEF RecordBlockedOutcome
  <2> QED
    BY <1>4, <2>1 DEF EventTypes, attemptVars
<1> QED
  BY <1>1, <1>2, <1>3, <1>5, <1>6, RolloutTransactions DEF RecordDeploymentEvent

(* Exactly one accepted start stands behind every attempt, and it was for  *)
(* the attempt's release (AttemptStartedOnce).                             *)
THEOREM AttemptStartedOnceAlways == Spec => []AttemptStartedOnce
<1>1. Init => AttemptStartedOnce
  BY DEF Init, TablesInit, AttemptStartedOnce, StartReceipts
<1>2. Typed /\ AttemptStartedOnce /\ [Next]_vars => AttemptStartedOnce'
  BY StepIsTransaction, StartedOnceStep DEF Typed, TypeOK
<1> QED
  BY <1>1, <1>2, TypeCorrectness, PTL DEF Spec

----------------------------------------------------------------------------
(* CanaryGuard implements AttemptLedger: the initial tables are the empty  *)
(* ledger, and every transaction starts one attempt, decides one,          *)
(* withdraws some or leaves the ledger as it is.                           *)

LEMMA LedgerStep ==
  ASSUME RolloutInv, Transaction
  PROVE  [Ledger!LedgerNext]_(Ledger!ledger)
<1> USE NoneAssumption
    DEF TablesTypeOK, AttemptEnd, ActiveAttempt, Ledger!ledger
<1>0. TablesTypeOK /\ AttemptHasRelease
  BY DEF RolloutInv, Typed, TypeOK
<1>1. CASE Bystander
  <2>1. attStatus' = attStatus /\ attRelease' = attRelease
    BY <1>1 DEF Bystander, attemptVars
  <2> QED
    BY <2>1
<1>2. ASSUME NEW d \in DeliveryId, NEW p \in PR, NEW action \in Actions, NEW h \in SHA,
             AcceptPullRequestDelivery(d, p, action, h)
      PROVE  Ledger!LedgerNext
  <2>0. PICK withdrawn \in SUBSET Attempt :
          withdrawn = {a \in Attempt : StaleAttempt(a, p, action, h)}
    OBVIOUS
  <2>1. /\ attRelease' = attRelease
        /\ attStatus' = [a \in Attempt |-> IF a \in withdrawn THEN "CANCELLED" ELSE attStatus[a]]
    BY <1>2, <2>0 DEF AcceptPullRequestDelivery
  <2>2. \A a \in withdrawn : ActiveAttempt(a) /\ attRelease[a] # None
    BY <1>0, <2>0 DEF StaleAttempt, AttemptHasRelease
  <2>3. AttemptEnd' = [a \in Attempt |-> IF a \in withdrawn THEN "WITHDRAWN" ELSE AttemptEnd[a]]
    BY <2>1
  <2>4. Ledger!Withdraw(withdrawn)
    BY <2>1, <2>2, <2>3 DEF Ledger!Withdraw, Ledger!Open, Ledger!Started
  <2> QED
    BY <2>4 DEF Ledger!LedgerNext
<1>3. ASSUME NEW e \in EventId, NEW s \in SHA, NEW decided \in Strategies \cup {"NONE"},
             NEW a \in Attempt, NEW at \in Time, RecordStarted(e, s, a, at, decided)
      PROVE  Ledger!LedgerNext
  <2>1. ~Ledger!Started(a)
    BY <1>0, <1>3 DEF RecordStarted, UnusedAttempt, AttemptHasRelease, Ledger!Started
  <2>2. \A b \in Attempt : attRelease[b] = s => ~Ledger!Open(b)
    <3> SUFFICES ASSUME NEW b \in Attempt, attRelease[b] = s
                 PROVE  ~Ledger!Open(b)
      OBVIOUS
    <3>1. ~ActiveAttempt(b)
      BY <1>3 DEF RecordStarted, MayStart, ActiveAttemptsOf
    <3>2. attStatus[b] # "ABSENT"
      BY <1>0 DEF AttemptHasRelease
    <3> QED
      BY <1>0, <3>1, <3>2 DEF Ledger!Open, AttemptStatuses
  <2>3. attRelease' = [attRelease EXCEPT ![a] = s] /\ AttemptEnd' = AttemptEnd
    BY <1>0, <1>3 DEF RecordStarted, UnusedAttempt
  <2>4. Ledger!Start(a, s)
    BY <2>1, <2>2, <2>3 DEF Ledger!Start
  <2> QED
    BY <2>4 DEF Ledger!LedgerNext
<1>4. ASSUME NEW e \in EventId, NEW s \in SHA, NEW decided \in Strategies \cup {"NONE"},
             NEW a \in Attempt, NEW at \in Time, RecordObservation(e, s, a, at, decided)
      PROVE  UNCHANGED Ledger!ledger
  BY <1>0, <1>4 DEF RecordObservation, BoundActiveAttempt
<1>5. ASSUME NEW e \in EventId, NEW s \in SHA, NEW decided \in Strategies \cup {"NONE"},
             NEW a \in Attempt, NEW result \in AttemptedOutcomes, NEW at \in Time,
             RecordAttemptedOutcome(e, s, a, result, at, decided)
      PROVE  [Ledger!LedgerNext]_(Ledger!ledger)
  <2>0. PICK status \in {"OBSERVING"} \cup Ledger!Verdicts :
          status = AttemptStatusFor(attStrategy[a], result)
    BY DEF AttemptStatusFor, AttemptedOutcomes, Ledger!Verdicts
  <2>1. /\ attRelease' = attRelease
        /\ attStatus' = [attStatus EXCEPT ![a] = status]
        /\ ActiveAttempt(a)
        /\ attRelease[a] = s
    BY <1>5, <2>0 DEF RecordAttemptedOutcome, BoundActiveAttempt
  <2>2. CASE status = "OBSERVING"
    BY <1>0, <2>1, <2>2
  <2>3. CASE status \in Ledger!Verdicts
    <3>1. AttemptEnd' = [AttemptEnd EXCEPT ![a] = status]
      BY <1>0, <2>1, <2>3 DEF Ledger!Verdicts
    <3>2. Ledger!Open(a)
      BY <2>1 DEF Ledger!Open, Ledger!Started
    <3>3. Ledger!Decide(a, status)
      BY <2>1, <3>1, <3>2 DEF Ledger!Decide
    <3> QED
      BY <2>3, <3>3 DEF Ledger!LedgerNext
  <2> QED
    BY <2>2, <2>3
<1>6. ASSUME NEW e \in EventId, NEW s \in SHA, NEW decided \in Strategies \cup {"NONE"},
             NEW at \in Time, RecordBlockedOutcome(e, s, at, decided)
      PROVE  UNCHANGED Ledger!ledger
  <2>1. attStatus' = attStatus /\ attRelease' = attRelease
    BY <1>6 DEF RecordBlockedOutcome, attemptVars
  <2> QED
    BY <2>1
<1> QED
  BY <1>1, <1>2, <1>3, <1>4, <1>5, <1>6, RolloutTransactions DEF RecordDeploymentEvent

(* The tables implement the ledger of attempts (ImplementsLedger).         *)
THEOREM LedgerRefinement == Spec => ImplementsLedger
<1>1. Init => Ledger!LedgerInit
  BY DEF Init, TablesInit, Ledger!LedgerInit, AttemptEnd
<1>2. RolloutInv /\ [Next]_vars => [Ledger!LedgerNext]_(Ledger!ledger)
  BY StepIsTransaction, LedgerStep DEF RolloutInv, Typed
<1> QED
  BY <1>1, <1>2, RolloutInvariance, PTL DEF Spec, ImplementsLedger, Ledger!LedgerSpec

----------------------------------------------------------------------------
(* Deliveries, tasks and workers.                                          *)

(* A pull request that is not recorded has no head. *)
UnknownHasNoHead == \A p \in PR : prState[p] = "ABSENT" => prHead[p] = None

TasksHaveReleases == \A t \in Run : taskStatus[t] # "ABSENT" => taskRelease[t] \in SHA

(* The invariant that carries LiveTaskIsCurrent: the pull request that has *)
(* the task's release, the task's own or another, is at its commit.        *)
LiveTaskHasHead ==
  \A t \in Run :
    LiveTask(t) => /\ relPr[taskRelease[t]] # None
                   /\ prHead[relPr[taskRelease[t]]] = taskRelease[t]

IntakeInv == TablesTypeOK /\ TasksHaveReleases /\ UnknownHasNoHead /\ LiveTaskHasHead

(* A delivered pull request moves its head and takes the live work of its  *)
(* other heads away; the release of the new head becomes its own.          *)
LEMMA PullRequestKeepsIntake ==
  ASSUME IntakeInv,
         NEW d \in DeliveryId, NEW p \in PR, NEW action \in Actions, NEW h \in SHA,
         AcceptPullRequestDelivery(d, p, action, h)
  PROVE  UnknownHasNoHead' /\ LiveTaskHasHead'
<1> USE NoneAssumption DEF IntakeInv, TablesTypeOK
<1>1. /\ prHead' = [prHead EXCEPT ![p] = h]
      /\ relPr' = [relPr EXCEPT ![h] = p]
  BY DEF AcceptPullRequestDelivery, FindOrCreateRelease
<1>2. UnknownHasNoHead'
  BY <1>1 DEF AcceptPullRequestDelivery, StateAfter, UnknownHasNoHead
<1>3. ASSUME NEW t \in Run, LiveTask(t)'
      PROVE  /\ relPr'[taskRelease'[t]] # None
             /\ prHead'[relPr'[taskRelease'[t]]] = taskRelease'[t]
  <2>1. LiveTask(t) /\ taskRelease' = taskRelease /\ ~StaleTask(t, p, action, h)
    BY <1>3 DEF AcceptPullRequestDelivery, LiveTask
  <2>2. /\ taskRelease[t] \in SHA
        /\ relPr[taskRelease[t]] # None
        /\ prHead[relPr[taskRelease[t]]] = taskRelease[t]
    BY <2>1 DEF TasksHaveReleases, LiveTaskHasHead, LiveTask
  <2>3. CASE taskRelease[t] = h
    BY <1>1, <2>1, <2>3
  <2>4. CASE taskRelease[t] # h
    <3>1. relPr[taskRelease[t]] # p
      BY <2>1, <2>2, <2>4 DEF StaleTask, OlderReleases
    <3> QED
      BY <1>1, <2>1, <2>2, <2>4, <3>1
  <2> QED
    BY <2>3, <2>4
<1> QED
  BY <1>2, <1>3 DEF LiveTaskHasHead

(* A workflow run adds work only for the recorded head, and inserts an     *)
(* unknown pull request at the run's own head.                             *)
LEMMA WorkflowRunKeepsIntake ==
  ASSUME IntakeInv,
         NEW d \in DeliveryId, NEW u \in Run, NEW p \in PR,
         AcceptWorkflowRunDelivery(d, u, p)
  PROVE  UnknownHasNoHead' /\ LiveTaskHasHead'
<1> USE NoneAssumption, RunHeadAssumption DEF IntakeInv, TablesTypeOK
<1>1. prHead' = [prHead EXCEPT ![p] = CorrelatedHead(p, u)]
  BY DEF AcceptWorkflowRunDelivery
<1>2. UnknownHasNoHead'
  BY <1>1 DEF AcceptWorkflowRunDelivery, CorrelatedState, UnknownHasNoHead
<1>3. ASSUME NEW t \in Run, LiveTask(t)
      PROVE  /\ taskRelease[t] \in SHA
             /\ relPr[taskRelease[t]] \in PR
             /\ prHead[relPr[taskRelease[t]]] = taskRelease[t]
             /\ prHead'[relPr[taskRelease[t]]] = taskRelease[t]
  <2>1. /\ taskRelease[t] \in SHA
        /\ relPr[taskRelease[t]] \in PR
        /\ prHead[relPr[taskRelease[t]]] = taskRelease[t]
    BY <1>3 DEF TasksHaveReleases, LiveTaskHasHead, LiveTask
  <2>2. prState[relPr[taskRelease[t]]] # "ABSENT"
    BY <2>1 DEF UnknownHasNoHead
  <2> QED
    BY <1>1, <2>1, <2>2 DEF CorrelatedHead
<1>4. CASE UNCHANGED <<releaseVars, taskStatus, taskRelease, taskPr>>
  BY <1>2, <1>3, <1>4 DEF LiveTaskHasHead, LiveTask, releaseVars
<1>5. CASE ~ UNCHANGED <<releaseVars, taskStatus, taskRelease, taskPr>>
  <2>1. /\ RunIsCurrent(p, u)
        /\ relPr' = [relPr EXCEPT ![RunHead[u]] = p]
        /\ \A t \in Run : \/ /\ taskStatus'[t] = taskStatus[t]
                             /\ taskRelease'[t] = taskRelease[t]
                          \/ taskRelease'[t] = RunHead[u]
    BY <1>5 DEF AcceptWorkflowRunDelivery, FindOrCreateRelease
  <2>2. prHead'[p] = RunHead[u]
    BY <1>1, <2>1 DEF RunIsCurrent
  <2>3. ASSUME NEW t \in Run, LiveTask(t)'
        PROVE  /\ relPr'[taskRelease'[t]] # None
               /\ prHead'[relPr'[taskRelease'[t]]] = taskRelease'[t]
    <3>1. CASE taskRelease'[t] = RunHead[u]
      BY <2>1, <2>2, <3>1
    <3>2. CASE taskRelease'[t] # RunHead[u]
      <4>1. LiveTask(t) /\ taskRelease'[t] = taskRelease[t]
        BY <2>1, <2>3, <3>2 DEF LiveTask
      <4> QED
        BY <1>3, <2>1, <3>2, <4>1
    <3> QED
      BY <3>1, <3>2
  <2> QED
    BY <1>2, <2>3 DEF LiveTaskHasHead
<1> QED
  BY <1>4, <1>5

LEMMA IntakeStep ==
  ASSUME IntakeInv, Transaction
  PROVE  UnknownHasNoHead' /\ LiveTaskHasHead'
<1>1. ASSUME \/ \E t \in Run : ClaimWorkflowRunTask(t)
             \/ \E t \in Run, status \in {"PENDING", "COMPLETED", "FAILED"} : SettleTask(t, status)
             \/ \E d \in DeliveryId : IgnoreDelivery(d)
             \/ \E s \in SHA : ResolveReleaseId(s)
             \/ \E s \in SHA, strategy \in Strategies : RecordReview(s, strategy)
             \/ \E e \in EventId, s \in SHA, decided \in Strategies \cup {"NONE"} :
                  RecordDeploymentEvent(e, s, decided)
             \/ UNCHANGED tableVars
      PROVE  /\ UNCHANGED <<prState, prHead, taskRelease>>
             /\ relPr' = relPr
             /\ \A t \in Run : LiveTask(t)' => LiveTask(t)
  <2>1. ASSUME \/ \E t \in Run : ClaimWorkflowRunTask(t)
               \/ \E t \in Run, status \in {"PENDING", "COMPLETED", "FAILED"} :
                    SettleTask(t, status)
        PROVE  /\ UNCHANGED <<prState, prHead, taskRelease, relPr>>
               /\ \A t \in Run : LiveTask(t)' => LiveTask(t)
    BY <2>1 DEF ClaimWorkflowRunTask, SettleTask, SettledStatus, LiveTask, prVars, releaseVars,
                IntakeInv, TablesTypeOK
  <2>2. ASSUME \/ \E s \in SHA : ResolveReleaseId(s)
               \/ \E s \in SHA, strategy \in Strategies : RecordReview(s, strategy)
        PROVE  UNCHANGED <<prState, prHead, taskStatus, taskRelease, relPr>>
    BY <2>2 DEF ResolveReleaseId, RecordReview, FindOrCreateRelease, prVars, taskVars, IntakeInv,
                TablesTypeOK
  <2>3. ASSUME \/ \E d \in DeliveryId : IgnoreDelivery(d)
               \/ \E e \in EventId, s \in SHA, decided \in Strategies \cup {"NONE"} :
                    RecordDeploymentEvent(e, s, decided)
               \/ UNCHANGED tableVars
        PROVE  UNCHANGED <<prState, prHead, taskStatus, taskRelease, relPr>>
    BY <2>3 DEF IgnoreDelivery, RecordDeploymentEvent, RecordStarted, RecordObservation,
                RecordAttemptedOutcome, RecordBlockedOutcome, prVars, taskVars, releaseVars,
                tableVars
  <2> QED
    BY <1>1, <2>1, <2>2, <2>3 DEF LiveTask
<1> QED
  BY <1>1, PullRequestKeepsIntake, WorkflowRunKeepsIntake
  DEF Transaction, IntakeInv, UnknownHasNoHead, LiveTaskHasHead

(* Work still queued or in a worker's hands is for the head of its own     *)
(* pull request, or of another one that has taken its release over         *)
(* (LiveTaskIsCurrent): either way the pull request of the release is one  *)
(* that has the commit as its head.                                        *)
THEOREM LiveTaskIsCurrentAlways == Spec => []LiveTaskIsCurrent
<1>1. Init => UnknownHasNoHead /\ LiveTaskHasHead
  BY DEF Init, TablesInit, UnknownHasNoHead, LiveTaskHasHead, LiveTask
<1>2. Typed /\ UnknownHasNoHead /\ LiveTaskHasHead /\ [Next]_vars
        => UnknownHasNoHead' /\ LiveTaskHasHead'
  BY StepIsTransaction, IntakeStep DEF Typed, TypeOK, JobsHoldTasks, IntakeInv, TasksHaveReleases
<1>3. Typed /\ LiveTaskHasHead => LiveTaskIsCurrent
  <2> SUFFICES ASSUME Typed, LiveTaskHasHead, NEW t \in Run, LiveTask(t),
                      prHead[taskPr[t]] # taskRelease[t]
               PROVE  \E p \in PR \ {taskPr[t]} :
                        relPr[taskRelease[t]] = p /\ prHead[p] = taskRelease[t]
    BY DEF LiveTaskIsCurrent
  <2>1. taskRelease[t] \in SHA
    BY DEF Typed, JobsHoldTasks, LiveTask
  <2>2. relPr[taskRelease[t]] \in PR
    BY <2>1 DEF LiveTaskHasHead, Typed, TypeOK, TablesTypeOK
  <2>3. prHead[relPr[taskRelease[t]]] = taskRelease[t]
    BY DEF LiveTaskHasHead
  <2> QED
    BY <2>2, <2>3
<1> QED
  BY <1>1, <1>2, <1>3, TypeCorrectness, PTL DEF Spec

----------------------------------------------------------------------------
(* Tasks that are settled, and the workers that settle them.               *)

(* What any transaction keeps of a task and of a policy decision.          *)
LEMMA TaskMonotone ==
  ASSUME TablesTypeOK, Transaction, NEW t \in Run
  PROVE  /\ taskStatus[t] \in {"COMPLETED", "FAILED", "SUPERSEDED"}
              => taskStatus'[t] = taskStatus[t]
         /\ taskAttempts'[t] >= taskAttempts[t]
<1> USE DEF TablesTypeOK, taskVars
<1>1. ASSUME \/ \E d \in DeliveryId, p \in PR, action \in Actions, h \in SHA :
                  AcceptPullRequestDelivery(d, p, action, h)
             \/ \E d \in DeliveryId, u \in Run, p \in PR : AcceptWorkflowRunDelivery(d, u, p)
      PROVE  /\ taskStatus[t] \in {"COMPLETED", "FAILED", "SUPERSEDED"}
                  => taskStatus'[t] = taskStatus[t]
             /\ taskAttempts' = taskAttempts
  BY <1>1 DEF AcceptPullRequestDelivery, StaleTask, LiveTask, AcceptWorkflowRunDelivery
<1>2. ASSUME \/ \E u \in Run : ClaimWorkflowRunTask(u)
             \/ \E u \in Run, status \in {"PENDING", "COMPLETED", "FAILED"} : SettleTask(u, status)
      PROVE  /\ taskStatus[t] \in {"COMPLETED", "FAILED", "SUPERSEDED"}
                  => taskStatus'[t] = taskStatus[t]
             /\ taskAttempts'[t] >= taskAttempts[t]
  BY <1>2 DEF ClaimWorkflowRunTask, LiveTask, SettleTask, SettledStatus
<1>3. ASSUME \/ \E d \in DeliveryId : IgnoreDelivery(d)
             \/ \E s \in SHA : ResolveReleaseId(s)
             \/ \E s \in SHA, strategy \in Strategies : RecordReview(s, strategy)
             \/ \E e \in EventId, s \in SHA, decided \in Strategies \cup {"NONE"} :
                  RecordDeploymentEvent(e, s, decided)
             \/ UNCHANGED tableVars
      PROVE  UNCHANGED taskVars
  BY <1>3 DEF IgnoreDelivery, ResolveReleaseId, RecordReview, RecordDeploymentEvent,
              RecordStarted, RecordObservation, RecordAttemptedOutcome, RecordBlockedOutcome,
              tableVars
<1> QED
  BY <1>1, <1>2, <1>3 DEF Transaction

LEMMA DecisionStays ==
  ASSUME TablesTypeOK, Transaction, NEW s \in SHA, policy[s] # "NONE"
  PROVE  policy'[s] # "NONE"
  BY DEF Transaction, TablesTypeOK, Strategies, AcceptPullRequestDelivery, RecordReview,
         AcceptWorkflowRunDelivery, IgnoreDelivery, ClaimWorkflowRunTask, SettleTask,
         ResolveReleaseId, RecordDeploymentEvent, RecordStarted, RecordObservation,
         RecordAttemptedOutcome, RecordBlockedOutcome, tableVars

(* A task that was completed, given up or superseded never runs again      *)
(* (SettledTaskStays): no worker's late report touches it.                 *)
THEOREM SettledTaskStaysAlways == Spec => SettledTaskStays
<1>1. Typed /\ [Next]_vars =>
        [\A t \in Run :
           taskStatus[t] \in {"COMPLETED", "FAILED", "SUPERSEDED"}
             => taskStatus'[t] = taskStatus[t]]_taskVars
  BY StepIsTransaction, TaskMonotone DEF Typed, TypeOK
<1> QED
  BY <1>1, TypeCorrectness, PTL DEF Spec, SettledTaskStays

(* A worker's count is never ahead of its task's, and a worker that has    *)
(* reviewed left a decision for the task's release.                        *)
WorkersKnow ==
  \A w \in Worker :
    /\ jobPhase[w] # "IDLE" => jobAttempts[w] <= taskAttempts[jobTask[w]]
    /\ jobPhase[w] = "REVIEWED" => policy[taskRelease[jobTask[w]]] # "NONE"

WorkerInv == WorkersKnow /\ FailedAfterMaximumAttempts /\ CompletedTaskHasDecision

(* Where a worker's knowledge comes from. *)
LEMMA WorkerSources ==
  ASSUME Typed, [Next]_vars, NEW w \in Worker, jobPhase'[w] # "IDLE"
  PROVE  \/ /\ jobPhase[w] # "IDLE"
            /\ jobTask'[w] = jobTask[w]
            /\ jobAttempts'[w] = jobAttempts[w]
            /\ jobPhase'[w] = "REVIEWED" =>
                 \/ jobPhase[w] = "REVIEWED"
                 \/ policy'[taskRelease[jobTask[w]]] # "NONE"
         \/ /\ jobPhase'[w] = "CLAIMED"
            /\ jobTask'[w] \in Run
            /\ jobAttempts'[w] = taskAttempts'[jobTask'[w]]
<1> USE DEF Typed, TypeOK, TablesTypeOK, Job
<1>1. CASE jobVars' = jobVars
  BY <1>1 DEF jobVars
<1>2. ASSUME NEW v \in Worker, NEW t \in Run, Claim(v, t)
      PROVE  \/ /\ jobPhase[w] # "IDLE"
                /\ jobTask'[w] = jobTask[w]
                /\ jobAttempts'[w] = jobAttempts[w]
                /\ jobPhase'[w] = "REVIEWED" => jobPhase[w] = "REVIEWED"
             \/ /\ jobPhase'[w] = "CLAIMED"
                /\ jobTask'[w] \in Run
                /\ jobAttempts'[w] = taskAttempts'[jobTask'[w]]
  BY <1>2 DEF Claim, ClaimWorkflowRunTask
<1>3. ASSUME NEW v \in Worker, NEW strategy \in Strategies, WorkerReview(v, strategy)
      PROVE  /\ jobPhase[w] # "IDLE"
             /\ jobTask'[w] = jobTask[w]
             /\ jobAttempts'[w] = jobAttempts[w]
             /\ \/ jobPhase'[w] = jobPhase[w]
                \/ policy'[taskRelease[jobTask[w]]] # "NONE"
  <2>1. CASE v = w
    <3>1. jobTask[w] \in Run /\ taskRelease[jobTask[w]] \in SHA
      BY <1>3, <2>1 DEF WorkerReview, JobsHoldTasks
    <3> QED
      BY <1>3, <2>1, <3>1 DEF WorkerReview, RecordReview, Strategies
  <2>2. CASE v # w
    BY <1>3, <2>2 DEF WorkerReview
  <2> QED
    BY <2>1, <2>2
<1>4. ASSUME NEW v \in Worker, WorkerComplete(v) \/ WorkerFail(v) \/ WorkerCrash(v)
      PROVE  /\ jobPhase[w] # "IDLE"
             /\ jobTask'[w] = jobTask[w]
             /\ jobAttempts'[w] = jobAttempts[w]
             /\ jobPhase'[w] = jobPhase[w]
  BY <1>4 DEF WorkerComplete, WorkerFail, WorkerCrash
<1>5. ASSUME \/ \E d \in DeliveryId :
                  \/ \E p \in PR, action \in Actions, h \in SHA :
                       PullRequestDelivery(d, p, action, h)
                  \/ \E t \in Run, p \in PR : WorkflowRunDelivery(d, t, p)
                  \/ IgnoredDelivery(d)
             \/ \E c \in Reviewer :
                  \/ \E s \in SHA : ResolveReview(c, s)
                  \/ \E strategy \in Strategies : FinishReview(c, strategy)
             \/ \E c \in Conn :
                  \/ \E s \in SHA : LockRelease(c, s)
                  \/ \E e \in EventId : ApplyEvent(c, e)
                  \/ LeaveEvent(c)
             \/ UNCHANGED vars
      PROVE  jobVars' = jobVars
  BY <1>5 DEF PullRequestDelivery, WorkflowRunDelivery, IgnoredDelivery, ResolveReview,
              FinishReview, LockRelease, ApplyEvent, EndEvent, LeaveEvent, vars
<1> QED
  BY <1>1, <1>2, <1>3, <1>4, <1>5 DEF Next

(* Where a final task status comes from. *)
LEMMA SettledSources ==
  ASSUME Typed, [Next]_vars, NEW t \in Run
  PROVE  /\ taskStatus'[t] = "FAILED" =>
              \/ taskStatus[t] = "FAILED"
              \/ \E w \in Worker : /\ jobPhase[w] # "IDLE"
                                   /\ jobTask[w] = t
                                   /\ LastAttempt(w)
         /\ taskStatus'[t] = "COMPLETED" =>
              \/ taskStatus[t] = "COMPLETED"
              \/ \E w \in Worker : jobPhase[w] = "REVIEWED" /\ jobTask[w] = t
<1> USE DEF Typed, TypeOK, TablesTypeOK
<1>1. ASSUME NEW w \in Worker, WorkerComplete(w)
      PROVE  /\ taskStatus'[t] = "FAILED" => taskStatus[t] = "FAILED"
             /\ taskStatus'[t] = "COMPLETED" =>
                  \/ taskStatus[t] = "COMPLETED"
                  \/ jobPhase[w] = "REVIEWED" /\ jobTask[w] = t
  BY <1>1 DEF WorkerComplete, CompleteWorkflowRunTask, SettleTask, SettledStatus
<1>2. ASSUME NEW w \in Worker, WorkerFail(w)
      PROVE  /\ taskStatus'[t] = "FAILED" =>
                  \/ taskStatus[t] = "FAILED"
                  \/ jobPhase[w] # "IDLE" /\ jobTask[w] = t /\ LastAttempt(w)
             /\ taskStatus'[t] = "COMPLETED" => taskStatus[t] = "COMPLETED"
  BY <1>2 DEF WorkerFail, RetryWorkflowRunTask, SettleTask, SettledStatus
<1>3. ASSUME \/ \E w \in Worker :
                  \/ \E u \in Run : Claim(w, u)
                  \/ \E strategy \in Strategies : WorkerReview(w, strategy)
                  \/ WorkerCrash(w)
             \/ \E d \in DeliveryId :
                  \/ \E p \in PR, action \in Actions, h \in SHA :
                       PullRequestDelivery(d, p, action, h)
                  \/ \E u \in Run, p \in PR : WorkflowRunDelivery(d, u, p)
                  \/ IgnoredDelivery(d)
             \/ \E c \in Reviewer :
                  \/ \E s \in SHA : ResolveReview(c, s)
                  \/ \E strategy \in Strategies : FinishReview(c, strategy)
             \/ \E c \in Conn :
                  \/ \E s \in SHA : LockRelease(c, s)
                  \/ \E e \in EventId : ApplyEvent(c, e)
                  \/ LeaveEvent(c)
             \/ UNCHANGED vars
      PROVE  /\ taskStatus'[t] = "FAILED" => taskStatus[t] = "FAILED"
             /\ taskStatus'[t] = "COMPLETED" => taskStatus[t] = "COMPLETED"
  BY <1>3 DEF Claim, ClaimWorkflowRunTask, WorkerReview, RecordReview, WorkerCrash,
              PullRequestDelivery, AcceptPullRequestDelivery, WorkflowRunDelivery,
              AcceptWorkflowRunDelivery, IgnoredDelivery, IgnoreDelivery, ResolveReview,
              ResolveReleaseId, FinishReview, LockRelease, ApplyEvent, RecordDeploymentEvent,
              RecordStarted, RecordObservation, RecordAttemptedOutcome, RecordBlockedOutcome,
              LeaveEvent, taskVars, tableVars, vars
<1> QED
  BY <1>1, <1>2, <1>3 DEF Next

LEMMA WorkerStep ==
  ASSUME Typed, WorkerInv, [Next]_vars
  PROVE  WorkerInv'
<1>1. TablesTypeOK /\ Transaction
  BY StepIsTransaction DEF Typed, TypeOK
<1>2. TypeOK'
  BY <1>1, TransactionKeepsTypes, RequestsStep DEF Typed, TypeOK
<1>3. WorkersKnow'
  <2> SUFFICES ASSUME NEW w \in Worker, jobPhase'[w] # "IDLE"
               PROVE  /\ jobAttempts'[w] <= taskAttempts'[jobTask'[w]]
                      /\ jobPhase'[w] = "REVIEWED" => policy'[taskRelease'[jobTask'[w]]] # "NONE"
    BY DEF WorkersKnow
  <2>1. CASE /\ jobPhase[w] # "IDLE"
             /\ jobTask'[w] = jobTask[w]
             /\ jobAttempts'[w] = jobAttempts[w]
             /\ jobPhase'[w] = "REVIEWED" =>
                  \/ jobPhase[w] = "REVIEWED"
                  \/ policy'[taskRelease[jobTask[w]]] # "NONE"
    <3>1. jobTask[w] \in Run /\ taskStatus[jobTask[w]] # "ABSENT"
      BY <2>1 DEF Typed, JobsHoldTasks
    <3>2. /\ taskRelease[jobTask[w]] \in SHA
          /\ taskRelease'[jobTask[w]] = taskRelease[jobTask[w]]
      BY <1>1, <3>1, TasksStay DEF Typed, JobsHoldTasks
    <3>3. taskAttempts'[jobTask[w]] >= taskAttempts[jobTask[w]]
      BY <1>1, <3>1, TaskMonotone
    <3>4. /\ jobAttempts[w] \in Nat
          /\ taskAttempts[jobTask[w]] \in Nat
          /\ taskAttempts'[jobTask[w]] \in Nat
      BY <1>1, <1>2, <3>1 DEF Typed, TypeOK, TablesTypeOK
    <3>5. jobAttempts[w] <= taskAttempts'[jobTask[w]]
      BY <2>1, <3>3, <3>4 DEF WorkerInv, WorkersKnow
    <3>6. jobPhase'[w] = "REVIEWED" => policy'[taskRelease[jobTask[w]]] # "NONE"
      BY <1>1, <2>1, <3>2, DecisionStays DEF WorkerInv, WorkersKnow
    <3> QED
      BY <2>1, <3>2, <3>5, <3>6
  <2>2. CASE /\ jobPhase'[w] = "CLAIMED"
             /\ jobTask'[w] \in Run
             /\ jobAttempts'[w] = taskAttempts'[jobTask'[w]]
    <3>1. jobAttempts'[w] \in Nat
      BY <1>2 DEF TypeOK
    <3> QED
      BY <2>2, <3>1
  <2> QED
    BY <2>1, <2>2, WorkerSources
<1>4. FailedAfterMaximumAttempts'
  <2> SUFFICES ASSUME NEW t \in Run, taskStatus'[t] = "FAILED"
               PROVE  taskAttempts'[t] >= MaximumAttempts
    BY DEF FailedAfterMaximumAttempts
  <2>1. /\ taskAttempts[t] \in Nat /\ taskAttempts'[t] \in Nat
        /\ taskAttempts'[t] >= taskAttempts[t]
    BY <1>1, <1>2, TaskMonotone DEF TypeOK, TablesTypeOK
  <2>2. taskAttempts[t] >= MaximumAttempts
    <3>1. CASE taskStatus[t] = "FAILED"
      BY <3>1 DEF WorkerInv, FailedAfterMaximumAttempts
    <3>2. ASSUME NEW w \in Worker, jobPhase[w] # "IDLE", jobTask[w] = t, LastAttempt(w)
          PROVE  taskAttempts[t] >= MaximumAttempts
      <4>1. jobAttempts[w] <= taskAttempts[t] /\ jobAttempts[w] >= MaximumAttempts
        BY <3>2 DEF WorkerInv, WorkersKnow, LastAttempt
      <4>2. jobAttempts[w] \in Nat
        BY DEF Typed, TypeOK
      <4> QED
        BY <2>1, <4>1, <4>2, MaximumAttemptsAssumption
    <3> QED
      BY <3>1, <3>2, SettledSources
  <2> QED
    BY <2>1, <2>2, MaximumAttemptsAssumption
<1>5. CompletedTaskHasDecision'
  <2> SUFFICES ASSUME NEW t \in Run, taskStatus'[t] = "COMPLETED"
               PROVE  policy'[taskRelease'[t]] # "NONE"
    BY DEF CompletedTaskHasDecision
  <2>1. taskStatus[t] # "ABSENT" /\ policy[taskRelease[t]] # "NONE"
    BY SettledSources DEF WorkerInv, WorkersKnow, CompletedTaskHasDecision, Typed, JobsHoldTasks
  <2>2. taskRelease[t] \in SHA /\ taskRelease'[t] = taskRelease[t]
    BY <1>1, <2>1, TasksStay DEF Typed, JobsHoldTasks
  <2> QED
    BY <1>1, <2>1, <2>2, DecisionStays
<1> QED
  BY <1>3, <1>4, <1>5 DEF WorkerInv

(* A task given up as FAILED has been claimed the configured number of     *)
(* times (FailedAfterMaximumAttempts), and a completed task has a policy   *)
(* decision (CompletedTaskHasDecision), whoever reports them and when.     *)
THEOREM WorkerSafety == Spec => [](FailedAfterMaximumAttempts /\ CompletedTaskHasDecision)
<1>1. Init => WorkerInv
  BY DEF Init, TablesInit, WorkerInv, WorkersKnow, FailedAfterMaximumAttempts,
         CompletedTaskHasDecision
<1>2. Typed /\ WorkerInv /\ [Next]_vars => WorkerInv'
  BY WorkerStep
<1> QED
  BY <1>1, <1>2, TypeCorrectness, PTL DEF Spec, WorkerInv

=============================================================================
