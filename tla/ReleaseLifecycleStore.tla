----------------------- MODULE ReleaseLifecycleStore -----------------------
(***************************************************************************)
(* PostgresReleaseLifecycleStore: what a GitHub delivery, a review and a   *)
(* worker's claim, completion or retry do to the tables.  Each operator is *)
(* one transaction.  It is one step because upsertRepository locks the     *)
(* repository row before anything is read, and because a claim, completion *)
(* or retry is one statement on one row.                                   *)
(*                                                                         *)
(* Left out: titles, base SHAs, findings, predictions, check run ids and   *)
(* audit rows, which no guard of these transactions reads, and             *)
(* available_at and leased_until, whose passing DurableWorker models: here *)
(* a task that waits or whose lease runs may become claimable at any time. *)
(***************************************************************************)
EXTENDS ReleaseTables

CONSTANTS
  RunHead,    \* the commit a workflow run was for
  MaxClaims   \* bound on automation_tasks.attempts, for model checking

ASSUME RunHeadAssumption == RunHead \in [Run -> SHA]

(* What a pull_request payload says: a "closed" action is split by the     *)
(* payload's merged flag.  ready_for_review acts like synchronize.         *)
Actions == {"opened", "reopened", "synchronize", "closed", "merged"}

StateAfter(action) == IF action \in {"closed", "merged"} THEN "CLOSED" ELSE "OPEN"

----------------------------------------------------------------------------
(* findOrCreateRelease: insert the release, or overwrite its pull request  *)
(* when one is given.                                                      *)

UpsertedStatus(s) == IF relStatus[s] = "ABSENT" THEN "PENDING" ELSE relStatus[s]

FindOrCreateRelease(s, p) ==
  relPr' = [relPr EXCEPT ![s] = IF p = None THEN @ ELSE p]

(* resolveReleaseId: the same upsert, for a review that names no pull request. *)
ResolveReleaseId(s) ==
  /\ FindOrCreateRelease(s, None)
  /\ relStatus' = [relStatus EXCEPT ![s] = UpsertedStatus(s)]
  /\ UNCHANGED <<prVars, policy, taskVars, deliveries, attemptVars, outcomeVars, receipts>>

(* recordReview: whatever the release's status was, it becomes REVIEWED and *)
(* the new policy decision replaces the old one.                            *)
RecordReview(s, strategy) ==
  /\ FindOrCreateRelease(s, None)
  /\ relStatus' = [relStatus EXCEPT ![s] = "REVIEWED"]
  /\ policy' = [policy EXCEPT ![s] = strategy]
  /\ UNCHANGED <<prVars, taskVars, deliveries, attemptVars, outcomeVars, receipts>>

----------------------------------------------------------------------------
(* acceptPullRequestDelivery.  The pull request row takes what the payload *)
(* says; releases of the pull request for other heads are superseded, with *)
(* their live tasks and active attempts; an unmerged closure cancels the   *)
(* release of the payload's head, a reopening restores it.                 *)

(* Releases of p for another head: the WHERE clause of the three updates.  *)
OlderReleases(p, h) == {s \in SHA : relPr[s] = p /\ s # h}

FinalStatuses == {"COMPLETED", "CANCELLED", "SUPERSEDED"}

SupersededReleases(p, h) == {s \in OlderReleases(p, h) : relStatus[s] \notin FinalStatuses}

HeadStatus(action, h) ==
  IF action = "closed" THEN "CANCELLED"
  ELSE IF action = "reopened" /\ relStatus[h] = "CANCELLED" THEN "PENDING"
  ELSE UpsertedStatus(h)

ReleaseStatusAfter(p, action, h) ==
  [s \in SHA |->
    IF s \in SupersededReleases(p, h) THEN "SUPERSEDED"
    ELSE IF s = h THEN HeadStatus(action, h)
    ELSE relStatus[s]]

(* Mutant: only queued tasks, not the ones a worker holds. *)
StaleTaskQueuedOnly(t, p, action, h) ==
  /\ taskStatus[t] = "PENDING"
  /\ \/ taskRelease[t] \in OlderReleases(p, h)
     \/ action = "closed" /\ taskRelease[t] = h

(* Tasks to supersede: live ones of an older head, or of the closed head.  *)
StaleTask(t, p, action, h) ==
  /\ LiveTask(t)
  /\ \/ taskRelease[t] \in OlderReleases(p, h)
     \/ action = "closed" /\ taskRelease[t] = h

(* Mutant: an attempt not yet under observation is left alone. *)
StaleAttemptObservedOnly(a, p, action, h) ==
  /\ attStatus[a] = "OBSERVING"
  /\ \/ /\ attRelease[a] \in OlderReleases(p, h)
        /\ ReleaseStatusAfter(p, action, h)[attRelease[a]] = "SUPERSEDED"
     \/ action = "closed" /\ attRelease[a] = h

(* Attempts to cancel: active ones of a superseded or of the closed release. *)
StaleAttempt(a, p, action, h) ==
  /\ ActiveAttempt(a)
  /\ \/ /\ attRelease[a] \in OlderReleases(p, h)
        /\ ReleaseStatusAfter(p, action, h)[attRelease[a]] = "SUPERSEDED"
     \/ action = "closed" /\ attRelease[a] = h

AcceptPullRequestDelivery(d, p, action, h) ==
  /\ d \notin deliveries
  /\ prState' = [prState EXCEPT ![p] = StateAfter(action)]
  /\ prHead' = [prHead EXCEPT ![p] = h]
  /\ FindOrCreateRelease(h, p)
  /\ relStatus' = ReleaseStatusAfter(p, action, h)
  /\ taskStatus' = [t \in Run |-> IF StaleTask(t, p, action, h)
                                  THEN "SUPERSEDED" ELSE taskStatus[t]]
  /\ attStatus' = [a \in Attempt |-> IF StaleAttempt(a, p, action, h)
                                     THEN "CANCELLED" ELSE attStatus[a]]
  /\ deliveries' = deliveries \cup {d}
  /\ UNCHANGED <<policy, taskRelease, taskPr, taskAttempts, attRelease, attStrategy,
                 attStartedAt, attObservedAt, outcomeVars, receipts>>

----------------------------------------------------------------------------
(* acceptWorkflowRunDelivery and acceptIgnoredDelivery.                    *)

IgnoreDelivery(d) ==
  /\ d \notin deliveries
  /\ deliveries' = deliveries \cup {d}
  /\ UNCHANGED <<prVars, releaseVars, policy, taskVars, attemptVars, outcomeVars, receipts>>

(* The pull request row the transaction works with: an unknown one is      *)
(* inserted as open at the run's head.                                     *)
CorrelatedState(p) == IF prState[p] = "ABSENT" THEN "OPEN" ELSE prState[p]
CorrelatedHead(p, t) == IF prState[p] = "ABSENT" THEN RunHead[t] ELSE prHead[p]

(* Mutant: the head comparison is dropped. *)
RunIsCurrentAnyHead(p, t) == CorrelatedState(p) = "OPEN"

RunIsCurrent(p, t) == CorrelatedState(p) = "OPEN" /\ CorrelatedHead(p, t) = RunHead[t]

(* A completed run with one pull request and a conclusion.  The task keeps *)
(* that pull request as its own: it is the one a worker reviews, whichever *)
(* pull request its release is given later.                                *)
AcceptWorkflowRunDelivery(d, t, p) ==
  /\ d \notin deliveries
  /\ deliveries' = deliveries \cup {d}
  /\ prState' = [prState EXCEPT ![p] = CorrelatedState(p)]
  /\ prHead' = [prHead EXCEPT ![p] = CorrelatedHead(p, t)]
  /\ \/ /\ RunIsCurrent(p, t)
        /\ FindOrCreateRelease(RunHead[t], p)
        /\ relStatus' = [relStatus EXCEPT ![RunHead[t]] = UpsertedStatus(RunHead[t])]
        /\ IF taskStatus[t] = "ABSENT"
           THEN /\ taskStatus' = [taskStatus EXCEPT ![t] = "PENDING"]
                /\ taskRelease' = [taskRelease EXCEPT ![t] = RunHead[t]]
                /\ taskPr' = [taskPr EXCEPT ![t] = p]
           ELSE UNCHANGED <<taskStatus, taskRelease, taskPr>>
     \/ /\ ~RunIsCurrent(p, t)
        /\ UNCHANGED <<releaseVars, taskStatus, taskRelease, taskPr>>
  /\ UNCHANGED <<policy, taskAttempts, attemptVars, outcomeVars, receipts>>

----------------------------------------------------------------------------
(* claimWorkflowRunTask, completeWorkflowRunTask, retryWorkflowRunTask.    *)
(* SKIP LOCKED and the availability times let a worker get any task that   *)
(* is claimable.                                                           *)

ClaimWorkflowRunTask(t) ==
  /\ LiveTask(t)
  /\ taskAttempts[t] < MaxClaims
  /\ taskStatus' = [taskStatus EXCEPT ![t] = "PROCESSING"]
  /\ taskAttempts' = [taskAttempts EXCEPT ![t] = @ + 1]
  /\ UNCHANGED <<prVars, releaseVars, policy, taskRelease, taskPr, deliveries, attemptVars,
                 outcomeVars, receipts>>

(* Mutant: the status guard is dropped. *)
SettledStatusUnguarded(t, status) == status

(* Both updates are guarded by the status alone, and touch no row when the *)
(* task is no longer PROCESSING.                                           *)
SettledStatus(t, status) == IF taskStatus[t] = "PROCESSING" THEN status ELSE taskStatus[t]

SettleTask(t, status) ==
  /\ taskStatus' = [taskStatus EXCEPT ![t] = SettledStatus(t, status)]
  /\ UNCHANGED <<prVars, releaseVars, policy, taskRelease, taskPr, taskAttempts, deliveries,
                 attemptVars, outcomeVars, receipts>>

CompleteWorkflowRunTask(t) == SettleTask(t, "COMPLETED")

(* Mutant: a task that is put off starts counting its claims again. *)
RetryWorkflowRunTaskAfresh(t, terminal) ==
  /\ taskStatus' = [taskStatus EXCEPT ![t] =
                      SettledStatus(t, IF terminal THEN "FAILED" ELSE "PENDING")]
  /\ taskAttempts' = [taskAttempts EXCEPT ![t] = IF terminal THEN @ ELSE 0]
  /\ UNCHANGED <<prVars, releaseVars, policy, taskRelease, taskPr, deliveries, attemptVars,
                 outcomeVars, receipts>>

RetryWorkflowRunTask(t, terminal) == SettleTask(t, IF terminal THEN "FAILED" ELSE "PENDING")

=============================================================================
