--------------------------- MODULE ReleaseTables ---------------------------
(***************************************************************************)
(* The PostgreSQL tables of the release lifecycle (db/migrations/001 and   *)
(* 002) for one repository.  Every module about the durable lifecycle      *)
(* extends this one; its variables are the rows of the tables.             *)
(*                                                                         *)
(* One repository is enough: every row below hangs off one repository, and *)
(* upsertRepository takes that repository's row lock first, so the         *)
(* transactions of two repositories neither share rows nor wait for each   *)
(* other.  A release is named by its head SHA, because releases are UNIQUE *)
(* on (repository_id, head_sha) and their identifier never changes.        *)
(***************************************************************************)
EXTENDS Integers

CONSTANTS
  PR,          \* pull requests of the repository
  SHA,         \* head commits, and so releases
  Run,         \* (workflow_run_id, run_attempt) pairs, and so automation tasks
  DeliveryId,  \* X-GitHub-Delivery identifiers
  Attempt,     \* deployment_attempt_id values
  EventId,     \* event_id values of deployment events
  Time,        \* occurredAt values
  None         \* SQL NULL

ASSUME TimeAssumption == Time \subseteq Nat \ {0}

ASSUME NoneAssumption ==
  None \notin PR \cup SHA \cup Run \cup Attempt

VARIABLES
  prState, prHead,                             \* pull_requests
  relStatus, relPr,                            \* releases
  policy,                                      \* policy_decisions
  taskStatus, taskRelease, taskPr,             \* automation_tasks
  taskAttempts,
  deliveries,                                  \* webhook_deliveries
  attStatus, attRelease, attStrategy,          \* deployment_attempts
  attStartedAt,
  attObservedAt,                               \* canary_observations (latest)
  outcome, outcomeAttempt, outcomeAt,          \* release_outcomes
  receipts                                     \* deployment_event_receipts

prVars       == <<prState, prHead>>
releaseVars  == <<relStatus, relPr>>
taskVars     == <<taskStatus, taskRelease, taskPr, taskAttempts>>
attemptVars  == <<attStatus, attRelease, attStrategy, attStartedAt, attObservedAt>>
outcomeVars  == <<outcome, outcomeAttempt, outcomeAt>>
tableVars    == <<prVars, releaseVars, policy, taskVars, deliveries, attemptVars,
                  outcomeVars, receipts>>

----------------------------------------------------------------------------
(* The values of the status columns.  "ABSENT" stands for "no such row".   *)

PrStates == {"ABSENT", "OPEN", "CLOSED"}

ReleaseStatuses ==
  {"ABSENT", "PENDING", "REVIEWED", "DEPLOYING", "COMPLETED", "SUPERSEDED", "CANCELLED"}

TaskStatuses ==
  {"ABSENT", "PENDING", "PROCESSING", "COMPLETED", "FAILED", "SUPERSEDED"}

AttemptStatuses ==
  {"ABSENT", "STARTED", "OBSERVING", "PROMOTED", "ROLLED_BACK", "FAILED", "CANCELLED"}

Outcomes == {"NONE", "CONTINUED", "PROMOTED", "ROLLED_BACK", "BLOCKED", "FAILED"}

(* A policy decision is BLOCK exactly when its strategy is BLOCKED, so the  *)
(* strategy stands for both columns; the two canary traffic percentages are *)
(* not told apart.                                                          *)
Strategies == {"BLOCKED", "CANARY", "STANDARD"}

EventTypes == {"DEPLOYMENT_STARTED", "CANARY_OBSERVED", "DEPLOYMENT_OUTCOME_RECORDED"}

Receipts == [release: SHA, type: EventTypes, attempt: Attempt \cup {None}]

ASSUME NoReceiptAssumption == None \notin Receipts

TablesTypeOK ==
  /\ prState \in [PR -> PrStates]
  /\ prHead \in [PR -> SHA \cup {None}]
  /\ relStatus \in [SHA -> ReleaseStatuses]
  /\ relPr \in [SHA -> PR \cup {None}]
  /\ policy \in [SHA -> Strategies \cup {"NONE"}]
  /\ taskStatus \in [Run -> TaskStatuses]
  /\ taskRelease \in [Run -> SHA \cup {None}]
  /\ taskPr \in [Run -> PR \cup {None}]
  /\ taskAttempts \in [Run -> Nat]
  /\ deliveries \subseteq DeliveryId
  /\ attStatus \in [Attempt -> AttemptStatuses]
  /\ attRelease \in [Attempt -> SHA \cup {None}]
  /\ attStrategy \in [Attempt -> Strategies \cup {"NONE"}]
  /\ attStartedAt \in [Attempt -> Time \cup {0}]
  /\ attObservedAt \in [Attempt -> Time \cup {0}]
  /\ outcome \in [SHA -> Outcomes]
  /\ outcomeAttempt \in [SHA -> Attempt \cup {None}]
  /\ outcomeAt \in [SHA -> Time \cup {0}]
  /\ receipts \in [EventId -> Receipts \cup {None}]

TablesInit ==
  /\ prState = [p \in PR |-> "ABSENT"]
  /\ prHead = [p \in PR |-> None]
  /\ relStatus = [s \in SHA |-> "ABSENT"]
  /\ relPr = [s \in SHA |-> None]
  /\ policy = [s \in SHA |-> "NONE"]
  /\ taskStatus = [t \in Run |-> "ABSENT"]
  /\ taskRelease = [t \in Run |-> None]
  /\ taskPr = [t \in Run |-> None]
  /\ taskAttempts = [t \in Run |-> 0]
  /\ deliveries = {}
  /\ attStatus = [a \in Attempt |-> "ABSENT"]
  /\ attRelease = [a \in Attempt |-> None]
  /\ attStrategy = [a \in Attempt |-> "NONE"]
  /\ attStartedAt = [a \in Attempt |-> 0]
  /\ attObservedAt = [a \in Attempt |-> 0]
  /\ outcome = [s \in SHA |-> "NONE"]
  /\ outcomeAttempt = [s \in SHA |-> None]
  /\ outcomeAt = [s \in SHA |-> 0]
  /\ receipts = [e \in EventId |-> None]

----------------------------------------------------------------------------
(* Conditions the queries of both stores share.                            *)

LiveTask(t) == taskStatus[t] \in {"PENDING", "PROCESSING"}

ActiveAttempt(a) == attStatus[a] \in {"STARTED", "OBSERVING"}

ActiveAttemptsOf(s) == {a \in Attempt : ActiveAttempt(a) /\ attRelease[a] = s}

=============================================================================
