--------------------------- MODULE CanaryRollout ---------------------------
(***************************************************************************)
(* runCanaryRollout: one runner takes one release through one deployment   *)
(* attempt, steering the gateway and reporting to POST /deployment-events  *)
(* through HttpDeploymentEventPublisher, while reviews and GitHub          *)
(* deliveries may change the release under it.                             *)
(*                                                                         *)
(* The API is DeploymentEventStore itself.  A request the publisher gave   *)
(* up waiting for may still be applied later, and a repeated one is the    *)
(* same event again.  The docker and npm commands that move the gateway    *)
(* are external: one that fails leaves the gateway as it was, moved        *)
(* without having been verified, or down.                                  *)
(***************************************************************************)
EXTENDS ReleaseLifecycleStore, DeploymentEventStore, CanaryPolicy

CONSTANTS
  Release, Deployment,   \* the configured release and deployment attempt
  MaxRetries,            \* CANARYGUARD_DEPLOYMENT_EVENT_MAX_RETRIES
  Faults,                \* "LOST": the last try's answer may be lost too,
                         \* "UNUSABLE": an answer may not verify
  ReviewAgain            \* strategies that later reviews may decide on

Publications == {"START", "OBSERVATION", "OUTCOME", "FAILURE"}

Modes == {"canary", "promote", "rollback"}

(* Before observeCanary has returned. *)
Unobserved ==
  [stable |-> 0, canary |-> 0, decision |-> "none", errorRatePassed |-> FALSE,
   latencyPassed |-> FALSE]

ASSUME RolloutAssumption ==
  /\ Release \in SHA /\ Deployment \in Attempt
  /\ MaxRetries \in Nat
  /\ Faults \subseteq {"LOST", "UNUSABLE"}
  /\ ReviewAgain \subseteq Strategies
  /\ Publications \subseteq EventId
  /\ 1 .. 4 \subseteq Time

VARIABLES
  publisher,          \* is a publisher configured?
  pc,                 \* the await the rollout is at
  gateway,            \* where the gateway sends traffic
  observation,        \* what observeCanary returned
  deploymentStarted, routingAttempted, rollbackApplied,
  recoveryErrors,     \* recovery actions that failed
  tries,              \* answers lost for the current publication
  sent                \* publications that are or were on the wire

rolloutVars == <<publisher, pc, gateway, observation, deploymentStarted, routingAttempted,
                 rollbackApplied, recoveryErrors, tries, sent>>
vars        == <<tableVars, rolloutVars>>

Ended == {"DONE", "FAILED", "KILLED"}

Awaits ==
  {"BACKENDS", "BASELINE", "START", "CANARY", "MEASURE", "OBSERVATION", "ROUTE", "OUTCOME",
   "RECOVER_ROUTING", "FAILURE"}

RolloutTypeOK ==
  /\ publisher \in BOOLEAN
  /\ pc \in Awaits \cup Ended
  /\ gateway \in Modes \cup {"down"}
  /\ observation \in CanaryObservation \cup {Unobserved}
  /\ deploymentStarted \in BOOLEAN
  /\ routingAttempted \in BOOLEAN
  /\ rollbackApplied \in BOOLEAN
  /\ recoveryErrors \subseteq {"ROUTING", "PUBLICATION"}
  /\ tries \in 0 .. MaxRetries
  /\ sent \subseteq Publications

(* The release has been reviewed, as the README asks for before a rollout; *)
(* the gateway is down or as an earlier rollout left it.                   *)
Init ==
  /\ \E p \in PR :
       /\ prState = [q \in PR |-> IF q = p THEN "OPEN" ELSE "ABSENT"]
       /\ prHead = [q \in PR |-> IF q = p THEN Release ELSE None]
       /\ relPr = [s \in SHA |-> IF s = Release THEN p ELSE None]
  /\ relStatus = [s \in SHA |-> IF s = Release THEN "REVIEWED" ELSE "ABSENT"]
  /\ policy = [s \in SHA |-> IF s = Release THEN "CANARY" ELSE "NONE"]
  /\ taskStatus = [t \in Run |-> "ABSENT"]
  /\ taskRelease = [t \in Run |-> None]
  /\ taskPr = [t \in Run |-> None]
  /\ taskAttempts = [t \in Run |-> 0]
  /\ deliveries = {}
  /\ attStatus = [a \in Attempt |-> "ABSENT"]
  /\ attRelease = [a \in Attempt |-> None]
  /\ attStrategy = [a \in Attempt |-> "NONE"]
  /\ attStartedAt = [a \in Attempt |-> 0]
  /\ attObservedAt = [a \in Attempt |-> 0]
  /\ outcome = [s \in SHA |-> "NONE"]
  /\ outcomeAttempt = [s \in SHA |-> None]
  /\ outcomeAt = [s \in SHA |-> 0]
  /\ receipts = [e \in EventId |-> None]
  /\ publisher \in BOOLEAN
  /\ pc = "BACKENDS"
  /\ gateway \in Modes \cup {"down"}
  /\ observation = Unobserved
  /\ deploymentStarted = FALSE
  /\ routingAttempted = FALSE
  /\ rollbackApplied = FALSE
  /\ recoveryErrors = {}
  /\ tries = 0
  /\ sent = {}

----------------------------------------------------------------------------
(* Where the rollout goes.  Entering an await that publishes sends the     *)
(* first request; flags are those set before the await.                    *)

(* Mutant: rollbackApplied is not reset before canary routing.            *)
GoKeepingRollback(next, rolledBack) ==
  /\ pc' = next
  /\ tries' = 0
  /\ sent' = sent \cup (Publications \cap {next})
  /\ routingAttempted' = (routingAttempted \/ next \in {"BASELINE", "CANARY"})
  /\ rollbackApplied' = (rollbackApplied \/ rolledBack)
  /\ UNCHANGED publisher

Go(next, rolledBack) ==
  /\ pc' = next
  /\ tries' = 0
  /\ sent' = sent \cup (Publications \cap {next})
  /\ routingAttempted' = (routingAttempted \/ next \in {"BASELINE", "CANARY"})
  /\ rollbackApplied' = rolledBack
  /\ UNCHANGED publisher

(* Mutant: the failure is not reported. *)
AfterRecoverySilent == "FAILED"

(* The catch block's second half, and its throw. *)
AfterRecovery == IF publisher /\ deploymentStarted THEN "FAILURE" ELSE "FAILED"

(* The catch block.  outcomeRecorded is set after the last await, so it is *)
(* never TRUE here.                                                        *)
Throw ==
  /\ Go(IF routingAttempted /\ ~rollbackApplied THEN "RECOVER_ROUTING" ELSE AfterRecovery,
        rollbackApplied)
  /\ UNCHANGED <<observation, deploymentStarted, recoveryErrors>>

(* applyRouting: docker compose recreates the gateway, then it is verified. *)
GatewayAfterFailure(m) == {gateway, m, "down"}

StartBackends ==
  /\ pc = "BACKENDS"
  /\ \/ /\ Go(IF publisher THEN "BASELINE" ELSE "CANARY", FALSE)
        /\ UNCHANGED <<observation, deploymentStarted, recoveryErrors>>
     \/ Throw
  /\ UNCHANGED <<tableVars, gateway>>

ApplyBaseline ==
  /\ pc = "BASELINE"
  /\ \/ /\ gateway' = "rollback"
        /\ Go("START", TRUE)
        /\ UNCHANGED <<observation, deploymentStarted, recoveryErrors>>
     \/ gateway' \in GatewayAfterFailure("rollback") /\ Throw
  /\ UNCHANGED tableVars

ApplyCanary ==
  /\ pc = "CANARY"
  /\ \/ /\ gateway' = "canary"
        /\ Go("MEASURE", FALSE)
        /\ UNCHANGED <<observation, deploymentStarted, recoveryErrors>>
     \/ gateway' \in GatewayAfterFailure("canary") /\ Throw
  /\ UNCHANGED tableVars

(* observeCanary samples and decides, or throws on a failed or malformed   *)
(* answer.  Its requests touch nothing modelled, so they are one step.     *)
Observe ==
  /\ pc = "MEASURE"
  /\ \/ /\ observation' \in ObserveCanary
        /\ Go(IF publisher THEN "OBSERVATION" ELSE "ROUTE", FALSE)
        /\ UNCHANGED <<deploymentStarted, recoveryErrors>>
     \/ Throw
  /\ UNCHANGED <<tableVars, gateway>>

(* routingModeForDecision *)
RoutingMode ==
  CASE observation.decision = "continue" -> "canary"
    [] observation.decision = "promote" -> "promote"
    [] observation.decision = "rollback" -> "rollback"

ApplyDecision ==
  /\ pc = "ROUTE"
  /\ \/ /\ gateway' = RoutingMode
        /\ Go(IF publisher THEN "OUTCOME" ELSE "DONE", RoutingMode = "rollback")
        /\ UNCHANGED <<observation, deploymentStarted, recoveryErrors>>
     \/ gateway' \in GatewayAfterFailure(RoutingMode) /\ Throw
  /\ UNCHANGED tableVars

(* The catch block's rollback: its failure is collected, not thrown. *)
RecoverRouting ==
  /\ pc = "RECOVER_ROUTING"
  /\ \/ gateway' = "rollback" /\ UNCHANGED recoveryErrors
     \/ /\ gateway' \in GatewayAfterFailure("rollback")
        /\ recoveryErrors' = recoveryErrors \cup {"ROUTING"}
  /\ Go(AfterRecovery, rollbackApplied)
  /\ UNCHANGED <<tableVars, observation, deploymentStarted>>

----------------------------------------------------------------------------
(* Publishing.  Each event is created once, so its retries are the same    *)
(* event; occurredAt is the runner's clock when it was created.            *)

OccurredAt(p) ==
  CASE p = "START" -> 1 [] p = "OBSERVATION" -> 2 [] p = "OUTCOME" -> 3 [] p = "FAILURE" -> 4

OutcomeForRoutingMode(m) ==
  CASE m = "canary" -> "CONTINUED" [] m = "promote" -> "PROMOTED" [] m = "rollback" -> "ROLLED_BACK"

(* The API accepts an event that is on the wire. *)
Record(p) ==
  LET decided == policy[Release]  at == OccurredAt(p) IN
  \/ p = "START" /\ decided = "CANARY" /\ RecordStarted(p, Release, Deployment, at, decided)
  \/ p = "OBSERVATION" /\ RecordObservation(p, Release, Deployment, at, decided)
  \/ p = "OUTCOME" /\ RecordAttemptedOutcome(p, Release, Deployment, OutcomeForRoutingMode(RoutingMode),
                                             at, decided)
  \/ p = "FAILURE" /\ RecordAttemptedOutcome(p, Release, Deployment, "FAILED", at, decided)

Handle(p) == p \in sent /\ Record(p) /\ UNCHANGED rolloutVars

(* Nothing recordPostgresDeploymentEvent accepts: a 404 or a 409. *)
Unacceptable(p) == ~ENABLED Record(p)

(* The API refuses it; its copies are all one to the API. *)
Refuse(p) ==
  /\ p \in sent
  /\ receipts[p] = None
  /\ Unacceptable(p)
  /\ sent' = sent \ {p}
  /\ UNCHANGED <<tableVars, publisher, pc, gateway, observation, deploymentStarted, routingAttempted,
                 rollbackApplied, recoveryErrors, tries>>

(* A receipt, of the first acceptance or of its replay, reaches the runner. *)
Answered ==
  /\ pc \in Publications
  /\ receipts[pc] # None
  /\ Go(CASE pc = "START" -> "CANARY" [] pc = "OBSERVATION" -> "ROUTE"
        [] pc = "OUTCOME" -> "DONE" [] pc = "FAILURE" -> "FAILED",
        IF pc = "START" THEN FALSE ELSE rollbackApplied)
  /\ deploymentStarted' = (deploymentStarted \/ pc = "START")
  /\ UNCHANGED <<tableVars, gateway, observation, recoveryErrors>>

(* The try timed out, or its answer was lost or transient: try again. *)
Retry ==
  /\ pc \in Publications
  /\ tries < MaxRetries
  /\ tries' = tries + 1
  /\ sent' = sent \cup {pc}
  /\ UNCHANGED <<tableVars, publisher, pc, gateway, observation, deploymentStarted, routingAttempted,
                 rollbackApplied, recoveryErrors>>

(* Mutant: publishing the start is best effort. *)
PublicationFailsBestEffort ==
  /\ IF pc = "FAILURE"
     THEN /\ Go("FAILED", rollbackApplied)
          /\ recoveryErrors' = recoveryErrors \cup {"PUBLICATION"}
          /\ UNCHANGED <<observation, deploymentStarted>>
     ELSE IF pc = "START"
     THEN Go("CANARY", FALSE) /\ UNCHANGED <<observation, deploymentStarted, recoveryErrors>>
     ELSE Throw
  /\ UNCHANGED <<tableVars, gateway>>

(* Mutant: the recovery does not tell that its report failed. *)
PublicationFailsUnreported ==
  /\ IF pc = "FAILURE"
     THEN Go("FAILED", rollbackApplied) /\ UNCHANGED <<observation, deploymentStarted, recoveryErrors>>
     ELSE Throw
  /\ UNCHANGED <<tableVars, gateway>>

(* publish throws: into the catch block, or inside it. *)
PublicationFails ==
  /\ IF pc = "FAILURE"
     THEN /\ Go("FAILED", rollbackApplied)
          /\ recoveryErrors' = recoveryErrors \cup {"PUBLICATION"}
          /\ UNCHANGED <<observation, deploymentStarted>>
     ELSE Throw
  /\ UNCHANGED <<tableVars, gateway>>

(* The refusal arrives: 409 and its like are not retried. *)
Refused ==
  /\ pc \in Publications
  /\ pc \notin sent
  /\ PublicationFails

(* Mutant: without the abort timer only an answer ends a try. *)
GivenUpOnAnswer ==
  /\ "LOST" \in Faults
  /\ pc \in Publications
  /\ tries = MaxRetries
  /\ receipts[pc] # None
  /\ PublicationFails

(* The last try timed out, or its answer was lost or transient. *)
GivenUp ==
  /\ "LOST" \in Faults
  /\ pc \in Publications
  /\ tries = MaxRetries
  /\ PublicationFails

(* The answer is too long, not UTF-8, not JSON or not the event's receipt. *)
Unusable ==
  /\ "UNUSABLE" \in Faults
  /\ pc \in Publications
  /\ receipts[pc] # None
  /\ PublicationFails

----------------------------------------------------------------------------
(* The runner is killed: nothing of the catch block runs. *)
Killed ==
  /\ pc \notin Ended
  /\ pc' = "KILLED"
  /\ UNCHANGED <<tableVars, publisher, gateway, observation, deploymentStarted, routingAttempted,
                 rollbackApplied, recoveryErrors, tries, sent>>

ReviewedAgain(strategy) == RecordReview(Release, strategy) /\ UNCHANGED rolloutVars

Delivered(d, p, action, h) ==
  AcceptPullRequestDelivery(d, p, action, h) /\ UNCHANGED rolloutVars

RolloutStep ==
  \/ StartBackends \/ ApplyBaseline \/ ApplyCanary \/ Observe \/ ApplyDecision
  \/ Answered \/ Retry \/ Refused \/ GivenUp \/ Unusable
  \/ RecoverRouting

Next ==
  \/ RolloutStep
  \/ \E p \in Publications : Handle(p) \/ Refuse(p)
  \/ Killed
  \/ \E strategy \in ReviewAgain : ReviewedAgain(strategy)
  \/ \E d \in DeliveryId, p \in PR, action \in Actions, h \in SHA : Delivered(d, p, action, h)

(* Every await of the rollout settles: docker's --wait-timeout, the abort  *)
(* timer of the publisher's requests, the cap on observed ones; those and  *)
(* the routing check's have only the default timeouts of the runtime.      *)
Spec == Init /\ [][Next]_vars /\ WF_vars(RolloutStep)

----------------------------------------------------------------------------
(* Properties.                                                             *)

(* "publish DEPLOYMENT_STARTED before applying canary routing": traffic is *)
(* moved to the canary only when the start is on record, whatever answers  *)
(* were lost and whatever an earlier rollout left the gateway at.          *)
CanaryAfterStart ==
  [][publisher /\ gateway' # gateway /\ gateway' \in {"canary", "promote"}
       => receipts["START"] # None]_gateway

(* A rollout that failed leaves stable-only traffic, unless the rollback   *)
(* command itself failed or no traffic had been moved: the flags of        *)
(* runCanaryRollout never skip a rollback that is needed.                  *)
FailureRollsBack ==
  pc = "FAILED" /\ routingAttempted /\ "ROUTING" \notin recoveryErrors
    => gateway = "rollback"

(* A rollout that reports no error of its recovery leaves record and       *)
(* traffic in agreement, whichever answer was lost and whatever reviews    *)
(* and deliveries did to the release under it: what is on record as        *)
(* PROMOTED is served, and a failed rollout that had its start answered    *)
(* leaves no attempt in progress.                                          *)
QuietEndAgrees ==
  pc \in {"DONE", "FAILED"} /\ recoveryErrors = {} =>
    /\ outcome[Release] = "PROMOTED" => gateway = "promote"
    /\ pc = "FAILED" /\ deploymentStarted => ~ActiveAttempt(Deployment)

(* The observation decides, and is told first: a release on record as      *)
(* PROMOTED has an observation on record, of samples as large as the policy asks    *)
(* for, that passed every threshold, however its publication was retried.  *)
PromotionIsEarned ==
  outcome[Release] = "PROMOTED" =>
    /\ receipts["OBSERVATION"] # None
    /\ observation.stable >= MinimumStableRequests
    /\ observation.canary >= MinimumCanaryRequests
    /\ observation.errorRatePassed /\ observation.latencyPassed

(* Every rollout comes to an end, with the answers to its requests lost as *)
(* they may be.                                                            *)
RolloutEnds == <>(pc \in Ended)

=============================================================================
