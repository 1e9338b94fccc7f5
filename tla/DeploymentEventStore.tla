------------------------ MODULE DeploymentEventStore ------------------------
(***************************************************************************)
(* recordPostgresDeploymentEvent: what one deployment event does to the    *)
(* tables.  An event the code refuses (409, 404) or replays changes no     *)
(* row, so each operator below is the accepting path only.                 *)
(*                                                                         *)
(* Every operator takes the policy decision the transaction works with as  *)
(* an argument.  lockRelease reads the release and its policy decision in  *)
(* one SELECT ... FOR UPDATE OF r: when it has to wait for the release's   *)
(* row lock, PostgreSQL (READ COMMITTED) re-reads the release row but      *)
(* keeps the policy row of the statement's snapshot, so the decision may   *)
(* be older than the release status beside it.                             *)
(***************************************************************************)
EXTENDS ReleaseTables

AttemptedOutcomes == {"CONTINUED", "PROMOTED", "ROLLED_BACK", "FAILED"}

(* Mutant: the event is recorded again under an identifier already used. *)
InsertReceiptOverwrite(e, s, type, a) ==
  receipts' = [receipts EXCEPT ![e] = [release |-> s, type |-> type, attempt |-> a]]

(* insertReceipt; event_id is the primary key, and findReceipt answers a   *)
(* known event without touching anything else.                             *)
InsertReceipt(e, s, type, a) ==
  /\ receipts[e] = None
  /\ receipts' = [receipts EXCEPT ![e] = [release |-> s, type |-> type, attempt |-> a]]

(* requireBoundAttempt and assertActiveAttempt. *)
BoundActiveAttempt(s, a) == attRelease[a] = s /\ ActiveAttempt(a)

(* Mutant: only the start is compared. *)
ChronologicalStartOnly(a, at) == at >= attStartedAt[a]

(* assertChronology: not before the start, nor before an observation. *)
Chronological(a, at) == at >= attStartedAt[a] /\ at >= attObservedAt[a]

----------------------------------------------------------------------------
(* recordStarted.  A completed release may start again after a rollback or *)
(* a failure; otherwise only a REVIEWED one may.                            *)

(* Mutant: the query for an active attempt is dropped. *)
MayStartBesideActive(s) ==
  /\ relStatus[s] \in {"REVIEWED", "COMPLETED"}
  /\ relStatus[s] = "COMPLETED" => outcome[s] \in {"ROLLED_BACK", "FAILED"}

MayStart(s) ==
  /\ relStatus[s] \in {"REVIEWED", "COMPLETED"}
  /\ ActiveAttemptsOf(s) = {}
  /\ relStatus[s] = "COMPLETED" => outcome[s] \in {"ROLLED_BACK", "FAILED"}

(* Mutant: a finished attempt's identifier may be used again. *)
UnusedAttemptOrFinished(a) == ~ActiveAttempt(a)

(* The attempt identifier must be unused: findAttempt, and the primary key. *)
UnusedAttempt(a) == attStatus[a] = "ABSENT"

RecordStarted(e, s, a, at, decided) ==
  /\ decided \in {"CANARY", "STANDARD"}
  /\ MayStart(s)
  /\ UnusedAttempt(a)
  /\ attStatus' = [attStatus EXCEPT ![a] = "STARTED"]
  /\ attRelease' = [attRelease EXCEPT ![a] = s]
  /\ attStrategy' = [attStrategy EXCEPT ![a] = decided]
  /\ attStartedAt' = [attStartedAt EXCEPT ![a] = at]
  /\ relStatus' = [relStatus EXCEPT ![s] = "DEPLOYING"]
  /\ InsertReceipt(e, s, "DEPLOYMENT_STARTED", a)
  /\ UNCHANGED <<prVars, relPr, policy, taskVars, deliveries, attObservedAt, outcomeVars>>

----------------------------------------------------------------------------
(* recordObservation. *)
RecordObservation(e, s, a, at, decided) ==
  /\ decided # "NONE"
  /\ relStatus[s] = "DEPLOYING"
  /\ BoundActiveAttempt(s, a)
  /\ attStrategy[a] = "CANARY"
  /\ Chronological(a, at)
  /\ attObservedAt' = [attObservedAt EXCEPT ![a] = at]
  /\ attStatus' = [attStatus EXCEPT ![a] = "OBSERVING"]
  /\ InsertReceipt(e, s, "CANARY_OBSERVED", a)
  /\ UNCHANGED <<prVars, releaseVars, policy, taskVars, deliveries, attRelease,
                 attStrategy, attStartedAt, outcomeVars>>

----------------------------------------------------------------------------
(* upsertOutcome: one row per release, overwritten unless the event is     *)
(* earlier or the row already holds this attempt's final outcome.  A       *)
(* blocked outcome has no attempt, and the code compares it (undefined)    *)
(* with the stored NULL as different, so a second one overwrites too.      *)

MayOverwriteOutcome(s, a, at) ==
  outcome[s] # "NONE" =>
    /\ at >= outcomeAt[s]
    /\ ~(a # None /\ outcomeAttempt[s] = a /\ outcome[s] # "CONTINUED")

UpsertOutcome(s, a, result, at) ==
  /\ MayOverwriteOutcome(s, a, at)
  /\ outcome' = [outcome EXCEPT ![s] = result]
  /\ outcomeAttempt' = [outcomeAttempt EXCEPT ![s] = a]
  /\ outcomeAt' = [outcomeAt EXCEPT ![s] = at]

(* recordBlockedOutcome: no attempt is looked for, active or not. *)
RecordBlockedOutcome(e, s, at, decided) ==
  /\ decided = "BLOCKED"
  /\ relStatus[s] = "REVIEWED"
  /\ UpsertOutcome(s, None, "BLOCKED", at)
  /\ relStatus' = [relStatus EXCEPT ![s] = "COMPLETED"]
  /\ InsertReceipt(e, s, "DEPLOYMENT_OUTCOME_RECORDED", None)
  /\ UNCHANGED <<prVars, relPr, policy, taskVars, deliveries, attemptVars>>

(* Mutant: a continued canary is taken for a promoted one. *)
AttemptStatusForPromotes(strategy, result) ==
  IF result # "CONTINUED" THEN result ELSE "PROMOTED"

(* Mutant: the outcome's name is taken for the attempt's status. *)
AttemptStatusForRaw(strategy, result) == result

(* deploymentStateForOutcome: a canary that continues stays in observation, *)
(* a standard deployment that continues is promoted, the rest is final.     *)
AttemptStatusFor(strategy, result) ==
  IF result # "CONTINUED" THEN result
  ELSE IF strategy = "CANARY" THEN "OBSERVING" ELSE "PROMOTED"

(* Mutant: a continued standard deployment leaves the release deploying. *)
ReleaseStatusForContinues(strategy, result) ==
  IF result = "CONTINUED" THEN "DEPLOYING" ELSE "COMPLETED"

ReleaseStatusFor(strategy, result) ==
  IF strategy = "CANARY" /\ result = "CONTINUED" THEN "DEPLOYING" ELSE "COMPLETED"

(* recordAttemptedOutcome. *)
RecordAttemptedOutcome(e, s, a, result, at, decided) ==
  /\ decided \in {"CANARY", "STANDARD"}
  /\ relStatus[s] = "DEPLOYING"
  /\ BoundActiveAttempt(s, a)
  /\ Chronological(a, at)
  /\ attStrategy[a] = "STANDARD" => result \in {"CONTINUED", "FAILED"}
  /\ UpsertOutcome(s, a, result, at)
  /\ attStatus' = [attStatus EXCEPT ![a] = AttemptStatusFor(attStrategy[a], result)]
  /\ relStatus' = [relStatus EXCEPT ![s] = ReleaseStatusFor(attStrategy[a], result)]
  /\ InsertReceipt(e, s, "DEPLOYMENT_OUTCOME_RECORDED", a)
  /\ UNCHANGED <<prVars, relPr, policy, taskVars, deliveries, attRelease, attStrategy,
                 attStartedAt, attObservedAt>>

(* The event types, and within a type the contents, that reach the switch. *)
RecordDeploymentEvent(e, s, decided) ==
  \E at \in Time :
    \/ \E a \in Attempt :
         \/ RecordStarted(e, s, a, at, decided)
         \/ RecordObservation(e, s, a, at, decided)
         \/ \E result \in AttemptedOutcomes :
              RecordAttemptedOutcome(e, s, a, result, at, decided)
    \/ RecordBlockedOutcome(e, s, at, decided)

=============================================================================
