------------------------ MODULE CanaryRolloutProofs ------------------------
(***************************************************************************)
(* What a rollout guarantees for every policy, every number of retries and *)
(* every history of reviews and deliveries: a failed one has taken traffic *)
(* back, traffic follows the start's record, and a record that says        *)
(* PROMOTED was earned by an observation on record.                        *)
(***************************************************************************)
EXTENDS CanaryRollout, TLAPS

(* After the verdict was sent nothing is observed any more. *)
Concluding == {"OUTCOME", "RECOVER_ROUTING", "FAILURE", "DONE", "FAILED", "KILLED"}

Typed ==
  /\ publisher \in BOOLEAN
  /\ pc \in Awaits \cup Ended
  /\ routingAttempted \in BOOLEAN /\ rollbackApplied \in BOOLEAN
  /\ receipts \in [EventId -> Receipts \cup {None}]
  /\ outcome \in [SHA -> Outcomes]
  /\ sent \subseteq Publications

(* rollbackApplied is only set while the route is the rollback's, and is   *)
(* not set where a route is about to be applied.                           *)
FlagsTell ==
  /\ rollbackApplied => gateway = "rollback"
  /\ pc \in {"BACKENDS", "BASELINE", "CANARY", "MEASURE", "OBSERVATION", "ROUTE",
             "RECOVER_ROUTING"} => ~rollbackApplied
  /\ pc = "BACKENDS" => ~routingAttempted
  /\ pc \in {"BASELINE", "CANARY", "MEASURE", "OBSERVATION", "ROUTE"} => routingAttempted
  /\ pc \in {"FAILURE", "FAILED"} /\ routingAttempted /\ "ROUTING" \notin recoveryErrors
       => gateway = "rollback"

(* What is on record at each await. *)
Recorded ==
  /\ publisher /\ pc \in {"CANARY", "MEASURE", "OBSERVATION", "ROUTE"} => receipts["START"] # None
  /\ pc \in {"OBSERVATION", "ROUTE", "OUTCOME"} => observation \in ObserveCanary
  /\ (publisher /\ pc = "ROUTE") \/ pc = "OUTCOME" => receipts["OBSERVATION"] # None
  /\ "OUTCOME" \in sent =>
       /\ pc \in Concluding
       /\ observation \in ObserveCanary
       /\ receipts["OBSERVATION"] # None

Earned ==
  outcome[Release] = "PROMOTED" =>
    /\ pc \in Concluding
    /\ receipts["OBSERVATION"] # None
    /\ observation \in ObserveCanary
    /\ observation.decision = "promote"

RolloutInv == Typed /\ FlagsTell /\ Recorded /\ Earned

(* A promotion is decided on enough requests that passed the thresholds. *)
LEMMA PromotionWithinLimits ==
  ASSUME NEW o \in ObserveCanary, o.decision = "promote"
  PROVE  /\ EnoughRequests(o.stable, o.canary)
         /\ o.errorRatePassed /\ o.latencyPassed
<1>1. PICK s \in FinalSamples : o \in EvaluateCanary(s[1], s[2])
  BY DEF ObserveCanary
<1>2. PICK increasePasses \in FailureIncreasePasses(s[1], s[2]) :
        o = [stable |-> s[1].requests, canary |-> s[2].requests,
             decision |-> Decide(s[1], s[2], increasePasses),
             errorRatePassed |-> ErrorRatePasses(s[1], s[2], increasePasses),
             latencyPassed |-> LatencyPasses(s[2])]
  BY <1>1 DEF EvaluateCanary
<1>3. /\ EnoughRequests(s[1].requests, s[2].requests)
      /\ FailureRatePasses(s[2]) /\ increasePasses /\ LatencyPasses(s[2])
  BY <1>2 DEF Decide
<1>4. s[1].requests \in Nat /\ s[2].requests \in Nat
  BY CanaryPolicyAssumption DEF FinalSamples, TrafficSample
<1>5. s[1].requests > 0 /\ s[2].requests > 0
  BY <1>3, <1>4, CanaryPolicyAssumption DEF EnoughRequests
<1> QED
  BY <1>2, <1>3, <1>5 DEF ErrorRatePasses

(* Every step changes receipts and outcomes by accepting an event that was *)
(* sent, or not at all.                                                    *)
LEMMA RecordStep ==
  ASSUME NEW p \in Publications, Record(p), Typed
  PROVE  /\ receipts[p] = None
         /\ \E r \in Receipts : receipts' = [receipts EXCEPT ![p] = r]
         /\ \/ UNCHANGED outcome
            \/ p = "OUTCOME" /\ outcome' = [outcome EXCEPT ![Release] =
                                              OutcomeForRoutingMode(RoutingMode)]
            \/ p = "FAILURE" /\ outcome' = [outcome EXCEPT ![Release] = "FAILED"]
<1> DEFINE Inserted == /\ receipts[p] = None
                       /\ \E r \in Receipts : receipts' = [receipts EXCEPT ![p] = r]
<1>1. ASSUME NEW type \in EventTypes, InsertReceipt(p, Release, type, Deployment)
      PROVE  Inserted
  BY <1>1, RolloutAssumption DEF InsertReceipt, Receipts
<1> HIDE DEF Inserted
<1>2. CASE p = "START" /\ RecordStarted(p, Release, Deployment, OccurredAt(p), policy[Release])
  BY <1>1, <1>2 DEF RecordStarted, EventTypes, outcomeVars, Inserted
<1>3. CASE p = "OBSERVATION"
             /\ RecordObservation(p, Release, Deployment, OccurredAt(p), policy[Release])
  BY <1>1, <1>3 DEF RecordObservation, EventTypes, outcomeVars, Inserted
<1>4. CASE p = "OUTCOME"
             /\ RecordAttemptedOutcome(p, Release, Deployment,
                  OutcomeForRoutingMode(RoutingMode), OccurredAt(p), policy[Release])
  BY <1>1, <1>4 DEF RecordAttemptedOutcome, UpsertOutcome, EventTypes, Inserted
<1>5. CASE p = "FAILURE"
             /\ RecordAttemptedOutcome(p, Release, Deployment, "FAILED", OccurredAt(p),
                  policy[Release])
  BY <1>1, <1>5 DEF RecordAttemptedOutcome, UpsertOutcome, EventTypes, Inserted
<1> QED
  BY <1>2, <1>3, <1>4, <1>5 DEF Record

LEMMA DecisionTyped ==
  ASSUME NEW o \in ObserveCanary
  PROVE  o.decision \in CanaryDecision
  BY DEF ObserveCanary, EvaluateCanary, Decide, CanaryDecision

(* The tables, under everything but the rollout's own steps. *)
LEMMA HandleStep ==
  ASSUME RolloutInv, NEW p \in Publications, Handle(p)
  PROVE  RolloutInv'
<1> USE DEF RolloutInv, Handle, rolloutVars
<1>1. PICK r \in Receipts : receipts' = [receipts EXCEPT ![p] = r]
  BY RecordStep
<1>2. /\ \A q \in Publications : receipts[q] # None => receipts'[q] # None
      /\ receipts' \in [EventId -> Receipts \cup {None}]
  BY <1>1, NoReceiptAssumption, RolloutAssumption DEF Typed
<1>3. Recorded'
  BY <1>2 DEF Recorded, Publications
<1>4. p = "OUTCOME" => observation \in ObserveCanary /\ pc \in Concluding
                       /\ receipts["OBSERVATION"] # None
  BY DEF Recorded
<1>5. p = "OUTCOME" => OutcomeForRoutingMode(RoutingMode) \in Outcomes
  BY <1>4, DecisionTyped DEF RoutingMode, OutcomeForRoutingMode, CanaryDecision, Outcomes
<1>6. p = "OUTCOME" /\ OutcomeForRoutingMode(RoutingMode) = "PROMOTED"
        => observation.decision = "promote"
  BY <1>4, DecisionTyped DEF RoutingMode, OutcomeForRoutingMode, CanaryDecision
<1>7. Typed'
  BY <1>2, <1>5, RecordStep, RolloutAssumption DEF Typed, Outcomes
<1>8. Earned'
  BY <1>2, <1>4, <1>6, RecordStep, RolloutAssumption DEF Earned, Typed, Publications
<1>9. FlagsTell'
  BY DEF FlagsTell
<1> QED
  BY <1>3, <1>7, <1>8, <1>9

LEMMA RefuseStep ==
  ASSUME RolloutInv, NEW p \in Publications, Refuse(p)
  PROVE  RolloutInv'
<1> USE DEF RolloutInv, Refuse, tableVars, outcomeVars
<1>1. Typed'
  BY DEF Typed
<1>2. FlagsTell' /\ Recorded' /\ Earned'
  BY DEF FlagsTell, Recorded, Earned
<1> QED
  BY <1>1, <1>2

LEMMA BystanderStep ==
  ASSUME RolloutInv,
         \/ Killed
         \/ \E strategy \in ReviewAgain : ReviewedAgain(strategy)
         \/ \E d \in DeliveryId, q \in PR, action \in Actions, h \in SHA :
              Delivered(d, q, action, h)
         \/ UNCHANGED vars
  PROVE  RolloutInv'
<1>1. /\ UNCHANGED <<receipts, outcome, publisher, gateway, observation, routingAttempted,
                     rollbackApplied, recoveryErrors, sent>>
      /\ pc' \in {pc, "KILLED"}
  BY DEF Killed, ReviewedAgain, Delivered, RecordReview, AcceptPullRequestDelivery, vars,
         tableVars, rolloutVars, outcomeVars
<1>2. Typed'
  BY <1>1 DEF RolloutInv, Typed, Ended
<1>3. FlagsTell' /\ Recorded' /\ Earned'
  BY <1>1 DEF RolloutInv, FlagsTell, Recorded, Earned, Concluding
<1> QED
  BY <1>2, <1>3 DEF RolloutInv

(* Leaving an await for the catch block, from any await but the last. *)
LEMMA ThrowStep ==
  ASSUME RolloutInv, Throw, UNCHANGED tableVars, pc # "FAILURE", pc \in Awaits,
         \/ UNCHANGED gateway
         \/ pc \in {"BASELINE", "CANARY", "ROUTE"}
  PROVE  RolloutInv'
<1> USE DEF RolloutInv, Throw, Go, tableVars, outcomeVars
<1>1. /\ UNCHANGED <<receipts, outcome, publisher, observation, rollbackApplied,
                     recoveryErrors, routingAttempted>>
      /\ pc' \in {"RECOVER_ROUTING", "FAILURE", "FAILED"}
      /\ sent' \subseteq sent \cup {"FAILURE"}
      /\ pc' # "RECOVER_ROUTING" => ~routingAttempted \/ rollbackApplied
      /\ pc' = "RECOVER_ROUTING" => ~rollbackApplied
  BY DEF AfterRecovery, Typed, Publications
<1>2. Typed'
  BY <1>1 DEF Typed, Awaits, Ended, Publications
<1>3. Recorded' /\ Earned'
  BY <1>1 DEF Recorded, Earned, Concluding
<1>4. FlagsTell'
  BY <1>1 DEF FlagsTell
<1> QED
  BY <1>2, <1>3, <1>4

(* A publication that throws: into the catch block, or inside it. *)
LEMMA PublicationFailsStep ==
  ASSUME RolloutInv, PublicationFails, pc \in Publications
  PROVE  RolloutInv'
<1>1. CASE pc # "FAILURE"
  BY <1>1, ThrowStep DEF PublicationFails, Awaits, Publications
<1>2. CASE pc = "FAILURE"
  <2> USE DEF RolloutInv, PublicationFails, Go, tableVars, outcomeVars
  <2>1. Typed'
    BY <1>2 DEF Typed, Awaits, Ended
  <2>2. FlagsTell'
    BY <1>2 DEF FlagsTell
  <2>3. Recorded' /\ Earned'
    BY <1>2 DEF Recorded, Earned, Concluding, Publications
  <2> QED
    BY <2>1, <2>2, <2>3
<1> QED
  BY <1>1, <1>2

LEMMA RolloutActionStep ==
  ASSUME RolloutInv, RolloutStep
  PROVE  RolloutInv'
<1> USE DEF RolloutInv
<1>1. CASE StartBackends
  <2>1. CASE Throw
    BY <1>1, <2>1, ThrowStep DEF StartBackends, Awaits
  <2>2. CASE Go(IF publisher THEN "BASELINE" ELSE "CANARY", FALSE)
             /\ UNCHANGED <<observation, deploymentStarted, recoveryErrors>>
    BY <1>1, <2>2 DEF StartBackends, Go, tableVars, outcomeVars, Typed, FlagsTell, Recorded,
       Earned, Awaits, Publications, Concluding
  <2> QED
    BY <1>1, <2>1, <2>2 DEF StartBackends
<1>2. CASE ApplyBaseline
  <2>1. CASE Throw
    BY <1>2, <2>1, ThrowStep DEF ApplyBaseline, Awaits
  <2>2. CASE /\ gateway' = "rollback"
             /\ Go("START", TRUE)
             /\ UNCHANGED <<observation, deploymentStarted, recoveryErrors>>
    BY <1>2, <2>2 DEF ApplyBaseline, Go, tableVars, outcomeVars, Typed, FlagsTell, Recorded,
       Earned, Awaits, Publications, Concluding
  <2> QED
    BY <1>2, <2>1, <2>2 DEF ApplyBaseline
<1>3. CASE ApplyCanary
  <2>1. CASE Throw
    BY <1>3, <2>1, ThrowStep DEF ApplyCanary, Awaits
  <2>2. CASE /\ gateway' = "canary"
             /\ Go("MEASURE", FALSE)
             /\ UNCHANGED <<observation, deploymentStarted, recoveryErrors>>
    BY <1>3, <2>2 DEF ApplyCanary, Go, tableVars, outcomeVars, Typed, FlagsTell, Recorded,
       Earned, Awaits, Publications, Concluding
  <2> QED
    BY <1>3, <2>1, <2>2 DEF ApplyCanary
<1>4. CASE Observe
  <2>1. CASE Throw
    BY <1>4, <2>1, ThrowStep DEF Observe, Awaits
  <2>2. CASE /\ observation' \in ObserveCanary
             /\ Go(IF publisher THEN "OBSERVATION" ELSE "ROUTE", FALSE)
             /\ UNCHANGED <<deploymentStarted, recoveryErrors>>
    BY <1>4, <2>2 DEF Observe, Go, tableVars, outcomeVars, Typed, FlagsTell, Recorded,
       Earned, Awaits, Publications, Concluding
  <2> QED
    BY <1>4, <2>1, <2>2 DEF Observe
<1>5. CASE ApplyDecision
  <2>1. CASE Throw
    BY <1>5, <2>1, ThrowStep DEF ApplyDecision, Awaits
  <2>2. CASE /\ gateway' = RoutingMode
             /\ Go(IF publisher THEN "OUTCOME" ELSE "DONE", RoutingMode = "rollback")
             /\ UNCHANGED <<observation, deploymentStarted, recoveryErrors>>
    BY <1>5, <2>2 DEF ApplyDecision, Go, tableVars, outcomeVars, Typed, FlagsTell, Recorded,
       Earned, Awaits, Ended, Publications, Concluding
  <2> QED
    BY <1>5, <2>1, <2>2 DEF ApplyDecision
<1>6. CASE RecoverRouting
  BY <1>6 DEF RecoverRouting, AfterRecovery, Go, tableVars, outcomeVars, Typed, FlagsTell,
     Recorded, Earned, Awaits, Ended, Publications, Concluding
<1>7. CASE Answered
  <2>1. CASE pc = "START"
    BY <1>7, <2>1 DEF Answered, Go, tableVars, outcomeVars, Typed, FlagsTell, Recorded,
       Earned, Awaits, Publications, Concluding
  <2>2. CASE pc = "OBSERVATION"
    BY <1>7, <2>2 DEF Answered, Go, tableVars, outcomeVars, Typed, FlagsTell, Recorded,
       Earned, Awaits, Publications, Concluding
  <2>3. CASE pc = "OUTCOME"
    BY <1>7, <2>3 DEF Answered, Go, tableVars, outcomeVars, Typed, FlagsTell, Recorded,
       Earned, Ended, Publications, Concluding
  <2>4. CASE pc = "FAILURE"
    BY <1>7, <2>4 DEF Answered, Go, tableVars, outcomeVars, Typed, FlagsTell, Recorded,
       Earned, Ended, Publications, Concluding
  <2> QED
    BY <1>7, <2>1, <2>2, <2>3, <2>4 DEF Answered, Publications
<1>8. CASE Retry
  BY <1>8 DEF Retry, tableVars, outcomeVars, Typed, FlagsTell, Recorded, Earned, Concluding
<1>9. CASE Refused \/ GivenUp \/ Unusable
  BY <1>9, PublicationFailsStep DEF Refused, GivenUp, Unusable
<1> QED
  BY <1>1, <1>2, <1>3, <1>4, <1>5, <1>6, <1>7, <1>8, <1>9 DEF RolloutStep

LEMMA RolloutInvariant == Spec => []RolloutInv
<1>1. Init => RolloutInv
  <2> SUFFICES ASSUME Init PROVE RolloutInv
    OBVIOUS
  <2>1. Typed
    BY DEF Init, Typed, Awaits, Publications, Outcomes
  <2>2. FlagsTell /\ Recorded /\ Earned
    BY RolloutAssumption DEF Init, FlagsTell, Recorded, Earned
  <2> QED
    BY <2>1, <2>2 DEF RolloutInv
<1>2. RolloutInv /\ [Next]_vars => RolloutInv'
  <2> SUFFICES ASSUME RolloutInv, [Next]_vars PROVE RolloutInv'
    OBVIOUS
  <2>1. CASE RolloutStep
    BY <2>1, RolloutActionStep
  <2>2. ASSUME NEW p \in Publications, Handle(p) \/ Refuse(p) PROVE RolloutInv'
    BY <2>2, HandleStep, RefuseStep
  <2>3. CASE \/ Killed
             \/ \E strategy \in ReviewAgain : ReviewedAgain(strategy)
             \/ \E d \in DeliveryId, q \in PR, action \in Actions, h \in SHA :
                  Delivered(d, q, action, h)
             \/ UNCHANGED vars
    BY <2>3, BystanderStep
  <2> QED
    BY <2>1, <2>2, <2>3 DEF Next
<1> QED
  BY <1>1, <1>2, PTL DEF Spec

(* A failed rollout whose recovery did not report a routing error leaves   *)
(* stable-only traffic, in every deployment configuration.                 *)
THEOREM FailureRollsBackAlways == Spec => []FailureRollsBack
<1>1. RolloutInv => FailureRollsBack
  BY DEF RolloutInv, FlagsTell, FailureRollsBack
<1> QED
  BY <1>1, RolloutInvariant, PTL

(* A release on record as PROMOTED has an observation on record that met   *)
(* every threshold of the policy, whatever the thresholds are.             *)
THEOREM PromotionIsEarnedAlways == Spec => []PromotionIsEarned
<1>1. RolloutInv => PromotionIsEarned
  BY PromotionWithinLimits DEF RolloutInv, Earned, PromotionIsEarned, EnoughRequests
<1> QED
  BY <1>1, RolloutInvariant, PTL

(* Traffic moves to the canary only after the start is on record.          *)
THEOREM CanaryAfterStartAlways == Spec => CanaryAfterStart
<1> DEFINE Follows ==
      publisher /\ gateway' # gateway /\ gateway' \in {"canary", "promote"}
        => receipts["START"] # None
<1>1. RolloutInv /\ [Next]_vars => [Follows]_gateway
  <2> SUFFICES ASSUME RolloutInv, [Next]_vars, publisher, gateway' # gateway,
                      gateway' \in {"canary", "promote"}
               PROVE  receipts["START"] # None
    OBVIOUS
  <2>1. pc \in {"CANARY", "ROUTE"}
    <3>1. CASE RolloutStep
      BY <3>1 DEF RolloutStep, StartBackends, ApplyBaseline, ApplyCanary, Observe, ApplyDecision,
         RecoverRouting, Answered, Retry, Refused, GivenUp, Unusable, PublicationFails,
         GatewayAfterFailure
    <3>2. ASSUME NEW p \in Publications, Handle(p) \/ Refuse(p) PROVE FALSE
      BY <3>2 DEF Handle, Refuse, rolloutVars
    <3>3. CASE \/ Killed
               \/ \E strategy \in ReviewAgain : ReviewedAgain(strategy)
               \/ \E d \in DeliveryId, q \in PR, action \in Actions, h \in SHA :
                    Delivered(d, q, action, h)
               \/ UNCHANGED vars
      BY <3>3 DEF Killed, ReviewedAgain, Delivered, rolloutVars, vars
    <3> QED
      BY <3>1, <3>2, <3>3 DEF Next
  <2> QED
    BY <2>1 DEF RolloutInv, Recorded
<1> QED
  BY <1>1, RolloutInvariant, PTL DEF Spec, CanaryAfterStart

----------------------------------------------------------------------------
(* How a rollout ends: only the rollout's own events touch its attempt, so *)
(* its failure and its promotion exclude each other on record.             *)

(* Who publishes, and what has been answered when the verdict is sent. *)
PublisherTells ==
  /\ pc \in Publications \cup {"BASELINE"} => publisher
  /\ deploymentStarted => publisher
  /\ publisher /\ pc \in {"CANARY", "MEASURE", "OBSERVATION", "ROUTE", "OUTCOME"} => deploymentStarted
  /\ "OUTCOME" \in sent => deploymentStarted
  /\ deploymentStarted \in BOOLEAN

(* An attempt that ended does not become active again: it was started, and *)
(* an event starts it only once.                                           *)
AttemptEnds ==
  /\ attStatus \in [Attempt -> AttemptStatuses]
  /\ \A p \in Publications : receipts[p] # None => p \in sent
  /\ receipts["START"] = None => attStatus[Deployment] = "ABSENT"
  /\ receipts["FAILURE"] # None => ~ActiveAttempt(Deployment) /\ receipts["START"] # None
  /\ outcome[Release] = "PROMOTED" =>
       /\ ~ActiveAttempt(Deployment) /\ receipts["START"] # None
       /\ receipts["OUTCOME"] # None /\ receipts["FAILURE"] = None

(* Traffic where the verdict sent it, and a failure on record unless the   *)
(* recovery tells that it could not be.                                    *)
EndTells ==
  /\ pc \in {"OUTCOME", "DONE"} => gateway = RoutingMode
  /\ pc = "FAILED" /\ recoveryErrors = {} /\ deploymentStarted => receipts["FAILURE"] # None

EndInv == PublisherTells /\ AttemptEnds /\ EndTells

(* What an accepted event does to the rollout's attempt. *)
LEMMA RecordAttempt ==
  ASSUME NEW p \in Publications, Record(p), RolloutInv, AttemptEnds, p \in sent
  PROVE  /\ attStatus' \in [Attempt -> AttemptStatuses]
         /\ p = "START" => attStatus[Deployment] = "ABSENT"
         /\ p # "START" => ActiveAttempt(Deployment)
         /\ p = "FAILURE" => ~ActiveAttempt(Deployment)'
         /\ p = "OUTCOME" /\ outcome'[Release] = "PROMOTED" => ~ActiveAttempt(Deployment)'
<1> USE RolloutAssumption DEF AttemptEnds, RolloutInv, Typed
<1>1. CASE p = "START" /\ RecordStarted(p, Release, Deployment, OccurredAt(p), policy[Release])
  BY <1>1 DEF RecordStarted, UnusedAttempt, AttemptStatuses
<1>2. CASE p = "OBSERVATION"
             /\ RecordObservation(p, Release, Deployment, OccurredAt(p), policy[Release])
  BY <1>2 DEF RecordObservation, BoundActiveAttempt, AttemptStatuses
<1>3. CASE p = "OUTCOME"
             /\ RecordAttemptedOutcome(p, Release, Deployment,
                  OutcomeForRoutingMode(RoutingMode), OccurredAt(p), policy[Release])
  <2> DEFINE result == OutcomeForRoutingMode(RoutingMode)
             status == AttemptStatusFor(attStrategy[Deployment], result)
  <2>1. result \in {"CONTINUED", "PROMOTED", "ROLLED_BACK"}
    BY <1>3, DecisionTyped DEF Recorded, RoutingMode, OutcomeForRoutingMode, CanaryDecision
  <2>2. /\ ActiveAttempt(Deployment)
        /\ outcome' = [outcome EXCEPT ![Release] = result]
        /\ attStatus' = [attStatus EXCEPT ![Deployment] = status]
    BY <1>3 DEF RecordAttemptedOutcome, BoundActiveAttempt, UpsertOutcome
  <2>3. status \in AttemptStatuses /\ (result = "PROMOTED" => status = "PROMOTED")
    BY <2>1 DEF AttemptStatusFor, AttemptStatuses
  <2> HIDE DEF result, status
  <2> QED
    BY <1>3, <2>2, <2>3 DEF ActiveAttempt
<1>4. CASE p = "FAILURE"
             /\ RecordAttemptedOutcome(p, Release, Deployment, "FAILED", OccurredAt(p),
                  policy[Release])
  BY <1>4 DEF RecordAttemptedOutcome, BoundActiveAttempt, ActiveAttempt, AttemptStatusFor,
              AttemptStatuses
<1> QED
  BY <1>1, <1>2, <1>3, <1>4 DEF Record

LEMMA EndHandle ==
  ASSUME RolloutInv, EndInv, NEW p \in Publications, Handle(p)
  PROVE  EndInv'
<1>1. p \in sent /\ Record(p) /\ UNCHANGED rolloutVars
  BY DEF Handle
<1>2. PICK r \in Receipts : receipts' = [receipts EXCEPT ![p] = r] /\ receipts[p] = None
  BY <1>1, RecordStep DEF RolloutInv
<1>3. /\ \A q \in Publications \ {p} : receipts'[q] = receipts[q]
      /\ receipts'[p] # None
  BY <1>2, NoReceiptAssumption, RolloutAssumption DEF RolloutInv, Typed
<1>4. PublisherTells' /\ EndTells'
  BY <1>1, <1>3 DEF EndInv, PublisherTells, EndTells, rolloutVars, RoutingMode, Publications
<1>5. /\ attStatus' \in [Attempt -> AttemptStatuses]
      /\ p = "START" => attStatus[Deployment] = "ABSENT"
      /\ p # "START" => ActiveAttempt(Deployment)
      /\ p = "FAILURE" => ~ActiveAttempt(Deployment)'
      /\ p = "OUTCOME" /\ outcome'[Release] = "PROMOTED" => ~ActiveAttempt(Deployment)'
  BY <1>1, RecordAttempt DEF EndInv
<1>6. outcome'[Release] = "PROMOTED" =>
        p = "OUTCOME" \/ outcome[Release] = "PROMOTED"
  BY <1>1, RecordStep, RolloutAssumption DEF RolloutInv, Typed
<1>7. AttemptEnds'
  <2>1. \A q \in Publications : receipts'[q] # None => q \in sent'
    BY <1>1, <1>3 DEF EndInv, AttemptEnds, rolloutVars
  <2>2. p = "START" => receipts["FAILURE"] = None /\ outcome[Release] # "PROMOTED"
    BY <1>2 DEF EndInv, AttemptEnds
  <2>3. p # "START" => receipts["START"] # None /\ receipts["FAILURE"] = None
                       /\ outcome[Release] # "PROMOTED"
    BY <1>5 DEF EndInv, AttemptEnds, ActiveAttempt
  <2> QED
    BY <1>3, <1>5, <1>6, <2>1, <2>2, <2>3 DEF AttemptEnds, Publications
<1> QED
  BY <1>4, <1>7 DEF EndInv

LEMMA EndBystander ==
  ASSUME RolloutInv, EndInv,
         \/ \E p \in Publications : Refuse(p)
         \/ Killed
         \/ \E strategy \in ReviewAgain : ReviewedAgain(strategy)
         \/ \E d \in DeliveryId, q \in PR, action \in Actions, h \in SHA :
              Delivered(d, q, action, h)
         \/ UNCHANGED vars
  PROVE  EndInv'
<1>1. /\ UNCHANGED <<receipts, outcome, publisher, gateway, observation, deploymentStarted,
                     recoveryErrors>>
      /\ pc' \in {pc, "KILLED"}
      /\ sent' \subseteq sent
      /\ \A q \in Publications : receipts[q] # None /\ q \in sent => q \in sent'
  BY DEF Refuse, Killed, ReviewedAgain, Delivered, RecordReview, AcceptPullRequestDelivery, vars,
         tableVars, rolloutVars, outcomeVars
<1>2. /\ attStatus' \in [Attempt -> AttemptStatuses]
      /\ attStatus'[Deployment] \in {attStatus[Deployment], "CANCELLED"}
      /\ attStatus[Deployment] = "ABSENT" => attStatus'[Deployment] = "ABSENT"
  <2>1. CASE UNCHANGED attStatus
    BY <2>1 DEF EndInv, AttemptEnds
  <2>2. ASSUME NEW d \in DeliveryId, NEW q \in PR, NEW action \in Actions, NEW h \in SHA,
               AcceptPullRequestDelivery(d, q, action, h)
        PROVE  <1>2!:
    <3>1. attStatus' = [a \in Attempt |-> IF StaleAttempt(a, q, action, h)
                                          THEN "CANCELLED" ELSE attStatus[a]]
      BY <2>2 DEF AcceptPullRequestDelivery
    <3>2. StaleAttempt(Deployment, q, action, h) => attStatus[Deployment] # "ABSENT"
      BY DEF StaleAttempt, ActiveAttempt
    <3> QED
      BY <3>1, <3>2, RolloutAssumption DEF EndInv, AttemptEnds, AttemptStatuses
  <2> QED
    BY <2>1, <2>2 DEF Refuse, Killed, ReviewedAgain, Delivered, RecordReview, vars, tableVars,
                      attemptVars
<1>3. PublisherTells' /\ EndTells'
  BY <1>1 DEF EndInv, PublisherTells, EndTells, RoutingMode, Publications
<1>4. AttemptEnds'
  BY <1>1, <1>2 DEF EndInv, AttemptEnds, ActiveAttempt
<1> QED
  BY <1>3, <1>4 DEF EndInv

(* A rollout's own step leaves the tables alone. *)
LEMMA EndOwn ==
  ASSUME RolloutInv, EndInv, RolloutStep
  PROVE  EndInv'
<1>1. UNCHANGED <<receipts, outcome, attStatus>> /\ sent \subseteq sent'
  BY DEF RolloutStep, StartBackends, ApplyBaseline, ApplyCanary, Observe, ApplyDecision, Answered,
         Retry, Refused, GivenUp, Unusable, RecoverRouting, PublicationFails, Throw, Go, tableVars,
         outcomeVars, attemptVars
<1>2. AttemptEnds'
  BY <1>1 DEF EndInv, AttemptEnds, ActiveAttempt
<1>3. PublisherTells' /\ EndTells'
  <2> USE <1>1 DEF EndInv, PublisherTells, EndTells, RoutingMode, Publications, Go
  <2>1. ASSUME Throw, pc \in Awaits, pc # "FAILURE" PROVE PublisherTells' /\ EndTells'
    BY <2>1 DEF Throw, AfterRecovery, Awaits
  <2>2. ASSUME PublicationFails, pc \in Publications PROVE PublisherTells' /\ EndTells'
    BY <2>1, <2>2 DEF PublicationFails, Awaits
  <2>3. CASE StartBackends \/ ApplyBaseline \/ ApplyCanary
    <3>1. CASE Throw
      BY <2>1, <2>3, <3>1 DEF StartBackends, ApplyBaseline, ApplyCanary, Awaits
    <3>2. CASE ~Throw
      BY <2>3, <3>2 DEF StartBackends, ApplyBaseline, ApplyCanary
    <3> QED
      BY <3>1, <3>2
  <2>4. CASE Observe \/ ApplyDecision
    <3>1. CASE Throw
      BY <2>1, <2>4, <3>1 DEF Observe, ApplyDecision, Awaits
    <3>2. CASE Observe /\ ~Throw
      BY <3>2 DEF Observe
    <3>3. CASE ApplyDecision /\ ~Throw
      <4>1. /\ pc = "ROUTE" /\ gateway' = RoutingMode /\ UNCHANGED <<observation, deploymentStarted>>
            /\ Go(IF publisher THEN "OUTCOME" ELSE "DONE", RoutingMode = "rollback")
        BY <3>3 DEF ApplyDecision
      <4>2. RoutingMode' = RoutingMode
        BY <4>1
      <4> QED
        BY <4>1, <4>2 DEF ApplyDecision
    <3> QED
      BY <2>4, <3>1, <3>2, <3>3
  <2>5. CASE Answered
    BY <2>5 DEF Answered
  <2>6. CASE Retry
    BY <2>6 DEF Retry
  <2>7. CASE Refused \/ GivenUp \/ Unusable
    BY <2>2, <2>7 DEF Refused, GivenUp, Unusable
  <2>8. CASE RecoverRouting
    BY <2>8 DEF RecoverRouting, AfterRecovery
  <2> QED
    BY <2>3, <2>4, <2>5, <2>6, <2>7, <2>8 DEF RolloutStep
<1> QED
  BY <1>2, <1>3 DEF EndInv

(* A rollout that ended without an error of its recovery leaves traffic    *)
(* where the record says, and no attempt in progress after a failure, for  *)
(* every number of retries and every history of reviews and deliveries.    *)
THEOREM QuietEndAgreesAlways == Spec => []QuietEndAgrees
<1>1. Init => EndInv
  <2> SUFFICES ASSUME Init PROVE EndInv
    OBVIOUS
  <2>1. /\ attStatus = [a \in Attempt |-> "ABSENT"] /\ outcome = [s \in SHA |-> "NONE"]
        /\ receipts = [e \in EventId |-> None]
        /\ pc = "BACKENDS" /\ deploymentStarted = FALSE /\ sent = {}
    BY DEF Init
  <2>2. AttemptEnds
    <3>1. attStatus \in [Attempt -> AttemptStatuses] /\ attStatus[Deployment] = "ABSENT"
      BY <2>1, RolloutAssumption DEF AttemptStatuses
    <3>2. \A p \in Publications : receipts[p] = None
      BY <2>1, RolloutAssumption
    <3>3. outcome[Release] = "NONE"
      BY <2>1, RolloutAssumption
    <3> QED
      BY <3>1, <3>2, <3>3 DEF AttemptEnds, Publications
  <2>3. PublisherTells /\ EndTells
    BY <2>1 DEF PublisherTells, EndTells, Publications
  <2> QED
    BY <2>2, <2>3 DEF EndInv
<1>2. RolloutInv /\ EndInv /\ [Next]_vars => EndInv'
  BY EndHandle, EndBystander, EndOwn DEF Next
<1>3. RolloutInv /\ EndInv => QuietEndAgrees
  <2> SUFFICES ASSUME RolloutInv, EndInv, pc \in {"DONE", "FAILED"}, recoveryErrors = {}
               PROVE  /\ outcome[Release] = "PROMOTED" => gateway = "promote"
                      /\ pc = "FAILED" /\ deploymentStarted => ~ActiveAttempt(Deployment)
    BY DEF QuietEndAgrees
  <2>1. pc = "FAILED" /\ deploymentStarted => ~ActiveAttempt(Deployment)
    BY DEF EndInv, EndTells, AttemptEnds
  <2>2. ASSUME outcome[Release] = "PROMOTED" PROVE gateway = "promote"
    <3>1. pc # "FAILED"
      BY <2>2 DEF EndInv, EndTells, AttemptEnds, PublisherTells, Publications
    <3>2. observation.decision = "promote"
      BY <2>2 DEF RolloutInv, Earned
    <3> QED
      BY <3>1, <3>2 DEF EndInv, EndTells, RoutingMode
  <2> QED
    BY <2>1, <2>2
<1> QED
  BY <1>1, <1>2, <1>3, RolloutInvariant, PTL DEF Spec

=============================================================================
