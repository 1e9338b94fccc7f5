---------------------------- MODULE CanaryPolicy ----------------------------
(***************************************************************************)
(* observeCanary and evaluateCanary: requests to the gateway are counted   *)
(* per release channel until both samples are large enough or the cap is   *)
(* reached, and the two samples are compared with the thresholds.          *)
(*                                                                         *)
(* A rate is a fraction of integers, a limit a whole percentage.  The code *)
(* computes in doubles: a correctly rounded quotient compares with a limit *)
(* as the fraction does, but the increase is a difference of two quotients *)
(* and may end on either side of a limit that it equals.                   *)
(***************************************************************************)
EXTENDS Integers

CONSTANTS
  MinimumStableRequests, MinimumCanaryRequests,
  MaximumCanaryFailurePercent, MaximumFailureIncreasePercent,
  MaximumTotalRequests

ASSUME CanaryPolicyAssumption ==
  /\ MinimumStableRequests \in Nat \ {0}
  /\ MinimumCanaryRequests \in Nat \ {0}
  /\ MaximumCanaryFailurePercent \in 0 .. 100
  /\ MaximumFailureIncreasePercent \in 0 .. 100
  /\ MaximumTotalRequests \in Nat \ {0}

CanaryDecision == {"continue", "promote", "rollback"}

(* slow: the channel's maximum latency is beyond maximumCanaryLatencyMs. *)
TrafficSample == [requests : 0 .. MaximumTotalRequests, failures : 0 .. MaximumTotalRequests,
                  slow : BOOLEAN]

CanaryObservation ==
  [stable : 0 .. MaximumTotalRequests, canary : 0 .. MaximumTotalRequests,
   decision : CanaryDecision, errorRatePassed : BOOLEAN, latencyPassed : BOOLEAN]

EnoughRequests(stable, canary) ==
  stable >= MinimumStableRequests /\ canary >= MinimumCanaryRequests

(* The request counts with which the loop ends: the last request completed *)
(* one of the two samples, or it was the last one allowed.                 *)
FinalCount(stable, canary) ==
  /\ stable + canary <= MaximumTotalRequests
  /\ IF EnoughRequests(stable, canary)
     THEN stable = MinimumStableRequests \/ canary = MinimumCanaryRequests
     ELSE stable + canary = MaximumTotalRequests

(* The samples observeCanary can end with; those validateSample accepts. *)
FinalSamples ==
  {s \in TrafficSample \X TrafficSample :
     /\ FinalCount(s[1].requests, s[2].requests)
     /\ \A c \in 1 .. 2 : s[c].failures <= s[c].requests /\ (s[c].slow => s[c].requests > 0)}

----------------------------------------------------------------------------
(* evaluateCanary. *)

FailureRatePasses(canary) ==
  100 * canary.failures <= MaximumCanaryFailurePercent * canary.requests

(* 100 * stable.requests * canary.requests * (failureRateIncrease - limit) *)
IncreaseBeyondLimit(stable, canary) ==
  100 * (canary.failures * stable.requests - stable.failures * canary.requests)
    - MaximumFailureIncreasePercent * stable.requests * canary.requests

(* What "failureRateIncrease <= maximumFailureRateIncrease" may come to. *)
FailureIncreasePasses(stable, canary) ==
  LET beyond == IncreaseBeyondLimit(stable, canary) IN
  IF beyond = 0 /\ stable.failures > 0 /\ MaximumFailureIncreasePercent > 0
  THEN BOOLEAN ELSE {beyond <= 0}

LatencyPasses(canary) == canary.requests > 0 /\ ~canary.slow

(* Both failure rates are null without requests, and then fail. *)
ErrorRatePasses(stable, canary, increasePasses) ==
  /\ stable.requests > 0 /\ canary.requests > 0
  /\ FailureRatePasses(canary)
  /\ increasePasses

(* Mutant: only the canary's sample must be large enough. *)
DecideCanaryOnly(stable, canary, increasePasses) ==
  IF canary.requests < MinimumCanaryRequests THEN "continue"
  ELSE IF FailureRatePasses(canary) /\ increasePasses /\ LatencyPasses(canary)
  THEN "promote" ELSE "rollback"

Decide(stable, canary, increasePasses) ==
  IF ~EnoughRequests(stable.requests, canary.requests) THEN "continue"
  ELSE IF FailureRatePasses(canary) /\ increasePasses /\ LatencyPasses(canary)
  THEN "promote" ELSE "rollback"

EvaluateCanary(stable, canary) ==
  {[stable |-> stable.requests, canary |-> canary.requests,
    decision |-> Decide(stable, canary, increasePasses),
    errorRatePassed |-> ErrorRatePasses(stable, canary, increasePasses),
    latencyPassed |-> LatencyPasses(canary)] :
   increasePasses \in FailureIncreasePasses(stable, canary)}

ObserveCanary == UNION {EvaluateCanary(s[1], s[2]) : s \in FinalSamples}

=============================================================================
