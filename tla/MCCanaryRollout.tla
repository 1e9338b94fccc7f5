-------------------------- MODULE MCCanaryRollout --------------------------
(* Instances of CanaryRollout for TLC: one pull request, no workflow runs. *)
EXTENDS CanaryRollout

MCNoRuns == [t \in {} |-> Release]

MCTime == 1 .. 4

=============================================================================
