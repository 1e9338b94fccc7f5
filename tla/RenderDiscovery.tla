-------------------------- MODULE RenderDiscovery ---------------------------
(***************************************************************************)
(* discoverRenderDeploymentCorrelation: which reviewed release a live      *)
(* Render deployment of a commit belongs to, asked of Render, GitHub and   *)
(* the management API one after the other.                                 *)
(*                                                                         *)
(* Render and GitHub are external: deployments of the commit come and go,  *)
(* and pull requests become associated with it.                            *)
(***************************************************************************)
EXTENDS ManagementReport

CONSTANTS
  Deployment,      \* Render deployments of the deployed commit
  Deployed         \* the repository of the deployed commit

ASSUME RenderDiscoveryAssumption == Deployed \in Repository

VARIABLES
  live,            \* Render: the deployments of the commit that are live
  merged,          \* GitHub: the merged pull requests associated with the commit
  found,           \* the deployment and the pull request found so far
  correlation      \* the command's result, or None

discoveryVars == <<live, merged, found, correlation>>

DiscoveryTypeOK ==
  /\ live \subseteq Deployment
  /\ merged \subseteq PR
  /\ found \in [deployment : Deployment \cup {None}, pr : PR \cup {None}]
  /\ correlation = None \/ correlation.release \in Release

Nothing == [deployment |-> None, pr |-> None]

DiscoveryInit ==
  /\ live = {} /\ merged = {}
  /\ found = Nothing
  /\ correlation = None

GoLive(d) ==
  /\ live' \in {live \cup {d}, {d}} \ {live}
  /\ UNCHANGED <<merged, found, correlation>>

Associate(p) ==
  /\ p \notin merged /\ merged' = merged \cup {p}
  /\ UNCHANGED <<live, found, correlation>>

(* discoverLiveDeployment: exactly one of the latest twenty. *)
FindDeployment ==
  /\ found = Nothing /\ correlation = None
  /\ \E d \in live : live = {d} /\ found' = [found EXCEPT !.deployment = d]
  /\ UNCHANGED <<live, merged, correlation>>

(* discoverMergedPullRequest: exactly one of the first two. *)
FindPullRequest ==
  /\ found.deployment # None /\ found.pr = None
  /\ \E p \in merged : merged = {p} /\ found' = [found EXCEPT !.pr = p]
  /\ UNCHANGED <<live, merged, correlation>>

(* headSha = $5, for releases UNIQUE on (repository_id, head_sha) *)
OfHead(p) == {r \in History(Deployed) : r = HeadOf[p]}

(* Mutant: the release's pull request is not compared. *)
MatchesHead(r, p) == row[r].status = "REVIEWED" /\ row[r].policy \in Continues

Matches(r, p) ==
  /\ row[r].pr = p
  /\ row[r].status = "REVIEWED" /\ row[r].policy \in Continues

(* discoverReviewedRelease, and what it found compared.  The strategy and  *)
(* percentage of a continued review are valid as ReviewPolicy sets them.   *)
FindRelease ==
  /\ found.pr # None
  /\ Entitled(Deployed)
  /\ \E r \in OfHead(found.pr) :
       /\ Matches(r, found.pr)
       /\ correlation' = [deployment |-> found.deployment, pr |-> found.pr, release |-> r,
                          was |-> row[r]]
  /\ found' = Nothing
  /\ UNCHANGED <<live, merged>>

(* Any request fails, or what it brings is none, ambiguous or unfit: the   *)
(* command ends without a result and may be run again.                     *)
GiveUp ==
  /\ found # Nothing
  /\ found' = Nothing
  /\ UNCHANGED <<live, merged, correlation>>

Discover ==
  \/ (\E d \in Deployment : GoLive(d)) \/ (\E p \in PR : Associate(p))
  \/ FindDeployment \/ FindPullRequest \/ FindRelease \/ GiveUp

(* "One repository- and pull-request-bound REVIEWED release": although     *)
(* pull requests may share a head, and a delivery between the requests may *)
(* move the release from one to another or a review replace the one on     *)
(* record, what is correlated is a continued review of the head of the     *)
(* very pull request the deployed commit was merged from, on the release   *)
(* as it was that pull request's.  An attempt may be under way beside it:  *)
(* a release is REVIEWED again by any later review, and attempts are not   *)
(* asked for.                                                              *)
CorrelationIsOfMergedPullRequest ==
  correlation # None =>
    /\ correlation.pr \in merged
    /\ HeadOf[correlation.pr] = correlation.release
    /\ RepositoryOf[correlation.release] = Deployed
    /\ correlation.was.pr = correlation.pr
    /\ correlation.was.status = "REVIEWED" /\ correlation.was.policy \in Continues

=============================================================================
