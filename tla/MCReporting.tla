---------------------------- MODULE MCReporting -----------------------------
(* Instances of Reporting for TLC. *)
EXTENDS Reporting

CONSTANTS ours, theirs, p2

MCRepositoryOf == [r \in Release |-> IF r = 3 THEN theirs ELSE ours]

(* Two pull requests of one head. *)
MCHeadOf == [p \in PR |-> 1]

(* What is explored is three instances in one, each with the transactions  *)
(* its question needs.  A history, of releases of no pull request: what    *)
(* happens to a release once it is created does not move it.               *)
Histories ==
  /\ client = "DASHBOARD" /\ transactions <= 3
  /\ \A r \in Release : row[r] # None => row[r].pr = None

(* The detail of one release of one pull request, and all it may go through. *)
Details ==
  /\ client = "DASHBOARD" /\ clock = 1
  /\ scope # theirs /\ theirs \in granted
  /\ \A r \in Release : row[r] # None => r = 1 /\ row[r].pr # p2

(* Correlations with the release of two pull requests, beside one of another *)
(* repository; time and the access to that one do not matter to them.      *)
Correlations ==
  /\ client = "DISCOVERY" /\ transactions <= 4 /\ clock = 1
  /\ row[2] = None /\ theirs \in granted

Explored == Histories \/ Details \/ Correlations

=============================================================================
