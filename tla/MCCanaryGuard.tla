--------------------------- MODULE MCCanaryGuard ---------------------------
(* Instances of CanaryGuard for TLC. *)
EXTENDS CanaryGuard, FiniteSets, TLC

CONSTANT h1

(* All workflow runs are for one commit. *)
MCRunHead == [t \in Run |-> h1]

(* Interchangeable identifiers: no definition tells their members apart.   *)
Symmetry ==
  Permutations(DeliveryId) \cup Permutations(PR) \cup Permutations(Worker)
    \cup Permutations(Reviewer) \cup Permutations(Attempt) \cup Permutations(EventId) \cup Permutations(Conn)

=============================================================================
