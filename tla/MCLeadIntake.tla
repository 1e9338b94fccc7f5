--------------------------- MODULE MCLeadIntake ---------------------------
(* A small instance of LeadIntake: see LeadIntake.cfg. *)
EXTENDS LeadIntake, TLC

Symmetry == Permutations(Token) \cup Permutations(Mailbox) \cup Permutations(Spelling)

=============================================================================
