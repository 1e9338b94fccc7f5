----------------------------- MODULE MCService -----------------------------
(* Small instances of Service; see the .cfg files. *)
EXTENDS Service

=============================================================================
