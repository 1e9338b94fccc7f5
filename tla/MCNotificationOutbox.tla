---------------------- MODULE MCNotificationOutbox ----------------------
(* Small instances of NotificationOutbox; see the .cfg files. *)
EXTENDS NotificationOutbox, TLC

Symmetry == Permutations(Worker)

=============================================================================
