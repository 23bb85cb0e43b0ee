------------------------ MODULE MCNotificationDelivery ------------------------
(* Model-checking instance of NotificationDelivery. *)
EXTENDS NotificationDelivery, TLC

\* The processes are interchangeable.
Symmetry == Permutations(Worker)

=============================================================================
