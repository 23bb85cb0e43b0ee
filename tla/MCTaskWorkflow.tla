--------------------------- MODULE MCTaskWorkflow ---------------------------
(* Model-checking instance of TaskWorkflow. *)
EXTENDS TaskWorkflow, TLC

\* Updates of the status, of the assignee, and of both on completion.
MCInput ==
  {d \in Dto : \/ d.status = Undefined
               \/ d.assignee = Undefined
               \/ d.status = "DONE" /\ d.assignee \in User}

\* Users and request slots are interchangeable.
Symmetry == Permutations(User) \cup Permutations(Request)

=============================================================================
