---------------------------- MODULE MCTaskCaches ----------------------------
(* Model-checking instance of TaskCaches. *)
EXTENDS TaskCaches, TLC

Symmetry == Permutations(User) \cup Permutations(Request)

=============================================================================
