----------------------------- MODULE MCReminders -----------------------------
(* Model-checking instance of Reminders. *)
EXTENDS Reminders, TLC

Symmetry == Permutations(Task) \cup Permutations(Process)
            \cup Permutations(Pattern)

=============================================================================
