---------------------------- MODULE MCWebSession ----------------------------
(* Model-checking instance of WebSession: the slots are interchangeable     *)
(* (used where no liveness is checked).                                     *)
EXTENDS WebSession, TLC

Symmetry == Permutations(Call)

=============================================================================
