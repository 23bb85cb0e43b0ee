----------------------------- MODULE MCWebPages -----------------------------
(* Model-checking instance of WebPages: the projects are in one workspace. *)
EXTENDS WebPages, TLC

CONSTANTS o1, w1, p1, p2, k1

MCUp == w1 :> o1 @@ p1 :> w1 @@ p2 :> w1 @@ k1 :> p1

=============================================================================
