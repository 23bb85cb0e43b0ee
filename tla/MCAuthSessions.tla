--------------------------- MODULE MCAuthSessions ---------------------------
(* Model-checking instance of AuthSessions. *)
EXTENDS AuthSessions, TLC

\* Requests and reset tokens are interchangeable; so are the uuids.
Symmetry ==
  Permutations(Request) \cup Permutations(RefreshId) \cup Permutations(ResetId)

=============================================================================
