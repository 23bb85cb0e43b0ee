---------------------------- MODULE TokenRotation ----------------------------
(***************************************************************************)
(* What the API promises of refresh tokens and the web client relies on: a *)
(* token is issued once and dies once; one is issued for another only to a *)
(* request that found that other alive, to the same account, and the other *)
(* is dead by then.                                                        *)
(***************************************************************************)
CONSTANTS
  Account, Token, Request,
  None       \* no account, no token

VARIABLES
  state,     \* of a token: free, live or dead
  owner,     \* the account a token was issued to
  held       \* the live token a request has presented, to have it replaced

vars == <<state, owner, held>>

Init ==
  /\ state = [t \in Token |-> "free"]
  /\ owner = [t \in Token |-> None]
  /\ held = [r \in Request |-> None]

Live == {t \in Token : state[t] = "live"}
Dead(T) == [t \in Token |-> IF t \in T THEN "dead" ELSE state[t]]

\* A login or a registration.
Open(t, a) ==
  /\ state[t] = "free"
  /\ state' = [state EXCEPT ![t] = "live"]
  /\ owner' = [owner EXCEPT ![t] = a]
  /\ UNCHANGED held

Present(r, t) ==
  /\ held[r] = None /\ state[t] = "live"
  /\ held' = [held EXCEPT ![r] = t]
  /\ UNCHANGED <<state, owner>>

\* The token that was presented may have died since; others may hold it too.
Rotate(r, t) ==
  /\ held[r] # None /\ state[t] = "free"
  /\ state' = [Dead({held[r]}) EXCEPT ![t] = "live"]
  /\ owner' = [owner EXCEPT ![t] = owner[held[r]]]
  /\ held' = [held EXCEPT ![r] = None]

\* A refresh fails, before or after the token it presented was revoked.
Abandon(r) ==
  /\ held[r] # None
  /\ \E T \in SUBSET ({held[r]} \cap Live) : state' = Dead(T)
  /\ held' = [held EXCEPT ![r] = None]
  /\ UNCHANGED owner

\* Tokens are revoked or expire, in most steps none.
End ==
  /\ UNCHANGED <<owner, held>>
  /\ UNCHANGED state \/ \E T \in SUBSET Live : state' = Dead(T)

Next ==
  \/ End
  \/ \E r \in Request : Abandon(r) \/ \E t \in Token : Present(r, t) \/ Rotate(r, t)
  \/ \E t \in Token, a \in Account : Open(t, a)

Spec == Init /\ [][Next]_vars

=============================================================================
