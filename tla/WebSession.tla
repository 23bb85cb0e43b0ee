----------------------------- MODULE WebSession -----------------------------
(***************************************************************************)
(* One browser tab of the web client: the fetch wrapper of api/client.ts,  *)
(* the tokens it keeps in localStorage, and the user AuthContext shows.    *)
(* Calls of the components run concurrently and read and write the tokens  *)
(* after every answer.  The server is what AuthSessions says of it, cut    *)
(* down to one account: a refresh validates, then rotates.                 *)
(*                                                                         *)
(* A token pair is the number of the response that carried it.             *)
(***************************************************************************)
EXTENDS Integers

CONSTANTS
  Call,      \* slots for the calls of the components
  MaxToken   \* bound on the token pairs the server hands out

ASSUME MaxTokenAssumption == MaxToken \in Nat

Token == 1 .. MaxToken
None == 0       \* a key localStorage does not have

VARIABLES
  store,    \* tokenStore: both keys are written and removed together
  user,     \* AuthContext: user is not null
  page,     \* "blank" before the first effect, "loading", "ready"
  call,     \* the calls in flight
  session   \* at the server: the refresh token's row, the access token's exp

vars == <<store, user, page, call, session>>

-----------------------------------------------------------------------------
\* pc: idle, or where the call's request is: sent with an access token,
\* answered ok or denied (401); a login or a refresh on its way, validated,
\* and its answer minted or refused.  sent is the access token in the header,
\* used the refresh token in the body, got the pair in the answer.  Nobody
\* waits for a call whose page was reloaded.
Idle == [pc |-> "idle", kind |-> "api", sent |-> None, used |-> None,
         got |-> None, retry |-> TRUE, waiting |-> TRUE]

\* fetch of any path outside /auth/, with the token now in the store.
Fetch(kind, token) == [Idle EXCEPT !.pc = "sent", !.kind = kind, !.sent = token]

Unminted == {t \in Token : session[t].st = "free"}

\* JwtStrategy: the access token is unexpired (a revoked session keeps it).
Authenticated(t) == t # None /\ session[t].fresh

\* The sessions of T end: revoked, or past their expiry.
Ended(T) ==
  [t \in Token |->
    IF t \in T /\ session[t].st = "live" THEN [session[t] EXCEPT !.st = "ended"]
      ELSE session[t]]

\* A plausible slip: the new pair is used for the retry and not stored.
KeepStored(c) == store

\* refreshTokens: tokenStore.set(data).
StoredAfterRefresh(c) == call[c].got

\* request's condition on a 401: the first try, a refresh token at hand, and a
\* path outside /auth/.
CanRenew(c) == call[c].retry /\ store # None /\ call[c].kind # "logout"

\* A plausible slip: setLoading(false) at the end of the try block.
PageAfterSuccess(kind, good) == IF kind = "me" /\ good THEN "ready" ELSE page

\* refreshUser: finally { setLoading(false) }.
PageAfter(kind, good) == IF kind = "me" THEN "ready" ELSE page

\* The call ends with the store at s: refreshUser shows the profile or clears
\* the tokens, logout clears them either way, other callers show a message.
Settle(c, s, good) ==
  LET kind == call[c].kind IN
    /\ store' = IF kind = "logout" \/ (kind = "me" /\ ~good) THEN None ELSE s
    /\ user' = CASE kind = "me" -> good [] kind = "logout" -> FALSE [] OTHER -> user
    /\ page' = PageAfter(kind, good)
    /\ call' = [call EXCEPT ![c] = Idle]
    /\ UNCHANGED session

-----------------------------------------------------------------------------
(* The page *)

\* AuthProvider's effect: refreshUser, which needs a stored token.
Mount(c) ==
  /\ page = "blank"
  /\ call[c] = Idle
  /\ IF store = None
       THEN page' = "ready" /\ UNCHANGED call
       ELSE page' = "loading" /\ call' = [call EXCEPT ![c] = Fetch("me", store)]
  /\ UNCHANGED <<store, user, session>>

\* A component behind ProtectedRoute calls the API.
CallApi(c) ==
  /\ page = "ready" /\ user
  /\ call[c] = Idle
  /\ call' = [call EXCEPT ![c] = Fetch("api", store)]
  /\ UNCHANGED <<store, user, page, session>>

\* LoginPage, RegisterPage: reachable at any time, one submit at a time.
Login(c) ==
  /\ page # "blank"
  /\ call[c] = Idle
  /\ \A d \in Call : ~(call[d].kind = "login" /\ call[d].waiting)
  /\ call' = [call EXCEPT ![c] = [Idle EXCEPT !.pc = "login", !.kind = "login"]]
  /\ UNCHANGED <<store, user, page, session>>

\* logout posts to /auth/logout.
Logout(c) ==
  /\ page = "ready" /\ user
  /\ call[c] = Idle
  /\ call' = [call EXCEPT ![c] = Fetch("logout", store)]
  /\ UNCHANGED <<store, user, page, session>>

\* The tab is reloaded: its calls go on at the server, their answers go nowhere.
Reload ==
  /\ page' = "blank"
  /\ user' = FALSE
  /\ call' = [c \in Call |->
       IF call[c] = Idle THEN Idle ELSE [call[c] EXCEPT !.waiting = FALSE]]
  /\ UNCHANGED <<store, session>>

-----------------------------------------------------------------------------
(* Answers *)

Accept(c) ==
  /\ call[c].pc = "ok" /\ call[c].waiting
  /\ Settle(c, store, TRUE)

\* 401: the refresh token that is now in the store is presented.
Renew(c) ==
  /\ call[c].pc = "denied" /\ call[c].waiting
  /\ CanRenew(c)
  /\ call' = [call EXCEPT ![c].pc = "refresh", ![c].used = store]
  /\ UNCHANGED <<store, user, page, session>>

Deny(c) ==
  /\ call[c].pc = "denied" /\ call[c].waiting
  /\ ~CanRenew(c)
  /\ Settle(c, store, FALSE)

\* The pair is stored and the call is made again, for the last time.
Retry(c) ==
  /\ call[c].pc = "minted" /\ call[c].waiting
  /\ call[c].kind # "login"
  /\ store' = StoredAfterRefresh(c)
  /\ call' = [call EXCEPT ![c] =
       [Fetch(call[c].kind, call[c].got) EXCEPT !.retry = FALSE]]
  /\ UNCHANGED <<user, page, session>>

\* refreshTokens returned false: whatever is in the store is cleared.
GiveUp(c) ==
  /\ call[c].pc = "refused" /\ call[c].waiting
  /\ Settle(c, IF call[c].kind = "login" THEN store ELSE None, FALSE)

\* LoginPage stores the pair and runs refreshUser.
LoggedIn(c) ==
  /\ call[c].pc = "minted" /\ call[c].waiting
  /\ call[c].kind = "login"
  /\ store' = call[c].got
  /\ call' = [call EXCEPT ![c] = Fetch("me", call[c].got)]
  /\ UNCHANGED <<user, page, session>>

\* The network fails before the request or the answer arrives: fetch rejects.
Lose(c) ==
  /\ call[c].pc \notin {"idle", "validated"} /\ call[c].waiting
  /\ Settle(c, IF call[c].used = None THEN store ELSE None, FALSE)

\* The answer to a call of a page that is gone.  History: a refresh token it
\* rotated is stranded.
Discard(c) ==
  /\ call[c].pc \in {"ok", "denied", "minted", "refused"} /\ ~call[c].waiting
  /\ call' = [call EXCEPT ![c] = Idle]
  /\ session' = [t \in Token |->
       IF call[c].pc = "minted" /\ t = call[c].used /\ session[t].st = "rotated"
         THEN [session[t] EXCEPT !.st = "stranded"] ELSE session[t]]
  /\ UNCHANGED <<store, user, page>>

-----------------------------------------------------------------------------
(* The server *)

Serve(c) ==
  /\ call[c].pc = "sent"
  /\ call' = [call EXCEPT ![c].pc =
       IF Authenticated(call[c].sent) THEN "ok" ELSE "denied"]
  /\ session' = IF call[c].kind = "logout" /\ Authenticated(call[c].sent)
                  THEN Ended(Token) ELSE session
  /\ UNCHANGED <<store, user, page>>

\* A plausible slip: validate finds the row and does not look at revokedAt.
ValidateStored(c) ==
  /\ call[c].pc = "refresh"
  /\ call' = [call EXCEPT ![c].pc = "validated"]
  /\ UNCHANGED <<store, user, page, session>>

Validate(c) ==
  /\ call[c].pc = "refresh"
  /\ call' = [call EXCEPT ![c].pc =
       IF session[call[c].used].st = "live" THEN "validated" ELSE "refused"]
  /\ UNCHANGED <<store, user, page, session>>

\* refresh and login end in issueTokens; pairs are numbered in that order.
\* A refresh revokes the token it was given, revoked before or not.
Mint(c) ==
  /\ call[c].pc \in {"validated", "login"}
  /\ \E t \in Unminted :
       /\ \A s \in Unminted : t <= s
       /\ session' = [s \in Token |->
            IF s = t THEN [st |-> "live", fresh |-> TRUE]
            ELSE IF s = call[c].used /\ session[s].st = "live"
              THEN [session[s] EXCEPT !.st = "rotated"] ELSE session[s]]
       /\ call' = [call EXCEPT ![c].pc = "minted", ![c].got = t]
  /\ UNCHANGED <<store, user, page>>

\* A wrong password, or the server fails, perhaps between the revocation of
\* the token and the next pair.
Refuse(c) ==
  /\ call[c].pc \in {"login", "refresh", "validated"}
  /\ call' = [call EXCEPT ![c].pc = "refused"]
  /\ \/ UNCHANGED session
     \/ call[c].pc = "validated" /\ session' = Ended({call[c].used})
  /\ UNCHANGED <<store, user, page>>

\* Access tokens expire in the order they were signed.
Expire(t) ==
  /\ session[t].fresh
  /\ \A s \in Token : s < t => ~session[s].fresh
  /\ session' = [session EXCEPT ![t].fresh = FALSE]
  /\ UNCHANGED <<store, user, page, call>>

\* Another device logs out or resets the password, or sessions expire.
EndSessions ==
  /\ \E T \in SUBSET {t \in Token : session[t].st = "live"} : session' = Ended(T)
  /\ UNCHANGED <<store, user, page, call>>

-----------------------------------------------------------------------------
Init ==
  /\ store = None
  /\ user = FALSE
  /\ page = "blank"
  /\ call = [c \in Call |-> Idle]
  /\ session = [t \in Token |-> [st |-> "free", fresh |-> FALSE]]

\* What the tab and the server do with a call that is under way.
Advance(c) ==
  \/ Accept(c) \/ Renew(c) \/ Deny(c) \/ Retry(c) \/ GiveUp(c) \/ LoggedIn(c)
  \/ Discard(c)
  \/ Serve(c) \/ Validate(c) \/ Mint(c) \/ Refuse(c)

Next ==
  \/ \E c \in Call : \/ Mount(c)
                     \/ CallApi(c)
                     \/ Login(c)
                     \/ Logout(c)
                     \/ Advance(c)
                     \/ Lose(c)
  \/ Reload
  \/ \E t \in Token : Expire(t)
  \/ EndSessions

Spec == Init /\ [][Next]_vars

\* The event loop and the server get on with every call.
FairSpec == Spec /\ \A c \in Call : WF_vars(Advance(c))

-----------------------------------------------------------------------------
(* Properties *)

CallRecord ==
  [pc : {"idle", "sent", "ok", "denied", "login", "refresh", "validated",
         "minted", "refused"},
   kind : {"api", "me", "login", "logout"},
   sent : Token \cup {None}, used : Token \cup {None}, got : Token \cup {None},
   retry : BOOLEAN, waiting : BOOLEAN]

SessionRow ==
  [st : {"free", "live", "rotated", "stranded", "ended"}, fresh : BOOLEAN]

\* The variables have their shapes, and whoever presents a refresh token has one.
TypeOK ==
  /\ store \in Token \cup {None}
  /\ user \in BOOLEAN
  /\ page \in {"blank", "loading", "ready"}
  /\ call \in [Call -> CallRecord]
  /\ \A c \in Call :
       call[c].pc \in {"refresh", "validated"} => call[c].used # None
  /\ session \in [Token -> SessionRow]

\* The tab never falls back to a refresh token that was rotated: however the
\* answers of concurrent refreshes overtake one another, a rotated token is in
\* the store only while a call that presented it is under way, or when its
\* answer was lost to a reload (client.ts refreshTokens).
StoredTokenIsCurrent ==
  store # None /\ session[store].st = "rotated"
    => \E c \in Call : call[c].used = store

\* The spinner of ProtectedRoute comes to an end: refreshUser finishes,
\* whatever is answered, lost or cleared meanwhile (AuthContext.tsx).
SpinnerEnds == (page = "loading") ~> (page # "loading")

\* A refresh token as TokenRotation sees it.
Life(t) ==
  CASE session[t].st = "free" -> "free" [] session[t].st = "live" -> "live" [] OTHER -> "dead"

TheAccount == 1

Abstract == INSTANCE TokenRotation WITH
  Account <- {TheAccount}, Request <- Call,
  state <- [t \in Token |-> Life(t)],
  owner <- [t \in Token |-> IF session[t].st = "free" THEN None ELSE TheAccount],
  held <- [c \in Call |-> IF call[c].pc = "validated" THEN call[c].used ELSE None]

\* The server the tab is checked against keeps to TokenRotation, which is what
\* AuthSessions implements: it replaces a token only for a call that presented
\* it alive, and the token is dead by then, whatever has ended it meanwhile
\* (auth.service.ts refresh, jwt-refresh.strategy.ts).
ImplementsRotation == Abstract!Spec

(* A claim of the comments that the interleavings refute *)

\* client.ts: the wrapper "transparently retries once after a refresh-token
\* rotation on a 401".  Two calls get a 401 and present the same refresh token:
\* the slower one is refused because of the rotation, and is about to clear the
\* live pair the faster one has stored.
RetryIsTransparent ==
  \A c \in Call :
    /\ call[c].pc = "refused" /\ call[c].waiting
    /\ call[c].used # None /\ session[call[c].used].st = "rotated"
    => ~(store # None /\ session[store].st = "live")

=============================================================================
