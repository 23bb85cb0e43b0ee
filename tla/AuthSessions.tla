---------------------------- MODULE AuthSessions ----------------------------
(***************************************************************************)
(* Accounts, refresh-token rotation, logout and password reset of the API: *)
(* auth.service.ts, the two Passport strategies and the nightly token      *)
(* cleanup.  Requests run concurrently and interleave at every await.  A   *)
(* step of a request runs its synchronous code and the database operation  *)
(* it leads to; what the request has learnt so far is kept in its record,  *)
(* as the closure of the async function keeps it.                          *)
(*                                                                         *)
(* A password is a version number: every accepted reset installs a new     *)
(* one.  A row of RefreshToken stays in the map after it is deleted (st =  *)
(* "deleted"), so that the properties can speak of it; a uuid is never     *)
(* used again.                                                             *)
(***************************************************************************)
EXTENDS Integers, FiniteSets

CONSTANTS
  User,         \* e-mail addresses
  Request,      \* request slots: how many HTTP requests can be in flight
  RefreshId,    \* uuids of RefreshToken rows
  ResetId,      \* uuids of PasswordResetToken rows
  None,         \* SQL null
  RefreshTTL,   \* jwt.refreshExpiresIn, as jsonwebtoken counts it
  Readable,     \* it has the form that resolveExpiryDate reads: <n>[smhd]
  Fallback,     \* what resolveExpiryDate takes when it has not: 7 days
  AccessTTL,    \* jwt.accessExpiresIn
  ResetTTL,     \* passwordReset.tokenTtlMinutes
  Retention,    \* REVOKED_RETENTION_DAYS
  MaxClock,     \* bound on the clock
  MaxLogouts    \* bound on the mass revocations a logout can still start

ASSUME TTLAssumption ==
  /\ RefreshTTL \in Nat /\ AccessTTL \in Nat
  /\ Readable \in BOOLEAN /\ Fallback \in Nat
  /\ ResetTTL \in Nat /\ Retention \in Nat

ASSUME NoneAssumption ==
  None \notin User \cup RefreshId \cup ResetId \cup Nat

VARIABLES
  now,            \* the wall clock (new Date())
  account,        \* the User rows
  refreshToken,   \* the RefreshToken rows
  resetToken,     \* the PasswordResetToken rows
  req,            \* the requests in flight
  revocations     \* history: mass revocations committed, per user

vars == <<now, account, refreshToken, resetToken, req, revocations>>

-----------------------------------------------------------------------------
(* Data *)

\* A request record.  pc names the await the request is parked at; token is
\* the refresh token it presented, key the reset token, pw the password
\* version its credential proves, signedAt when its JWT pair was signed.
\* History: epoch is the number of mass revocations its credential has
\* survived, raced says that one more was committed while it was in flight.
Idle == [pc |-> "idle", user |-> None, token |-> None, key |-> None, pw |-> 0,
         signedAt |-> 0, epoch |-> 0, raced |-> FALSE]

FreeRow == [st |-> "free", userId |-> None, expiresAt |-> 0, revokedAt |-> None,
            signedAt |-> 0, parent |-> None, pw |-> 0, epoch |-> 0,
            raced |-> FALSE]

FreeReset == [st |-> "free", userId |-> None, expiresAt |-> 0, usedAt |-> None,
              mailed |-> FALSE]

\* Where a request that will end in a new session is parked.
Opening == {"compare", "match", "revoke", "sign", "insert"}

Pc == Opening \cup {"idle", "register", "logout", "newReset", "mail", "rehash"}

\* jwt-refresh.strategy validate: the row checks (ignoring the JWT's own exp).
Unrevoked(row) == row.st = "stored" /\ row.revokedAt = None

\* A plausible slip: validate trusts the JWT and looks only at the expiry.
AcceptedUnlessExpired(row) ==
  /\ row.st = "stored"
  /\ now < row.signedAt + RefreshTTL
  /\ ~(row.expiresAt < now)

\* A presented refresh token passes: the JWT has not expired (jsonwebtoken
\* refuses from exp on) and its row is there, not revoked, not past expiresAt.
Accepted(row) ==
  /\ Unrevoked(row)
  /\ now < row.signedAt + RefreshTTL
  /\ ~(row.expiresAt < now)

\* A plausible slip: resetPassword forgets usedAt.
ResetAcceptedAgain(row) ==
  row.st = "stored" /\ ~(row.expiresAt < now)

\* resetPassword's check of the reset row.
ResetAccepted(row) ==
  row.st = "stored" /\ row.usedAt = None /\ ~(row.expiresAt < now)

\* A plausible slip: the mass update skips rows it takes for expired.
RevokeAllUnexpired(u) ==
  [t \in RefreshId |->
    IF Unrevoked(refreshToken[t]) /\ refreshToken[t].userId = u
         /\ now + AccessTTL < refreshToken[t].expiresAt
      THEN [refreshToken[t] EXCEPT !.revokedAt = now]
      ELSE refreshToken[t]]

\* updateMany({ userId, revokedAt: null }, { revokedAt: now }).
RevokeAll(u) ==
  [t \in RefreshId |->
    IF Unrevoked(refreshToken[t]) /\ refreshToken[t].userId = u
      THEN [refreshToken[t] EXCEPT !.revokedAt = now]
      ELSE refreshToken[t]]

\* A plausible slip: a rotation that leaves the presented token as it was.
RevokeNothing(t) == refreshToken

\* update({ id: t }, { revokedAt: now }): whether or not it was null.
Revoke(t) == [refreshToken EXCEPT ![t].revokedAt = now]

\* A plausible slip: the duration loses its unit, and the row expires at once.
ExpiryWithoutUnit(ttl) == now

\* resolveExpiryDate: the row's expiry counts from the insertion.  A duration
\* such as "2w", which the JWT is signed with as it is, gives the row 7 days.
ResolveExpiryDate(ttl) == now + (IF Readable THEN ttl ELSE Fallback)

\* History: the requests of u that are opening a session have been overtaken
\* by a mass revocation.
Overtaken(u) ==
  [r \in Request |->
    IF req[r].pc \in Opening /\ req[r].user = u
      THEN [req[r] EXCEPT !.raced = TRUE]
      ELSE req[r]]

\* The caller holds an access token the JWT strategy accepts: one was signed
\* with a session of u and has not expired, and u is active.
HoldsAccess(u) ==
  /\ account[u].st = "active"
  /\ \E t \in RefreshId : /\ refreshToken[t].st # "free"
                          /\ refreshToken[t].userId = u
                          /\ now < refreshToken[t].signedAt + AccessTTL

-----------------------------------------------------------------------------
(* register *)

\* No row with this e-mail yet: hash the password.  (A conflict ends the
\* request without a change.)
RegisterStart(r, u) ==
  /\ req[r] = Idle
  /\ account[u].st = "none"
  /\ req' = [req EXCEPT ![r] = [Idle EXCEPT !.pc = "register", !.user = u]]
  /\ UNCHANGED <<now, account, refreshToken, resetToken, revocations>>

\* user.create; the unique index on email refuses the slower of two.
RegisterCreate(r) ==
  /\ req[r].pc = "register"
  /\ LET u == req[r].user IN
       IF account[u].st = "none"
         THEN /\ account' = [account EXCEPT ![u].st = "active"]
              /\ req' = [req EXCEPT ![r] =
                   [Idle EXCEPT !.pc = "sign", !.user = u, !.pw = account[u].pw,
                                !.epoch = revocations[u]]]
         ELSE /\ req' = [req EXCEPT ![r] = Idle]
              /\ UNCHANGED account
  /\ UNCHANGED <<now, refreshToken, resetToken, revocations>>

(* login *)

\* Reads the user row, its passwordHash with it.
LoginStart(r, u) ==
  /\ req[r] = Idle
  /\ account[u].st = "active"
  /\ req' = [req EXCEPT ![r] =
       [Idle EXCEPT !.pc = "compare", !.user = u, !.pw = account[u].pw,
                    !.epoch = revocations[u]]]
  /\ UNCHANGED <<now, account, refreshToken, resetToken, revocations>>

(* refresh *)

\* JwtRefreshStrategy.validate reads the row of the presented token.
RefreshValidate(r, t) ==
  /\ req[r] = Idle
  /\ Accepted(refreshToken[t])
  /\ LET row == refreshToken[t] IN
       req' = [req EXCEPT ![r] =
         [Idle EXCEPT !.pc = "match", !.user = row.userId, !.token = t,
                      !.pw = row.pw, !.epoch = row.epoch, !.raced = row.raced]]
  /\ UNCHANGED <<now, account, refreshToken, resetToken, revocations>>

\* bcrypt.compare matches (the JWT's signature was checked and it names this
\* row), the guard lets the request in and refresh reads the user.
RefreshUser(r) ==
  /\ req[r].pc = "match"
  /\ req' = [req EXCEPT ![r] =
       IF account[req[r].user].st = "active"
         THEN [req[r] EXCEPT !.pc = "revoke"]
         ELSE Idle]
  /\ UNCHANGED <<now, account, refreshToken, resetToken, revocations>>

\* refreshToken.update by id: revokedAt is set whether or not it was null, and
\* the update throws when the row is gone.
RefreshRevoke(r) ==
  /\ req[r].pc = "revoke"
  /\ LET t == req[r].token IN
       IF refreshToken[t].st = "stored"
         THEN /\ refreshToken' = Revoke(t)
              /\ req' = [req EXCEPT ![r].pc = "sign"]
         ELSE /\ req' = [req EXCEPT ![r] = Idle]
              /\ UNCHANGED refreshToken
  /\ UNCHANGED <<now, account, resetToken, revocations>>

(* issueTokens, the end of register, login and refresh *)

\* The pair is signed and its hash awaited.  A login comes here when
\* bcrypt.compare accepted the password against the hash READ (the client may
\* have sent any password: a refusal is Fail).
Sign(r) ==
  /\ req[r].pc \in {"compare", "sign"}
  /\ req' = [req EXCEPT ![r].pc = "insert", ![r].signedAt = now]
  /\ UNCHANGED <<now, account, refreshToken, resetToken, revocations>>

\* refreshToken.create under a fresh uuid; expiresAt counts from here, the
\* JWT's exp from signedAt.
Issue(r, t) ==
  /\ req[r].pc = "insert"
  /\ refreshToken[t].st = "free"
  /\ refreshToken' = [refreshToken EXCEPT ![t] =
       [st |-> "stored", userId |-> req[r].user, expiresAt |-> ResolveExpiryDate(RefreshTTL),
        revokedAt |-> None, signedAt |-> req[r].signedAt,
        parent |-> req[r].token, pw |-> req[r].pw, epoch |-> req[r].epoch,
        raced |-> req[r].raced]]
  /\ req' = [req EXCEPT ![r] = Idle]
  /\ UNCHANGED <<now, account, resetToken, revocations>>

(* logout: the controller calls logoutAll *)

LogoutStart(r, u) ==
  /\ req[r] = Idle
  /\ revocations[u] < MaxLogouts
  /\ HoldsAccess(u)
  /\ req' = [req EXCEPT ![r] = [Idle EXCEPT !.pc = "logout", !.user = u]]
  /\ UNCHANGED <<now, account, refreshToken, resetToken, revocations>>

LogoutAll(r) ==
  /\ req[r].pc = "logout"
  /\ LET u == req[r].user IN
       /\ refreshToken' = RevokeAll(u)
       /\ req' = [Overtaken(u) EXCEPT ![r] = Idle]
       /\ revocations' = [revocations EXCEPT ![u] = @ + 1]
  /\ UNCHANGED <<now, account, resetToken>>

(* requestPasswordReset *)

RequestResetStart(r, u) ==
  /\ req[r] = Idle
  /\ account[u].st = "active"
  /\ req' = [req EXCEPT ![r] = [Idle EXCEPT !.pc = "newReset", !.user = u]]
  /\ UNCHANGED <<now, account, refreshToken, resetToken, revocations>>

RequestResetCreate(r, k) ==
  /\ req[r].pc = "newReset"
  /\ resetToken[k].st = "free"
  /\ resetToken' = [resetToken EXCEPT ![k] =
       [st |-> "stored", userId |-> req[r].user, expiresAt |-> now + ResetTTL,
        usedAt |-> None, mailed |-> FALSE]]
  /\ req' = [req EXCEPT ![r].pc = "mail", ![r].key = k]
  /\ UNCHANGED <<now, account, refreshToken, revocations>>

\* sendMail never throws: a link that could not be mailed is lost (Fail).
RequestResetMail(r) ==
  /\ req[r].pc = "mail"
  /\ resetToken' = [resetToken EXCEPT ![req[r].key].mailed = TRUE]
  /\ req' = [req EXCEPT ![r] = Idle]
  /\ UNCHANGED <<now, account, refreshToken, revocations>>

(* resetPassword *)

\* The reader of the mail presents the link: the row is checked, then the new
\* password is hashed.
ResetCheck(r, k) ==
  /\ req[r] = Idle
  /\ resetToken[k].mailed
  /\ ResetAccepted(resetToken[k])
  /\ req' = [req EXCEPT ![r] =
       [Idle EXCEPT !.pc = "rehash", !.user = resetToken[k].userId, !.key = k]]
  /\ UNCHANGED <<now, account, refreshToken, resetToken, revocations>>

\* $transaction: the password, usedAt and every unrevoked session at once.
\* usedAt is not looked at again.
ResetCommit(r) ==
  /\ req[r].pc = "rehash"
  /\ LET u == req[r].user IN
       /\ account' = [account EXCEPT ![u].pw = @ + 1]
       /\ resetToken' = [resetToken EXCEPT ![req[r].key].usedAt = now]
       /\ refreshToken' = RevokeAll(u)
       /\ req' = [Overtaken(u) EXCEPT ![r] = Idle]
       /\ revocations' = [revocations EXCEPT ![u] = @ + 1]
  /\ UNCHANGED now

(* Everything around the requests *)

\* A rejected promise, a refused password, a lost mail or a restart of the
\* process ends a request at any of its awaits; what it wrote stays written.
Fail(r) ==
  /\ req[r] # Idle
  /\ req' = [req EXCEPT ![r] = Idle]
  /\ UNCHANGED <<now, account, refreshToken, resetToken, revocations>>

\* A plausible slip: AND for OR in the where clause.
DisposableWhenBoth(row) ==
  /\ row.st = "stored"
  /\ row.expiresAt < now
  /\ row.revokedAt # None /\ row.revokedAt < now - Retention

\* The where clause of the nightly job.
Disposable(row) ==
  /\ row.st = "stored"
  /\ \/ row.expiresAt < now
     \/ row.revokedAt # None /\ row.revokedAt < now - Retention

\* CleanupExpiredTokensProcessor.process: one deleteMany.
Cleanup ==
  /\ \E t \in RefreshId : Disposable(refreshToken[t])
  /\ refreshToken' = [t \in RefreshId |->
       IF Disposable(refreshToken[t])
         THEN [refreshToken[t] EXCEPT !.st = "deleted"]
         ELSE refreshToken[t]]
  /\ UNCHANGED <<now, account, resetToken, req, revocations>>

\* isActive is read everywhere and written by no code of the repository: an
\* administrator clears it in the database.
Deactivate(u) ==
  /\ account[u].st = "active"
  /\ account' = [account EXCEPT ![u].st = "inactive"]
  /\ UNCHANGED <<now, refreshToken, resetToken, req, revocations>>

Tick ==
  /\ now < MaxClock
  /\ now' = now + 1
  /\ UNCHANGED <<account, refreshToken, resetToken, req, revocations>>

-----------------------------------------------------------------------------
Init ==
  /\ now = 0
  /\ account = [u \in User |-> [st |-> "none", pw |-> 0]]
  /\ refreshToken = [t \in RefreshId |-> FreeRow]
  /\ resetToken = [k \in ResetId |-> FreeReset]
  /\ req = [r \in Request |-> Idle]
  /\ revocations = [u \in User |-> 0]

Step(r) ==
  \/ \E u \in User : \/ RegisterStart(r, u)
                     \/ LoginStart(r, u)
                     \/ LogoutStart(r, u)
                     \/ RequestResetStart(r, u)
  \/ \E t \in RefreshId : RefreshValidate(r, t) \/ Issue(r, t)
  \/ \E k \in ResetId : RequestResetCreate(r, k) \/ ResetCheck(r, k)
  \/ RegisterCreate(r)
  \/ Sign(r)
  \/ RefreshUser(r)
  \/ RefreshRevoke(r)
  \/ LogoutAll(r)
  \/ RequestResetMail(r)
  \/ ResetCommit(r)
  \/ Fail(r)

Next ==
  \/ \E r \in Request : Step(r)
  \/ \E u \in User : Deactivate(u)
  \/ Cleanup
  \/ Tick

Spec == Init /\ [][Next]_vars

\* The clock advances and the repeatable job keeps being run by its worker.
FairSpec == Spec /\ WF_vars(Tick) /\ WF_vars(Cleanup)

-----------------------------------------------------------------------------
(* Properties *)

RequestRecord ==
  [pc : Pc, user : User \cup {None}, token : RefreshId \cup {None},
   key : ResetId \cup {None}, pw : Nat, signedAt : Nat, epoch : Nat,
   raced : BOOLEAN]

RefreshRow ==
  [st : {"free", "stored", "deleted"}, userId : User \cup {None},
   expiresAt : Nat, revokedAt : Nat \cup {None}, signedAt : Nat,
   parent : RefreshId \cup {None}, pw : Nat, epoch : Nat, raced : BOOLEAN]

ResetRow ==
  [st : {"free", "stored"}, userId : User \cup {None}, expiresAt : Nat,
   usedAt : Nat \cup {None}, mailed : BOOLEAN]

\* The variables have the shapes of the rows of schema.prisma and of the
\* closures of the handlers.
TypeOK ==
  /\ now \in Nat
  /\ account \in [User -> [st : {"none", "active", "inactive"}, pw : Nat]]
  /\ refreshToken \in [RefreshId -> RefreshRow]
  /\ resetToken \in [ResetId -> ResetRow]
  /\ req \in [Request -> RequestRecord]
  /\ revocations \in [User -> Nat]

\* Rotation never leaves two generations usable: once a refresh has issued a
\* token, the token it was presented with is revoked or gone for good, however
\* many refreshes, logouts, resets, cleanups and failures interleave
\* (auth.service.ts refresh, issueTokens).
NoTwoGenerations ==
  \A t \in RefreshId :
    refreshToken[t].parent # None =>
      LET p == refreshToken[t].parent
      IN /\ refreshToken[p].st # "free"
         /\ ~Unrevoked(refreshToken[p])

\* A session that a logout or a password reset should have ended is alive only
\* if a request of its line was between reading its credential and inserting
\* its row when that logout or reset committed (logoutAll, resetPassword).
RevocationReachesAll ==
  \A t \in RefreshId :
    Unrevoked(refreshToken[t]) =>
      \/ refreshToken[t].epoch = revocations[refreshToken[t].userId]
      \/ refreshToken[t].raced

\* The same for the password: a live session proves the password in force,
\* except for those a reset overtook.
SessionMatchesPassword ==
  \A t \in RefreshId :
    Unrevoked(refreshToken[t]) =>
      \/ refreshToken[t].pw = account[refreshToken[t].userId].pw
      \/ refreshToken[t].raced

\* The nightly cleanup never cuts a session short: a deleted row was revoked,
\* or its JWT has expired, or the lifetime is one resolveExpiryDate cannot read
\* and more than the 7 days it takes instead have passed since the JWT was
\* signed.  It needs expiresAt, taken after the hash, not to fall behind the
\* exp signed before it.
CleanupTakesDeadRows ==
  \A t \in RefreshId :
    refreshToken[t].st = "deleted" =>
      \/ refreshToken[t].revokedAt # None
      \/ refreshToken[t].signedAt + RefreshTTL <= now
      \/ ~Readable /\ refreshToken[t].signedAt + Fallback < now

\* A refresh token is spent when its row is revoked or deleted and no request
\* that validated it earlier is still running.
Spent(t) ==
  /\ refreshToken[t].st # "free"
  /\ ~Unrevoked(refreshToken[t])
  /\ \A r \in Request : req[r].token # t

\* A spent refresh token stays spent: nothing clears revokedAt, no later
\* request passes validate with it, so rotation can repeat only inside the
\* window of requests that overlapped the first (jwt-refresh.strategy.ts).
SpentStaysSpent == [][\A t \in RefreshId : Spent(t) => Spent(t)']_vars

\* A reset link is consumed when usedAt is set and no request that checked it
\* before is still hashing; no later request changes the password with it.
Consumed(k) ==
  /\ resetToken[k].usedAt # None
  /\ \A r \in Request : ~(req[r].pc = "rehash" /\ req[r].key = k)

ConsumedStaysConsumed ==
  [][\A k \in ResetId : Consumed(k) => Consumed(k)']_vars

\* A refresh token as TokenRotation sees it.
Life(row) ==
  IF row.st = "free" THEN "free" ELSE IF Unrevoked(row) THEN "live" ELSE "dead"

Abstract == INSTANCE TokenRotation WITH
  Account <- User, Token <- RefreshId,
  state <- [t \in RefreshId |-> Life(refreshToken[t])],
  owner <- [t \in RefreshId |-> refreshToken[t].userId],
  held <- [r \in Request |-> req[r].token]

\* Sessions are what TokenRotation promises the web client: in every
\* interleaving a token comes alive once, for the account of the token it
\* replaces, which its request found alive and which is dead by then
\* (auth.service.ts, jwt-refresh.strategy.ts).
ImplementsRotation == Abstract!Spec

\* The table does not grow for ever: a stored session whose expiry the bounded
\* clock can pass is deleted in the end, revoked or not, however often it is
\* revoked again (cleanup-expired-tokens.processor.ts).
RowsCleaned ==
  \A t \in RefreshId :
    (refreshToken[t].st = "stored" /\ refreshToken[t].expiresAt < MaxClock)
      ~> (refreshToken[t].st = "deleted")

(* Claims of the comments that the interleavings refute *)

\* auth.service.ts, refresh: "Rotation limits the blast radius of a leaked
\* refresh token to a single use."  Two requests validate the token before
\* either revokes it, and both issue a pair.
RotationIsSingleUse ==
  \A s, t \in RefreshId :
    s # t /\ refreshToken[s].parent # None =>
      refreshToken[s].parent # refreshToken[t].parent

\* auth.service.ts, resetPassword: "revokes every existing refresh token so a
\* leaked session can't outlive the password change".  A refresh or a login in
\* flight inserts its row after the transaction, with the old password's word.
NoSessionOutlivesPassword ==
  \A t \in RefreshId :
    Unrevoked(refreshToken[t]) =>
      refreshToken[t].pw = account[refreshToken[t].userId].pw

\* README.md on the cleanup job: it deletes "used or expired reset tokens".
\* The job never touches PasswordResetToken.
ResetRowsCleaned ==
  \A k \in ResetId :
    (\/ resetToken[k].usedAt # None
     \/ resetToken[k].st = "stored" /\ resetToken[k].expiresAt < now)
      ~> (resetToken[k].st = "free")

=============================================================================
